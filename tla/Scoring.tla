------------------------------ MODULE Scoring ------------------------------
(***************************************************************************)
(* From scores and signals to a decision: the aggregator, the order of the *)
(* decision rules and the step-up bypass.  Everything here is a function   *)
(* of its arguments and of the configuration.  A set of signals holds the  *)
(* ones the rules tell apart; the others only add to the score.            *)
(***************************************************************************)
EXTENDS Integers

CONSTANTS
  ChallengeAt, HighAt, BlockAt,  \* decision_thresholds
  CriticalSignals,               \* critical_signals, a list the operator edits
  Downgrade                      \* step_up_verification enabled, may downgrade

\* The validators of DecisionThresholds order the thresholds that a document gives, but
\* not the defaults of those it leaves out: nothing is assumed about their order.
ASSUME ScoringAssumption ==
  /\ ChallengeAt \in 0..100 /\ HighAt \in 0..100 /\ BlockAt \in 0..100
  /\ Downgrade \in BOOLEAN

Outcome == {"allow", "challenge", "block"}
Level   == {"low", "medium", "high", "critical"}

BetTypes          == {"wallet.bet", "game.bet"}
MoneyTypes        == BetTypes \union {"payment.deposit", "payment.withdraw"}
AuthFailureTypes  == {"player.login.failed", "player.signup.failed"}
RegistrationTypes == {"player.signup", "player.login"}
EventType == MoneyTypes \union AuthFailureTypes \union RegistrationTypes
               \union {"wallet.win", "bonus.created"}

DeviceTrustSignals  == {"new_device_on_withdrawal", "untrusted_device_login",
                        "untrusted_device_deposit", "first_device_seen_for_user"}
MultiAccountSignals == {"multiple_accounts_same_fingerprint",
                        "multi_account_fingerprint_abuse",
                        "high_signup_fingerprint_velocity"}
PayoutSignals       == {"ofac_sanctioned_wallet", "blocklisted_payout_address"}
AnonymitySignals    == {"vpn_withdrawal_attempt", "vpn_detected",
                        "vpn_or_proxy_detected", "tor_exit_node"}

-----------------------------------------------------------------------------
Capped(score) == IF score < 100 THEN score ELSE 100

RiskLevel(total) ==
  IF total < ChallengeAt THEN "low"
  ELSE IF total < HighAt THEN "medium"
  ELSE IF total < BlockAt THEN "high" ELSE "critical"

\* The rules that come before device trust: nothing softens them.
HardBlock(type, signals) ==
  \/ signals \intersect (CriticalSignals \ DeviceTrustSignals) # {}
  \/ "sanctioned_country" \in signals
  \/ type = "payment.withdraw" /\ signals \intersect PayoutSignals # {}
  \/ type \in MoneyTypes /\ "blocklisted_country" \in signals
  \/ signals \intersect MultiAccountSignals # {}

DeviceTrustChallenge(type, signals) ==
  \/ type = "player.login" /\ "untrusted_device_login" \in signals
  \/ /\ type = "payment.withdraw"
     /\ signals \intersect {"new_device_on_withdrawal", "first_device_seen_for_user"} # {}

\* The rules that an unknown device escapes: it was challenged before.
ContextBlock(type, signals) ==
  \/ type = "payment.withdraw" /\ signals \intersect AnonymitySignals # {}
  \/ type \in MoneyTypes /\ "unlicensed_jurisdiction" \in signals

\* Mutated: high risk blocks what registers a device or failed to, but no payment.
LevelBlocksUnpaid(type, level) ==
  \/ level = "critical"
  \/ level = "high" /\ type \in AuthFailureTypes \union RegistrationTypes
  \/ level = "medium" /\ type = "payment.withdraw"

LevelBlocks(type, level) ==
  \/ level = "critical"
  \/ level = "high" /\ type \in AuthFailureTypes \union RegistrationTypes \union MoneyTypes
  \/ level = "medium" /\ type = "payment.withdraw"

LevelDecision(type, level) ==
  IF LevelBlocks(type, level) THEN "block"
  ELSE IF level = "low" THEN "allow" ELSE "challenge"

DetermineDecision(total, type, signals) ==
  IF HardBlock(type, signals) THEN "block"
  ELSE IF DeviceTrustChallenge(type, signals) THEN "challenge"
  ELSE IF ContextBlock(type, signals) THEN "block"
  ELSE LevelDecision(type, RiskLevel(total))

\* Mutated: a verified step-up lifts any decision.
StepUpLiftsAll(decision, signals) ==
  IF Downgrade /\ "step_up_verification_active" \in signals THEN "allow" ELSE decision

ApplyStepUpBypass(decision, signals) ==
  IF Downgrade /\ decision = "challenge" /\ "step_up_verification_active" \in signals
  THEN "allow" ELSE decision

-----------------------------------------------------------------------------
(* The trusted-device engine, given what it finds in the registry          *)

DeviceCheckedTypes == {"payment.withdraw", "player.login", "payment.deposit"}

UnknownDeviceSignal(type) ==
  IF type = "payment.withdraw" THEN "new_device_on_withdrawal"
  ELSE IF type = "player.login" THEN "untrusted_device_login" ELSE "untrusted_device_deposit"

UnknownDeviceScore(type) ==
  IF type = "payment.withdraw" THEN 70 ELSE IF type = "player.login" THEN 35 ELSE 25

\* device is "trusted" (or not asked for), "unknown", or "first": the user has none yet.
DeviceSignals(type, device) ==
  IF device = "trusted" THEN {}
  ELSE {UnknownDeviceSignal(type)}
         \union (IF device = "first" THEN {"first_device_seen_for_user"} ELSE {})

DeviceScore(type, device) ==
  IF device = "trusted" THEN 0
  ELSE UnknownDeviceScore(type) + (IF device = "first" THEN 15 ELSE 0)

-----------------------------------------------------------------------------
\* run_all_engines, aggregate, determine_decision and apply_step_up_bypass: the engines
\* of this device, plus a score and signals of all the others.
Assess(type, device, score, signals) ==
  LET all   == signals \union DeviceSignals(type, device)
      total == Capped(score + DeviceScore(type, device))
  IN ApplyStepUpBypass(DetermineDecision(total, type, all), all)

Severity == [d \in Outcome |-> IF d = "allow" THEN 0 ELSE IF d = "challenge" THEN 1 ELSE 2]
=============================================================================
