------------------------------ MODULE MCScoring ------------------------------
(***************************************************************************)
(* The decision rules on every kind of event TLC can build from a few      *)
(* scores and signals: an event starts harmless and gets worse step by     *)
(* step, its device less known, and a player may pass a step-up            *)
(* verification at any moment.                                             *)
(***************************************************************************)
EXTENDS Scoring, Sequences

VARIABLES type, device, score, signals, stepUp

facts == <<type, device, score, signals, stepUp>>

\* The configuration's list of critical signals, of which these are enough here.
SomeCritical == {"bot_user_agent", "hedged_bet_volume_washing"}

\* Scores of the other engines that lead below, to and beyond each threshold, with
\* the score of an unknown device or without it.
Scores == <<0, 5, 30, 31, 60, 61, 80, 81, 100>>

\* The signals the other engines raise for an event of this type.
Emitted(t) ==
  (IF t \in BetTypes THEN {"hedged_bet_volume_washing"} ELSE {})
    \union (IF t \in BetTypes \union {"wallet.win"} THEN {} ELSE {"vpn_detected", "tor_exit_node"})
    \union (IF t \in RegistrationTypes THEN {"multiple_accounts_same_fingerprint"} ELSE {})
    \union (IF t \in RegistrationTypes \union {"payment.deposit", "payment.withdraw"}
              THEN {"bot_user_agent", "sanctioned_country", "blocklisted_country"} ELSE {})
    \union (IF t \in {"payment.deposit", "payment.withdraw"} THEN PayoutSignals ELSE {})
    \union (IF t \in {"payment.deposit", "player.signup"} THEN {"unlicensed_jurisdiction"} ELSE {})

Raised == signals \union (IF stepUp THEN {"step_up_verification_active"} ELSE {})

Decided == Assess(type, device, Scores[score], Raised)

RulesInit ==
  /\ type \in EventType
  /\ device \in IF type \in DeviceCheckedTypes THEN {"trusted", "unknown", "first"} ELSE {"trusted"}
  /\ score = 1
  /\ signals = {}
  /\ stepUp = FALSE

ScoreRises ==
  /\ score < Len(Scores)
  /\ score' = score + 1
  /\ UNCHANGED <<type, device, signals, stepUp>>

SignalRaised ==
  /\ \E s \in Emitted(type) \ signals : signals' = signals \union {s}
  /\ UNCHANGED <<type, device, score, stepUp>>

\* The device engine reports more: the device is not a trusted one, or is the user's first.
DeviceDoubted ==
  /\ type \in DeviceCheckedTypes /\ device # "first"
  /\ device' = IF device = "trusted" THEN "unknown" ELSE "first"
  /\ UNCHANGED <<type, score, signals, stepUp>>

StepUpPassed ==
  /\ ~stepUp
  /\ stepUp' = TRUE
  /\ UNCHANGED <<type, device, score, signals>>

RulesNext == ScoreRises \/ SignalRaised \/ DeviceDoubted \/ StepUpPassed

RulesSpec == RulesInit /\ [][RulesNext]_facts

-----------------------------------------------------------------------------
\* Worse evidence - a higher score, one more signal, a device less known - never makes the
\* decision of determine_decision and apply_step_up_bypass milder, whatever rules apply before
\* and after, with one exception: on a login or a withdrawal, a device that turns out to be
\* unknown is challenged (or, with a step-up, allowed) before the rules on VPNs, jurisdictions
\* and levels are asked, so that it escapes their block; it never escapes a hard block.
NeverSoftened ==
  [][stepUp' = stepUp /\ Severity[Decided'] < Severity[Decided] =>
       /\ type \in {"player.login", "payment.withdraw"}
       /\ device = "trusted" /\ device' = "unknown"
       /\ ~HardBlock(type, Raised)]_facts

\* INTEGRATION_GUIDE: a step-up verification may turn a challenge into allow, and
\* nothing else.
StepUpOnlyLiftsChallenge ==
  [][stepUp' # stepUp => Decided' = Decided \/ (Decided = "challenge" /\ Decided' = "allow")]_facts
=============================================================================
