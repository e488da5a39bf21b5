---------------------------- MODULE EnginesProofs ----------------------------
(* The decision rules, for every configuration of the thresholds, of the critical signals and of  *)
(* the step-up bypass: proved first of the operators, for all scores and signals, then of the     *)
(* walk over assessments that TLC takes.  After them the blocklist, for any number of             *)
(* synchronisations, wallets, lists and faults, and the lookups of addresses, for any number of   *)
(* evaluations and any answers.                                                                   *)
EXTENDS ScoringEngines, VelocityProofs, HedgeProofs

-----------------------------------------------------------------------------
\* The decision rules.
LevelRank == [l \in Level |-> IF l = "low" THEN 0 ELSE IF l = "medium" THEN 1
                              ELSE IF l = "high" THEN 2 ELSE 3]

Devices == {"trusted", "unknown", "first"}

\* A higher total never lowers the level, in whatever order the thresholds are.
LEMMA LevelsOrdered ==
  ASSUME NEW n \in Nat, NEW m \in Nat, n <= m
  PROVE  /\ RiskLevel(n) \in Level /\ RiskLevel(m) \in Level
         /\ LevelRank[RiskLevel(n)] <= LevelRank[RiskLevel(m)]
  BY ScoringAssumption DEF RiskLevel, LevelRank, Level

\* A worse level never leads to a milder decision.
LEMMA LevelDecisionOrdered ==
  ASSUME NEW ty, NEW k \in Level, NEW l \in Level, LevelRank[k] <= LevelRank[l]
  PROVE  /\ LevelDecision(ty, k) \in Outcome /\ LevelDecision(ty, l) \in Outcome
         /\ Severity[LevelDecision(ty, k)] <= Severity[LevelDecision(ty, l)]
<1>1. LevelBlocks(ty, k) => LevelBlocks(ty, l)
  BY DEF LevelBlocks, LevelRank, Level, MoneyTypes
<1>2. l = "low" => k = "low"
  BY DEF LevelRank, Level
<1>3. /\ LevelDecision(ty, k) \in Outcome /\ LevelDecision(ty, l) \in Outcome
      /\ Severity[LevelDecision(ty, k)] <= Severity[LevelDecision(ty, l)]
  BY <1>1, <1>2 DEF LevelDecision, Severity, Outcome
<1> QED BY <1>3

\* A higher total or more signals never make determine_decision milder, as long as the
\* device-trust rule does not start to apply, or a hard block comes before it anyway.
LEMMA DetermineOrdered ==
  ASSUME NEW ty, NEW n \in Nat, NEW m \in Nat, n <= m, NEW s, NEW r, s \subseteq r,
         HardBlock(ty, s) \/ (DeviceTrustChallenge(ty, r) => DeviceTrustChallenge(ty, s))
  PROVE  /\ DetermineDecision(n, ty, s) \in Outcome /\ DetermineDecision(m, ty, r) \in Outcome
         /\ Severity[DetermineDecision(n, ty, s)] <= Severity[DetermineDecision(m, ty, r)]
<1>1. HardBlock(ty, s) => HardBlock(ty, r)
  BY DEF HardBlock
<1>2. ContextBlock(ty, s) => ContextBlock(ty, r)
  BY DEF ContextBlock
<1>3. DeviceTrustChallenge(ty, s) => DeviceTrustChallenge(ty, r)
  BY DEF DeviceTrustChallenge
<1> DEFINE a == LevelDecision(ty, RiskLevel(n))
           b == LevelDecision(ty, RiskLevel(m))
<1>4. a \in Outcome /\ b \in Outcome /\ Severity[a] <= Severity[b]
  BY LevelsOrdered, LevelDecisionOrdered
<1>5. /\ DetermineDecision(n, ty, s) =
           IF HardBlock(ty, s) THEN "block" ELSE IF DeviceTrustChallenge(ty, s) THEN "challenge"
           ELSE IF ContextBlock(ty, s) THEN "block" ELSE a
      /\ DetermineDecision(m, ty, r) =
           IF HardBlock(ty, r) THEN "block" ELSE IF DeviceTrustChallenge(ty, r) THEN "challenge"
           ELSE IF ContextBlock(ty, r) THEN "block" ELSE b
  BY DEF DetermineDecision
<1> HIDE DEF a, b
<1> QED BY <1>1, <1>2, <1>3, <1>4, <1>5 DEF Severity, Outcome

\* What the device engine reports never depends on the other engines.
LEMMA DeviceFacts ==
  ASSUME NEW ty, NEW dv
  PROVE  /\ DeviceScore(ty, dv) \in Nat
         /\ DeviceSignals(ty, dv) \subseteq DeviceTrustSignals
  BY DEF DeviceScore, UnknownDeviceScore, DeviceSignals, UnknownDeviceSignal, DeviceTrustSignals

LEMMA CappedOrdered ==
  ASSUME NEW n \in Nat, NEW m \in Nat, n <= m
  PROVE  Capped(n) \in Nat /\ Capped(m) \in Nat /\ Capped(n) <= Capped(m)
  BY DEF Capped

\* A higher score of the other engines, more of their signals, or a device of which its engine
\* reports more, never makes the decision on an event milder, as long as the step-up engine says
\* the same, and the device-trust rule does not start to apply where there is no hard block: for
\* all thresholds, lists of critical signals, types, devices, scores and signals.
THEOREM AssessOrdered ==
  ASSUME NEW ty, NEW n \in Nat, NEW m \in Nat, n <= m,
         NEW dv, NEW ew, DeviceScore(ty, dv) <= DeviceScore(ty, ew),
         DeviceSignals(ty, dv) \subseteq DeviceSignals(ty, ew),
         NEW s, NEW r, s \subseteq r, r \intersect DeviceTrustSignals = {},
         "step_up_verification_active" \in r => "step_up_verification_active" \in s,
         \/ HardBlock(ty, s)
         \/ DeviceTrustChallenge(ty, DeviceSignals(ty, ew)) =>
              DeviceTrustChallenge(ty, DeviceSignals(ty, dv))
  PROVE  /\ Assess(ty, dv, n, s) \in Outcome /\ Assess(ty, ew, m, r) \in Outcome
         /\ Severity[Assess(ty, dv, n, s)] <= Severity[Assess(ty, ew, m, r)]
<1> DEFINE x == DeviceScore(ty, dv)
           y == DeviceScore(ty, ew)
           d == DeviceSignals(ty, dv)
           e == DeviceSignals(ty, ew)
           a == DetermineDecision(Capped(n + x), ty, s \union d)
           b == DetermineDecision(Capped(m + y), ty, r \union e)
<1>1. x \in Nat /\ y \in Nat /\ d \subseteq DeviceTrustSignals /\ e \subseteq DeviceTrustSignals
  BY DeviceFacts
<1>2. n + x \in Nat /\ m + y \in Nat /\ n + x <= m + y
  BY <1>1
<1>3. Capped(n + x) \in Nat /\ Capped(m + y) \in Nat /\ Capped(n + x) <= Capped(m + y)
  BY <1>2, CappedOrdered
<1>4. \/ HardBlock(ty, s \union d)
      \/ DeviceTrustChallenge(ty, r \union e) => DeviceTrustChallenge(ty, s \union d)
  <2>1. CASE HardBlock(ty, s)
    BY <2>1 DEF HardBlock
  <2>2. CASE DeviceTrustChallenge(ty, e) => DeviceTrustChallenge(ty, d)
    BY <2>2 DEF DeviceTrustChallenge, DeviceTrustSignals
  <2> QED BY <2>1, <2>2
<1>5. s \union d \subseteq r \union e
  OBVIOUS
<1>6. a \in Outcome /\ b \in Outcome /\ Severity[a] <= Severity[b]
  BY <1>3, <1>4, <1>5, DetermineOrdered
<1>7. ("step_up_verification_active" \in s \union d)
        = ("step_up_verification_active" \in r \union e)
  BY <1>1 DEF DeviceTrustSignals
<1>8. /\ Assess(ty, dv, n, s) = ApplyStepUpBypass(a, s \union d)
      /\ Assess(ty, ew, m, r) = ApplyStepUpBypass(b, r \union e)
  BY DEF Assess
<1> HIDE DEF a, b, d, e, x, y
<1>9. /\ ApplyStepUpBypass(a, s \union d) \in Outcome
      /\ ApplyStepUpBypass(b, r \union e) \in Outcome
      /\ Severity[ApplyStepUpBypass(a, s \union d)] <= Severity[ApplyStepUpBypass(b, r \union e)]
  BY <1>6, <1>7 DEF ApplyStepUpBypass, Severity, Outcome
<1> QED BY <1>8, <1>9

\* A step-up verification changes a challenge into allow, or nothing, unless the operator
\* has put its signal on the list of critical signals.
THEOREM AssessStepUp ==
  ASSUME NEW ty, NEW dv, NEW n, NEW s,
         "step_up_verification_active" \notin s,
         "step_up_verification_active" \notin CriticalSignals
  PROVE  \/ Assess(ty, dv, n, s \union {"step_up_verification_active"}) = Assess(ty, dv, n, s)
         \/ /\ Assess(ty, dv, n, s) = "challenge"
            /\ Assess(ty, dv, n, s \union {"step_up_verification_active"}) = "allow"
<1> DEFINE d == DeviceSignals(ty, dv)
           t == s \union {"step_up_verification_active"}
           c == Capped(n + DeviceScore(ty, dv))
           a == DetermineDecision(c, ty, s \union d)
<1>1. d \subseteq DeviceTrustSignals
  BY DeviceFacts
<1>2. "step_up_verification_active" \notin s \union d
  BY <1>1 DEF DeviceTrustSignals
<1>3. HardBlock(ty, s \union d) = HardBlock(ty, t \union d)
  BY DEF HardBlock, PayoutSignals, MultiAccountSignals
<1>4. DeviceTrustChallenge(ty, s \union d) = DeviceTrustChallenge(ty, t \union d)
  BY DEF DeviceTrustChallenge
<1>5. ContextBlock(ty, s \union d) = ContextBlock(ty, t \union d)
  BY DEF ContextBlock, AnonymitySignals
<1>6. DetermineDecision(c, ty, t \union d) = a
  BY <1>3, <1>4, <1>5 DEF DetermineDecision
<1>7. /\ Assess(ty, dv, n, s) = ApplyStepUpBypass(a, s \union d)
      /\ Assess(ty, dv, n, t) = ApplyStepUpBypass(a, t \union d)
  BY <1>6 DEF Assess
<1> HIDE DEF a, d
<1>8. ApplyStepUpBypass(a, s \union d) = a
  BY <1>2 DEF ApplyStepUpBypass
<1>9. \/ ApplyStepUpBypass(a, t \union d) = a
      \/ a = "challenge" /\ ApplyStepUpBypass(a, t \union d) = "allow"
  BY DEF ApplyStepUpBypass
<1> QED BY <1>7, <1>8, <1>9

-----------------------------------------------------------------------------
(* The walk                                                                *)

WalkInv ==
  /\ score \in 1..Len(Scores)
  /\ device \in Devices /\ (device # "trusted" => type \in DeviceCheckedTypes)
  /\ signals \subseteq Emitted(type)
  /\ stepUp \in BOOLEAN

LEMMA EmittedFacts ==
  ASSUME NEW t
  PROVE  Emitted(t) \intersect (DeviceTrustSignals \union {"step_up_verification_active"}) = {}
  BY DEF Emitted, DeviceTrustSignals, PayoutSignals

LEMMA ScoresRise ==
  ASSUME NEW i \in 1..Len(Scores)
  PROVE  /\ Scores[i] \in Nat
         /\ i < Len(Scores) => Scores[i] <= Scores[i + 1]
<1>1. Len(Scores) = 9
  BY DEF Scores
<1>2. i = 1 \/ i = 2 \/ i = 3 \/ i = 4 \/ i = 5 \/ i = 6 \/ i = 7 \/ i = 8 \/ i = 9
  BY <1>1
<1> QED BY <1>1, <1>2 DEF Scores

LEMMA WalkStep ==
  ASSUME WalkInv, [RulesNext]_facts
  PROVE  WalkInv'
<1>1. CASE ScoreRises
  BY <1>1 DEF ScoreRises, WalkInv
<1>2. CASE SignalRaised
  BY <1>2 DEF SignalRaised, WalkInv
<1>3. CASE StepUpPassed
  BY <1>3 DEF StepUpPassed, WalkInv
<1>4. CASE DeviceDoubted
  BY <1>4 DEF DeviceDoubted, WalkInv, Devices
<1>5. CASE UNCHANGED facts
  BY <1>5 DEF facts, WalkInv
<1> QED BY <1>1, <1>2, <1>3, <1>4, <1>5 DEF RulesNext

LEMMA WalkInvariant == RulesSpec => []WalkInv
<1>1. 1 \in 1..Len(Scores)
  BY DEF Scores
<1>2. RulesInit => WalkInv
  BY <1>1 DEF RulesInit, WalkInv, Devices
<1> QED BY <1>2, WalkStep, PTL DEF RulesSpec

\* Of a device that is doubted more, the device engine reports more; and the device-trust rule
\* starts to apply only where a login's or a withdrawal's trusted device turns out to be unknown.
LEMMA DoubtedReportsMore ==
  ASSUME WalkInv, DeviceDoubted
  PROVE  /\ DeviceScore(type, device) <= DeviceScore(type, device')
         /\ DeviceSignals(type, device) \subseteq DeviceSignals(type, device')
         /\ \/ DeviceTrustChallenge(type, DeviceSignals(type, device')) =>
                 DeviceTrustChallenge(type, DeviceSignals(type, device))
            \/ /\ type \in {"player.login", "payment.withdraw"}
               /\ device = "trusted" /\ device' = "unknown"
<1>1. type \in DeviceCheckedTypes
  BY DEF DeviceDoubted
<1>2. \/ device = "trusted" /\ device' = "unknown"
      \/ device = "unknown" /\ device' = "first"
  BY DEF DeviceDoubted, WalkInv, Devices
<1>3. /\ DeviceScore(type, device) <= DeviceScore(type, device')
      /\ DeviceSignals(type, device) \subseteq DeviceSignals(type, device')
  BY <1>2 DEF DeviceScore, UnknownDeviceScore, DeviceSignals
<1>4. CASE device = "trusted" /\ device' = "unknown"
  <2>1. type = "payment.deposit" => ~DeviceTrustChallenge(type, DeviceSignals(type, device'))
    BY DEF DeviceTrustChallenge
  <2> QED BY <1>1, <1>3, <1>4, <2>1 DEF DeviceCheckedTypes
<1>5. CASE device = "unknown" /\ device' = "first"
  <2>1. /\ UnknownDeviceSignal(type) \in DeviceSignals(type, device)
        /\ type = "player.login" => UnknownDeviceSignal(type) = "untrusted_device_login"
        /\ type = "payment.withdraw" => UnknownDeviceSignal(type) = "new_device_on_withdrawal"
    BY <1>5 DEF DeviceSignals, UnknownDeviceSignal
  <2> QED BY <1>3, <2>1 DEF DeviceTrustChallenge
<1> QED BY <1>2, <1>4, <1>5

LEMMA StepNeverSoftens ==
  ASSUME WalkInv, [RulesNext]_facts, UNCHANGED stepUp, ~UNCHANGED facts,
         Severity[Decided'] < Severity[Decided]
  PROVE  /\ type \in {"player.login", "payment.withdraw"}
         /\ device = "trusted" /\ device' = "unknown"
         /\ ~HardBlock(type, Raised)
<1> DEFINE shadowed == /\ type \in {"player.login", "payment.withdraw"}
                       /\ device = "trusted" /\ device' = "unknown"
                       /\ ~HardBlock(type, Raised)
<1> SUFFICES ASSUME ~shadowed PROVE FALSE
  OBVIOUS
<1> DEFINE n == Scores[score]
           m == Scores[score']
           s == Raised
           r == Raised'
<1>1. WalkInv'
  BY WalkStep
<1>2. ScoreRises \/ SignalRaised \/ DeviceDoubted
  BY DEF RulesNext, StepUpPassed, facts
<1>3. n \in Nat /\ m \in Nat /\ n <= m
  <2>1. score' = score \/ (score < Len(Scores) /\ score' = score + 1)
    BY <1>2 DEF ScoreRises, SignalRaised, DeviceDoubted
  <2>2. score \in 1..Len(Scores) /\ score' \in 1..Len(Scores)
    BY <1>1 DEF WalkInv
  <2> QED BY <2>1, <2>2, ScoresRise
<1>4. type' = type /\ signals \subseteq signals'
  BY <1>2 DEF ScoreRises, SignalRaised, DeviceDoubted
<1>5. s \subseteq r
  BY <1>4 DEF Raised
<1>6. r \intersect DeviceTrustSignals = {}
  BY <1>1, EmittedFacts DEF Raised, WalkInv, DeviceTrustSignals
<1>7. "step_up_verification_active" \in r => "step_up_verification_active" \in s
  BY <1>1, EmittedFacts DEF Raised, WalkInv
<1>8. Decided = Assess(type, device, n, s) /\ Decided' = Assess(type, device', m, r)
  BY <1>4 DEF Decided
<1>9. /\ DeviceScore(type, device) <= DeviceScore(type, device')
      /\ DeviceSignals(type, device) \subseteq DeviceSignals(type, device')
      /\ \/ HardBlock(type, s)
         \/ DeviceTrustChallenge(type, DeviceSignals(type, device')) =>
              DeviceTrustChallenge(type, DeviceSignals(type, device))
  <2>1. CASE DeviceDoubted
    BY <2>1, DoubtedReportsMore
  <2>2. CASE ScoreRises \/ SignalRaised
    <3>1. device' = device
      BY <2>2 DEF ScoreRises, SignalRaised
    <3>2. DeviceScore(type, device) \in Nat
      BY DeviceFacts
    <3> QED BY <3>1, <3>2
  <2> QED BY <1>2, <2>1, <2>2
<1> HIDE DEF n, m, s, r, shadowed
<1> DEFINE p == Assess(type, device, n, s)
           q == Assess(type, device', m, r)
<1>10. p \in Outcome /\ q \in Outcome /\ Severity[p] <= Severity[q]
  BY <1>3, <1>5, <1>6, <1>7, <1>9, AssessOrdered
<1>11. Decided = p /\ Decided' = q
  BY <1>8
<1> HIDE DEF p, q
<1>12. Severity[p] \in Nat /\ Severity[q] \in Nat
  BY <1>10 DEF Severity, Outcome
<1>13. ~(Severity[q] < Severity[p])
  BY <1>10, <1>12
<1> QED BY <1>11, <1>13

\* No score and no signal more makes the decision on an event milder, and no device less known,
\* but for the trusted device of a login or a withdrawal that turns out to be unknown, and there
\* never where a hard block applies.
THEOREM WorseIsNeverMilder == RulesSpec => NeverSoftened
<1>1. WalkInv /\ [RulesNext]_facts =>
        [stepUp' = stepUp /\ Severity[Decided'] < Severity[Decided] =>
           /\ type \in {"player.login", "payment.withdraw"}
           /\ device = "trusted" /\ device' = "unknown"
           /\ ~HardBlock(type, Raised)]_facts
  BY StepNeverSoftens
<1> QED BY <1>1, WalkInvariant, PTL DEF RulesSpec, NeverSoftened

\* A step-up verification turns a challenge into allow, and changes nothing else, unless its
\* signal is itself a critical one.
THEOREM StepUpIsNoMore ==
  ASSUME "step_up_verification_active" \notin CriticalSignals
  PROVE  RulesSpec => StepUpOnlyLiftsChallenge
<1>1. ASSUME WalkInv, [RulesNext]_facts, stepUp' # stepUp
      PROVE  Decided' = Decided \/ (Decided = "challenge" /\ Decided' = "allow")
  <2>1. StepUpPassed
    BY <1>1 DEF RulesNext, ScoreRises, SignalRaised, DeviceDoubted, facts
  <2>2. "step_up_verification_active" \notin Raised
    BY <1>1, <2>1, EmittedFacts DEF StepUpPassed, WalkInv, Raised
  <2>3. Raised' = Raised \union {"step_up_verification_active"}
    BY <2>1 DEF StepUpPassed, Raised
  <2>4. Decided' = Assess(type, device, Scores[score],
                          Raised \union {"step_up_verification_active"})
    BY <2>1, <2>3 DEF StepUpPassed, Decided
  <2>5. Decided = Assess(type, device, Scores[score], Raised)
    BY DEF Decided
  <2> QED BY <2>2, <2>4, <2>5, AssessStepUp
<1>2. WalkInv /\ [RulesNext]_facts =>
        [stepUp' # stepUp => \/ Decided' = Decided
                             \/ Decided = "challenge" /\ Decided' = "allow"]_facts
  BY <1>1
<1> QED BY <1>2, WalkInvariant, PTL DEF RulesSpec, StepUpOnlyLiftsChallenge

-----------------------------------------------------------------------------
\* The blocklist.  The invariant says of each synchronisation under way what it may have deleted,
\* what it will insert for it, and what of the published lists it has missed.
Row == [lists : Wallet \cup Country, made : Nat]
Todo == {<<>>, <<"wallet">>, <<"country">>, <<"wallet", "country">>}
Sync == [pc : {"idle", "fetch", "delete", "deleting"}, crypto : BOOLEAN, countries : BOOLEAN,
         found : SUBSET Wallet, failed : BOOLEAN, todo : Todo, snap : SUBSET Row,
         gone : SUBSET Row, missing : SUBSET Asset, stale : BOOLEAN, alone : BOOLEAN]

Typed ==
  /\ published \in SUBSET Wallet /\ listed \in SUBSET published
  /\ entries \in SUBSET Row /\ commits \in Nat
  /\ syncs \in [Syncer -> Sync]
  /\ stocked \in BOOLEAN

\* A synchronisation deletes wallets only if it has some to insert.
Replaces(sync) == sync.crypto /\ sync.found # {}
WalletsLeft(sync) == sync.todo \in {<<"wallet">>, <<"wallet", "country">>}
CountriesLeft(sync) == sync.todo \in {<<"country">>, <<"wallet", "country">>}

DeletesToReplace(sync) ==
  /\ sync.pc \in {"idle", "fetch"} => sync.todo = <<>> /\ sync.gone = {} /\ sync.snap = {}
  /\ sync.pc = "deleting" => sync.todo # <<>>
  /\ WalletsLeft(sync) => Replaces(sync)
  /\ \A e \in sync.gone \cup sync.snap : e.lists \in Wallet => Replaces(sync)

\* What it has not found of the wallets listed by now is on a list it missed, unless it is stale.
FoundListed(sync, wallets) ==
  sync.pc \in {"delete", "deleting"} /\ Replaces(sync) /\ ~sync.stale =>
    \A w \in wallets : AssetOf[w] \in sync.missing \/ w \in sync.found

\* One that has been alone has seen, or will see, every row of what it inserts.
SeesAll(s) ==
  LET sync == syncs[s]
  IN  sync.alone =>
        /\ sync.pc # "idle" => Busy(s) = {}
        /\ sync.pc \in {"delete", "deleting"} =>
             /\ Replaces(sync) => WalletsLeft(sync) \/ Rows(Wallet) \subseteq sync.gone
             /\ sync.countries => CountriesLeft(sync) \/ Rows(Country) \subseteq sync.gone
        /\ sync.pc = "deleting" =>
             \A e \in entries : e.lists \in Listable[Head(sync.todo)] => e \in sync.snap

SyncsInv == \A s \in Syncer :
  DeletesToReplace(syncs[s]) /\ FoundListed(syncs[s], listed) /\ SeesAll(s)

BlocklistInv ==
  /\ Typed /\ SyncsInv
  /\ PublishedStaysBlocked /\ OutageKeepsList /\ ConflictsAreOverlaps

LEMMA ListableIs ==
  /\ Listable["wallet"] = Wallet /\ Listable["country"] = Country
  BY DEF Listable

\* The kinds of rows still to be deleted, one after the other.
LEMMA TodoHeads ==
  ASSUME NEW todo \in Todo, todo # <<>>
  PROVE  \/ Head(todo) = "wallet" /\ todo = <<"wallet">> /\ Tail(todo) = <<>>
         \/ Head(todo) = "wallet" /\ todo = <<"wallet", "country">> /\ Tail(todo) = <<"country">>
         \/ Head(todo) = "country" /\ todo = <<"country">> /\ Tail(todo) = <<>>
<1>1. CASE todo = <<"wallet">>  BY <1>1
<1>2. CASE todo = <<"country">>  BY <1>2
<1>3. CASE todo = <<"wallet", "country">>  BY <1>3
<1> QED  BY <1>1, <1>2, <1>3 DEF Todo

LEMMA TodoDistinct ==
  /\ <<>> # <<"wallet">> /\ <<>> # <<"country">> /\ <<>> # <<"wallet", "country">>
  /\ <<"wallet">> # <<"country">> /\ <<"wallet">> # <<"wallet", "country">>
  /\ <<"country">> # <<"wallet", "country">>
  OBVIOUS

\* A synchronisation that ended is idle, which asks for nothing.
LEMMA IdleFine ==
  /\ IdleSync \in Sync
  /\ DeletesToReplace(IdleSync) /\ (\A wallets : FoundListed(IdleSync, wallets))
<1>1. IdleSync \in Sync
  BY DEF IdleSync, Sync, Todo
<1>2. DeletesToReplace(IdleSync)
  BY TodoDistinct DEF IdleSync, DeletesToReplace, WalletsLeft
<1>3. (\A wallets : FoundListed(IdleSync, wallets))
  BY DEF IdleSync, FoundListed
<1> QED  BY <1>1, <1>2, <1>3

\* The invariant holds initially.
LEMMA BlocklistStarts == BlocklistInit => BlocklistInv
<1> SUFFICES ASSUME BlocklistInit  PROVE BlocklistInv
  OBVIOUS
<1>1. Typed
  BY IdleFine DEF BlocklistInit, Typed
<1>2. ASSUME NEW s \in Syncer
      PROVE  DeletesToReplace(syncs[s]) /\ FoundListed(syncs[s], listed) /\ SeesAll(s)
  <2>1. syncs[s] = IdleSync
    BY DEF BlocklistInit
  <2>2. syncs[s].pc = "idle"
    BY <2>1 DEF IdleSync
  <2> QED  BY <2>1, <2>2, IdleFine DEF SeesAll
<1>3. PublishedStaysBlocked /\ OutageKeepsList /\ ConflictsAreOverlaps
  BY DEF BlocklistInit, PublishedStaysBlocked, OutageKeepsList, ConflictsAreOverlaps
<1> QED  BY <1>1, <1>2, <1>3 DEF BlocklistInv, SyncsInv

-----------------------------------------------------------------------------
\* The histories of a synchronisation do not touch the rest of it.
LEMMA WithHistory ==
  ASSUME NEW sync \in Sync, NEW alone \in BOOLEAN, NEW stale \in BOOLEAN,
         NEW new, \/ new = [sync EXCEPT !.alone = alone]
                  \/ new = [sync EXCEPT !.stale = stale]
  PROVE  /\ new \in Sync
         /\ new.pc = sync.pc /\ new.crypto = sync.crypto /\ new.countries = sync.countries
         /\ new.found = sync.found /\ new.todo = sync.todo /\ new.snap = sync.snap
         /\ new.gone = sync.gone /\ new.missing = sync.missing
         /\ new.stale = sync.stale \/ new.stale = stale
         /\ new.alone = sync.alone \/ new.alone = alone
  BY DEF Sync

\* A synchronisation another one's step leaves alone, but for the histories, keeps its part of the
\* invariant while the rows stay.
LEMMA Bystander ==
  ASSUME BlocklistInv, NEW t \in Syncer,
         entries' = entries, listed' \subseteq listed,
         syncs'[t].alone => Busy(t)' \subseteq Busy(t),
         /\ syncs'[t].pc = syncs[t].pc /\ syncs'[t].crypto = syncs[t].crypto
         /\ syncs'[t].countries = syncs[t].countries /\ syncs'[t].found = syncs[t].found
         /\ syncs'[t].todo = syncs[t].todo /\ syncs'[t].snap = syncs[t].snap
         /\ syncs'[t].gone = syncs[t].gone /\ syncs'[t].missing = syncs[t].missing,
         syncs'[t].stale = FALSE => syncs[t].stale = FALSE, syncs'[t].alone => syncs[t].alone
  PROVE  (DeletesToReplace(syncs[t]) /\ FoundListed(syncs[t], listed) /\ SeesAll(t))'
<1> DEFINE old == syncs[t]
           new == syncs'[t]
<1>1. /\ new.pc = old.pc /\ new.crypto = old.crypto /\ new.countries = old.countries
      /\ new.found = old.found /\ new.todo = old.todo /\ new.snap = old.snap
      /\ new.gone = old.gone /\ new.missing = old.missing
      /\ ~new.stale => ~old.stale
      /\ new.alone => old.alone
  BY DEF BlocklistInv, Typed, Sync
<1>2. DeletesToReplace(old) /\ FoundListed(old, listed) /\ SeesAll(t)
  BY DEF BlocklistInv, SyncsInv
<1>3. Replaces(new) = Replaces(old) /\ WalletsLeft(new) = WalletsLeft(old)
      /\ CountriesLeft(new) = CountriesLeft(old)
  BY <1>1 DEF Replaces, WalletsLeft, CountriesLeft
<1>4. DeletesToReplace(new)
  BY <1>1, <1>2, <1>3 DEF DeletesToReplace
<1>5. FoundListed(new, listed')
  BY <1>1, <1>2, <1>3 DEF FoundListed, Replaces
<1>6. SeesAll(t)'
  <2>1. Rows(Wallet)' = Rows(Wallet) /\ Rows(Country)' = Rows(Country) /\ Listable' = Listable
    BY DEF Rows, Listable
  <2> QED  BY <1>1, <1>2, <1>3, <2>1 DEF SeesAll, Replaces, WalletsLeft, CountriesLeft
<1> QED  BY <1>4, <1>5, <1>6 DEF DeletesToReplace, Replaces, WalletsLeft

\* What the properties speak of stays as it is.
LEMMA PropertiesKept ==
  ASSUME BlocklistInv, entries' = entries, listed' \subseteq listed,
         UNCHANGED <<stocked, excused>>,
         status' = status \/ status'.said # "conflict"
  PROVE  (PublishedStaysBlocked /\ OutageKeepsList /\ ConflictsAreOverlaps)'
  BY DEF BlocklistInv, PublishedStaysBlocked, OutageKeepsList, ConflictsAreOverlaps, Blocked, Rows

LEMMA PublishKeeps ==
  ASSUME BlocklistInv, NEW w \in Wallet, Publish(w)
  PROVE  BlocklistInv'
<1>1. listed' \subseteq listed
  BY DEF Publish
<1>2. Typed'
  BY DEF Publish, BlocklistInv, Typed
<1>3. SyncsInv'
  BY <1>1, Bystander DEF Publish, SyncsInv, Busy
<1> QED  BY <1>1, <1>2, <1>3, PropertiesKept DEF Publish, BlocklistInv

LEMMA BeginSyncKeeps ==
  ASSUME BlocklistInv, NEW s \in Syncer, NEW crypto \in BOOLEAN, NEW countries \in BOOLEAN,
         BeginSync(s, crypto, countries)
  PROVE  BlocklistInv'
<1> DEFINE new == [IdleSync EXCEPT !.pc = "fetch", !.crypto = crypto, !.countries = countries,
                                   !.alone = Busy(s) = {}]
<1>1. syncs'[s] = new /\ \A t \in Syncer \ {s} : syncs'[t] = [syncs[t] EXCEPT !.alone = FALSE]
  BY DEF BeginSync
<1>2. /\ new \in Sync /\ new.pc = "fetch" /\ new.todo = <<>> /\ new.gone = {} /\ new.snap = {}
      /\ new.alone => Busy(s) = {}
  BY IdleFine DEF Sync, IdleSync, Todo
<1>3. ASSUME NEW t \in Syncer, t # s
      PROVE  /\ syncs'[t] \in Sync
             /\ syncs'[t].pc = syncs[t].pc /\ syncs'[t].crypto = syncs[t].crypto
             /\ syncs'[t].countries = syncs[t].countries /\ syncs'[t].found = syncs[t].found
             /\ syncs'[t].todo = syncs[t].todo /\ syncs'[t].snap = syncs[t].snap
             /\ syncs'[t].gone = syncs[t].gone /\ syncs'[t].missing = syncs[t].missing
             /\ syncs'[t].stale = syncs[t].stale /\ syncs'[t].alone = FALSE
  <2>1. syncs[t] \in Sync /\ syncs'[t] = [syncs[t] EXCEPT !.alone = FALSE]
    BY <1>1, <1>3 DEF BlocklistInv, Typed
  <2> HIDE DEF new
  <2> QED  BY <2>1 DEF Sync
<1>4. Typed'
  <2>1. syncs' \in [Syncer -> Sync]
    BY <1>1, <1>2, <1>3 DEF BeginSync
  <2> QED  BY <2>1 DEF BeginSync, BlocklistInv, Typed
<1>5. (DeletesToReplace(syncs[s]) /\ FoundListed(syncs[s], listed) /\ SeesAll(s))'
  <2>1. DeletesToReplace(new)
    BY <1>2, TodoDistinct DEF DeletesToReplace, WalletsLeft
  <2>2. FoundListed(new, listed')
    BY <1>2 DEF FoundListed
  <2>3. Busy(s)' = Busy(s)
    BY <1>3 DEF Busy
  <2>4. SeesAll(s)'
    BY <1>1, <1>2, <2>3 DEF SeesAll
  <2> QED  BY <1>1, <2>1, <2>2, <2>4 DEF DeletesToReplace, FoundListed, Replaces, WalletsLeft
<1>6. ASSUME NEW t \in Syncer, t # s
      PROVE  (DeletesToReplace(syncs[t]) /\ FoundListed(syncs[t], listed) /\ SeesAll(t))'
  BY <1>3, <1>6, Bystander DEF BeginSync
<1>7. (PublishedStaysBlocked /\ OutageKeepsList /\ ConflictsAreOverlaps)'
  BY PropertiesKept DEF BeginSync
<1> QED  BY <1>4, <1>5, <1>6, <1>7 DEF BlocklistInv, SyncsInv

\* A step of one synchronisation that goes on, or ends, leaves the others what they are.
LEMMA OthersKept ==
  ASSUME BlocklistInv, NEW s \in Syncer, syncs[s].pc # "idle",
         entries' = entries, listed' = listed,
         NEW new, new \in Sync, syncs' = [syncs EXCEPT ![s] = new],
         NEW t \in Syncer, t # s
  PROVE  (DeletesToReplace(syncs[t]) /\ FoundListed(syncs[t], listed) /\ SeesAll(t))'
<1>1. syncs'[t] = syncs[t] /\ \A u \in Syncer : u # s => syncs'[u] = syncs[u]
  BY DEF BlocklistInv, Typed
<1>2. Busy(t)' \subseteq Busy(t)
  BY <1>1 DEF Busy
<1> QED  BY <1>1, <1>2, Bystander

\* A synchronisation keeps the invariant if it keeps its own part of it, and nothing else changes.
LEMMA OneStep ==
  ASSUME BlocklistInv, NEW s \in Syncer, syncs[s].pc # "idle",
         UNCHANGED <<published, entries, status, commits, stocked, listed, excused>>,
         NEW new, new \in Sync, syncs' = [syncs EXCEPT ![s] = new],
         DeletesToReplace(new), FoundListed(new, listed), SeesAll(s)'
  PROVE  BlocklistInv'
<1>1. syncs'[s] = new
  BY DEF BlocklistInv, Typed
<1>2. Typed'
  BY DEF BlocklistInv, Typed
<1>3. SyncsInv'
  BY <1>1, OthersKept DEF SyncsInv
<1> QED  BY <1>2, <1>3, PropertiesKept DEF BlocklistInv

LEMMA Concatenated ==
  /\ <<"wallet">> \o <<"country">> = <<"wallet", "country">>
  /\ <<>> \o <<"country">> = <<"country">>
  /\ <<"wallet">> \o <<>> = <<"wallet">> /\ <<>> \o <<>> = <<>>
<1>1. /\ <<"wallet">> \in Seq({"wallet", "country"}) /\ <<"country">> \in Seq({"wallet", "country"})
      /\ <<>> \in Seq({"wallet", "country"})
      /\ <<"wallet", "country">> \in Seq({"wallet", "country"})
  OBVIOUS
<1> DEFINE both == <<"wallet">> \o <<"country">>
<1>2. /\ both \in Seq({"wallet", "country"}) /\ Len(both) = 2
      /\ both[1] = "wallet" /\ both[2] = "country"
  BY <1>1
<1> HIDE DEF both
<1>3. both = <<"wallet", "country">>
  BY <1>1, <1>2, SeqEqual
<1> QED  BY <1>1, <1>3, ConcatEmptySeq DEF both

LEMMA DeletedIs ==
  ASSUME NEW sync \in Sync, NEW found \in SUBSET Wallet
  PROVE  /\ Deleted(sync, found) \in Todo
         /\ Deleted(sync, found) \in {<<"wallet">>, <<"wallet", "country">>}
              <=> sync.crypto /\ found # {}
         /\ Deleted(sync, found) \in {<<"country">>, <<"wallet", "country">>} <=> sync.countries
<1>1. CASE sync.crypto /\ found # {} /\ sync.countries
  <2>1. Deleted(sync, found) = <<"wallet", "country">>
    BY <1>1, Concatenated DEF Deleted
  <2> QED  BY <1>1, <2>1 DEF Todo
<1>2. CASE sync.crypto /\ found # {} /\ ~sync.countries
  <2>1. Deleted(sync, found) = <<"wallet">>
    BY <1>2, Concatenated DEF Deleted
  <2> QED  BY <1>2, <2>1, TodoDistinct DEF Todo
<1>3. CASE ~(sync.crypto /\ found # {}) /\ sync.countries
  <2>1. Deleted(sync, found) = <<"country">>
    BY <1>3, Concatenated DEF Deleted
  <2> QED  BY <1>3, <2>1, TodoDistinct DEF Todo
<1>4. CASE ~(sync.crypto /\ found # {}) /\ ~sync.countries
  <2>1. Deleted(sync, found) = <<>>
    BY <1>4, Concatenated DEF Deleted
  <2> QED  BY <1>4, <2>1, TodoDistinct DEF Todo
<1> QED  BY <1>1, <1>2, <1>3, <1>4 DEF Sync

\* What was fetched has every listed wallet but those of the lists that were missing.
LEMMA FetchKeeps ==
  ASSUME BlocklistInv, NEW s \in Syncer, Fetch(s)
  PROVE  BlocklistInv'
<1> DEFINE old == syncs[s]
<1>1. PICK found \in SUBSET Wallet, missing \in SUBSET Asset :
        /\ Fetched(s, found, missing)
        /\ \/ ~old.crypto \/ found = {}
           \/ found = {w \in published : AssetOf[w] \notin missing}
  BY DEF Fetch, BlocklistInv, Typed
<1> DEFINE new == [old EXCEPT !.pc = "delete", !.found = found, !.missing = missing,
                              !.failed = old.crypto /\ found = {},
                              !.todo = Deleted(old, found)]
<1>2. old \in Sync /\ old.pc = "fetch" /\ DeletesToReplace(old) /\ SeesAll(s)
  BY DEF BlocklistInv, Typed, SyncsInv, Fetch
<1>3. syncs' = [syncs EXCEPT ![s] = new]
  BY <1>1 DEF Fetched, BlocklistInv, Typed
<1>4. /\ new \in Sync
      /\ new.pc = "delete" /\ new.found = found /\ new.missing = missing
      /\ new.todo = Deleted(old, found)
      /\ new.crypto = old.crypto /\ new.countries = old.countries /\ new.alone = old.alone
      /\ new.gone = {} /\ new.snap = {}
  <2>1. old.gone = {} /\ old.snap = {}
    BY <1>2 DEF DeletesToReplace
  <2>2. Deleted(old, found) \in Todo
    BY <1>2, DeletedIs
  <2> QED  BY <1>2, <2>1, <2>2 DEF Sync
<1>5. WalletsLeft(new) <=> Replaces(new)
  BY <1>2, <1>4, DeletedIs DEF WalletsLeft, Replaces
<1>6. CountriesLeft(new) <=> new.countries
  BY <1>2, <1>4, DeletedIs DEF CountriesLeft
<1>7. DeletesToReplace(new)
  BY <1>4, <1>5 DEF DeletesToReplace
<1>8. FoundListed(new, listed)
  BY <1>1, <1>4 DEF FoundListed, Replaces, BlocklistInv, Typed
<1>9. SeesAll(s)'
  <2>1. syncs'[s] = new /\ Busy(s)' = Busy(s)
    BY <1>3 DEF Busy, BlocklistInv, Typed
  <2>2. new.alone => Busy(s) = {}
    BY <1>2, <1>4 DEF SeesAll
  <2> QED  BY <1>4, <1>5, <1>6, <2>1, <2>2 DEF SeesAll, WalletsLeft, CountriesLeft, Replaces
<1> QED  BY <1>2, <1>3, <1>4, <1>7, <1>8, <1>9, OneStep DEF Fetch

\* A DELETE that starts sees every row of the kind it deletes.
LEMMA StartDeleteKeeps ==
  ASSUME BlocklistInv, NEW s \in Syncer, StartDelete(s)
  PROVE  BlocklistInv'
<1> DEFINE old == syncs[s]
           snap == Rows(Listable[Head(old.todo)])
           new == [old EXCEPT !.pc = "deleting", !.snap = snap]
<1>1. /\ old \in Sync /\ old.pc = "delete" /\ old.todo # <<>>
      /\ DeletesToReplace(old) /\ FoundListed(old, listed) /\ SeesAll(s)
  BY DEF BlocklistInv, Typed, SyncsInv, StartDelete
<1>2. syncs' = [syncs EXCEPT ![s] = new]
  BY DEF StartDelete, BlocklistInv, Typed
<1>3. snap \in SUBSET Row
  BY DEF Rows, BlocklistInv, Typed
<1>4. \A e \in snap : e.lists \in Wallet => Replaces(old)
  <2> SUFFICES ASSUME NEW e \in snap, e.lists \in Wallet  PROVE Replaces(old)
    OBVIOUS
  <2>1. CASE Head(old.todo) = "wallet"
    <3>1. WalletsLeft(old)
      BY <1>1, <2>1, TodoHeads DEF WalletsLeft, Sync
    <3> QED  BY <1>1, <3>1 DEF DeletesToReplace
  <2>2. CASE Head(old.todo) = "country"
    BY <2>2, ListableIs, BlocklistAssumption DEF Rows, BlocklistAssumption
  <2> QED  BY <1>1, <2>1, <2>2, TodoHeads DEF Sync
<1> HIDE DEF snap
<1>5. /\ new \in Sync /\ new.pc = "deleting" /\ new.snap = snap
      /\ new.crypto = old.crypto /\ new.countries = old.countries /\ new.found = old.found
      /\ new.todo = old.todo /\ new.gone = old.gone /\ new.missing = old.missing
      /\ new.stale = old.stale /\ new.alone = old.alone
  BY <1>1, <1>3 DEF Sync
<1>6. DeletesToReplace(new)
  BY <1>1, <1>4, <1>5 DEF DeletesToReplace, Replaces, WalletsLeft
<1>7. FoundListed(new, listed)
  BY <1>1, <1>5 DEF FoundListed, Replaces
<1>8. SeesAll(s)'
  <2>1. syncs'[s] = new /\ Busy(s)' = Busy(s)
    BY <1>2 DEF Busy, BlocklistInv, Typed
  <2>2. UNCHANGED <<Listable, Rows(Wallet), Rows(Country)>> /\ entries' = entries
    BY DEF StartDelete, Listable, Rows
  <2>3. \A e \in entries : e.lists \in Listable[Head(new.todo)] => e \in new.snap
    BY <1>5 DEF snap, Rows
  <2> QED
    BY <1>1, <1>5, <2>1, <2>2, <2>3 DEF SeesAll, Replaces, WalletsLeft, CountriesLeft
<1> QED  BY <1>1, <1>2, <1>5, <1>6, <1>7, <1>8, OneStep DEF StartDelete

\* A DELETE that ends has deleted what it had seen, which is all if the rows stayed.
LEMMA FinishDeleteKeeps ==
  ASSUME BlocklistInv, NEW s \in Syncer, FinishDelete(s)
  PROVE  BlocklistInv'
<1> DEFINE old == syncs[s]
           new == [old EXCEPT !.pc = "delete", !.todo = Tail(old.todo),
                              !.gone = old.gone \cup (old.snap \cap entries), !.snap = {}]
<1>1. /\ old \in Sync /\ old.pc = "deleting" /\ old.todo # <<>>
      /\ DeletesToReplace(old) /\ FoundListed(old, listed) /\ SeesAll(s)
  BY DEF BlocklistInv, Typed, SyncsInv, FinishDelete, DeletesToReplace
<1>2. syncs' = [syncs EXCEPT ![s] = new]
  BY DEF FinishDelete, BlocklistInv, Typed
<1>3. Tail(old.todo) \in Todo
  BY <1>1, TodoHeads DEF Sync, Todo
<1>4. /\ new \in Sync /\ new.pc = "delete" /\ new.snap = {} /\ new.todo = Tail(old.todo)
      /\ new.crypto = old.crypto /\ new.countries = old.countries /\ new.found = old.found
      /\ new.gone = old.gone \cup (old.snap \cap entries) /\ new.missing = old.missing
      /\ new.stale = old.stale /\ new.alone = old.alone
  BY <1>1, <1>3 DEF Sync
<1>5. ~WalletsLeft(new)
  BY <1>1, <1>4, TodoHeads, TodoDistinct DEF WalletsLeft, Sync
<1>6. DeletesToReplace(new)
  BY <1>1, <1>4, <1>5 DEF DeletesToReplace, Replaces
<1>7. FoundListed(new, listed)
  BY <1>1, <1>4 DEF FoundListed, Replaces
<1>8. SeesAll(s)'
  <2>1. syncs'[s] = new /\ Busy(s)' = Busy(s)
    BY <1>2 DEF Busy, BlocklistInv, Typed
  <2>2. UNCHANGED <<Rows(Wallet), Rows(Country)>> /\ entries' = entries
    BY DEF FinishDelete, Rows
  <2> SUFFICES ASSUME new.alone
               PROVE  /\ Busy(s) = {}
                      /\ Replaces(new) => Rows(Wallet) \subseteq new.gone
                      /\ new.countries => CountriesLeft(new) \/ Rows(Country) \subseteq new.gone
    BY <1>4, <2>1, <2>2 DEF SeesAll, Replaces, CountriesLeft, WalletsLeft
  <2>3. \A e \in entries : e.lists \in Listable[Head(old.todo)] => e \in new.gone
    BY <1>1, <1>4 DEF SeesAll
  <2>4. CASE Head(old.todo) = "wallet"
    <3>1. Rows(Wallet) \subseteq new.gone
      BY <2>3, <2>4, ListableIs DEF Rows
    <3>2. CountriesLeft(old) => CountriesLeft(new)
      BY <1>1, <1>4, <2>4, TodoHeads, TodoDistinct DEF CountriesLeft, Sync
    <3> QED  BY <1>1, <1>4, <3>1, <3>2 DEF SeesAll
  <2>5. CASE Head(old.todo) = "country"
    <3>1. Rows(Country) \subseteq new.gone
      BY <2>3, <2>5, ListableIs DEF Rows
    <3>2. ~WalletsLeft(old)
      BY <1>1, <2>5, TodoHeads, TodoDistinct DEF WalletsLeft, Sync
    <3> QED  BY <1>1, <1>4, <3>1, <3>2 DEF SeesAll, Replaces
  <2> QED  BY <1>1, <2>4, <2>5, TodoHeads DEF Sync
<1> QED  BY <1>1, <1>2, <1>4, <1>6, <1>7, <1>8, OneStep DEF FinishDelete

-----------------------------------------------------------------------------
LEMMA FailSyncKeeps ==
  ASSUME BlocklistInv, NEW s \in Syncer, FailSync(s)
  PROVE  BlocklistInv'
<1>1. syncs[s].pc # "idle" /\ syncs' = [syncs EXCEPT ![s] = IdleSync] /\ syncs'[s] = IdleSync
  BY DEF FailSync, BlocklistInv, Typed
<1>2. Typed'
  BY <1>1, IdleFine DEF FailSync, BlocklistInv, Typed
<1>3. (DeletesToReplace(syncs[s]) /\ FoundListed(syncs[s], listed) /\ SeesAll(s))'
  BY <1>1, IdleFine DEF SeesAll, IdleSync
<1>4. SyncsInv'
  BY <1>1, <1>3, IdleFine, OthersKept DEF FailSync, SyncsInv
<1>5. (PublishedStaysBlocked /\ OutageKeepsList /\ ConflictsAreOverlaps)'
  BY PropertiesKept DEF FailSync
<1> QED  BY <1>2, <1>4, <1>5 DEF BlocklistInv

\* A transaction that ends makes those stale that have fetched.
Carried(new, old, said) ==
  /\ new.pc = old.pc /\ new.crypto = old.crypto /\ new.countries = old.countries
  /\ new.found = old.found /\ new.todo = old.todo /\ new.snap = old.snap
  /\ new.gone = old.gone /\ new.missing = old.missing /\ new.alone = old.alone
  /\ new.stale = FALSE => old.stale = FALSE /\ (said = "conflict" \/ old.pc = "fetch")

LEMMA EndedIs ==
  ASSUME BlocklistInv, NEW s \in Syncer, NEW said, Ended(s, said), syncs[s].pc # "idle"
  PROVE  /\ syncs' \in [Syncer -> Sync]
         /\ syncs'[s] = IdleSync
         /\ \A t \in Syncer : t # s => Carried(syncs'[t], syncs[t], said)
         /\ \A t \in Syncer : Busy(t)' \subseteq Busy(t)
<1>1. syncs'[s] = IdleSync
  BY DEF Ended
<1>2. ASSUME NEW t \in Syncer, t # s
      PROVE  /\ syncs'[t] \in Sync
             /\ syncs'[t].pc = syncs[t].pc /\ syncs'[t].crypto = syncs[t].crypto
             /\ syncs'[t].countries = syncs[t].countries /\ syncs'[t].found = syncs[t].found
             /\ syncs'[t].todo = syncs[t].todo /\ syncs'[t].snap = syncs[t].snap
             /\ syncs'[t].gone = syncs[t].gone /\ syncs'[t].missing = syncs[t].missing
             /\ syncs'[t].alone = syncs[t].alone
             /\ syncs'[t].stale = FALSE =>
                  syncs[t].stale = FALSE /\ (said = "conflict" \/ syncs[t].pc = "fetch")
  <2> DEFINE stale == syncs[t].stale \/ (said # "conflict" /\ syncs[t].pc # "fetch")
  <2>1. syncs[t] \in Sync /\ syncs'[t] = [syncs[t] EXCEPT !.stale = stale]
    BY <1>2 DEF Ended, BlocklistInv, Typed
  <2>2. stale \in BOOLEAN
    OBVIOUS
  <2>3. stale = FALSE => ~syncs[t].stale /\ (said = "conflict" \/ syncs[t].pc = "fetch")
    OBVIOUS
  <2>4. syncs[t].stale \in BOOLEAN
    BY <2>1 DEF Sync
  <2> HIDE DEF stale
  <2>5. syncs'[t].stale = stale
    BY <2>1, <2>2 DEF Sync
  <2> QED  BY <2>1, <2>2, <2>3, <2>4, <2>5 DEF Sync
<1>3. syncs' \in [Syncer -> Sync]
  <2>1. DOMAIN syncs' = Syncer /\ syncs' = [t \in Syncer |-> syncs'[t]]
    BY DEF Ended
  <2> QED  BY <1>1, <1>2, <2>1, IdleFine
<1>4. ASSUME NEW t \in Syncer  PROVE Busy(t)' \subseteq Busy(t)
  BY <1>1, <1>2 DEF Busy, IdleSync
<1>5. ASSUME NEW t \in Syncer, t # s  PROVE Carried(syncs'[t], syncs[t], said)
  BY <1>2, <1>5 DEF Carried
<1> QED  BY <1>1, <1>3, <1>4, <1>5

\* A synchronisation that has been alone has deleted all rows of what it inserts.
LEMMA AloneHasNoRivals ==
  ASSUME BlocklistInv, NEW s \in Syncer, syncs[s].alone, syncs[s].pc = "delete",
         syncs[s].todo = <<>>
  PROVE  Rivals(s) = {}
<1> DEFINE sync == syncs[s]
<1>1. ~WalletsLeft(sync) /\ ~CountriesLeft(sync)
  BY TodoDistinct DEF WalletsLeft, CountriesLeft
<1>2. /\ Replaces(sync) => Rows(Wallet) \subseteq sync.gone
      /\ sync.countries => Rows(Country) \subseteq sync.gone
  BY <1>1 DEF BlocklistInv, SyncsInv, SeesAll
<1>3. ASSUME NEW e \in entries, e \notin sync.gone, e.lists \in Inserted(sync)  PROVE FALSE
  <2>1. CASE sync.crypto /\ e.lists \in sync.found
    <3>1. Replaces(sync) /\ e \in Rows(Wallet)
      BY <2>1 DEF Replaces, Rows, BlocklistInv, Typed, Sync
    <3> QED  BY <1>2, <1>3, <3>1
  <2>2. CASE sync.countries /\ e.lists \in Country
    BY <1>2, <1>3, <2>2 DEF Rows
  <2> QED  BY <1>3, <2>1, <2>2 DEF Inserted
<1> QED  BY <1>3 DEF Rivals

LEMMA ConflictSyncKeeps ==
  ASSUME BlocklistInv, NEW s \in Syncer, ConflictSync(s)
  PROVE  BlocklistInv'
<1>1. /\ syncs[s].pc = "delete" /\ syncs[s].todo = <<>> /\ Rivals(s) # {}
      /\ Ended(s, "conflict")
      /\ UNCHANGED <<published, entries, commits, stocked, listed, excused>>
  BY DEF ConflictSync, Persist
<1>2. Typed'
  BY <1>1, EndedIs DEF BlocklistInv, Typed
<1>3. (DeletesToReplace(syncs[s]) /\ FoundListed(syncs[s], listed) /\ SeesAll(s))'
  <2>1. syncs'[s] = IdleSync
    BY <1>1 DEF Ended
  <2> QED  BY <2>1, IdleFine DEF SeesAll, IdleSync
<1>4. ASSUME NEW t \in Syncer, t # s
      PROVE  (DeletesToReplace(syncs[t]) /\ FoundListed(syncs[t], listed) /\ SeesAll(t))'
  <2>1. /\ syncs'[t].pc = syncs[t].pc /\ syncs'[t].crypto = syncs[t].crypto
        /\ syncs'[t].countries = syncs[t].countries /\ syncs'[t].found = syncs[t].found
        /\ syncs'[t].todo = syncs[t].todo /\ syncs'[t].snap = syncs[t].snap
        /\ syncs'[t].gone = syncs[t].gone /\ syncs'[t].missing = syncs[t].missing
        /\ syncs'[t].alone = syncs[t].alone
        /\ syncs'[t].stale = FALSE => syncs[t].stale = FALSE
        /\ Busy(t)' \subseteq Busy(t)
    <3>1. syncs[s].pc # "idle"
      BY <1>1
    <3>2. \A u \in Syncer : u # s => Carried(syncs'[u], syncs[u], "conflict")
      BY <1>1, <3>1, EndedIs
    <3>3. Busy(t)' \subseteq Busy(t)
      BY <1>1, <3>1, EndedIs
    <3> QED  BY <1>4, <3>2, <3>3 DEF Carried
  <2>2. entries' = entries /\ listed' \subseteq listed
    BY <1>1
  <2> QED  BY <2>1, <2>2, Bystander
<1>5. ~syncs[s].alone
  BY <1>1, AloneHasNoRivals
<1>6. ConflictsAreOverlaps'
  BY <1>1, <1>5 DEF Ended, ConflictsAreOverlaps
<1>7. (PublishedStaysBlocked /\ OutageKeepsList)'
  BY <1>1 DEF BlocklistInv, PublishedStaysBlocked, OutageKeepsList, Blocked, Rows
<1> QED  BY <1>2, <1>3, <1>4, <1>6, <1>7 DEF BlocklistInv, SyncsInv

\* What a commit drops of the listed wallets was dropped by one that is stale, or misses the list.
LEMMA CommitKeepsListed ==
  ASSUME BlocklistInv, NEW s \in Syncer, CommitSync(s)
  PROVE  PublishedStaysBlocked'
<1> DEFINE sync == syncs[s]
<1>1. /\ sync \in Sync /\ sync.pc = "delete" /\ DeletesToReplace(sync) /\ FoundListed(sync, listed)
      /\ PublishedStaysBlocked /\ sync.found \subseteq Wallet
  BY DEF CommitSync, Persist, BlocklistInv, Typed, SyncsInv, Sync
<1>2. /\ entries' = (entries \ sync.gone)
                    \cup {[lists |-> v, made |-> commits'] : v \in Inserted(sync)}
      /\ listed' \subseteq listed \cup Inserted(sync)
      /\ excused' = (excused \cup {w \in listed : sync.stale \/ AssetOf[w] \in sync.missing})
                    \ Blocked'
  BY DEF CommitSync
<1>3. Inserted(sync) \subseteq Blocked'
  <2> SUFFICES ASSUME NEW v \in Inserted(sync)  PROVE v \in Blocked'
    OBVIOUS
  <2>1. [lists |-> v, made |-> commits'] \in entries'
    BY <1>2
  <2> QED  BY <2>1 DEF Blocked
<1>4. ASSUME NEW w \in listed, w \notin Blocked'  PROVE w \in excused'
  <2>1. CASE w \in excused
    BY <1>2, <1>4, <2>1
  <2>2. CASE w \in Blocked
    <3>1. PICK e \in entries : e.lists = w
      BY <2>2 DEF Blocked
    <3>2. e \in sync.gone
      BY <1>2, <1>4, <3>1 DEF Blocked
    <3>3. w \in Wallet /\ Replaces(sync)
      BY <1>1, <3>1, <3>2 DEF DeletesToReplace, BlocklistInv, Typed
    <3>4. w \notin sync.found
      BY <1>3, <1>4, <3>3 DEF Inserted, Replaces
    <3>5. sync.stale \/ AssetOf[w] \in sync.missing
      BY <1>1, <3>3, <3>4 DEF FoundListed
    <3> QED  BY <1>2, <1>4, <3>5
  <2> QED  BY <1>1, <2>1, <2>2 DEF PublishedStaysBlocked
<1> QED  BY <1>2, <1>3, <1>4 DEF PublishedStaysBlocked

\* A commit that deletes wallets inserts some.
LEMMA CommitKeepsSome ==
  ASSUME BlocklistInv, NEW s \in Syncer, CommitSync(s)
  PROVE  OutageKeepsList'
<1> DEFINE sync == syncs[s]
<1>1. /\ sync \in Sync /\ DeletesToReplace(sync) /\ OutageKeepsList
  BY DEF BlocklistInv, Typed, SyncsInv
<1>2. /\ entries' = (entries \ sync.gone)
                    \cup {[lists |-> v, made |-> commits'] : v \in Inserted(sync)}
      /\ stocked' = (stocked \/ Inserted(sync) \cap Wallet # {})
  BY DEF CommitSync
<1>3. CASE Inserted(sync) \cap Wallet # {}
  <2>1. PICK v \in Inserted(sync) : v \in Wallet
    BY <1>3
  <2>2. [lists |-> v, made |-> commits'] \in entries'
    BY <1>2
  <2> QED  BY <2>1, <2>2 DEF OutageKeepsList, Rows
<1>4. CASE Inserted(sync) \cap Wallet = {} /\ stocked
  <2>1. PICK e \in entries : e.lists \in Wallet
    BY <1>1, <1>4 DEF OutageKeepsList, Rows
  <2>2. e \notin sync.gone
    BY <1>1, <1>4, <2>1 DEF DeletesToReplace, Replaces, Inserted, Sync
  <2> QED  BY <1>2, <2>1, <2>2 DEF OutageKeepsList, Rows
<1>5. CASE Inserted(sync) \cap Wallet = {} /\ ~stocked
  BY <1>2, <1>5 DEF OutageKeepsList
<1> QED  BY <1>3, <1>4, <1>5

LEMMA CommitSyncKeeps ==
  ASSUME BlocklistInv, NEW s \in Syncer, CommitSync(s)
  PROVE  BlocklistInv'
<1> DEFINE sync == syncs[s]
           said == IF sync.failed THEN "fetch failed" ELSE "ok"
<1>1. sync \in Sync /\ sync.pc = "delete" /\ Ended(s, said) /\ said # "conflict"
  BY DEF CommitSync, Persist, BlocklistInv, Typed
<1> HIDE DEF said
<1>2. Typed'
  <2>1. Inserted(sync) \subseteq Wallet \cup Country
    BY <1>1 DEF Inserted, Sync
  <2>2. commits' \in Nat /\ entries' \in SUBSET Row
    <3>1. commits' = commits + 1 /\ commits \in Nat /\ entries \in SUBSET Row
      BY DEF CommitSync, BlocklistInv, Typed
    <3>2. entries' = (entries \ sync.gone)
                     \cup {[lists |-> v, made |-> commits'] : v \in Inserted(sync)}
      BY DEF CommitSync
    <3>3. commits' \in Nat
      BY <3>1
    <3>4. ASSUME NEW v \in Inserted(sync)  PROVE [lists |-> v, made |-> commits'] \in Row
      BY <2>1, <3>3 DEF Row
    <3> QED  BY <3>1, <3>2, <3>3, <3>4
  <2>3. listed' \in SUBSET published' /\ published' \in SUBSET Wallet /\ stocked' \in BOOLEAN
    BY DEF CommitSync, BlocklistInv, Typed
  <2> QED  BY <1>1, <2>2, <2>3, EndedIs DEF Typed
<1>3. (DeletesToReplace(syncs[s]) /\ FoundListed(syncs[s], listed) /\ SeesAll(s))'
  <2>1. syncs'[s] = IdleSync
    BY <1>1 DEF Ended
  <2> QED  BY <2>1, IdleFine DEF SeesAll, IdleSync
<1>4. ASSUME NEW t \in Syncer, t # s
      PROVE  (DeletesToReplace(syncs[t]) /\ FoundListed(syncs[t], listed) /\ SeesAll(t))'
  <2> DEFINE was == syncs[t]
             is == syncs'[t]
  <2>0. /\ syncs'[t].pc = syncs[t].pc /\ syncs'[t].crypto = syncs[t].crypto
        /\ syncs'[t].found = syncs[t].found /\ syncs'[t].todo = syncs[t].todo
        /\ syncs'[t].snap = syncs[t].snap /\ syncs'[t].gone = syncs[t].gone
        /\ syncs'[t].alone = syncs[t].alone
        /\ syncs'[t].stale = FALSE => said = "conflict" \/ syncs[t].pc = "fetch"
        /\ syncs' \in [Syncer -> Sync]
    <3>1. syncs[s].pc # "idle"
      BY <1>1
    <3>2. \A u \in Syncer : u # s => Carried(syncs'[u], syncs[u], said)
      BY <1>1, <3>1, EndedIs
    <3>3. syncs' \in [Syncer -> Sync]
      BY <1>1, <3>1, EndedIs
    <3> QED  BY <1>4, <3>2, <3>3 DEF Carried
  <2>1. /\ is.pc = was.pc /\ is.crypto = was.crypto /\ is.found = was.found
        /\ is.todo = was.todo /\ is.snap = was.snap /\ is.gone = was.gone
        /\ is.alone = was.alone
        /\ is.stale = FALSE => was.pc = "fetch"
        /\ is \in Sync
    BY <1>1, <2>0
  <2>2. DeletesToReplace(was) /\ SeesAll(t)
    BY DEF BlocklistInv, SyncsInv
  <2>3. DeletesToReplace(is)
    BY <2>1, <2>2 DEF DeletesToReplace, Replaces, WalletsLeft
  <2>4. FoundListed(is, listed')
    BY <2>1 DEF FoundListed, Sync
  <2>5. is.alone => is.pc = "idle"
    <3>1. s \in Busy(t)
      BY <1>1, <1>4 DEF Busy
    <3> QED  BY <2>1, <2>2, <3>1 DEF SeesAll
  <2>6. SeesAll(t)'
    BY <2>5 DEF SeesAll
  <2> QED  BY <2>3, <2>4, <2>6
<1>5. ConflictsAreOverlaps'
  BY <1>1 DEF Ended, ConflictsAreOverlaps
<1> QED
  BY <1>2, <1>3, <1>4, <1>5, CommitKeepsListed, CommitKeepsSome DEF BlocklistInv, SyncsInv

-----------------------------------------------------------------------------
\* The invariant is one of the specification.
LEMMA StepKeeps == BlocklistInv /\ [BlocklistNext]_blocklistVars => BlocklistInv'
<1> SUFFICES ASSUME BlocklistInv, [BlocklistNext]_blocklistVars  PROVE BlocklistInv'
  OBVIOUS
<1>1. ASSUME NEW w \in Wallet, Publish(w)  PROVE BlocklistInv'
  BY <1>1, PublishKeeps
<1>2. ASSUME NEW s \in Syncer, NEW crypto \in BOOLEAN, NEW countries \in BOOLEAN,
             BeginSync(s, crypto, countries)
      PROVE  BlocklistInv'
  BY <1>2, BeginSyncKeeps
<1>3. ASSUME NEW s \in Syncer, Fetch(s)  PROVE BlocklistInv'
  BY <1>3, FetchKeeps
<1>4. ASSUME NEW s \in Syncer, StartDelete(s)  PROVE BlocklistInv'
  BY <1>4, StartDeleteKeeps
<1>5. ASSUME NEW s \in Syncer, FinishDelete(s)  PROVE BlocklistInv'
  BY <1>5, FinishDeleteKeeps
<1>6. ASSUME NEW s \in Syncer, CommitSync(s)  PROVE BlocklistInv'
  BY <1>6, CommitSyncKeeps
<1>7. ASSUME NEW s \in Syncer, ConflictSync(s)  PROVE BlocklistInv'
  BY <1>7, ConflictSyncKeeps
<1>8. ASSUME NEW s \in Syncer, FailSync(s)  PROVE BlocklistInv'
  BY <1>8, FailSyncKeeps
<1>9. CASE UNCHANGED blocklistVars
  <2>1. UNCHANGED <<Listable, Rows(Wallet), Rows(Country), Blocked>>
    BY <1>9 DEF Listable, Rows, Blocked, blocklistVars
  <2>2. \A s \in Syncer : Busy(s)' = Busy(s)
    BY <1>9 DEF Busy, blocklistVars
  <2>3. SyncsInv'
    BY <1>9, <2>1, <2>2
    DEF BlocklistInv, SyncsInv, SeesAll, blocklistVars
  <2> QED
    BY <1>9, <2>1, <2>3
    DEF BlocklistInv, Typed, PublishedStaysBlocked, OutageKeepsList, ConflictsAreOverlaps,
        blocklistVars
<1> QED
  BY <1>1, <1>2, <1>3, <1>4, <1>5, <1>6, <1>7, <1>8, <1>9 DEF BlocklistNext

LEMMA BlocklistAlways == BlocklistSpec => []BlocklistInv
  BY BlocklistStarts, StepKeeps, PTL DEF BlocklistSpec

\* A listed wallet stays blocked while it is published, but for what a stale commit or a missing
\* list drops, and no outage or overlap empties the list of wallets once it had some
\* (_persist_ofac_sync, for any number of synchronisations at once).
THEOREM ListedStayBlocked == BlocklistSpec => []ListKept
<1>1. BlocklistInv => ListKept
  BY DEF BlocklistInv, ListKept
<1> QED  BY <1>1, BlocklistAlways, PTL

\* Only synchronisations that overlap conflict on the unique constraint of the entries.
THEOREM OnlyOverlapsConflict == BlocklistSpec => []ConflictsAreOverlaps
<1>1. BlocklistInv => ConflictsAreOverlaps
  BY DEF BlocklistInv
<1> QED  BY <1>1, BlocklistAlways, PTL

-----------------------------------------------------------------------------
\* Lookups of an address.  A result that no longer says what is so was decided before it changed: it
\* can be wrong on its way to the cache only in the instant of the change, and it leaves the cache,
\* and the last lookup that used it began, within the time results are kept after it.
LookupTask == [at : {"idle", "primary", "fallback", "store", "answered"},
               result : IpResult \cup {Nothing}, began : Nat]

IpTyped ==
  /\ instant \in Nat
  /\ anonymous \in [is : BOOLEAN, since : Nat]
  /\ ipIntel \in [enabled : BOOLEAN, failOpen : BOOLEAN, ttl : CacheTtl, since : Nat]
  /\ cache \in [result : IpResult, until : Nat] \cup {Nothing}
  /\ lookups \in [Lookup -> LookupTask]
  /\ \A l \in Lookup : lookups[l].at \in {"store", "answered"} => lookups[l].result \in IpResult

\* What a provider said of the address and is not so, and an outage taken for a clean address,
\* which the configuration does not want.
WrongOfAddress(result) ==
  ~result.slow /\ result.provider \in Answers /\ result.risky # anonymous.is

WrongOfOutage(result) ==
  /\ ~result.slow /\ result.provider \in Failures \ {"ippriv failed"} /\ ~result.risky
  /\ ~ipIntel.failOpen

\* Of a wrong result, where it is, and since when it has been wrong.
AddressSince ==
  /\ cache # Nothing /\ WrongOfAddress(cache.result) => cache.until <= anonymous.since + LongestTtl
  /\ \A l \in Lookup :
       /\ lookups[l].at = "store" /\ WrongOfAddress(lookups[l].result) => anonymous.since = instant
       /\ lookups[l].at = "answered" /\ WrongOfAddress(lookups[l].result) =>
            lookups[l].began < anonymous.since + LongestTtl

OutageSince ==
  /\ cache # Nothing /\ WrongOfOutage(cache.result) => cache.until <= ipIntel.since + LongestTtl
  /\ \A l \in Lookup :
       /\ lookups[l].at = "store" /\ WrongOfOutage(lookups[l].result) => ipIntel.since = instant
       /\ lookups[l].at = "answered" /\ WrongOfOutage(lookups[l].result) =>
            lookups[l].began < ipIntel.since + LongestTtl

\* The clock: nothing began or changed later than now; what is cached is kept for a time.
Clocked ==
  /\ anonymous.since <= instant /\ ipIntel.since <= instant
  /\ cache # Nothing => instant < cache.until /\ cache.until <= instant + LongestTtl
  /\ \A l \in Lookup : lookups[l].began <= instant

IpInv ==
  /\ IpTyped /\ Clocked
  /\ AddressSince /\ OutageSince

LEMMA ResultTyped ==
  ASSUME NEW provider \in Answers \cup Failures \cup {"disabled"}, NEW risky \in BOOLEAN
  PROVE  /\ Result(provider, risky) \in IpResult
         /\ Result(provider, risky).provider = provider /\ Result(provider, risky).risky = risky
         /\ Result(provider, risky).slow = FALSE
  BY DEF Result, IpResult

LEMMA TtlPositive ==
  \A ttl \in CacheTtl : ttl \in Nat /\ 1 <= ttl /\ ttl <= LongestTtl /\ LongestTtl \in Nat
  BY IpAssumption

LEMMA IpInitially == IpInit => IpInv
<1> SUFFICES ASSUME IpInit PROVE IpInv
  OBVIOUS
<1>1. IpTyped
  <2>1. IdleLookup \in LookupTask /\ IdleLookup.at = "idle"
    BY DEF LookupTask, IdleLookup
  <2>2. lookups \in [Lookup -> LookupTask] /\ \A l \in Lookup : lookups[l].at = "idle"
    BY <2>1 DEF IpInit
  <2>3. anonymous \in [is : BOOLEAN, since : Nat]
    BY DEF IpInit
  <2>4. ipIntel \in [enabled : BOOLEAN, failOpen : BOOLEAN, ttl : CacheTtl, since : Nat]
    <3>1. /\ ipIntel = [enabled |-> ipIntel.enabled, failOpen |-> ipIntel.failOpen,
                        ttl |-> ipIntel.ttl, since |-> ipIntel.since]
          /\ ipIntel.enabled \in {TRUE} /\ ipIntel.failOpen \in BOOLEAN
          /\ ipIntel.ttl \in CacheTtl /\ ipIntel.since \in {0}
      BY Zenon DEF IpInit
    <3>2. {TRUE} \subseteq BOOLEAN /\ 0 \in Nat
      BY Zenon, 0 \in Nat
    <3>3. ipIntel.enabled \in BOOLEAN
      BY <3>1, <3>2, Zenon
    <3>4. ipIntel.since \in Nat
      BY <3>1
    <3> QED BY <3>1, <3>3, <3>4, Zenon
  <2> QED BY <2>2, <2>3, <2>4 DEF IpInit, IpTyped
<1>2. \A l \in Lookup : lookups[l].at = "idle" /\ lookups[l].began = 0
  BY DEF IpInit, IdleLookup
<1> QED BY <1>1, <1>2 DEF IpInit, IpInv, Clocked, AddressSince, OutageSince

\* What a step leaves to show of one lookup that moved on to k.
LEMMA LookupMoves ==
  ASSUME IpInv, NEW l \in Lookup, NEW k \in LookupTask, lookups' = [lookups EXCEPT ![l] = k],
         UNCHANGED <<instant, anonymous, ipIntel>>,
         k.at \in {"store", "answered"} => k.result \in IpResult,
         k.began <= instant,
         k.at = "store" /\ WrongOfAddress(k.result) => anonymous.since = instant,
         k.at = "store" /\ WrongOfOutage(k.result) => ipIntel.since = instant,
         k.at = "answered" /\ WrongOfAddress(k.result) => k.began < anonymous.since + LongestTtl,
         k.at = "answered" /\ WrongOfOutage(k.result) => k.began < ipIntel.since + LongestTtl,
         \/ cache' = cache
         \/ /\ cache' \in [result : IpResult, until : Nat]
            /\ instant < cache'.until /\ cache'.until <= instant + LongestTtl
            /\ WrongOfAddress(cache'.result) => anonymous.since = instant
            /\ WrongOfOutage(cache'.result) => ipIntel.since = instant
  PROVE  IpInv'
<1>1. \A m \in Lookup : lookups'[m] = IF m = l THEN k ELSE lookups[m]
  BY DEF IpInv, IpTyped
<1>2. IpTyped'
  BY <1>1 DEF IpInv, IpTyped
<1>3. Clocked'
  BY <1>1 DEF IpInv, IpTyped, Clocked
<1>4. AddressSince'
  BY <1>1 DEF IpInv, IpTyped, Clocked, AddressSince, WrongOfAddress
<1>5. OutageSince'
  BY <1>1 DEF IpInv, IpTyped, Clocked, OutageSince, WrongOfOutage
<1> QED BY <1>2, <1>3, <1>4, <1>5 DEF IpInv

LEMMA BeginLookupKeeps ==
  ASSUME IpInv, NEW l \in Lookup, BeginLookup(l)
  PROVE  IpInv'
<1> DEFINE k == [began |-> instant,
                 at |-> IF ~ipIntel.enabled \/ cache # Nothing THEN "answered" ELSE "primary",
                 result |-> IF ~ipIntel.enabled THEN Result("disabled", FALSE)
                            ELSE IF cache # Nothing THEN cache.result ELSE Nothing]
<1>1. lookups' = [lookups EXCEPT ![l] = k] /\ cache' = cache
      /\ UNCHANGED <<instant, anonymous, ipIntel>>
  BY DEF BeginLookup, BeginWith
<1>2. Result("disabled", FALSE) \in IpResult /\ Result("disabled", FALSE).provider = "disabled"
  BY ResultTyped
<1>3. cache # Nothing => cache.result \in IpResult /\ cache.until \in Nat
  BY DEF IpInv, IpTyped
<1>4. /\ ~ipIntel.enabled =>
           k = [began |-> instant, at |-> "answered", result |-> Result("disabled", FALSE)]
      /\ ipIntel.enabled /\ cache # Nothing =>
           k = [began |-> instant, at |-> "answered", result |-> cache.result]
      /\ ipIntel.enabled /\ cache = Nothing =>
           k = [began |-> instant, at |-> "primary", result |-> Nothing]
  OBVIOUS
<1> HIDE DEF k
<1>5. instant \in Nat /\ anonymous.since \in Nat /\ ipIntel.since \in Nat /\ LongestTtl \in Nat
  BY IpAssumption DEF IpInv, IpTyped
<1>6. /\ k \in LookupTask /\ k.began = instant /\ k.at # "store"
      /\ k.at = "answered" =>
           \/ k.result = Result("disabled", FALSE)
           \/ cache # Nothing /\ k.result = cache.result
  <2>1. CASE ~ipIntel.enabled
    <3>1. k = [began |-> instant, at |-> "answered", result |-> Result("disabled", FALSE)]
      BY <1>4, <2>1, Zenon
    <3> QED BY <1>2, <1>5, <2>1, <3>1 DEF LookupTask
  <2>2. CASE ipIntel.enabled /\ cache # Nothing
    <3>1. k = [began |-> instant, at |-> "answered", result |-> cache.result]
      BY <1>4, <2>2, Zenon
    <3> QED BY <1>3, <1>5, <2>2, <3>1 DEF LookupTask
  <2>3. CASE ipIntel.enabled /\ cache = Nothing
    <3>1. k = [began |-> instant, at |-> "primary", result |-> Nothing]
      BY <1>4, <2>3, Zenon
    <3> QED BY <1>5, <2>3, <3>1 DEF LookupTask
  <2> QED BY <2>1, <2>2, <2>3
<1>7. k.at \in {"store", "answered"} => k.result \in IpResult
  BY <1>2, <1>3, <1>6
<1>8. k.at = "answered" /\ WrongOfAddress(k.result) => k.began < anonymous.since + LongestTtl
  <2>1. ~WrongOfAddress(Result("disabled", FALSE))
    BY <1>2 DEF WrongOfAddress, Answers
  <2> SUFFICES ASSUME k.at = "answered", WrongOfAddress(k.result)
               PROVE  k.began < anonymous.since + LongestTtl
    OBVIOUS
  <2>2. cache # Nothing /\ WrongOfAddress(cache.result)
    BY <1>6, <2>1
  <2>3. instant < cache.until /\ cache.until <= anonymous.since + LongestTtl
    BY <2>2 DEF IpInv, Clocked, AddressSince
  <2> QED BY <1>3, <1>6, <1>5, <2>2, <2>3
<1>9. k.at = "answered" /\ WrongOfOutage(k.result) => k.began < ipIntel.since + LongestTtl
  <2>1. ~WrongOfOutage(Result("disabled", FALSE))
    BY <1>2 DEF WrongOfOutage, Failures
  <2> SUFFICES ASSUME k.at = "answered", WrongOfOutage(k.result)
               PROVE  k.began < ipIntel.since + LongestTtl
    OBVIOUS
  <2>2. cache # Nothing /\ WrongOfOutage(cache.result)
    BY <1>6, <2>1
  <2>3. instant < cache.until /\ cache.until <= ipIntel.since + LongestTtl
    BY <2>2 DEF IpInv, Clocked, OutageSince
  <2> QED BY <1>3, <1>6, <1>5, <2>2, <2>3
<1>10. k.began <= instant
  BY <1>6, <1>5
<1> QED BY <1>1, <1>6, <1>7, <1>8, <1>9, <1>10, LookupMoves

\* A result comes to a lookup in the instant it is decided: what it says is so, and only a
\* configuration that fails open takes an outage for a clean address.
LEMMA AnswerTrue ==
  ASSUME IpInv, NEW l \in Lookup, NEW result, GoOn(l, "store", result),
         UNCHANGED <<instant, anonymous, ipIntel, cache>>,
         \/ result \in {Result("ip-api", anonymous.is), Result("ippriv", anonymous.is)}
         \/ result = Result("ippriv failed", FALSE) \/ result = FallbackRaises
  PROVE  IpInv'
<1> DEFINE k == [lookups[l] EXCEPT !.at = "store", !.result = result]
<1>1. lookups[l] \in LookupTask /\ anonymous.is \in BOOLEAN /\ ipIntel.failOpen \in BOOLEAN
  BY DEF IpInv, IpTyped
<1>2. /\ result \in IpResult /\ ~WrongOfAddress(result) /\ ~WrongOfOutage(result)
  <2>1. CASE result \in {Result("ip-api", anonymous.is), Result("ippriv", anonymous.is)}
    <3>1. /\ result \in IpResult /\ result.risky = anonymous.is
          /\ result.provider \in {"ip-api", "ippriv"}
      <4>1. CASE result = Result("ip-api", anonymous.is)
        BY <1>1, <4>1, ResultTyped DEF Answers
      <4>2. CASE result = Result("ippriv", anonymous.is)
        BY <1>1, <4>2, ResultTyped DEF Answers
      <4> QED BY <2>1, <4>1, <4>2
    <3> QED BY <3>1 DEF WrongOfAddress, WrongOfOutage, Failures
  <2>2. CASE result = Result("ippriv failed", FALSE)
    <3>1. result \in IpResult /\ result.provider = "ippriv failed"
      BY <2>2, ResultTyped DEF Failures
    <3> QED BY <3>1 DEF WrongOfAddress, WrongOfOutage, Answers
  <2>3. CASE result = FallbackRaises
    <3>1. /\ result \in IpResult
          /\ result.provider \in {"fail_open", "fail_closed"}
          /\ result.risky = ~ipIntel.failOpen
      BY <1>1, <2>3, ResultTyped DEF FallbackRaises, Failures
    <3> QED BY <3>1 DEF WrongOfAddress, WrongOfOutage, Answers
  <2> QED BY <2>1, <2>2, <2>3
<1>3. lookups' = [lookups EXCEPT ![l] = k]
  BY DEF GoOn, IpInv, IpTyped
<1>4. k \in LookupTask /\ k.at = "store" /\ k.result = result /\ k.began = lookups[l].began
  BY <1>1, <1>2 DEF LookupTask
<1> HIDE DEF k
<1>5. k.began <= instant
  BY <1>4 DEF IpInv, Clocked
<1> QED BY <1>2, <1>3, <1>4, <1>5, LookupMoves

LEMMA AskPrimaryKeeps ==
  ASSUME IpInv, NEW l \in Lookup, AskPrimary(l)
  PROVE  IpInv'
<1>1. CASE GoOn(l, "store", Result("ip-api", anonymous.is))
  BY <1>1, AnswerTrue DEF AskPrimary
<1>2. CASE GoOn(l, "fallback", Nothing)
  <2> DEFINE k == [lookups[l] EXCEPT !.at = "fallback", !.result = Nothing]
  <2>1. lookups[l] \in LookupTask
    BY DEF IpInv, IpTyped
  <2>2. lookups' = [lookups EXCEPT ![l] = k]
    BY <1>2 DEF GoOn, IpInv, IpTyped
  <2>3. k \in LookupTask /\ k.at = "fallback" /\ k.began = lookups[l].began
    BY <2>1 DEF LookupTask
  <2> HIDE DEF k
  <2>4. k.began <= instant
    BY <2>3 DEF IpInv, Clocked
  <2> QED BY <2>2, <2>3, <2>4, LookupMoves DEF AskPrimary
<1> QED BY <1>1, <1>2 DEF AskPrimary

LEMMA StoreKeeps ==
  ASSUME IpInv, NEW l \in Lookup, StoreResult(l)
  PROVE  IpInv'
<1> DEFINE k == [lookups[l] EXCEPT !.at = "answered", !.result = lookups[l].result]
           r == lookups[l].result
<1>1. lookups[l] \in LookupTask /\ r \in IpResult /\ lookups[l].began <= instant
  BY DEF StoreResult, IpInv, IpTyped, Clocked
<1>2. lookups' = [lookups EXCEPT ![l] = k]
  BY DEF StoreResult, GoOn, IpInv, IpTyped
<1>3. k \in LookupTask /\ k.at = "answered" /\ k.result = r /\ k.began = lookups[l].began
  BY <1>1 DEF LookupTask
<1>4. ipIntel.ttl \in Nat /\ 1 <= ipIntel.ttl /\ ipIntel.ttl <= LongestTtl /\ LongestTtl \in Nat
  BY TtlPositive DEF IpInv, IpTyped
<1>5. /\ WrongOfAddress(r) => anonymous.since = instant
      /\ WrongOfOutage(r) => ipIntel.since = instant
  BY DEF StoreResult, IpInv, AddressSince, OutageSince
<1>6. cache' = [result |-> r, until |-> instant + ipIntel.ttl]
      /\ UNCHANGED <<instant, anonymous, ipIntel>>
  BY DEF StoreResult
<1>7. instant \in Nat /\ k.began \in Nat
  BY <1>3 DEF IpInv, IpTyped, LookupTask
<1> HIDE DEF k, r
<1>8. /\ cache' \in [result : IpResult, until : Nat] /\ cache'.result = r
      /\ instant < cache'.until /\ cache'.until <= instant + LongestTtl
  BY <1>1, <1>4, <1>6, <1>7
<1>9. /\ WrongOfAddress(r) => k.began < anonymous.since + LongestTtl
      /\ WrongOfOutage(r) => k.began < ipIntel.since + LongestTtl
  BY <1>1, <1>3, <1>4, <1>5, <1>7
<1> QED BY <1>1, <1>2, <1>3, <1>5, <1>6, <1>8, <1>9, LookupMoves

\* Time passes: what has been slow to be cached, and what has run out, counts no more.
LEMMA IpTickKeeps ==
  ASSUME IpInv, TickInstant
  PROVE  IpInv'
<1>1. instant \in Nat /\ instant' = instant + 1 /\ UNCHANGED <<anonymous, ipIntel>>
      /\ LongestTtl \in Nat
  BY IpAssumption DEF IpInv, IpTyped, TickInstant
<1>2. \/ cache' = cache /\ (cache # Nothing => instant' < cache.until)
      \/ cache' = Nothing
  BY <1>1 DEF TickInstant, IpInv, IpTyped
<1>3. \A l \in Lookup :
        /\ lookups[l].at = "store" => lookups'[l] = [lookups[l] EXCEPT !.result.slow = TRUE]
        /\ lookups[l].at = "answered" => lookups'[l] = IdleLookup
        /\ lookups[l].at \notin {"store", "answered"} => lookups'[l] = lookups[l]
  BY DEF TickInstant
<1>4. ASSUME NEW l \in Lookup
      PROVE  /\ lookups'[l] \in LookupTask /\ lookups'[l].began <= instant'
             /\ lookups'[l].at # "answered"
             /\ lookups'[l].at = "store" =>
                  lookups'[l].result \in IpResult /\ lookups'[l].result.slow
  <2>1. lookups[l] \in LookupTask /\ lookups[l].began <= instant
    BY DEF IpInv, IpTyped, Clocked
  <2>2. CASE lookups[l].at = "store"
    <3> DEFINE r == [lookups[l].result EXCEPT !.slow = TRUE]
    <3>1. lookups[l].result \in IpResult
      BY <2>2 DEF IpInv, IpTyped
    <3>2. r \in IpResult /\ r.slow = TRUE
      BY <3>1 DEF IpResult
    <3>3. lookups'[l] = [lookups[l] EXCEPT !.result = r]
      BY <1>3, <2>2
    <3> HIDE DEF r
    <3> QED BY <1>1, <2>1, <2>2, <3>2, <3>3 DEF LookupTask
  <2>3. CASE lookups[l].at = "answered"
    <3>1. lookups'[l] = IdleLookup
      BY <1>3, <2>3
    <3>2. IdleLookup \in LookupTask /\ IdleLookup.at = "idle" /\ IdleLookup.began = 0
      BY DEF IdleLookup, LookupTask
    <3> QED BY <1>1, <3>1, <3>2
  <2>4. CASE lookups[l].at \notin {"store", "answered"}
    <3>1. lookups'[l] = lookups[l]
      BY <1>3, <2>4
    <3>2. lookups[l].began \in Nat
      BY <2>1 DEF LookupTask
    <3> QED BY <1>1, <2>1, <2>4, <3>1, <3>2
  <2> QED BY <2>2, <2>3, <2>4
<1>5. lookups' \in [Lookup -> LookupTask]
  <2>1. lookups' = [l \in Lookup |-> lookups'[l]]
    BY DEF TickInstant
  <2> QED BY <1>4, <2>1
<1>6. IpTyped'
  BY <1>1, <1>2, <1>4, <1>5 DEF IpInv, IpTyped
<1>7. Clocked'
  BY <1>1, <1>2, <1>4 DEF IpInv, IpTyped, Clocked
<1>8. AddressSince'
  BY <1>1, <1>2, <1>4 DEF IpInv, AddressSince, WrongOfAddress
<1>9. OutageSince'
  BY <1>1, <1>2, <1>4 DEF IpInv, OutageSince, WrongOfOutage
<1> QED BY <1>6, <1>7, <1>8, <1>9 DEF IpInv

\* The address or the configuration changes: a result may be wrong from now on.
LEMMA ChangeKeeps ==
  ASSUME IpInv,
         \/ ChangeHands
         \/ \E enabled, failOpen \in BOOLEAN, ttl \in CacheTtl :
              ChangeIpIntel(enabled, failOpen, ttl)
  PROVE  IpInv'
<1>1. instant \in Nat /\ UNCHANGED <<instant, cache, lookups>> /\ LongestTtl \in Nat
  BY IpAssumption DEF ChangeHands, ChangeIpIntel, IpInv, IpTyped
<1>2. /\ \A l \in Lookup : lookups[l].began \in Nat /\ lookups[l].began < instant + LongestTtl
      /\ cache # Nothing => cache.until \in Nat /\ cache.until <= instant + LongestTtl
  <2>1. \A l \in Lookup : lookups[l].began \in Nat /\ lookups[l].began <= instant
    BY DEF IpInv, IpTyped, LookupTask, Clocked
  <2>2. LongestTtl >= 1
    BY TtlPositive DEF IpInv, IpTyped
  <2> QED BY <1>1, <2>1, <2>2 DEF IpInv, IpTyped, Clocked
<1>3. /\ anonymous' \in [is : BOOLEAN, since : Nat]
      /\ anonymous' = anonymous \/ anonymous'.since = instant
  <2>1. CASE ChangeHands
    <3>1. anonymous' = [is |-> ~anonymous.is, since |-> instant]
      BY <2>1 DEF ChangeHands
    <3>2. (~anonymous.is) \in BOOLEAN
      BY Zenon
    <3> QED BY <1>1, <3>1, <3>2
  <2>2. CASE \E enabled, failOpen \in BOOLEAN, ttl \in CacheTtl :
               ChangeIpIntel(enabled, failOpen, ttl)
    <3>1. anonymous' = anonymous
      BY <2>2 DEF ChangeIpIntel
    <3> QED BY <3>1 DEF IpInv, IpTyped
  <2> QED BY <2>1, <2>2
<1>4. /\ ipIntel' \in [enabled : BOOLEAN, failOpen : BOOLEAN, ttl : CacheTtl, since : Nat]
      /\ \/ ipIntel'.since = instant
         \/ ipIntel'.since = ipIntel.since /\ ipIntel'.failOpen = ipIntel.failOpen
  <2>1. CASE ChangeHands
    BY <2>1 DEF ChangeHands, IpInv, IpTyped
  <2>2. ASSUME NEW enabled \in BOOLEAN, NEW failOpen \in BOOLEAN, NEW ttl \in CacheTtl,
               ChangeIpIntel(enabled, failOpen, ttl)
        PROVE  /\ ipIntel' \in [enabled : BOOLEAN, failOpen : BOOLEAN, ttl : CacheTtl, since : Nat]
               /\ \/ ipIntel'.since = instant
                  \/ ipIntel'.since = ipIntel.since /\ ipIntel'.failOpen = ipIntel.failOpen
    BY <1>1, <2>2 DEF ChangeIpIntel, IpInv, IpTyped
  <2> QED BY <2>1, <2>2
<1>5. IpTyped'
  BY <1>1, <1>3, <1>4 DEF IpInv, IpTyped
<1>6. Clocked'
  BY <1>1, <1>3, <1>4 DEF IpInv, IpTyped, Clocked
<1>7. AddressSince'
  BY <1>1, <1>2, <1>3 DEF IpInv, AddressSince, WrongOfAddress
<1>8. OutageSince'
  BY <1>1, <1>2, <1>4 DEF IpInv, OutageSince, WrongOfOutage
<1> QED BY <1>5, <1>6, <1>7, <1>8 DEF IpInv

LEMMA NotBefore == \A a, b, c \in Nat : a >= b + c => ~(a < b + c)
  OBVIOUS

LEMMA IpStep == IpInv /\ [IpNext]_ipVars => IpInv'
<1> SUFFICES ASSUME IpInv, [IpNext]_ipVars PROVE IpInv'
  OBVIOUS
<1>1. CASE UNCHANGED ipVars
  BY <1>1 DEF ipVars, IpInv, IpTyped, Clocked, AddressSince, OutageSince, WrongOfAddress,
              WrongOfOutage
<1>2. ASSUME NEW l \in Lookup, AskFallback(l) PROVE IpInv'
  BY <1>2, AnswerTrue DEF AskFallback
<1> QED BY <1>1, <1>2, BeginLookupKeeps, AskPrimaryKeeps, StoreKeeps, IpTickKeeps, ChangeKeeps
    DEF IpNext

\* An address that changes hands is found out within the time results are kept, however lookups
\* interleave, fail over and share the cache.
THEOREM AddressChangeFoundOut == IpSpec => []ChangeFoundOut
<1>1. IpInv => ChangeFoundOut
  <2> SUFFICES ASSUME IpInv, NEW l \in Lookup, LongAfter(l, anonymous.since),
                      lookups[l].result.provider \in Answers
               PROVE  lookups[l].result.risky = anonymous.is
    BY DEF ChangeFoundOut
  <2>1. lookups[l].began \in Nat /\ anonymous.since \in Nat /\ LongestTtl \in Nat
    BY IpAssumption DEF IpInv, IpTyped, LookupTask
  <2> QED BY <2>1 DEF IpInv, AddressSince, WrongOfAddress, LongAfter
<1> QED BY <1>1, IpInitially, IpStep, PTL DEF IpSpec

\* Once fail_open has been off for that time, no outage is taken for a clean address.
THEOREM OutageIsNotClean == IpSpec => []OutageNotClean
<1>1. IpInv => OutageNotClean
  <2> SUFFICES ASSUME IpInv, NEW l \in Lookup, LongAfter(l, ipIntel.since), ~ipIntel.failOpen,
                      lookups[l].result.provider \in Failures \ {"ippriv failed"}
               PROVE  lookups[l].result.risky
    BY DEF OutageNotClean
  <2>1. lookups[l].began \in Nat /\ ipIntel.since \in Nat /\ LongestTtl \in Nat
    BY IpAssumption DEF IpInv, IpTyped, LookupTask
  <2>2. lookups[l].at = "answered" /\ ~lookups[l].result.slow
        /\ ~(lookups[l].began < ipIntel.since + LongestTtl)
    <3>1. lookups[l].at = "answered" /\ ~lookups[l].result.slow
      BY Zenon DEF LongAfter
    <3>2. lookups[l].began >= ipIntel.since + LongestTtl
      BY DEF LongAfter
    <3>3. ~(lookups[l].began < ipIntel.since + LongestTtl)
      BY <2>1, <3>2, NotBefore, Zenon
    <3> QED BY <3>1, <3>3
  <2>3. ~WrongOfOutage(lookups[l].result)
    BY <2>2 DEF IpInv, OutageSince
  <2> QED BY <2>2, <2>3 DEF WrongOfOutage
<1> QED BY <1>1, IpInitially, IpStep, PTL DEF IpSpec

-----------------------------------------------------------------------------
\* The engines put together.  A step of one is a step of it and of no other.
LEMMA EnginesMove ==
  [EnginesNext]_enginesVars =>
    [RulesNext]_facts /\ [Next]_vars /\ [HedgeNext]_hedgeVars /\ [BlocklistNext]_blocklistVars
    /\ [IpNext]_ipVars
<1> SUFFICES ASSUME [EnginesNext]_enginesVars
             PROVE  /\ [RulesNext]_facts /\ [Next]_vars /\ [HedgeNext]_hedgeVars
                    /\ [BlocklistNext]_blocklistVars /\ [IpNext]_ipVars
  OBVIOUS
<1>1. CASE UNCHANGED enginesVars
  BY <1>1 DEF enginesVars
<1>2. CASE EnginesNext
  BY <1>2 DEF EnginesNext
<1> QED BY <1>1, <1>2

\* The engines and the rules behave together as each does alone: what is proved of one is true of
\* the whole.
THEOREM EnginesImplementParts ==
  EnginesSpec => RulesSpec /\ Spec /\ HedgeSpec /\ BlocklistSpec /\ IpSpec
<1>1. EnginesInit => RulesInit
  <2>1. "player.login" \in EventType
    BY DEF EventType, RegistrationTypes, MoneyTypes, AuthFailureTypes
  <2> QED BY <2>1 DEF EnginesInit, RulesInit
<1>2. EnginesInit => Init /\ HedgeInit /\ BlocklistInit /\ IpInit
  BY DEF EnginesInit
<1> QED BY <1>1, <1>2, EnginesMove, PTL
        DEF EnginesSpec, RulesSpec, Spec, HedgeSpec, BlocklistSpec, IpSpec

\* Each key of the two stores keeps its kind of value, for any number of evaluations, events and bets.
THEOREM EnginesTypesHold == EnginesSpec => []EnginesTypeOK
  BY EnginesImplementParts, VelocityTyped, HedgeTyped, PTL DEF EnginesTypeOK
=============================================================================
