----------------------------- MODULE HedgeProofs -----------------------------
(***************************************************************************)
(* Of HedgeBetting, for any number of evaluations, bets and rounds: the    *)
(* verdicts are right, every hedged round is counted, and every statistic  *)
(* expires, but for the exceptions the properties name.                    *)
(***************************************************************************)
EXTENDS HedgeBetting, FiniteSetTheorems, TLAPS

LEMMA IdleTyped == IdleBet \in BetTask
<1>1. NoBets \in Amounts
  BY DEF NoBets, Amounts
<1>2. (CHOOSE b \in Bet : TRUE) \in Bet
  BY HedgeAssumption
<1> QED
  BY <1>1, <1>2 DEF IdleBet, BetTask, HedgePhase, Stat

LEMMA StartTyped ==
  ASSUME NEW b \in Bet
  PROVE  /\ [IdleBet EXCEPT !.pc = "incr", !.bet = b] \in BetTask
         /\ [IdleBet EXCEPT !.pc = "incr", !.bet = b].pc = "incr"
         /\ [IdleBet EXCEPT !.pc = "incr", !.bet = b].stat = "gross"
BY IdleTyped DEF IdleBet, BetTask, HedgePhase

LEMMA BetTyped ==
  ASSUME NEW b \in Bet
  PROVE  /\ BetInfo[b].round \in Round /\ BetInfo[b].selection \in Selection
         /\ BetInfo[b].amount \in Nat /\ BetInfo[b].amount > 0
BY HedgeAssumption

\* The bet of an evaluation and its legs, typed.
LEMMA OfTyped ==
  ASSUME HedgeTypeOK, NEW t \in Bettor
  PROVE  /\ betting[t] \in BetTask
         /\ Of(t).round \in Round /\ Of(t).selection \in Selection
         /\ Of(t).amount \in Nat /\ Of(t).amount > 0
<1>1. betting[t] \in BetTask /\ betting[t].bet \in Bet
  BY DEF HedgeTypeOK, BetTask
<1> QED
  BY <1>1, BetTyped DEF Of

LEMMA HedgeTypeInit == HedgeInit => HedgeTypeOK
<1> SUFFICES ASSUME HedgeInit PROVE HedgeTypeOK
  OBVIOUS
<1>1. betting \in [Bettor -> BetTask]
  BY IdleTyped DEF HedgeInit
<1>2. NoBets \in Amounts
  BY DEF NoBets, Amounts
<1> QED
  BY <1>1, <1>2 DEF HedgeInit, HedgeTypeOK, Stat

\* An evaluation moves no other one, and goes on as its call decides.
LEMMA AfterStatTyped ==
  ASSUME HedgeTypeOK, NEW t \in Bettor
  PROVE  /\ AfterStat(t) \in [Bettor -> BetTask]
         /\ \A u \in Bettor \ {t} : AfterStat(t)[u] = betting[u]
         /\ AfterStat(t)[t].bet = betting[t].bet
         /\ betting[t].stat = "gross" => AfterStat(t)[t].pc = "get" /\ AfterStat(t)[t].stat = "gross"
         /\ betting[t].stat = "hedged" => AfterStat(t)[t].pc = "incr" /\ AfterStat(t)[t].stat = "rounds"
         /\ betting[t].stat = "rounds" => AfterStat(t)[t].pc = "volume" /\ AfterStat(t)[t].stat = "rounds"
<1>1. betting \in [Bettor -> BetTask] /\ betting[t].stat \in Stat
  BY DEF HedgeTypeOK, BetTask
<1>2. CASE betting[t].stat = "gross"
  BY <1>1, <1>2 DEF AfterStat, BetTask, HedgePhase
<1>3. CASE betting[t].stat = "hedged"
  BY <1>1, <1>3 DEF AfterStat, BetTask, HedgePhase, Stat
<1>4. CASE betting[t].stat = "rounds"
  BY <1>1, <1>4 DEF AfterStat, BetTask, HedgePhase
<1> QED
  BY <1>1, <1>2, <1>3, <1>4 DEF Stat

\* An evaluation that counts a hedge has found an opposite leg, and the volumes of the round come
\* before its own bet is written.
HedgeShape ==
  \A t \in Bettor :
    /\ betting[t].pc \in {"get", "set", "exists", "flag"} => betting[t].stat = "gross"
    /\ betting[t].pc \in {"exists", "flag"} => betting[t].opposite # NoLeg
    /\ betting[t].pc \in {"incr", "ttl", "expire"} /\ betting[t].stat # "gross" =>
         betting[t].opposite # NoLeg

LEMMA OppositeTyped ==
  ASSUME NEW i, NEW bets
  PROVE  OppositeLegs(i, bets) \subseteq Selection
BY DEF OppositeLegs

-----------------------------------------------------------------------------
(* Types                                                                   *)

LEMMA TypeOfStats ==
  ASSUME HedgeTypeOK, HedgeShape, NEW t \in Bettor, Incr(t) \/ Ttl(t) \/ Expire(t)
  PROVE  HedgeTypeOK'
<1>0. /\ betting[t] \in BetTask /\ AfterStat(t) \in [Bettor -> BetTask]
      /\ Of(t).round \in Round /\ Of(t).amount \in Nat
  BY OfTyped, AfterStatTyped
<1>1. CASE Incr(t)
  <2>1. Increment(t) \in Nat
    <3>1. CASE betting[t].opposite \in Selection
      BY <1>0, <3>1 DEF Increment, BetTask, Amounts
    <3>2. CASE betting[t].opposite = NoLeg
      BY <1>0, <1>1, <3>2 DEF Increment, HedgeShape, Incr, BetAt
    <3>3. betting[t].opposite \in Selection \union {NoLeg}
      BY <1>0 DEF BetTask
    <3> QED BY <3>1, <3>2, <3>3
  <2>2. stats' \in [Stat -> [n : Nat, until : Nat \union {NoLeg}]]
    BY <1>0, <1>1, <2>1 DEF Incr, HedgeTypeOK, BetTask
  <2>3. betting' \in [Bettor -> BetTask]
    BY <1>0, <1>1 DEF Incr, HedgeTypeOK, BetTask, HedgePhase
  <2> QED BY <1>0, <1>1, <2>2, <2>3 DEF Incr, HedgeTypeOK
<1>2. CASE Ttl(t)
  BY <1>0, <1>2 DEF Ttl, TtlThen, HedgeTypeOK, BetTask, HedgePhase, notes
<1>3. CASE Expire(t)
  <2>1. stats' \in [Stat -> [n : Nat, until : Nat \union {NoLeg}]]
    BY <1>0, <1>3, HedgeAssumption DEF Expire, HedgeTypeOK, BetTask
  <2> QED BY <1>0, <1>3, <2>1 DEF Expire, HedgeTypeOK
<1> QED BY <1>1, <1>2, <1>3

LEMMA TypeOfLegs ==
  ASSUME HedgeTypeOK, NEW t \in Bettor, Get(t) \/ Set(t) \/ Exists(t) \/ Flag(t)
  PROVE  HedgeTypeOK'
<1>0. /\ betting[t] \in BetTask
      /\ Of(t).round \in Round /\ Of(t).amount \in Nat /\ Of(t).selection \in Selection
      /\ legs[Of(t).round].bets \in Amounts
  BY OfTyped DEF HedgeTypeOK
<1>1. CASE Get(t)
  <2>1. PICK found \in Selection \union {NoLeg} :
          betting' = [betting EXCEPT ![t].pc = "set", ![t].read = legs[Of(t).round].bets,
                                     ![t].opposite = found]
    BY <1>1, OppositeTyped DEF Get
  <2>2. betting' \in [Bettor -> BetTask]
    BY <1>0, <2>1 DEF HedgeTypeOK, BetTask, HedgePhase
  <2> QED BY <1>0, <1>1, <2>2 DEF Get, Overtakes, HedgeTypeOK
<1>2. CASE Set(t)
  <2> DEFINE bets == [betting[t].read EXCEPT ![Of(t).selection] = @ + Of(t).amount]
  <2>1. bets \in Amounts
    BY <1>0 DEF BetTask, Amounts
  <2> HIDE DEF bets
  <2>2. legs' = [legs EXCEPT ![Of(t).round] = [bets |-> bets, until |-> betTime + RoundTtl]]
    BY <1>2 DEF Set, SetLegs, bets
  <2>3. legs' \in [Round -> [bets : Amounts, until : Nat \union {NoLeg}]]
    BY <1>0, <2>1, <2>2, HedgeAssumption DEF HedgeTypeOK
  <2>4. ledger' \in [Round -> Amounts]
    BY <1>0, <1>2 DEF Set, SetLegs, HedgeTypeOK, Amounts
  <2>5. betting' \in [Bettor -> BetTask]
    BY <1>0, <1>2 DEF Set, SetLegs, BetGoto, HedgeTypeOK, BetTask, HedgePhase
  <2> QED BY <1>2, <2>3, <2>4, <2>5 DEF Set, SetLegs, HedgeTypeOK
<1>3. CASE Exists(t)
  BY <1>0, <1>3 DEF Exists, ExistsThen, BetGoto, Overtakes, HedgeTypeOK, BetTask, HedgePhase
<1>4. CASE Flag(t)
  <2>1. betting' \in [Bettor -> BetTask]
    BY <1>0, <1>4 DEF Flag, HedgeTypeOK, BetTask, HedgePhase, Stat
  <2>2. flag' \in [Round -> Nat \union {NoLeg}]
    BY <1>0, <1>4, HedgeAssumption DEF Flag, HedgeTypeOK
  <2> QED BY <1>4, <2>1, <2>2 DEF Flag, notes, HedgeTypeOK
<1> QED BY <1>1, <1>2, <1>3, <1>4

LEMMA TypeOfEnds ==
  ASSUME HedgeTypeOK, NEW t \in Bettor, (\E b \in Bet : StartBet(t, b)) \/ Volume(t) \/ FailBet(t)
  PROVE  HedgeTypeOK'
<1>1. CASE \E b \in Bet : StartBet(t, b)
  <2>1. PICK b \in Bet : StartBet(t, b)
    BY <1>1
  <2>2. betting' \in [Bettor -> BetTask]
    BY <2>1, StartTyped DEF StartBet, HedgeTypeOK
  <2>3. betStarts' = betStarts + 1 /\ betStarts \in Nat
    BY <2>1, Zenon DEF StartBet, HedgeTypeOK
  <2>4. UNCHANGED <<legs, flag, stats, notes, betTime, betFaults>>
    BY <2>1, Zenon DEF StartBet
  <2> QED BY <2>2, <2>3, <2>4 DEF notes, HedgeTypeOK
<1>2. CASE Volume(t)
  BY <1>2, IdleTyped DEF Volume, notes, HedgeTypeOK
<1>3. CASE FailBet(t)
  BY <1>3, IdleTyped DEF FailBet, HedgeTypeOK
<1> QED BY <1>1, <1>2, <1>3

LEMMA TypeOfTick == HedgeTypeOK /\ TickBets => HedgeTypeOK'
<1> SUFFICES ASSUME HedgeTypeOK, TickBets PROVE HedgeTypeOK'
  OBVIOUS
<1>1. NoBets \in Amounts
  BY DEF NoBets, Amounts
<1>2. legs' \in [Round -> [bets : Amounts, until : Nat \union {NoLeg}]]
  BY <1>1 DEF TickBets, HedgeTypeOK
<1>3. ledger' \in [Round -> Amounts]
  BY <1>1 DEF TickBets, HedgeTypeOK
<1>4. stats' \in [Stat -> [n : Nat, until : Nat \union {NoLeg}]]
  BY DEF TickBets, HedgeTypeOK
<1> QED
  BY <1>2, <1>3, <1>4 DEF TickBets, HedgeTypeOK

LEMMA ShapeStep == HedgeTypeOK /\ HedgeShape /\ [HedgeNext]_hedgeVars => HedgeShape'
<1> SUFFICES ASSUME HedgeTypeOK, HedgeShape, [HedgeNext]_hedgeVars PROVE HedgeShape'
  OBVIOUS
<1>1. ASSUME NEW t \in Bettor, EvaluateBet(t) PROVE HedgeShape'
  <2>0. /\ betting \in [Bettor -> BetTask] /\ betting[t] \in BetTask
        /\ betting[t].stat \in Stat
    BY DEF HedgeTypeOK, BetTask
  <2> DEFINE Fits(x) ==
        /\ x.pc \in {"get", "set", "exists", "flag"} => x.stat = "gross"
        /\ x.pc \in {"exists", "flag"} => x.opposite # NoLeg
        /\ x.pc \in {"incr", "ttl", "expire"} /\ x.stat # "gross" => x.opposite # NoLeg
  <2> SUFFICES Fits(betting'[t]) /\ \A u \in Bettor \ {t} : betting'[u] = betting[u]
    BY DEF HedgeShape
  <2>s. Fits(betting[t])
    BY DEF HedgeShape
  <2>a. /\ \A u \in Bettor \ {t} : AfterStat(t)[u] = betting[u]
        /\ betting[t].pc \in {"incr", "ttl", "expire"} => Fits(AfterStat(t)[t])
    BY <2>0, <2>s, AfterStatTyped DEF AfterStat, BetTask, Stat
  <2>1. CASE \E b \in Bet : StartBet(t, b)
    BY <2>0, <2>1, StartTyped DEF StartBet
  <2>2. CASE Incr(t) \/ Ttl(t) \/ Expire(t)
    BY <2>0, <2>2, <2>s, <2>a DEF Incr, Ttl, TtlThen, Expire, BetAt, BetTask
  <2>3. CASE Get(t) \/ Flag(t)
    BY <2>0, <2>3, <2>s DEF Get, Flag, BetAt, BetTask
  <2>4. CASE Set(t) \/ Exists(t)
    BY <2>0, <2>4, <2>s DEF Set, SetLegs, Exists, ExistsThen, BetGoto, BetAt, BetTask
  <2>5. CASE Volume(t) \/ FailBet(t)
    BY <2>0, <2>5 DEF Volume, FailBet, IdleBet
  <2> QED
    BY <1>1, <2>1, <2>2, <2>3, <2>4, <2>5 DEF EvaluateBet
<1>2. CASE TickBets \/ UNCHANGED hedgeVars
  BY <1>2 DEF TickBets, hedgeVars, HedgeShape
<1> QED
  BY <1>1, <1>2 DEF HedgeNext

HedgeTypeInv == HedgeTypeOK /\ HedgeShape

LEMMA HedgeTypeStep == HedgeTypeInv /\ [HedgeNext]_hedgeVars => HedgeTypeInv'
<1> SUFFICES ASSUME HedgeTypeOK, HedgeShape, [HedgeNext]_hedgeVars PROVE HedgeTypeOK'
  BY ShapeStep DEF HedgeTypeInv
<1>1. ASSUME NEW t \in Bettor, EvaluateBet(t) PROVE HedgeTypeOK'
  BY <1>1, TypeOfStats, TypeOfLegs, TypeOfEnds DEF EvaluateBet
<1>2. CASE UNCHANGED hedgeVars
  BY <1>2 DEF hedgeVars, notes, HedgeTypeOK
<1> QED
  BY <1>1, <1>2, TypeOfTick DEF HedgeNext

LEMMA HedgeTypes == HedgeSpec => []HedgeTypeInv
<1>1. HedgeInit => HedgeTypeInv
  BY HedgeTypeInit DEF HedgeTypeInv, HedgeShape, HedgeInit, IdleBet
<1> QED
  BY <1>1, HedgeTypeStep, PTL DEF HedgeSpec

\* Every key of the store keeps the kind of value it was made for, and every evaluation is at one
\* of the calls of evaluate_bet.
THEOREM HedgeTyped == HedgeSpec => []HedgeTypeOK
<1>1. HedgeTypeInv => HedgeTypeOK
  BY DEF HedgeTypeInv
<1> QED
  BY <1>1, HedgeTypes, PTL

-----------------------------------------------------------------------------
(* What an evaluation leaves alone                                         *)

\* A call moves the evaluation that makes it and no other.
LEMMA OthersStay ==
  ASSUME HedgeTypeOK, NEW t \in Bettor, EvaluateBet(t)
  PROVE  \A u \in Bettor \ {t} : betting'[u] = betting[u]
<1>0. betting \in [Bettor -> BetTask]
  BY DEF HedgeTypeOK
<1>1. CASE \E b \in Bet : StartBet(t, b)
  BY <1>0, <1>1 DEF StartBet
<1>2. CASE Incr(t) \/ Ttl(t) \/ Expire(t)
  BY <1>0, <1>2, AfterStatTyped DEF Incr, Ttl, TtlThen, Expire
<1>3. CASE Get(t) \/ Flag(t)
  BY <1>0, <1>3 DEF Get, Flag
<1>4. CASE Set(t) \/ Exists(t)
  BY <1>0, <1>4 DEF Set, SetLegs, Exists, ExistsThen, BetGoto
<1>5. CASE Volume(t) \/ FailBet(t)
  BY <1>0, <1>5 DEF Volume, FailBet
<1> QED
  BY <1>1, <1>2, <1>3, <1>4, <1>5 DEF EvaluateBet

\* The evaluations that begin, end or only read write nothing to the store.
LEMMA StartMoves ==
  ASSUME HedgeTypeOK, NEW t \in Bettor, NEW b \in Bet, StartBet(t, b)
  PROVE  /\ BetAt(t, "idle")
         /\ betting'[t].pc = "incr" /\ betting'[t].stat = "gross" /\ betting'[t].bet = b
         /\ UNCHANGED <<legs, flag, stats, notes, betTime, betFaults>>
<1>1. /\ BetAt(t, "idle") /\ UNCHANGED <<legs, flag, stats, notes, betTime, betFaults>>
      /\ betting' = [betting EXCEPT ![t] = [IdleBet EXCEPT !.pc = "incr", !.bet = b]]
  BY Zenon DEF StartBet
<1>2. betting'[t] = [IdleBet EXCEPT !.pc = "incr", !.bet = b]
  BY <1>1 DEF HedgeTypeOK
<1>3. betting'[t].pc = "incr" /\ betting'[t].stat = "gross" /\ betting'[t].bet = b
  BY <1>2 DEF IdleBet
<1> QED
  BY <1>1, <1>3

\* The four calls that read or write the legs and the flag of the round.
LEMMA LegsMove ==
  ASSUME HedgeTypeOK, NEW t \in Bettor
  PROVE  /\ Get(t) => /\ betting[t].pc = "get" /\ betting'[t].pc = "set"
                      /\ betting'[t].bet = betting[t].bet /\ betting'[t].stat = betting[t].stat
                      /\ betting'[t].read = legs[Of(t).round].bets
         /\ Set(t) => /\ betting[t].pc = "set" /\ betting'[t].pc \in {"volume", "exists"}
                      /\ betting'[t].bet = betting[t].bet /\ betting'[t].stat = betting[t].stat
         /\ Exists(t) => /\ betting[t].pc = "exists" /\ betting'[t].pc \in {"volume", "flag"}
                         /\ betting'[t].bet = betting[t].bet /\ betting'[t].stat = betting[t].stat
         /\ Flag(t) => /\ betting[t].pc = "flag" /\ betting'[t].pc = "incr"
                       /\ betting'[t].bet = betting[t].bet /\ betting'[t].stat = "hedged"
         /\ Volume(t) \/ FailBet(t) => /\ betting[t].pc # "idle" /\ betting'[t] = IdleBet
<1>0. betting \in [Bettor -> BetTask]
  BY DEF HedgeTypeOK
<1>1. ASSUME Get(t)
      PROVE  /\ betting[t].pc = "get" /\ betting'[t].pc = "set"
             /\ betting'[t].bet = betting[t].bet /\ betting'[t].stat = betting[t].stat
             /\ betting'[t].read = legs[Of(t).round].bets
  BY <1>0, <1>1 DEF Get, BetAt, BetTask
<1>2. ASSUME Set(t)
      PROVE  /\ betting[t].pc = "set" /\ betting'[t].pc \in {"volume", "exists"}
             /\ betting'[t].bet = betting[t].bet /\ betting'[t].stat = betting[t].stat
  BY <1>0, <1>2 DEF Set, SetLegs, BetGoto, BetAt, BetTask
<1>3. ASSUME Exists(t)
      PROVE  /\ betting[t].pc = "exists" /\ betting'[t].pc \in {"volume", "flag"}
             /\ betting'[t].bet = betting[t].bet /\ betting'[t].stat = betting[t].stat
  BY <1>0, <1>3 DEF Exists, ExistsThen, BetGoto, BetAt, BetTask
<1>4. ASSUME Flag(t)
      PROVE  /\ betting[t].pc = "flag" /\ betting'[t].pc = "incr"
             /\ betting'[t].bet = betting[t].bet /\ betting'[t].stat = "hedged"
  BY <1>0, <1>4 DEF Flag, BetAt, BetTask
<1>5. ASSUME Volume(t) \/ FailBet(t)
      PROVE  betting[t].pc # "idle" /\ betting'[t] = IdleBet
  BY <1>0, <1>5 DEF Volume, FailBet, BetAt
<1> QED
  BY <1>1, <1>2, <1>3, <1>4, <1>5

-----------------------------------------------------------------------------
(* Every statistic expires                                                 *)

LEMMA ExpireOfStats ==
  ASSUME HedgeTypeInv, StatsExpire, NEW t \in Bettor, Incr(t) \/ Ttl(t) \/ Expire(t)
  PROVE  StatsExpire'
<1>0. /\ betting \in [Bettor -> BetTask] /\ stats \in [Stat -> [n : Nat, until : Nat \union {NoLeg}]]
      /\ betting[t].stat \in Stat /\ betTime \in Nat
      /\ \A u \in Bettor \ {t} : betting'[u] = betting[u]
  BY OthersStay DEF HedgeTypeInv, HedgeTypeOK, BetTask, EvaluateBet
<1>1. \A u \in Bettor \ {t}, y \in Stat : Dating(u, y)' <=> Dating(u, y)
  BY <1>0 DEF Dating
<1>2. CASE Incr(t)
  <2>1. \A y \in Stat : ~Dating(t, y)
    BY <1>2 DEF Incr, Dating, BetAt
  <2>2. \A y \in Stat \ {betting[t].stat} : stats'[y] = stats[y]
    BY <1>0, <1>2 DEF Incr
  <2>3. betting[t].stat # "rounds" \/ stats[betting[t].stat].n = 0 =>
          betting'[t].stat = betting[t].stat /\ betting'[t].pc \in {"ttl", "expire"}
    BY <1>0, <1>2 DEF Incr, Dating, BetTask
  <2>4. stats'[betting[t].stat].until = stats[betting[t].stat].until /\ adrift' = adrift
    BY <1>0, <1>2 DEF Incr
  <2>5. stats[betting[t].stat].n \in Nat
    BY <1>0
  <2> SUFFICES ASSUME NEW y \in Stat, stats'[y].n > 0, stats'[y].until = NoLeg
               PROVE  y \in adrift \/ \E u \in Bettor : Dating(u, y)'
    BY <2>4 DEF StatsExpire
  <2>6. CASE stats[y].n > 0
    <3>1. stats[y].until = NoLeg
      BY <2>2, <2>4
    <3> QED
      BY <1>1, <2>1, <2>6, <3>1 DEF StatsExpire
  <2>7. CASE ~(stats[y].n > 0)
    <3>1. y = betting[t].stat
      BY <2>2, <2>7
    <3>2. stats[betting[t].stat].n = 0
      BY <2>5, <2>7, <3>1
    <3>3. Dating(t, y)'
      BY <2>3, <3>1, <3>2 DEF Dating
    <3> QED
      BY <3>3
  <2> QED
    BY <2>6, <2>7
<1>3. CASE Ttl(t)
  <2>1. \A y \in Stat \ {betting[t].stat} : ~Dating(t, y)
    BY <1>3 DEF Ttl, TtlThen, Dating, BetAt
  <2>2. \A y \in Stat : y = betting[t].stat /\ stats[y].until = NoLeg => Dating(t, y)'
    BY <1>0, <1>3 DEF Ttl, TtlThen, Dating, BetTask
  <2> QED
    BY <1>1, <1>3, <2>1, <2>2 DEF StatsExpire, Ttl, TtlThen, notes
<1>4. CASE Expire(t)
  <2>1. \A y \in Stat \ {betting[t].stat} : ~Dating(t, y) /\ stats'[y] = stats[y]
    BY <1>0, <1>4 DEF Expire, Dating, BetAt
  <2>2. stats'[betting[t].stat].n > 0 => stats'[betting[t].stat].until # NoLeg
    BY <1>0, <1>4, HedgeAssumption DEF Expire
  <2>3. adrift' = adrift \ {betting[t].stat}
    BY <1>4 DEF Expire
  <2> QED
    BY <1>1, <2>1, <2>2, <2>3 DEF StatsExpire
<1> QED
  BY <1>2, <1>3, <1>4

LEMMA ExpireStep == HedgeTypeInv /\ StatsExpire /\ [HedgeNext]_hedgeVars => StatsExpire'
<1> SUFFICES ASSUME HedgeTypeInv, StatsExpire, [HedgeNext]_hedgeVars PROVE StatsExpire'
  OBVIOUS
<1>0. HedgeTypeOK
  BY DEF HedgeTypeInv
<1>1. ASSUME NEW t \in Bettor, EvaluateBet(t) PROVE StatsExpire'
  <2>1. \A u \in Bettor \ {t}, y \in Stat : Dating(u, y)' <=> Dating(u, y)
    BY <1>0, <1>1, OthersStay DEF Dating
  <2>2. CASE \E b \in Bet : StartBet(t, b)
    <3>1. \A y \in Stat : ~Dating(t, y)
      BY <1>0, <2>2, StartMoves DEF Dating, BetAt
    <3>2. stats' = stats /\ adrift' = adrift
      BY <1>0, <2>2, StartMoves DEF notes
    <3> QED
      BY <2>1, <3>1, <3>2 DEF StatsExpire
  <2>3. CASE Get(t) \/ Set(t) \/ Exists(t) \/ Flag(t) \/ Volume(t)
    <3>1. \A y \in Stat : ~Dating(t, y)
      BY <2>3 DEF Get, Set, SetLegs, Exists, ExistsThen, Flag, Volume, Dating, BetAt
    <3>2. stats' = stats /\ adrift' = adrift
      BY <2>3 DEF Get, Set, SetLegs, Exists, ExistsThen, Flag, Volume, notes
    <3> QED
      BY <2>1, <3>1, <3>2 DEF StatsExpire
  <2>4. CASE FailBet(t)
    BY <2>1, <2>4 DEF FailBet, StatsExpire
  <2> QED
    BY <1>1, <2>2, <2>3, <2>4, ExpireOfStats DEF EvaluateBet
<1>2. CASE TickBets
  <2>1. \A y \in Stat : stats'[y].n > 0 => stats'[y] = stats[y] /\ (y \in adrift => y \in adrift')
    BY <1>2, HedgeAssumption DEF TickBets
  <2>2. betting' = betting
    BY <1>2 DEF TickBets
  <2> QED
    BY <2>1, <2>2 DEF StatsExpire, Dating
<1>3. CASE UNCHANGED hedgeVars
  BY <1>3 DEF hedgeVars, notes, StatsExpire, Dating
<1> QED
  BY <1>1, <1>2, <1>3 DEF HedgeNext

\* A statistic without a deadline is about to be given one, unless the evaluation that should have
\* raised (_ensure_stats_ttl): the retries, races and expiries of any number of bets leave no
\* counter that lives for ever.
THEOREM StatisticsExpire == HedgeSpec => []StatsExpire
<1>1. HedgeInit => StatsExpire
  BY DEF HedgeInit, StatsExpire
<1> QED
  BY <1>1, HedgeTypes, ExpireStep, PTL DEF HedgeSpec

-----------------------------------------------------------------------------
(* Every hedged round is counted                                           *)

LEMMA CountedOfStats ==
  ASSUME HedgeTypeInv, HedgesCounted, NEW t \in Bettor, Incr(t) \/ Ttl(t) \/ Expire(t)
  PROVE  HedgesCounted'
<1>0. /\ betting \in [Bettor -> BetTask] /\ betting[t].stat \in Stat /\ Of(t).round \in Round
      /\ \A u \in Bettor \ {t} : betting'[u] = betting[u]
  BY OthersStay, OfTyped DEF HedgeTypeInv, HedgeTypeOK, BetTask, EvaluateBet
<1>1. \A u \in Bettor \ {t} : (Counting(u)' <=> Counting(u)) /\ Of(u)' = Of(u)
  BY <1>0 DEF Counting, Of, BetAt
<1>a. HedgeTypeOK
  BY DEF HedgeTypeInv
<1>2. flag' = flag
  BY DEF Incr, Ttl, TtlThen, Expire
<1>3. Of(t)' = Of(t)
  <2>1. betting'[t].bet = betting[t].bet
    <3>1. AfterStat(t)[t].bet = betting[t].bet
      BY <1>a, AfterStatTyped
    <3>2. CASE Incr(t)
      BY <1>0, <3>1, <3>2 DEF Incr, BetTask
    <3>3. CASE Ttl(t) \/ Expire(t)
      BY <1>0, <3>1, <3>3 DEF Ttl, TtlThen, Expire, BetTask
    <3> QED BY <3>2, <3>3
  <2> QED BY <2>1 DEF Of
<1>4. \A r \in Round : r \in counted \union adrift => r \in (counted \union adrift)'
  BY <1>0, HedgeAssumption DEF Incr, Ttl, TtlThen, Expire, notes
<1>5. Counting(t) => Counting(t)' \/ (flag[Of(t).round] # NoLeg => Of(t).round \in counted')
  <2>1. CASE Incr(t)
    <3>1. betting[t].stat = "hedged" => Counting(t)'
      BY <1>0, <2>1 DEF Incr, Counting, BetTask, Stat
    <3>2. betting[t].stat = "rounds" /\ flag[Of(t).round] # NoLeg => Of(t).round \in counted'
      BY <2>1 DEF Incr
    <3> QED BY <3>1, <3>2 DEF Counting
  <2>2. CASE Ttl(t)
    <3>1. Counting(t) => betting[t].stat = "hedged"
      BY <2>2 DEF Ttl, TtlThen, Counting, BetAt
    <3>2. betting[t].stat = "hedged" => Counting(t)'
      BY <1>0, <1>a, <2>2, AfterStatTyped DEF Ttl, TtlThen, Counting, BetAt, BetTask, Stat
    <3> QED BY <3>1, <3>2
  <2>3. CASE Expire(t)
    <3>1. Counting(t) => betting[t].stat = "hedged"
      BY <2>3 DEF Expire, Counting, BetAt
    <3>2. betting[t].stat = "hedged" => Counting(t)'
      BY <1>0, <1>a, <2>3, AfterStatTyped DEF Expire, Counting, BetAt
    <3> QED BY <3>1, <3>2
  <2> QED BY <2>1, <2>2, <2>3
<1> QED
  BY <1>1, <1>2, <1>3, <1>4, <1>5 DEF HedgesCounted

LEMMA CountedStep == HedgeTypeInv /\ HedgesCounted /\ [HedgeNext]_hedgeVars => HedgesCounted'
<1> SUFFICES ASSUME HedgeTypeInv, HedgesCounted, [HedgeNext]_hedgeVars PROVE HedgesCounted'
  OBVIOUS
<1>0. HedgeTypeOK
  BY DEF HedgeTypeInv
<1>1. ASSUME NEW t \in Bettor, EvaluateBet(t) PROVE HedgesCounted'
  <2>1. \A u \in Bettor \ {t} : (Counting(u)' <=> Counting(u)) /\ Of(u)' = Of(u)
    BY <1>0, <1>1, OthersStay DEF Counting, Of, BetAt
  <2>2. CASE \E b \in Bet : StartBet(t, b)
    <3>1. ~Counting(t)
      BY <1>0, <2>2, StartMoves DEF Counting, BetAt
    <3>2. flag' = flag /\ adrift' = adrift /\ counted' = counted
      BY <1>0, <2>2, StartMoves DEF notes
    <3> QED
      BY <2>1, <3>1, <3>2 DEF HedgesCounted
  <2>3. CASE Get(t) \/ Set(t) \/ Exists(t) \/ Volume(t)
    <3>1. ~Counting(t)
      BY <2>3 DEF Get, Set, SetLegs, Exists, ExistsThen, Volume, Counting, BetAt
    <3>2. flag' = flag /\ adrift' = adrift /\ counted' = counted
      BY <2>3 DEF Get, Set, SetLegs, Exists, ExistsThen, Volume, notes
    <3> QED
      BY <2>1, <3>1, <3>2 DEF HedgesCounted
  <2>4. CASE Flag(t)
    <3>1. Counting(t)' /\ Of(t)' = Of(t) /\ ~Counting(t)
      BY <1>0, <2>4, LegsMove DEF Counting, Of, BetAt
    <3>2. /\ \A r \in Round \ {Of(t).round} : flag'[r] = flag[r]
          /\ adrift' = adrift /\ counted' = counted
      BY <1>0, <2>4 DEF Flag, notes, HedgeTypeOK
    <3> QED
      BY <2>1, <3>1, <3>2 DEF HedgesCounted
  <2>5. CASE FailBet(t)
    BY <2>1, <2>5 DEF FailBet, HedgesCounted
  <2> QED
    BY <1>1, <2>2, <2>3, <2>4, <2>5, CountedOfStats DEF EvaluateBet
<1>2. CASE TickBets
  <2>1. \A r \in Round : flag'[r] # NoLeg =>
          flag[r] # NoLeg /\ (r \in counted \union adrift => r \in (counted \union adrift)')
    BY <1>2, HedgeAssumption DEF TickBets
  <2>2. betting' = betting
    BY <1>2 DEF TickBets
  <2> QED
    BY <2>1, <2>2 DEF HedgesCounted, Counting, Of, BetAt
<1>3. CASE UNCHANGED hedgeVars
  BY <1>3 DEF hedgeVars, notes, HedgesCounted, Counting, Of, BetAt
<1> QED
  BY <1>1, <1>2, <1>3 DEF HedgeNext

\* A flagged round is counted as hedged or about to be, unless the evaluation that flagged it raised
\* (evaluate_bet): the flag that keeps the later bets from counting a round again never hides one
\* that nobody counts, whatever the bets race with.
THEOREM HedgedRoundsCounted == HedgeSpec => []HedgesCounted
<1>1. HedgeInit => HedgesCounted
  BY DEF HedgeInit, HedgesCounted
<1> QED
  BY <1>1, HedgeTypes, CountedStep, PTL DEF HedgeSpec

-----------------------------------------------------------------------------
(* The verdicts are right                                                  *)

AtSet(t, r) == BetAt(t, "set") /\ Of(t).round = r

VerdictOf(t, bets) ==
  LET opposites == OppositeLegs(Of(t), bets)
  IN IF opposites = {} THEN betting[t].opposite = NoLeg ELSE betting[t].opposite \in opposites

\* Inductive: an evaluation between GET and SET has read what the legs still are, and is alone.
VerdictsInv ==
  \A r \in Round \ raced :
    /\ legs[r].bets = ledger[r]
    /\ \A t \in Bettor : AtSet(t, r) => betting[t].read = ledger[r] /\ VerdictOf(t, ledger[r])
    /\ \A t, u \in Bettor : AtSet(t, r) /\ AtSet(u, r) => t = u

LEMMA VerdictsOfGet ==
  ASSUME HedgeTypeOK, VerdictsInv, NEW t \in Bettor, Get(t)
  PROVE  VerdictsInv'
<1>0. /\ betting \in [Bettor -> BetTask]
      /\ \A u \in Bettor \ {t} : betting'[u] = betting[u]
      /\ legs' = legs /\ ledger' = ledger
      /\ raced' = Overtakes(t, "set")
  BY OthersStay DEF HedgeTypeOK, EvaluateBet, Get
<1>1. \A u \in Bettor \ {t} : /\ Of(u)' = Of(u) /\ \A r \in Round : AtSet(u, r)' <=> AtSet(u, r)
                              /\ \A bets : VerdictOf(u, bets)' <=> VerdictOf(u, bets)
  BY <1>0 DEF AtSet, BetAt, Of, VerdictOf, OppositeLegs
<1>2. /\ Of(t)' = Of(t) /\ betting'[t].read = legs[Of(t).round].bets
      /\ ~BetAt(t, "set")
  BY LegsMove DEF Of, BetAt
<1>3. betting'[t].opposite \in
        IF OppositeLegs(Of(t), legs[Of(t).round].bets) = {} THEN {NoLeg}
        ELSE OppositeLegs(Of(t), legs[Of(t).round].bets)
  BY <1>0 DEF Get, BetTask
<1>4. raced \subseteq raced'
  BY <1>0 DEF Overtakes
<1>5. Of(t).round \notin raced' => \A u \in Bettor \ {t} : ~AtSet(u, Of(t).round)
  BY <1>0 DEF Overtakes, Another, AtSet
<1> SUFFICES ASSUME NEW r \in Round, r \notin raced'
             PROVE  /\ legs'[r].bets = ledger'[r]
                    /\ \A u \in Bettor : AtSet(u, r)' =>
                         betting'[u].read = ledger'[r] /\ VerdictOf(u, ledger[r])'
                    /\ \A u, v \in Bettor : AtSet(u, r)' /\ AtSet(v, r)' => u = v
  BY <1>0 DEF VerdictsInv
<1>6. legs[r].bets = ledger[r] /\ r \notin raced
  BY <1>4 DEF VerdictsInv
<1>7. CASE r = Of(t).round
  <2>1. \A u \in Bettor \ {t} : ~AtSet(u, r)'
    BY <1>1, <1>5, <1>7
  <2>2. betting'[t].read = ledger'[r]
    BY <1>0, <1>2, <1>6, <1>7
  <2>3. VerdictOf(t, ledger[r])'
    BY <1>0, <1>2, <1>3, <1>6, <1>7 DEF VerdictOf
  <2> QED BY <1>0, <1>6, <2>1, <2>2, <2>3
<1>8. CASE r # Of(t).round
  <2>1. ~AtSet(t, r)'
    BY <1>2, <1>8 DEF AtSet
  <2> QED BY <1>0, <1>1, <1>6, <2>1 DEF VerdictsInv
<1> QED BY <1>7, <1>8

LEMMA VerdictsOfSet ==
  ASSUME HedgeTypeOK, VerdictsInv, NEW t \in Bettor, Set(t)
  PROVE  VerdictsInv'
<1> DEFINE i == Of(t)
<1>0. /\ betting \in [Bettor -> BetTask] /\ betting[t] \in BetTask
      /\ \A u \in Bettor \ {t} : betting'[u] = betting[u]
      /\ i.round \in Round /\ i.selection \in Selection /\ i.amount \in Nat
      /\ legs \in [Round -> [bets : Amounts, until : Nat \union {NoLeg}]]
      /\ ledger \in [Round -> Amounts]
      /\ BetAt(t, "set") /\ raced' = raced
  BY OthersStay, OfTyped DEF HedgeTypeOK, EvaluateBet, Set, SetLegs
<1>1. \A u \in Bettor \ {t} : /\ Of(u)' = Of(u) /\ \A r \in Round : AtSet(u, r)' <=> AtSet(u, r)
                              /\ \A bets : VerdictOf(u, bets)' <=> VerdictOf(u, bets)
  BY <1>0 DEF AtSet, BetAt, Of, VerdictOf, OppositeLegs
<1>2. \A r \in Round : ~AtSet(t, r)'
  BY LegsMove DEF AtSet, BetAt
<1>3. /\ legs' = [legs EXCEPT ![i.round] =
                   [bets |-> [betting[t].read EXCEPT ![i.selection] = @ + i.amount],
                    until |-> betTime + RoundTtl]]
      /\ ledger' = [ledger EXCEPT ![i.round][i.selection] = @ + i.amount]
  BY DEF Set, SetLegs
<1> HIDE DEF i
<1> SUFFICES ASSUME NEW r \in Round, r \notin raced
             PROVE  /\ legs'[r].bets = ledger'[r]
                    /\ \A u \in Bettor : AtSet(u, r)' =>
                         betting'[u].read = ledger'[r] /\ VerdictOf(u, ledger[r])'
                    /\ \A u, v \in Bettor : AtSet(u, r)' /\ AtSet(v, r)' => u = v
  BY <1>0 DEF VerdictsInv
<1>4. CASE r = i.round
  <2>1. AtSet(t, r)
    BY <1>0, <1>4 DEF AtSet, i
  <2>2. betting[t].read = ledger[r] /\ \A u \in Bettor \ {t} : ~AtSet(u, r)
    BY <2>1 DEF VerdictsInv
  <2>3. legs'[r].bets = ledger'[r]
    <3>1. legs'[r].bets = [betting[t].read EXCEPT ![i.selection] = @ + i.amount]
      BY <1>0, <1>3, <1>4
    <3>2. ledger'[r] = [ledger[r] EXCEPT ![i.selection] = @ + i.amount]
      BY <1>0, <1>3, <1>4
    <3> QED BY <2>2, <3>1, <3>2
  <2> QED BY <1>1, <1>2, <2>2, <2>3
<1>5. CASE r # i.round
  <2>1. legs'[r] = legs[r] /\ ledger'[r] = ledger[r]
    BY <1>0, <1>3, <1>5
  <2>2. legs[r].bets = ledger[r]
    BY DEF VerdictsInv
  <2>3. ASSUME NEW u \in Bettor, AtSet(u, r)'
        PROVE  betting'[u].read = ledger'[r] /\ VerdictOf(u, ledger[r])'
    <3>1. u # t /\ AtSet(u, r)
      BY <1>1, <1>2, <2>3
    <3>2. betting[u].read = ledger[r] /\ VerdictOf(u, ledger[r])
      BY <3>1 DEF VerdictsInv
    <3>3. VerdictOf(u, ledger[r])'
      BY <1>0, <2>1, <3>1, <3>2 DEF VerdictOf, Of, OppositeLegs
    <3> QED BY <1>0, <2>1, <3>1, <3>2, <3>3
  <2> QED BY <1>1, <1>2, <2>1, <2>2, <2>3 DEF VerdictsInv
<1> QED BY <1>4, <1>5

LEMMA VerdictsStep == HedgeTypeInv /\ VerdictsInv /\ [HedgeNext]_hedgeVars => VerdictsInv'
<1> SUFFICES ASSUME HedgeTypeOK, VerdictsInv, [HedgeNext]_hedgeVars PROVE VerdictsInv'
  BY DEF HedgeTypeInv
<1>1. ASSUME NEW t \in Bettor, EvaluateBet(t), ~Get(t), ~Set(t) PROVE VerdictsInv'
  <2>0. \A u \in Bettor \ {t} : betting'[u] = betting[u]
    BY <1>1, OthersStay
  <2>1. legs' = legs /\ ledger' = ledger /\ raced \subseteq raced'
    <3>1. CASE \E b \in Bet : StartBet(t, b)
      BY <3>1, StartMoves DEF notes
    <3>2. CASE ~\E b \in Bet : StartBet(t, b)
      BY <1>1, <3>2 DEF EvaluateBet, Incr, Ttl, TtlThen, Expire, Exists, ExistsThen, Overtakes,
                        Flag, Volume, FailBet, notes
    <3> QED BY <3>1, <3>2
  <2>2. \A r \in Round : ~AtSet(t, r)'
    <3>0. betting \in [Bettor -> BetTask]
      BY DEF HedgeTypeOK
    <3>1. CASE \E b \in Bet : StartBet(t, b)
      BY <3>1, StartMoves DEF AtSet, BetAt
    <3>2. CASE Incr(t) \/ Ttl(t) \/ Expire(t)
      <4>1. AfterStat(t)[t].pc # "set"
        BY AfterStatTyped DEF BetTask, Stat, HedgeTypeOK
      <4> QED BY <3>0, <3>2, <4>1 DEF Incr, Ttl, TtlThen, Expire, BetTask, AtSet, BetAt
    <3>3. CASE Exists(t) \/ Flag(t)
      BY <3>3, LegsMove DEF AtSet, BetAt
    <3>4. CASE Volume(t) \/ FailBet(t)
      <4>1. betting'[t] = IdleBet
        BY <3>4, LegsMove
      <4>2. IdleBet.pc = "idle"
        BY DEF IdleBet
      <4> QED BY <4>1, <4>2 DEF AtSet, BetAt
    <3> QED BY <1>1, <3>1, <3>2, <3>3, <3>4 DEF EvaluateBet
  <2>3. \A u \in Bettor \ {t} : /\ \A r \in Round : AtSet(u, r)' <=> AtSet(u, r)
                                /\ \A bets : VerdictOf(u, bets)' <=> VerdictOf(u, bets)
    BY <2>0 DEF AtSet, BetAt, Of, VerdictOf, OppositeLegs
  <2> QED BY <2>0, <2>1, <2>2, <2>3 DEF VerdictsInv
<1>2. CASE TickBets
  <2>1. betting' = betting /\ raced \subseteq raced'
    BY <1>2 DEF TickBets
  <2>2. ASSUME NEW r \in Round, r \notin raced'
        PROVE  \/ legs'[r].bets = legs[r].bets /\ ledger'[r] = ledger[r]
               \/ /\ legs'[r].bets = ledger'[r]
                  /\ \A t \in Bettor : ~AtSet(t, r)
    BY <1>2, <2>2 DEF TickBets, AtSet
  <2>3. \A t \in Bettor, r \in Round : AtSet(t, r)' <=> AtSet(t, r)
    BY <2>1 DEF AtSet, BetAt, Of
  <2>4. \A t \in Bettor, r \in Round :
          ledger'[r] = ledger[r] /\ VerdictOf(t, ledger[r]) => VerdictOf(t, ledger[r])'
    BY <2>1 DEF VerdictOf, Of, OppositeLegs
  <2> QED BY <2>1, <2>2, <2>3, <2>4 DEF VerdictsInv
<1>3. CASE UNCHANGED hedgeVars
  BY <1>3 DEF hedgeVars, notes, VerdictsInv, AtSet, BetAt, Of, VerdictOf, OppositeLegs
<1> QED
  BY <1>1, <1>2, <1>3, VerdictsOfGet, VerdictsOfSet DEF HedgeNext

\* What an evaluation is about to answer on a round is what all the bets written to the round call
\* for, and the legs hold them all (evaluate_bet): only an evaluation of the same round, or the
\* expiry of the round, between GET and SET can make it otherwise.
THEOREM VerdictsStayRight == HedgeSpec => []VerdictsRight
<1>1. HedgeInit => VerdictsInv
  BY DEF HedgeInit, VerdictsInv, AtSet, BetAt, IdleBet
<1>2. VerdictsInv => VerdictsRight
  BY DEF VerdictsInv, VerdictsRight, AtSet, VerdictOf
<1> QED
  BY <1>1, <1>2, HedgeTypes, VerdictsStep, PTL DEF HedgeSpec

-----------------------------------------------------------------------------
(* The hedged volume is part of the gross volume.  Think of the gross       *)
(* volume n as n coins, each of one owner: an evaluation that has paid its  *)
(* amount, a round its bets were written to, or the hedged volume.  Coins   *)
(* are only made when the gross volume grows, and only change hands later.  *)

Held(n, own, x) == Cardinality({c \in 1..n : own[c] = x})

LEMMA HeldTyped ==
  ASSUME NEW n \in Nat, NEW own, NEW x
  PROVE  Held(n, own, x) \in Nat /\ Held(n, own, x) <= n
<1>1. IsFiniteSet(1..n) /\ Cardinality(1..n) = n
  BY FS_Interval
<1>2. {c \in 1..n : own[c] = x} \in SUBSET (1..n)
  OBVIOUS
<1> HIDE DEF Held
<1>3. /\ IsFiniteSet({c \in 1..n : own[c] = x})
      /\ Cardinality({c \in 1..n : own[c] = x}) <= Cardinality(1..n)
  BY <1>1, <1>2, FS_Subset
<1>4. Cardinality({c \in 1..n : own[c] = x}) \in Nat
  BY <1>3, FS_CardinalityType
<1> QED
  BY <1>1, <1>3, <1>4 DEF Held

\* Everything x holds goes to y.
Moved(n, own, x, y) == [c \in 1..n |-> IF own[c] = x THEN y ELSE own[c]]

LEMMA HeldMoved ==
  ASSUME NEW n \in Nat, NEW own, NEW x, NEW y, x # y
  PROVE  /\ Held(n, Moved(n, own, x, y), y) = Held(n, own, y) + Held(n, own, x)
         /\ \A z : z # x /\ z # y => Held(n, Moved(n, own, x, y), z) = Held(n, own, z)
<1> DEFINE new == [c \in 1..n |-> IF own[c] = x THEN y ELSE own[c]]
           Of_(f, z) == {c \in 1..n : f[c] = z}
<1>1. Of_(new, y) = Of_(own, y) \union Of_(own, x)
  OBVIOUS
<1>2. \A z : z # x /\ z # y => Of_(new, z) = Of_(own, z)
  OBVIOUS
<1>3. Of_(own, y) \cap Of_(own, x) = {}
  OBVIOUS
<1>4. \A z : IsFiniteSet(Of_(own, z)) /\ Cardinality(Of_(own, z)) \in Nat
  <2> SUFFICES ASSUME NEW z PROVE IsFiniteSet(Of_(own, z)) /\ Cardinality(Of_(own, z)) \in Nat
    OBVIOUS
  <2>1. IsFiniteSet(1..n) /\ Of_(own, z) \in SUBSET (1..n)
    BY FS_Interval
  <2> HIDE DEF Of_
  <2>2. IsFiniteSet(Of_(own, z))
    BY <2>1, FS_Subset
  <2> QED BY <2>2, FS_CardinalityType
<1>5. \A f, z : Held(n, f, z) = Cardinality(Of_(f, z))
  BY DEF Held
<1> HIDE DEF new, Of_
<1>6. Cardinality(Of_(own, y) \union Of_(own, x)) = Cardinality(Of_(own, y)) + Cardinality(Of_(own, x))
  <2>1. Cardinality(Of_(own, y) \union Of_(own, x)) =
          Cardinality(Of_(own, y)) + Cardinality(Of_(own, x)) - Cardinality(Of_(own, y) \cap Of_(own, x))
    BY <1>4, FS_Union
  <2>2. Cardinality(Of_(own, y) \cap Of_(own, x)) = 0
    BY <1>3, FS_EmptySet
  <2>3. Cardinality(Of_(own, y)) \in Nat /\ Cardinality(Of_(own, x)) \in Nat
    BY <1>4
  <2> QED BY <2>1, <2>2, <2>3
<1>7. Held(n, new, y) = Held(n, own, y) + Held(n, own, x)
  BY <1>1, <1>5, <1>6
<1>8. \A z : z # x /\ z # y => Held(n, new, z) = Held(n, own, z)
  BY <1>2, <1>5
<1> QED BY <1>7, <1>8 DEF new, Moved

\* Of k coins made, all are x's.
Grown(n, k, own, x) == [c \in 1..(n + k) |-> IF c \in 1..n THEN own[c] ELSE x]

LEMMA HeldGrown ==
  ASSUME NEW n \in Nat, NEW k \in Nat, NEW own, NEW x
  PROVE  /\ Held(n + k, Grown(n, k, own, x), x) >= k
         /\ \A z : z # x => Held(n + k, Grown(n, k, own, x), z) = Held(n, own, z)
<1> DEFINE new == [c \in 1..(n + k) |-> IF c \in 1..n THEN own[c] ELSE x]
           Of_(m, f, z) == {c \in 1..m : f[c] = z}
<1>1. (n + 1)..(n + k) \in SUBSET Of_(n + k, new, x)
  OBVIOUS
<1>2. \A z : z # x => Of_(n + k, new, z) = Of_(n, own, z)
  OBVIOUS
<1>3. IsFiniteSet(Of_(n + k, new, x))
  <2>1. IsFiniteSet(1..(n + k)) /\ Of_(n + k, new, x) \in SUBSET (1..(n + k))
    BY FS_Interval
  <2> HIDE DEF Of_, new
  <2> QED BY <2>1, FS_Subset
<1>4. Cardinality((n + 1)..(n + k)) = k
  BY FS_Interval
<1>5. \A m, f, z : Held(m, f, z) = Cardinality(Of_(m, f, z))
  BY DEF Held
<1> HIDE DEF new, Of_
<1>6. Cardinality((n + 1)..(n + k)) <= Cardinality(Of_(n + k, new, x))
  BY <1>1, <1>3, FS_Subset
<1>7. Held(n + k, new, x) >= k
  BY <1>4, <1>5, <1>6, HeldTyped
<1>8. \A z : z # x => Held(n + k, new, z) = Held(n, own, z)
  BY <1>2, <1>5
<1> QED BY <1>7, <1>8 DEF new, Grown

ByBettor(t) == <<"bettor", t>>
InRound(r)  == <<"round", r>>
AsHedged    == <<"hedged", "all">>

\* The evaluation has paid its amount, and the round does not know it yet.
Paid(t) == betting[t].stat = "gross" /\ betting[t].pc \in {"ttl", "expire", "get", "set"}

\* It has found an opposite leg in r; it has flagged its round, and adds to the hedged volume next.
Found(t, r) == betting[t].pc \in {"exists", "flag"} /\ Of(t).round = r
Reserved(t) == betting[t].stat = "hedged" /\ BetAt(t, "incr")

HedgeOf(t) == Of(t).amount + betting[t].read[betting[t].opposite]

\* Whatever is hedged, or may be, is held by who may hedge it.
Backed(own) ==
  LET coins == stats["gross"].n
  IN /\ stats["hedged"].n <= Held(coins, own, AsHedged)
     /\ \A t \in Bettor : /\ Paid(t) => Of(t).amount <= Held(coins, own, ByBettor(t))
                          /\ Reserved(t) => HedgeOf(t) <= Held(coins, own, ByBettor(t))
     /\ \A r \in Round : flag[r] = NoLeg =>
          /\ \A s \in Selection : legs[r].bets[s] <= Held(coins, own, InRound(r))
          /\ \A t \in Bettor : Found(t, r) => HedgeOf(t) <= Held(coins, own, InRound(r))

\* At most one evaluation of a round is about to flag it, and nobody has.
FlagAlone ==
  /\ \A t, u \in Bettor : BetAt(t, "flag") /\ BetAt(u, "flag") /\ Of(t).round = Of(u).round => t = u
  /\ \A t \in Bettor : BetAt(t, "flag") => flag[Of(t).round] = NoLeg

GrossInv == raced = {} /\ ~lapsed => FlagAlone /\ \E own : Backed(own)

LEMMA HistoryGrows ==
  ASSUME HedgeTypeOK, [HedgeNext]_hedgeVars
  PROVE  raced \subseteq raced' /\ (lapsed => lapsed')
<1>1. CASE \E t \in Bettor, b \in Bet : StartBet(t, b)
  BY <1>1, StartMoves DEF notes
<1>2. CASE TickBets
  <2>1. raced \subseteq raced'
    BY <1>2 DEF TickBets
  <2>2. lapsed => lapsed'
    BY <1>2, Zenon DEF TickBets
  <2> QED BY <2>1, <2>2
<1>4. CASE UNCHANGED hedgeVars
  BY <1>4 DEF hedgeVars, notes
<1>3. ASSUME NEW t \in Bettor,
             Incr(t) \/ Ttl(t) \/ Expire(t) \/ Get(t) \/ Set(t) \/ Exists(t) \/ Flag(t)
               \/ Volume(t) \/ FailBet(t)
      PROVE  raced \subseteq raced' /\ (lapsed => lapsed')
  BY <1>3 DEF Incr, Ttl, TtlThen, Expire, Get, Set, SetLegs, Exists, ExistsThen, Overtakes, Flag,
              Volume, FailBet, notes
<1> QED
  BY <1>1, <1>2, <1>3, <1>4 DEF HedgeNext, EvaluateBet

\* What the claims are in numbers.
LEMMA ClaimsTyped ==
  ASSUME HedgeTypeInv
  PROVE  /\ stats["gross"].n \in Nat /\ stats["hedged"].n \in Nat
         /\ \A t \in Bettor : Of(t).amount \in Nat
         /\ \A t \in Bettor : betting[t].opposite # NoLeg => HedgeOf(t) \in Nat
         /\ \A t \in Bettor, r \in Round : Reserved(t) \/ Found(t, r) => HedgeOf(t) \in Nat
         /\ \A r \in Round, s \in Selection : legs[r].bets[s] \in Nat
<1>1. stats["gross"].n \in Nat /\ stats["hedged"].n \in Nat
  BY DEF HedgeTypeInv, HedgeTypeOK, Stat
<1>2. \A t \in Bettor : Of(t).amount \in Nat /\ betting[t] \in BetTask
  BY OfTyped DEF HedgeTypeInv
<1>3. \A t \in Bettor : betting[t].opposite # NoLeg => HedgeOf(t) \in Nat
  BY <1>2 DEF HedgeOf, BetTask, Amounts
<1>4. \A t \in Bettor, r \in Round : Reserved(t) \/ Found(t, r) => betting[t].opposite # NoLeg
  BY DEF HedgeTypeInv, HedgeShape, Reserved, Found, BetAt
<1>5. \A r \in Round, s \in Selection : legs[r].bets[s] \in Nat
  BY DEF HedgeTypeInv, HedgeTypeOK, Amounts
<1> QED
  BY <1>1, <1>2, <1>3, <1>4, <1>5

\* Nobody needs more than before: the coins stay where they are.
LEMMA BackedKept ==
  ASSUME HedgeTypeInv, HedgeTypeInv', NEW own, Backed(own), NEW t \in Bettor,
         \A u \in Bettor \ {t} : betting'[u] = betting[u],
         stats'["gross"].n = stats["gross"].n, stats'["hedged"].n = stats["hedged"].n,
         flag' = flag, legs' = legs,
         Paid(t)' => Paid(t) /\ betting'[t].bet = betting[t].bet,
         Reserved(t)' => FALSE,
         \A r \in Round : Found(t, r)' => Found(t, r) /\ HedgeOf(t)' = HedgeOf(t)
  PROVE  Backed(own)'
<1>1. \A u \in Bettor \ {t} : /\ Of(u)' = Of(u) /\ HedgeOf(u)' = HedgeOf(u)
                              /\ (Paid(u)' <=> Paid(u)) /\ (Reserved(u)' <=> Reserved(u))
                              /\ \A r \in Round : (Found(u, r)' <=> Found(u, r))
  BY DEF Of, HedgeOf, Paid, Reserved, Found, BetAt
<1>2. Paid(t)' => Of(t)' = Of(t) /\ Paid(t)
  BY DEF Of
<1> DEFINE n == stats["gross"].n
<1>3. stats'["hedged"].n <= Held(n', own, AsHedged)
  BY DEF Backed
<1>4. \A u \in Bettor : /\ Paid(u)' => Of(u)'.amount <= Held(n', own, ByBettor(u))
                        /\ Reserved(u)' => HedgeOf(u)' <= Held(n', own, ByBettor(u))
  BY <1>1, <1>2 DEF Backed
<1>5. ASSUME NEW r \in Round, flag'[r] = NoLeg
      PROVE  /\ \A s \in Selection : legs'[r].bets[s] <= Held(n', own, InRound(r))
             /\ \A u \in Bettor : Found(u, r)' => HedgeOf(u)' <= Held(n', own, InRound(r))
  BY <1>1, <1>5 DEF Backed
<1> QED
  BY <1>3, <1>4, <1>5 DEF Backed, ByBettor, InRound, AsHedged

LEMMA BackedByRest ==
  ASSUME HedgeTypeInv, HedgeTypeInv', NEW own, Backed(own), NEW t \in Bettor,
         EvaluateBet(t), ~Set(t), ~Flag(t), Incr(t) => betting[t].stat = "rounds"
  PROVE  Backed(own)'
<1>0. /\ HedgeTypeOK /\ betting \in [Bettor -> BetTask] /\ betting[t].stat \in Stat
      /\ \A u \in Bettor \ {t} : betting'[u] = betting[u]
      /\ stats \in [Stat -> [n : Nat, until : Nat \union {NoLeg}]]
  BY OthersStay DEF HedgeTypeInv, HedgeTypeOK, BetTask
<1>1. CASE \E b \in Bet : StartBet(t, b)
  <2>1. betting'[t].pc = "incr" /\ betting'[t].stat = "gross"
    BY <1>0, <1>1, StartMoves
  <2>2. legs' = legs /\ flag' = flag /\ stats' = stats
    BY <1>0, <1>1, StartMoves
  <2>3. ~Paid(t)' /\ ~Reserved(t)' /\ \A r \in Round : ~Found(t, r)'
    BY <2>1 DEF Paid, Reserved, Found, BetAt
  <2> QED BY <1>0, <2>2, <2>3, BackedKept
<1>2. CASE Incr(t)
  <2>1. /\ legs' = legs /\ flag' = flag
        /\ stats'["gross"].n = stats["gross"].n /\ stats'["hedged"].n = stats["hedged"].n
    BY <1>0, <1>2 DEF Incr, Stat
  <2>2. AfterStat(t)[t].pc = "volume"
    BY <1>0, <1>2, AfterStatTyped
  <2>3. betting'[t].stat # "gross" /\ betting'[t].pc \in {"expire", "volume"}
    BY <1>0, <1>2, <2>2, AfterStatTyped DEF Incr, BetTask
  <2>4. ~Paid(t)' /\ ~Reserved(t)' /\ \A r \in Round : ~Found(t, r)'
    BY <2>3 DEF Paid, Reserved, Found, BetAt
  <2> QED BY <1>0, <2>1, <2>4, BackedKept
<1>3. CASE Ttl(t) \/ Expire(t)
  <2>1. /\ legs' = legs /\ flag' = flag
        /\ stats'["gross"].n = stats["gross"].n /\ stats'["hedged"].n = stats["hedged"].n
    BY <1>0, <1>3 DEF Ttl, TtlThen, Expire, Stat, notes
  <2>2. /\ betting[t].pc \in {"ttl", "expire"} /\ betting'[t].bet = betting[t].bet
        /\ \/ betting'[t].pc = "expire" /\ betting'[t].stat = betting[t].stat
           \/ betting'[t] = AfterStat(t)[t]
    BY <1>0, <1>3, AfterStatTyped DEF Ttl, TtlThen, Expire, BetAt, BetTask
  <2>3. Paid(t)' => Paid(t) /\ betting'[t].bet = betting[t].bet
    BY <1>0, <2>2, AfterStatTyped DEF Paid, Stat
  <2>4. ~Reserved(t)' /\ \A r \in Round : ~Found(t, r)'
    BY <1>0, <2>2, AfterStatTyped DEF Reserved, Found, BetAt, Stat
  <2> QED BY <1>0, <2>1, <2>3, <2>4, BackedKept
<1>4. CASE Get(t)
  <2>1. legs' = legs /\ flag' = flag /\ stats' = stats
    BY <1>4 DEF Get
  <2>2. Paid(t)' => Paid(t) /\ betting'[t].bet = betting[t].bet
    BY <1>0, <1>4, LegsMove DEF Paid
  <2>3. ~Reserved(t)' /\ \A r \in Round : ~Found(t, r)'
    BY <1>0, <1>4, LegsMove DEF Reserved, Found, BetAt
  <2> QED BY <1>0, <2>1, <2>2, <2>3, BackedKept
<1>5. CASE Exists(t)
  <2>1. legs' = legs /\ flag' = flag /\ stats' = stats
    BY <1>5 DEF Exists, ExistsThen
  <2>2. ~Paid(t)' /\ ~Reserved(t)'
    BY <1>0, <1>5, LegsMove DEF Paid, Reserved, BetAt
  <2>3. /\ betting'[t].bet = betting[t].bet /\ betting'[t].read = betting[t].read
        /\ betting'[t].opposite = betting[t].opposite
    BY <1>0, <1>5 DEF Exists, ExistsThen, BetGoto, BetTask
  <2>4. \A r \in Round : Found(t, r)' => Found(t, r) /\ HedgeOf(t)' = HedgeOf(t)
    BY <1>0, <1>5, <2>3, LegsMove DEF Found, HedgeOf, Of
  <2> QED BY <1>0, <2>1, <2>2, <2>4, BackedKept
<1>6. CASE Volume(t) \/ FailBet(t)
  <2>1. legs' = legs /\ flag' = flag /\ stats' = stats
    BY <1>6 DEF Volume, FailBet
  <2>2. betting'[t] = IdleBet
    BY <1>0, <1>6, LegsMove
  <2>3. IdleBet.pc = "idle"
    BY DEF IdleBet
  <2>4. ~Paid(t)' /\ ~Reserved(t)' /\ \A r \in Round : ~Found(t, r)'
    BY <2>2, <2>3 DEF Paid, Reserved, Found, BetAt
  <2> QED BY <1>0, <2>1, <2>4, BackedKept
<1> QED
  BY <1>1, <1>2, <1>3, <1>4, <1>5, <1>6 DEF EvaluateBet

\* The gross volume grows: the new coins are the evaluation's.
LEMMA BackedByGross ==
  ASSUME HedgeTypeInv, HedgeTypeInv', NEW own, Backed(own), NEW t \in Bettor,
         Incr(t), betting[t].stat = "gross"
  PROVE  \E new : Backed(new)'
<1>0. /\ HedgeTypeOK /\ betting \in [Bettor -> BetTask]
      /\ \A u \in Bettor \ {t} : betting'[u] = betting[u]
      /\ stats \in [Stat -> [n : Nat, until : Nat \union {NoLeg}]]
  BY OthersStay DEF HedgeTypeInv, HedgeTypeOK, BetTask, EvaluateBet
<1>1. PICK n \in Nat, k \in Nat : n = stats["gross"].n /\ k = Of(t).amount
  BY ClaimsTyped
<1>2. /\ stats'["gross"].n = n + k /\ stats'["hedged"].n = stats["hedged"].n
      /\ legs' = legs /\ flag' = flag
  BY <1>0, <1>1 DEF Incr, Increment, Stat
<1>3. betting'[t].pc = "ttl" /\ betting'[t].stat = "gross" /\ betting'[t].bet = betting[t].bet
  BY <1>0 DEF Incr, BetTask
<1> DEFINE new == Grown(n, k, own, ByBettor(t))
<1>4. /\ Held(n + k, new, ByBettor(t)) >= k
      /\ \A z : z # ByBettor(t) => Held(n + k, new, z) = Held(n, own, z)
  BY HeldGrown
<1> HIDE DEF new
<1>5. \A u \in Bettor \ {t} : /\ Of(u)' = Of(u) /\ HedgeOf(u)' = HedgeOf(u)
                              /\ (Paid(u)' <=> Paid(u)) /\ (Reserved(u)' <=> Reserved(u))
                              /\ \A r \in Round : (Found(u, r)' <=> Found(u, r))
  BY <1>0 DEF Of, HedgeOf, Paid, Reserved, Found, BetAt
<1>6. /\ AsHedged # ByBettor(t)
      /\ \A u \in Bettor \ {t} : ByBettor(u) # ByBettor(t)
      /\ \A r \in Round : InRound(r) # ByBettor(t)
  BY DEF AsHedged, ByBettor, InRound
<1>7. stats'["hedged"].n <= Held(n + k, new, AsHedged)
  BY <1>1, <1>2, <1>4, <1>6 DEF Backed
<1>8. ASSUME NEW u \in Bettor
      PROVE  /\ Paid(u)' => Of(u)'.amount <= Held(n + k, new, ByBettor(u))
             /\ Reserved(u)' => HedgeOf(u)' <= Held(n + k, new, ByBettor(u))
  <2>1. CASE u = t
    <3>1. ~Reserved(t)' /\ Of(t)'.amount = k
      BY <1>1, <1>3 DEF Reserved, BetAt, Of
    <3>2. Held(n + k, new, ByBettor(t)) \in Nat
      BY HeldTyped
    <3> QED BY <1>4, <2>1, <3>1, <3>2
  <2>2. CASE u # t
    <3>1. Held(n + k, new, ByBettor(u)) = Held(n, own, ByBettor(u))
      BY <1>4, <1>6, <2>2
    <3>2. /\ Paid(u) => Of(u).amount <= Held(stats["gross"].n, own, ByBettor(u))
          /\ Reserved(u) => HedgeOf(u) <= Held(stats["gross"].n, own, ByBettor(u))
      BY DEF Backed
    <3> QED BY <1>1, <1>5, <2>2, <3>1, <3>2
  <2> QED BY <2>1, <2>2
<1>9. ASSUME NEW r \in Round, flag'[r] = NoLeg
      PROVE  /\ \A s \in Selection : legs'[r].bets[s] <= Held(n + k, new, InRound(r))
             /\ \A u \in Bettor : Found(u, r)' => HedgeOf(u)' <= Held(n + k, new, InRound(r))
  <2>1. ~Found(t, r)'
    BY <1>3 DEF Found
  <2> QED BY <1>1, <1>2, <1>4, <1>5, <1>6, <1>9, <2>1 DEF Backed
<1> QED
  BY <1>2, <1>7, <1>8, <1>9 DEF Backed, ByBettor, InRound, AsHedged

\* The hedged volume grows by what the evaluation has reserved.
LEMMA BackedByHedge ==
  ASSUME HedgeTypeInv, HedgeTypeInv', NEW own, Backed(own), NEW t \in Bettor,
         Incr(t), betting[t].stat = "hedged"
  PROVE  \E new : Backed(new)'
<1>0. /\ HedgeTypeOK /\ betting \in [Bettor -> BetTask]
      /\ \A u \in Bettor \ {t} : betting'[u] = betting[u]
      /\ stats \in [Stat -> [n : Nat, until : Nat \union {NoLeg}]]
  BY OthersStay DEF HedgeTypeInv, HedgeTypeOK, BetTask, EvaluateBet
<1>1. PICK n \in Nat : n = stats["gross"].n
  BY ClaimsTyped
<1>2. Reserved(t) /\ HedgeOf(t) \in Nat /\ Increment(t) = HedgeOf(t)
  <2>1. betting[t].opposite # NoLeg
    BY DEF HedgeTypeInv, HedgeShape, Incr, BetAt
  <2> QED BY <2>1, ClaimsTyped DEF Reserved, Incr, Increment, HedgeOf
<1>3. /\ stats'["gross"].n = n /\ stats'["hedged"].n = stats["hedged"].n + HedgeOf(t)
      /\ legs' = legs /\ flag' = flag
  BY <1>0, <1>1, <1>2 DEF Incr, Stat
<1>4. betting'[t].pc = "ttl" /\ betting'[t].stat = "hedged"
  BY <1>0 DEF Incr, BetTask
<1>5. /\ AsHedged # ByBettor(t)
      /\ \A u \in Bettor \ {t} : ByBettor(u) # ByBettor(t) /\ ByBettor(u) # AsHedged
      /\ \A r \in Round : InRound(r) # ByBettor(t) /\ InRound(r) # AsHedged
  BY DEF AsHedged, ByBettor, InRound
<1> DEFINE new == Moved(n, own, ByBettor(t), AsHedged)
<1>6. /\ Held(n, new, AsHedged) = Held(n, own, AsHedged) + Held(n, own, ByBettor(t))
      /\ \A z : z # ByBettor(t) /\ z # AsHedged => Held(n, new, z) = Held(n, own, z)
  BY <1>5, HeldMoved
<1> HIDE DEF new
<1>7. \A u \in Bettor \ {t} : /\ Of(u)' = Of(u) /\ HedgeOf(u)' = HedgeOf(u)
                              /\ (Paid(u)' <=> Paid(u)) /\ (Reserved(u)' <=> Reserved(u))
                              /\ \A r \in Round : (Found(u, r)' <=> Found(u, r))
  BY <1>0 DEF Of, HedgeOf, Paid, Reserved, Found, BetAt
<1>8. stats'["hedged"].n <= Held(n, new, AsHedged)
  <2>1. stats["hedged"].n <= Held(n, own, AsHedged) /\ HedgeOf(t) <= Held(n, own, ByBettor(t))
    BY <1>1, <1>2 DEF Backed
  <2>2. Held(n, own, AsHedged) \in Nat /\ Held(n, own, ByBettor(t)) \in Nat
    BY HeldTyped
  <2> QED BY <1>2, <1>3, <1>6, <2>1, <2>2, ClaimsTyped
<1>9. ASSUME NEW u \in Bettor
      PROVE  /\ Paid(u)' => Of(u)'.amount <= Held(n, new, ByBettor(u))
             /\ Reserved(u)' => HedgeOf(u)' <= Held(n, new, ByBettor(u))
  <2>1. CASE u = t
    BY <1>4, <2>1 DEF Paid, Reserved, BetAt
  <2>2. CASE u # t
    <3>1. Held(n, new, ByBettor(u)) = Held(n, own, ByBettor(u))
      BY <1>5, <1>6, <2>2
    <3>2. /\ Paid(u) => Of(u).amount <= Held(n, own, ByBettor(u))
          /\ Reserved(u) => HedgeOf(u) <= Held(n, own, ByBettor(u))
      BY <1>1 DEF Backed
    <3> QED BY <1>7, <2>2, <3>1, <3>2
  <2> QED BY <2>1, <2>2
<1>10. ASSUME NEW r \in Round, flag'[r] = NoLeg
       PROVE  /\ \A s \in Selection : legs'[r].bets[s] <= Held(n, new, InRound(r))
              /\ \A u \in Bettor : Found(u, r)' => HedgeOf(u)' <= Held(n, new, InRound(r))
  <2>1. ~Found(t, r)'
    BY <1>4 DEF Found
  <2> QED BY <1>1, <1>3, <1>5, <1>6, <1>7, <1>10, <2>1 DEF Backed
<1> QED
  BY <1>3, <1>8, <1>9, <1>10 DEF Backed, ByBettor, InRound, AsHedged

\* The round takes the coins of the evaluation whose bet it holds from now on.
LEMMA BackedBySet ==
  ASSUME HedgeTypeInv, HedgeTypeInv', VerdictsInv, raced = {},
         NEW own, Backed(own), NEW t \in Bettor, Set(t)
  PROVE  \E new : Backed(new)'
<1>0. /\ HedgeTypeOK /\ betting \in [Bettor -> BetTask] /\ betting[t] \in BetTask
      /\ \A u \in Bettor \ {t} : betting'[u] = betting[u]
      /\ legs \in [Round -> [bets : Amounts, until : Nat \union {NoLeg}]]
      /\ stats' = stats /\ flag' = flag
  BY OthersStay DEF HedgeTypeInv, HedgeTypeOK, EvaluateBet, Set, SetLegs
<1>1. PICK n \in Nat : n = stats["gross"].n
  BY ClaimsTyped
<1>2. PICK q \in Round, x \in Selection, k \in Nat :
        q = Of(t).round /\ x = Of(t).selection /\ k = Of(t).amount
  BY <1>0, OfTyped
<1>3. AtSet(t, q) /\ betting[t].stat = "gross" /\ Paid(t)
  BY <1>2 DEF AtSet, Set, SetLegs, BetAt, HedgeTypeInv, HedgeShape, Paid
<1>4. betting[t].read = legs[q].bets
  BY <1>3 DEF VerdictsInv
<1>5. legs' = [legs EXCEPT ![q] = [bets |-> [legs[q].bets EXCEPT ![x] = @ + k],
                                   until |-> betTime + RoundTtl]]
  BY <1>2, <1>4 DEF Set, SetLegs
<1>6. /\ betting'[t].pc \in {"volume", "exists"} /\ betting'[t].stat = "gross"
      /\ Of(t)' = Of(t) /\ betting'[t].read = legs[q].bets
      /\ betting'[t].opposite = betting[t].opposite
      /\ betting'[t].pc = "exists" => betting[t].opposite # NoLeg
  BY <1>0, <1>3, <1>4 DEF Set, SetLegs, BetGoto, BetTask, Of
<1>7. InRound(q) # ByBettor(t)
  BY DEF ByBettor, InRound
<1>8. /\ AsHedged # ByBettor(t) /\ AsHedged # InRound(q)
      /\ \A u \in Bettor \ {t} : ByBettor(u) # ByBettor(t) /\ ByBettor(u) # InRound(q)
      /\ \A r \in Round \ {q} : InRound(r) # ByBettor(t) /\ InRound(r) # InRound(q)
  BY DEF AsHedged, ByBettor, InRound
<1> DEFINE new == Moved(n, own, ByBettor(t), InRound(q))
<1>9. /\ Held(n, new, InRound(q)) = Held(n, own, InRound(q)) + Held(n, own, ByBettor(t))
      /\ \A z : z # ByBettor(t) /\ z # InRound(q) => Held(n, new, z) = Held(n, own, z)
  BY <1>7, HeldMoved
<1> HIDE DEF new
<1>10. \A u \in Bettor \ {t} : /\ Of(u)' = Of(u) /\ HedgeOf(u)' = HedgeOf(u)
                               /\ (Paid(u)' <=> Paid(u)) /\ (Reserved(u)' <=> Reserved(u))
                               /\ \A r \in Round : (Found(u, r)' <=> Found(u, r))
  BY <1>0 DEF Of, HedgeOf, Paid, Reserved, Found, BetAt
<1>11. stats'["hedged"].n <= Held(n, new, AsHedged)
  BY <1>0, <1>1, <1>8, <1>9 DEF Backed
<1>12. ASSUME NEW u \in Bettor
       PROVE  /\ Paid(u)' => Of(u)'.amount <= Held(n, new, ByBettor(u))
              /\ Reserved(u)' => HedgeOf(u)' <= Held(n, new, ByBettor(u))
  <2>1. CASE u = t
    BY <1>6, <2>1 DEF Paid, Reserved, BetAt
  <2>2. CASE u # t
    <3>1. Held(n, new, ByBettor(u)) = Held(n, own, ByBettor(u))
      BY <1>8, <1>9, <2>2
    <3>2. /\ Paid(u) => Of(u).amount <= Held(n, own, ByBettor(u))
          /\ Reserved(u) => HedgeOf(u) <= Held(n, own, ByBettor(u))
      BY <1>1 DEF Backed
    <3> QED BY <1>10, <2>2, <3>1, <3>2
  <2> QED BY <2>1, <2>2
<1>13. ASSUME NEW r \in Round, flag'[r] = NoLeg
       PROVE  /\ \A s \in Selection : legs'[r].bets[s] <= Held(n, new, InRound(r))
              /\ \A u \in Bettor : Found(u, r)' => HedgeOf(u)' <= Held(n, new, InRound(r))
  <2>1. CASE r = q
    <3>1. /\ \A s \in Selection : legs[q].bets[s] <= Held(n, own, InRound(q))
          /\ \A u \in Bettor : Found(u, q) => HedgeOf(u) <= Held(n, own, InRound(q))
          /\ k <= Held(n, own, ByBettor(t))
      BY <1>0, <1>1, <1>2, <1>3, <1>13, <2>1 DEF Backed
    <3>2. Held(n, own, InRound(q)) \in Nat /\ Held(n, own, ByBettor(t)) \in Nat
      BY HeldTyped
    <3>3. \A s \in Selection : legs[q].bets[s] \in Nat
      BY ClaimsTyped
    <3>4. \A s \in Selection : legs'[q].bets[s] = IF s = x THEN legs[q].bets[s] + k ELSE legs[q].bets[s]
      BY <1>0, <1>5 DEF Amounts
    <3>5. \A s \in Selection : legs'[q].bets[s] <= Held(n, new, InRound(q))
      BY <1>9, <3>1, <3>2, <3>3, <3>4
    <3>6. ASSUME NEW u \in Bettor, Found(u, q)'
          PROVE  HedgeOf(u)' <= Held(n, new, InRound(q))
      <4>1. CASE u = t
        <5>1. betting[t].opposite \in Selection
          BY <1>0, <1>6, <3>6, <4>1 DEF Found, BetTask
        <5>2. HedgeOf(t)' = k + legs[q].bets[betting[t].opposite]
          BY <1>2, <1>6 DEF HedgeOf
        <5> QED BY <1>9, <3>1, <3>2, <3>3, <4>1, <5>1, <5>2
      <4>2. CASE u # t
        <5>1. HedgeOf(u) <= Held(n, own, InRound(q)) /\ HedgeOf(u) \in Nat
          BY <1>10, <3>1, <3>6, <4>2, ClaimsTyped
        <5> QED BY <1>9, <1>10, <3>2, <4>2, <5>1
      <4> QED BY <4>1, <4>2
    <3> QED BY <2>1, <3>5, <3>6
  <2>2. CASE r # q
    <3>1. ~Found(t, r)' /\ legs'[r] = legs[r]
      BY <1>0, <1>2, <1>5, <1>6, <2>2 DEF Found
    <3>2. Held(n, new, InRound(r)) = Held(n, own, InRound(r))
      BY <1>8, <1>9, <2>2
    <3> QED BY <1>0, <1>1, <1>10, <1>13, <3>1, <3>2 DEF Backed
  <2> QED BY <2>1, <2>2
<1>14. stats'["gross"].n = n
  BY <1>0, <1>1
<1> QED
  BY <1>11, <1>12, <1>13, <1>14 DEF Backed, ByBettor, InRound, AsHedged

\* The evaluation that flags the round takes the coins of the round, which holds nothing from now on.
LEMMA BackedByFlag ==
  ASSUME HedgeTypeInv, HedgeTypeInv', FlagAlone, NEW own, Backed(own), NEW t \in Bettor, Flag(t)
  PROVE  \E new : Backed(new)'
<1>0. /\ HedgeTypeOK /\ betting \in [Bettor -> BetTask] /\ betting[t] \in BetTask
      /\ \A u \in Bettor \ {t} : betting'[u] = betting[u]
      /\ flag \in [Round -> Nat \union {NoLeg}] /\ betTime \in Nat
      /\ stats' = stats /\ legs' = legs
  BY OthersStay DEF HedgeTypeInv, HedgeTypeOK, EvaluateBet, Flag
<1>1. PICK n \in Nat : n = stats["gross"].n
  BY ClaimsTyped
<1>2. PICK q \in Round : q = Of(t).round
  BY <1>0, OfTyped
<1>3. BetAt(t, "flag") /\ flag[q] = NoLeg /\ Found(t, q)
  BY <1>2 DEF Flag, FlagAlone, Found, BetAt
<1>4. /\ flag'[q] # NoLeg
      /\ \A r \in Round \ {q} : flag'[r] = flag[r]
  <2>1. betTime + RoundTtl # NoLeg
    BY <1>0, HedgeAssumption
  <2> QED BY <1>0, <1>2, <2>1 DEF Flag
<1>5. /\ betting'[t].pc = "incr" /\ betting'[t].stat = "hedged" /\ HedgeOf(t)' = HedgeOf(t)
  BY <1>0 DEF Flag, HedgeOf, Of, BetTask
<1>6. InRound(q) # ByBettor(t)
  BY DEF ByBettor, InRound
<1>7. /\ AsHedged # ByBettor(t) /\ AsHedged # InRound(q)
      /\ \A u \in Bettor \ {t} : ByBettor(u) # ByBettor(t) /\ ByBettor(u) # InRound(q)
      /\ \A r \in Round \ {q} : InRound(r) # ByBettor(t) /\ InRound(r) # InRound(q)
  BY DEF AsHedged, ByBettor, InRound
<1> DEFINE new == Moved(n, own, InRound(q), ByBettor(t))
<1>8. /\ Held(n, new, ByBettor(t)) = Held(n, own, ByBettor(t)) + Held(n, own, InRound(q))
      /\ \A z : z # ByBettor(t) /\ z # InRound(q) => Held(n, new, z) = Held(n, own, z)
  BY <1>6, HeldMoved
<1> HIDE DEF new
<1>9. \A u \in Bettor \ {t} : /\ Of(u)' = Of(u) /\ HedgeOf(u)' = HedgeOf(u)
                              /\ (Paid(u)' <=> Paid(u)) /\ (Reserved(u)' <=> Reserved(u))
                              /\ \A r \in Round : (Found(u, r)' <=> Found(u, r))
  BY <1>0 DEF Of, HedgeOf, Paid, Reserved, Found, BetAt
<1>10. stats'["hedged"].n <= Held(n, new, AsHedged)
  BY <1>0, <1>1, <1>7, <1>8 DEF Backed
<1>11. ASSUME NEW u \in Bettor
       PROVE  /\ Paid(u)' => Of(u)'.amount <= Held(n, new, ByBettor(u))
              /\ Reserved(u)' => HedgeOf(u)' <= Held(n, new, ByBettor(u))
  <2>1. CASE u = t
    <3>1. HedgeOf(t) <= Held(n, own, InRound(q)) /\ HedgeOf(t) \in Nat
      BY <1>1, <1>3, ClaimsTyped DEF Backed
    <3>2. Held(n, own, InRound(q)) \in Nat /\ Held(n, own, ByBettor(t)) \in Nat
      BY HeldTyped
    <3>3. ~Paid(t)'
      BY <1>5 DEF Paid
    <3> QED BY <1>5, <1>8, <2>1, <3>1, <3>2, <3>3
  <2>2. CASE u # t
    <3>1. Held(n, new, ByBettor(u)) = Held(n, own, ByBettor(u))
      BY <1>7, <1>8, <2>2
    <3>2. /\ Paid(u) => Of(u).amount <= Held(n, own, ByBettor(u))
          /\ Reserved(u) => HedgeOf(u) <= Held(n, own, ByBettor(u))
      BY <1>1 DEF Backed
    <3> QED BY <1>9, <2>2, <3>1, <3>2
  <2> QED BY <2>1, <2>2
<1>12. ASSUME NEW r \in Round, flag'[r] = NoLeg
       PROVE  /\ \A s \in Selection : legs'[r].bets[s] <= Held(n, new, InRound(r))
              /\ \A u \in Bettor : Found(u, r)' => HedgeOf(u)' <= Held(n, new, InRound(r))
  <2>1. r # q /\ flag[r] = NoLeg
    BY <1>4, <1>12
  <2>2. ~Found(t, r)'
    BY <1>5 DEF Found
  <2>3. Held(n, new, InRound(r)) = Held(n, own, InRound(r))
    BY <1>7, <1>8, <2>1
  <2> QED BY <1>0, <1>1, <1>9, <2>1, <2>2, <2>3 DEF Backed
<1>13. stats'["gross"].n = n
  BY <1>0, <1>1
<1> QED
  BY <1>10, <1>11, <1>12, <1>13 DEF Backed, ByBettor, InRound, AsHedged

\* Legs and hedged volumes that expire claim nothing any more.
LEMMA BackedByTick ==
  ASSUME HedgeTypeInv, HedgeTypeInv', NEW own, Backed(own), TickBets, ~lapsed'
  PROVE  Backed(own)'
<1>1. betting' = betting /\ flag' = flag
  BY DEF TickBets, HedgeTypeInv, HedgeTypeOK
<1>2. stats'["gross"].n = stats["gross"].n
  BY DEF TickBets, Stat
<1>3. stats'["hedged"].n = stats["hedged"].n \/ stats'["hedged"].n = 0
  BY DEF TickBets, Stat
<1>4. \A r \in Round : legs'[r].bets = legs[r].bets \/ legs'[r].bets = NoBets
  BY DEF TickBets
<1>5. PICK n \in Nat : n = stats["gross"].n
  BY ClaimsTyped
<1>6. \A x : Held(n, own, x) \in Nat
  BY HeldTyped
<1>7. stats'["hedged"].n <= Held(n, own, AsHedged)
  BY <1>3, <1>5, <1>6 DEF Backed
<1>8. \A t \in Bettor : /\ Of(t)' = Of(t) /\ HedgeOf(t)' = HedgeOf(t)
                        /\ (Paid(t)' <=> Paid(t)) /\ (Reserved(t)' <=> Reserved(t))
                        /\ \A r \in Round : (Found(t, r)' <=> Found(t, r))
  BY <1>1 DEF Of, HedgeOf, Paid, Reserved, Found, BetAt
<1>9. ASSUME NEW u \in Bettor
      PROVE  /\ Paid(u)' => Of(u)'.amount <= Held(n, own, ByBettor(u))
             /\ Reserved(u)' => HedgeOf(u)' <= Held(n, own, ByBettor(u))
  BY <1>5, <1>8 DEF Backed
<1>10. ASSUME NEW r \in Round, flag'[r] = NoLeg
       PROVE  /\ \A s \in Selection : legs'[r].bets[s] <= Held(n, own, InRound(r))
              /\ \A u \in Bettor : Found(u, r)' => HedgeOf(u)' <= Held(n, own, InRound(r))
  <2>1. \A s \in Selection : NoBets[s] = 0
    BY DEF NoBets
  <2>2. \A s \in Selection : legs[r].bets[s] <= Held(n, own, InRound(r))
    BY <1>1, <1>5, <1>10 DEF Backed
  <2>3. \A s \in Selection : legs'[r].bets[s] <= Held(n, own, InRound(r))
    BY <1>4, <1>6, <2>1, <2>2
  <2>4. \A u \in Bettor : Found(u, r)' => HedgeOf(u)' <= Held(n, own, InRound(r))
    BY <1>1, <1>5, <1>8, <1>10 DEF Backed
  <2> QED BY <2>3, <2>4
<1> QED
  BY <1>2, <1>5, <1>7, <1>9, <1>10 DEF Backed, ByBettor, InRound, AsHedged

LEMMA FlagAloneStep ==
  ASSUME HedgeTypeInv, FlagAlone, [HedgeNext]_hedgeVars, raced' = {}, ~lapsed'
  PROVE  FlagAlone'
<1>0. HedgeTypeOK /\ betting \in [Bettor -> BetTask] /\ flag \in [Round -> Nat \union {NoLeg}]
  BY DEF HedgeTypeInv, HedgeTypeOK
<1>1. ASSUME NEW t \in Bettor, EvaluateBet(t) PROVE FlagAlone'
  <2>1. \A u \in Bettor \ {t} : (BetAt(u, "flag")' <=> BetAt(u, "flag")) /\ Of(u)' = Of(u)
    BY <1>0, <1>1, OthersStay DEF BetAt, Of
  <2>2. CASE Exists(t)
    <3>1. flag' = flag /\ Of(t)' = Of(t)
      BY <1>0, <2>2, LegsMove DEF Exists, ExistsThen, Of
    <3>2. BetAt(t, "flag")' => flag[Of(t).round] = NoLeg /\ ~Another(t, "flag")
      BY <1>0, <2>2 DEF Exists, ExistsThen, BetGoto, BetAt, Overtakes, BetTask
    <3> QED BY <2>1, <3>1, <3>2 DEF FlagAlone, Another
  <2>3. CASE Flag(t)
    <3>1. ~BetAt(t, "flag")' /\ BetAt(t, "flag")
      BY <1>0, <2>3, LegsMove DEF BetAt
    <3>2. \A r \in Round : r # Of(t).round => flag'[r] = flag[r]
      BY <1>0, <2>3 DEF Flag
    <3>3. \A u \in Bettor : Of(u).round \in Round
      BY <1>0, OfTyped
    <3> QED BY <2>1, <3>1, <3>2, <3>3 DEF FlagAlone
  <2>4. CASE ~Exists(t) /\ ~Flag(t)
    <3>1. flag' = flag /\ ~BetAt(t, "flag")'
      <4>1. CASE \E b \in Bet : StartBet(t, b)
        BY <1>0, <4>1, StartMoves DEF BetAt
      <4>2. CASE Incr(t) \/ Ttl(t) \/ Expire(t)
        <5>1. AfterStat(t)[t].pc # "flag"
          BY <1>0, AfterStatTyped DEF BetTask, Stat
        <5> QED BY <1>0, <4>2, <5>1 DEF Incr, Ttl, TtlThen, Expire, BetTask, BetAt, notes
      <4>3. CASE Get(t) \/ Set(t)
        BY <1>0, <4>3, LegsMove DEF Get, Set, SetLegs, BetAt
      <4>4. CASE Volume(t) \/ FailBet(t)
        <5>1. betting'[t] = IdleBet /\ IdleBet.pc = "idle"
          BY <1>0, <4>4, LegsMove DEF IdleBet
        <5> QED BY <4>4, <5>1 DEF Volume, FailBet, BetAt
      <4> QED BY <1>1, <2>4, <4>1, <4>2, <4>3, <4>4 DEF EvaluateBet
    <3> QED BY <2>1, <3>1 DEF FlagAlone
  <2> QED BY <2>2, <2>3, <2>4
<1>2. CASE TickBets
  <2>1. betting' = betting /\ flag' = flag
    BY <1>0, <1>2 DEF TickBets
  <2> QED BY <2>1 DEF FlagAlone, BetAt, Of
<1>3. CASE UNCHANGED hedgeVars
  BY <1>3 DEF hedgeVars, FlagAlone, BetAt, Of
<1> QED
  BY <1>1, <1>2, <1>3 DEF HedgeNext

LEMMA GrossStep ==
  HedgeTypeInv /\ HedgeTypeInv' /\ VerdictsInv /\ GrossInv /\ [HedgeNext]_hedgeVars => GrossInv'
<1> SUFFICES ASSUME HedgeTypeInv, HedgeTypeInv', VerdictsInv, GrossInv, [HedgeNext]_hedgeVars,
                    raced' = {}, ~lapsed'
             PROVE  FlagAlone' /\ \E own : Backed(own)'
  BY DEF GrossInv
<1>1. HedgeTypeOK /\ raced = {} /\ ~lapsed
  BY HistoryGrows DEF HedgeTypeInv
<1>2. FlagAlone
  BY <1>1 DEF GrossInv
<1>3. PICK own : Backed(own)
  BY <1>1 DEF GrossInv
<1>4. FlagAlone'
  BY <1>2, FlagAloneStep
<1>5. ASSUME NEW t \in Bettor, EvaluateBet(t) PROVE \E new : Backed(new)'
  <2>1. CASE Set(t)
    BY <1>1, <1>3, <2>1, BackedBySet
  <2>2. CASE Flag(t)
    BY <1>2, <1>3, <2>2, BackedByFlag
  <2>3. CASE Incr(t) /\ betting[t].stat = "gross"
    BY <1>3, <2>3, BackedByGross
  <2>4. CASE Incr(t) /\ betting[t].stat = "hedged"
    BY <1>3, <2>4, BackedByHedge
  <2>5. betting[t].stat \in Stat
    BY <1>1 DEF HedgeTypeOK, BetTask
  <2>6. CASE ~Set(t) /\ ~Flag(t) /\ (Incr(t) => betting[t].stat = "rounds")
    BY <1>3, <1>5, <2>6, BackedByRest
  <2> QED BY <2>1, <2>2, <2>3, <2>4, <2>5, <2>6 DEF Stat
<1>6. ASSUME TickBets PROVE \E new : Backed(new)'
  BY <1>3, <1>6, BackedByTick
<1>7. ASSUME UNCHANGED hedgeVars PROVE \E new : Backed(new)'
  <2>1. UNCHANGED <<legs, flag, stats, betting>>
    BY <1>7 DEF hedgeVars
  <2>2. Backed(own)'
    BY <1>3, <2>1 DEF Backed, Paid, Reserved, Found, HedgeOf, Of, BetAt, ByBettor, InRound, AsHedged
  <2> QED BY <2>2
<1> QED
  BY <1>4, <1>5, <1>6, <1>7 DEF HedgeNext

\* The hedged volume of a player never exceeds his gross volume (evaluate_bet, and the ratio of the
\* two that the signal compares): not by retries, failures or bets that run at the same time, as
\* long as no evaluation overtakes another in a round and no flag or gross volume has expired.
THEOREM HedgedPartOfGross == HedgeSpec => []HedgedWithinGross
<1>1. HedgeInit => VerdictsInv /\ GrossInv
  <2> SUFFICES ASSUME HedgeInit PROVE VerdictsInv /\ GrossInv
    OBVIOUS
  <2>1. VerdictsInv
    BY DEF HedgeInit, VerdictsInv, AtSet, BetAt, IdleBet
  <2>2. IdleBet.pc = "idle" /\ \A t \in Bettor : betting[t] = IdleBet
    BY DEF HedgeInit, IdleBet
  <2>3. FlagAlone
    BY <2>2 DEF FlagAlone, BetAt
  <2>4. \A x : Held(0, 0, x) \in Nat
    BY HeldTyped
  <2>5. Backed(0)
    <3>1. stats["gross"].n = 0 /\ stats["hedged"].n = 0
      BY DEF HedgeInit, Stat
    <3>2. \A t \in Bettor : ~Paid(t) /\ ~Reserved(t) /\ \A r \in Round : ~Found(t, r)
      BY <2>2 DEF Paid, Reserved, Found, BetAt
    <3>3. \A r \in Round, s \in Selection : legs[r].bets[s] = 0
      BY DEF HedgeInit, NoBets
    <3> QED BY <2>4, <3>1, <3>2, <3>3 DEF Backed
  <2> QED BY <2>1, <2>3, <2>5 DEF GrossInv
<1>2. HedgeTypeInv /\ GrossInv => HedgedWithinGross
  <2> SUFFICES ASSUME HedgeTypeInv, GrossInv, raced = {}, ~lapsed
               PROVE  stats["hedged"].n <= stats["gross"].n
    BY DEF HedgedWithinGross
  <2>1. PICK own : Backed(own)
    BY DEF GrossInv
  <2>2. Held(stats["gross"].n, own, AsHedged) \in Nat
        /\ Held(stats["gross"].n, own, AsHedged) <= stats["gross"].n
    BY ClaimsTyped, HeldTyped
  <2> QED BY <2>1, <2>2, ClaimsTyped DEF Backed
<1> QED
  BY <1>1, <1>2, HedgeTypes, VerdictsStep, GrossStep, PTL DEF HedgeSpec
=============================================================================
