---------------------------- MODULE HedgeBetting ----------------------------
(***************************************************************************)
(* RedisHedgeBettingStore.evaluate_bet for the bets of one player (players *)
(* share no key), run by any number of concurrent evaluations, every call  *)
(* to Redis a step of its own.  Detection is enabled, and a bet here is    *)
(* one that has a selection, a positive amount and a round; the others     *)
(* return before they touch anything.                                      *)
(***************************************************************************)
EXTENDS Naturals, FiniteSets

CONSTANTS
  Bettor,       \* evaluations that may run at the same time
  Bet, Round, Selection, NoLeg,
  BetInfo,      \* round, selection and amount of each bet
  OppositeGroups,
  Tolerance,    \* amount_match_tolerance_percent
  RoundTtl, StatsWindow,
  MaxBets,      \* bound: evaluations started, of all bets
  MaxBetFaults, \* bound: evaluations that raise
  MaxBetTime    \* bound: the last instant of the clock

\* The three statistics of a player: hedge:gross, hedge:hedged_gross and hedge:round_count.
Stat == {"gross", "hedged", "rounds"}

ASSUME HedgeAssumption ==
  /\ Bet # {}
  /\ BetInfo \in [Bet -> [round : Round, selection : Selection, amount : Nat \ {0}]]
  /\ OppositeGroups \subseteq SUBSET Selection
  /\ Tolerance \in Nat
  /\ RoundTtl \in Nat \ {0} /\ StatsWindow \in Nat \ {0}
  /\ MaxBets \in Nat /\ MaxBetFaults \in Nat /\ MaxBetTime \in Nat
  /\ NoLeg \notin Selection /\ NoLeg \notin Nat
  /\ Round \cap Stat = {}

VARIABLES
  legs,        \* hedge:round_legs: what was bet on each selection, and until when it is kept
  flag,        \* hedge:round_flag: until when the round counts as hedged, None without a flag
  stats,       \* hedge:gross, hedge:hedged_gross and hedge:round_count of the player
  betting,     \* the evaluations under way
  ledger,      \* history: what the finished writes have bet on each selection of the kept legs
  raced,       \* history: rounds of which one evaluation overtook another between two calls
  lapsed,      \* history: whether the gross volume or a flag has expired
  counted,     \* history: rounds counted as hedged while their flag stands
  adrift,      \* history: flags and statistics left behind by an evaluation that raised
  betTime, betStarts, betFaults

notes == <<ledger, raced, lapsed, counted, adrift>>
hedgeVars == <<legs, flag, stats, betting, notes, betTime, betStarts, betFaults>>

Amounts == [Selection -> Nat]
NoBets == [s \in Selection |-> 0]

\* pc: the next call.  Each of incr, ttl and expire is for the statistic stat.
HedgePhase == {"idle", "incr", "ttl", "expire", "get", "set", "exists", "flag", "volume"}
BetTask == [pc : HedgePhase, bet : Bet, stat : Stat, read : Amounts,
            opposite : Selection \union {NoLeg}]
IdleBet == [pc |-> "idle", bet |-> CHOOSE b \in Bet : TRUE, stat |-> "gross",
            read |-> NoBets, opposite |-> NoLeg]

HedgeTypeOK ==
  /\ legs \in [Round -> [bets : Amounts, until : Nat \union {NoLeg}]]
  /\ flag \in [Round -> Nat \union {NoLeg}]
  /\ stats \in [Stat -> [n : Nat, until : Nat \union {NoLeg}]]
  /\ betting \in [Bettor -> BetTask]
  /\ ledger \in [Round -> Amounts]
  /\ raced \subseteq Round /\ lapsed \in BOOLEAN
  /\ counted \subseteq Round
  /\ adrift \subseteq Round \union Stat
  /\ betTime \in Nat /\ betStarts \in Nat /\ betFaults \in Nat

HedgeInit ==
  /\ legs = [r \in Round |-> [bets |-> NoBets, until |-> NoLeg]]
  /\ flag = [r \in Round |-> NoLeg]
  /\ stats = [x \in Stat |-> [n |-> 0, until |-> NoLeg]]
  /\ betting = [t \in Bettor |-> IdleBet]
  /\ ledger = [r \in Round |-> NoBets]
  /\ raced = {} /\ lapsed = FALSE /\ counted = {} /\ adrift = {}
  /\ betTime = 0 /\ betStarts = 0 /\ betFaults = 0

BetAt(t, pc) == betting[t].pc = pc
Of(t) == BetInfo[betting[t].bet]

\* _amounts_match of two amounts: their difference is within the tolerance of the larger.
AmountsMatch(a, b) ==
  LET larger == IF a < b THEN b ELSE a
      smaller == IF a < b THEN a ELSE b
  IN smaller > 0 /\ 100 * (larger - smaller) <= Tolerance * larger

\* _find_opposite_leg: the selections on the other side of a group, bet with a like amount.
OppositeLegs(i, bets) ==
  {s \in Selection \ {i.selection} :
     /\ \E g \in OppositeGroups : {s, i.selection} \subseteq g
     /\ AmountsMatch(i.amount, bets[s])}

\* Another evaluation of the same round is about to make the call pc.
Another(t, pc) == \E u \in Bettor \ {t} : BetAt(u, pc) /\ Of(u).round = Of(t).round

Overtakes(t, pc) == IF Another(t, pc) THEN raced \union {Of(t).round} ELSE raced

BetGoto(t, pc) == betting' = [betting EXCEPT ![t].pc = pc]

StartBet(t, b) ==
  /\ BetAt(t, "idle") /\ betStarts < MaxBets
  /\ betStarts' = betStarts + 1
  /\ betting' = [betting EXCEPT ![t] = [IdleBet EXCEPT !.pc = "incr", !.bet = b]]
  /\ UNCHANGED <<legs, flag, stats, notes, betTime, betFaults>>

\* Mutated: a hedged round adds to the volume only.
AfterVolumeOnly(t) ==
  [betting EXCEPT ![t].pc = IF betting[t].stat = "gross" THEN "get" ELSE "volume"]

\* Where an evaluation goes once a statistic has been updated.
AfterStat(t) ==
  IF betting[t].stat = "gross" THEN [betting EXCEPT ![t].pc = "get"]
  ELSE IF betting[t].stat = "hedged" THEN [betting EXCEPT ![t].pc = "incr", ![t].stat = "rounds"]
  ELSE [betting EXCEPT ![t].pc = "volume"]

Increment(t) ==
  IF betting[t].stat = "gross" THEN Of(t).amount
  ELSE IF betting[t].stat = "hedged" THEN Of(t).amount + betting[t].read[betting[t].opposite]
  ELSE 1

\* INCRBYFLOAT of a volume, after which its TTL is looked at; INCR of the rounds, after which a
\* new counter gets its deadline.
Incr(t) ==
  LET x == betting[t].stat
      r == Of(t).round
  IN /\ BetAt(t, "incr")
     /\ stats' = [stats EXCEPT ![x].n = @ + Increment(t)]
     /\ betting' = IF x # "rounds" THEN [betting EXCEPT ![t].pc = "ttl"]
              ELSE IF stats[x].n = 0 THEN [betting EXCEPT ![t].pc = "expire"] ELSE AfterStat(t)
     /\ counted' = counted \union {y \in {r} : x = "rounds" /\ flag[y] # NoLeg}
     /\ UNCHANGED <<legs, flag, ledger, raced, lapsed, adrift, betTime, betStarts, betFaults>>

TtlThen(t, expires) ==
  /\ BetAt(t, "ttl")
  /\ betting' = IF expires THEN [betting EXCEPT ![t].pc = "expire"] ELSE AfterStat(t)
  /\ UNCHANGED <<legs, flag, stats, notes, betTime, betStarts, betFaults>>

\* Mutated: a TTL of -1, which says that a key has no deadline, is taken for one.
TtlMissing(t) == TtlThen(t, stats[betting[t].stat].n = 0)

\* TTL is negative for a key without a deadline, and for one that has gone.
Ttl(t) == TtlThen(t, stats[betting[t].stat].until = NoLeg)

\* EXPIRE does nothing to a key that has gone.
Expire(t) ==
  LET x == betting[t].stat
  IN /\ BetAt(t, "expire")
     /\ stats' = [stats EXCEPT ![x].until = IF stats[x].n > 0 THEN betTime + StatsWindow ELSE NoLeg]
     /\ adrift' = adrift \ {x}
     /\ betting' = AfterStat(t)
     /\ UNCHANGED <<legs, flag, ledger, raced, lapsed, counted, betTime, betStarts, betFaults>>

\* Mutated: every opposite leg is returned, not the first.
GetAll(t) ==
  LET bets == legs[Of(t).round].bets
  IN /\ BetAt(t, "get")
     /\ betting' = [betting EXCEPT ![t].pc = "set", ![t].read = bets,
                         ![t].opposite = OppositeLegs(Of(t), bets)]
     /\ raced' = Overtakes(t, "set")
     /\ UNCHANGED <<legs, flag, stats, ledger, lapsed, counted, adrift,
                    betTime, betStarts, betFaults>>

\* The order of the legs decides which of several opposite ones is found.
Get(t) ==
  LET bets == legs[Of(t).round].bets
      opposites == OppositeLegs(Of(t), bets)
  IN /\ BetAt(t, "get")
     /\ \E found \in IF opposites = {} THEN {NoLeg} ELSE opposites :
          betting' = [betting EXCEPT ![t].pc = "set", ![t].read = bets, ![t].opposite = found]
     /\ raced' = Overtakes(t, "set")
     /\ UNCHANGED <<legs, flag, stats, ledger, lapsed, counted, adrift,
                    betTime, betStarts, betFaults>>

SetLegs(t, bets) ==
  LET i == Of(t)
  IN /\ BetAt(t, "set")
     /\ legs' = [legs EXCEPT ![i.round] = [bets |-> bets, until |-> betTime + RoundTtl]]
     /\ ledger' = [ledger EXCEPT ![i.round][i.selection] = @ + i.amount]
     /\ BetGoto(t, IF betting[t].opposite = NoLeg THEN "volume" ELSE "exists")
     /\ UNCHANGED <<flag, stats, raced, lapsed, counted, adrift, betTime, betStarts, betFaults>>

\* Mutated: the bet replaces what was bet on its selection before.
SetReplaces(t) == SetLegs(t, [betting[t].read EXCEPT ![Of(t).selection] = Of(t).amount])

\* SET of the legs that were read, with the amount of the bet added.
Set(t) == SetLegs(t, [betting[t].read EXCEPT ![Of(t).selection] = @ + Of(t).amount])

ExistsThen(t, flagged) ==
  /\ BetAt(t, "exists")
  /\ BetGoto(t, IF flagged THEN "volume" ELSE "flag")
  /\ raced' = IF flagged THEN raced ELSE Overtakes(t, "flag")
  /\ UNCHANGED <<legs, flag, stats, ledger, lapsed, counted, adrift, betTime, betStarts, betFaults>>

\* Mutated: the flag is not looked for.
ExistsNever(t) == ExistsThen(t, FALSE)

Exists(t) == ExistsThen(t, flag[Of(t).round] # NoLeg)

Flag(t) ==
  /\ BetAt(t, "flag")
  /\ flag' = [flag EXCEPT ![Of(t).round] = betTime + RoundTtl]
  /\ betting' = [betting EXCEPT ![t].pc = "incr", ![t].stat = "hedged"]
  /\ UNCHANGED <<legs, stats, notes, betTime, betStarts, betFaults>>

\* The two volumes are read and compared, and the signals returned.
Volume(t) ==
  /\ BetAt(t, "volume")
  /\ betting' = [betting EXCEPT ![t] = IdleBet]
  /\ UNCHANGED <<legs, flag, stats, notes, betTime, betStarts, betFaults>>

\* The evaluation has flagged its round and not counted it yet.
Counting(t) ==
  \/ betting[t].stat = "hedged" /\ betting[t].pc \in {"incr", "ttl", "expire"}
  \/ betting[t].stat = "rounds" /\ BetAt(t, "incr")

\* The evaluation is about to give the statistic x a deadline.
Dating(t, x) == betting[t].stat = x /\ betting[t].pc \in {"ttl", "expire"}

\* A call to Redis raises, or another engine does: what the evaluation has written stays.
FailBet(t) ==
  /\ ~BetAt(t, "idle") /\ betFaults < MaxBetFaults
  /\ betFaults' = betFaults + 1
  /\ adrift' = adrift \union {r \in Round : r = Of(t).round /\ Counting(t)}
                          \union {x \in Stat : Dating(t, x) /\ stats[x].until = NoLeg}
  /\ betting' = [betting EXCEPT ![t] = IdleBet]
  /\ UNCHANGED <<legs, flag, stats, ledger, raced, lapsed, counted, betTime, betStarts>>

\* Time passes, and Redis drops the keys whose time has come.
TickBets ==
  LET Due(until) == until # NoLeg /\ until <= betTime + 1
      legsGone == {r \in Round : Due(legs[r].until)}
      flagsGone == {r \in Round : Due(flag[r])}
      statsGone == {x \in Stat : Due(stats[x].until)}
  IN /\ betTime < MaxBetTime
     /\ betTime' = betTime + 1
     /\ legs' = [r \in Round |-> IF r \in legsGone THEN [bets |-> NoBets, until |-> NoLeg]
                                 ELSE legs[r]]
     /\ ledger' = [r \in Round |-> IF r \in legsGone THEN NoBets ELSE ledger[r]]
     /\ raced' = raced \union
          {r \in legsGone : \E t \in Bettor : BetAt(t, "set") /\ Of(t).round = r}
     /\ flag' = [r \in Round |-> IF r \in flagsGone THEN NoLeg ELSE flag[r]]
     /\ counted' = counted \ flagsGone
     /\ adrift' = adrift \ (flagsGone \union statsGone)
     /\ stats' = [x \in Stat |-> IF x \in statsGone THEN [n |-> 0, until |-> NoLeg] ELSE stats[x]]
     /\ lapsed' = (lapsed \/ flagsGone # {} \/ "gross" \in statsGone)
     /\ UNCHANGED <<betting, betStarts, betFaults>>

EvaluateBet(t) ==
  \/ \E b \in Bet : StartBet(t, b)
  \/ Incr(t) \/ Ttl(t) \/ Expire(t)
  \/ Get(t) \/ Set(t) \/ Exists(t) \/ Flag(t) \/ Volume(t) \/ FailBet(t)

HedgeNext == TickBets \/ \E t \in Bettor : EvaluateBet(t)

HedgeSpec == HedgeInit /\ [][HedgeNext]_hedgeVars

-----------------------------------------------------------------------------

\* The legs of a round hold every bet that was written to it, and the verdict an evaluation is
\* about to give is the one they call for; all that can come between is another evaluation of
\* the round, or its expiry, between GET and SET (hedge_betting.py:225-230).
VerdictsRight ==
  \A r \in Round \ raced :
    /\ legs[r].bets = ledger[r]
    /\ \A t \in Bettor : BetAt(t, "set") /\ Of(t).round = r =>
         LET opposites == OppositeLegs(Of(t), ledger[r])
         IN IF opposites = {} THEN betting[t].opposite = NoLeg
            ELSE betting[t].opposite \in opposites

\* A player's hedged volume is part of his gross volume, so the ratio of the two is one, in spite
\* of retries, failures and concurrent bets: until one evaluation overtakes another in a round,
\* or the flag of a round or the gross volume expires before the rest (hedge_betting.py:236-239).
HedgedWithinGross ==
  raced = {} /\ ~lapsed => stats["hedged"].n <= stats["gross"].n

\* A flagged round is counted as hedged, or about to be: the flag keeps every later bet from
\* counting it, so it is lost only if the evaluation that set it raises (hedge_betting.py:237-240).
HedgesCounted ==
  \A r \in Round : flag[r] # NoLeg =>
    r \in counted \union adrift \/ \E t \in Bettor : Of(t).round = r /\ Counting(t)

\* No statistic lives for ever: one without a deadline is about to be given one, unless the
\* evaluation that should have raised first (hedge_betting.py:268-277).
StatsExpire ==
  \A x \in Stat : stats[x].n > 0 /\ stats[x].until = NoLeg =>
    x \in adrift \/ \E t \in Bettor : Dating(t, x)

-----------------------------------------------------------------------------
(* What the documents say, and the code does not do                        *)

\* admin.js:552: the round tiers are of "Distinct hedged rounds in stats window".  A counter of
\* distinct rounds is never above the number of rounds there are.
DistinctRoundsCounted == stats["rounds"].n <= Cardinality(Round)

=============================================================================
