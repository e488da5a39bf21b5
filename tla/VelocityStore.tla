---------------------------- MODULE VelocityStore ----------------------------
(***************************************************************************)
(* The velocity counters: record_auth_failure and record_and_score, run by *)
(* any number of concurrent evaluations.  An evaluation touches one key    *)
(* after the other; with Redis every call is a step of its own, in memory  *)
(* every access to a dictionary is.  A key's rule is a list of thresholds, *)
(* the severest first; reaching the i-th is "crossing i" here, which the   *)
(* code reports as a signal with a score.  Betting patterns and payout     *)
(* methods are enabled, and every event names its user.                    *)
(***************************************************************************)
EXTENDS Naturals, Sequences, FiniteSets

CONSTANTS
  Thread,       \* evaluations that may run at the same time
  Event, User, None,
  Info,         \* what each event says
  Vt,           \* the velocity thresholds of the runtime configuration
  IpTtl, DomainTtl, BurstWindow,
  MaxStarts,    \* bound: evaluations started
  MaxFaults,    \* bound: evaluations that raise
  MaxTime       \* bound: the last instant of the clock

Gaming == {"game.bet", "wallet.bet", "wallet.win"}
Counted == {"player.login", "player.signup", "payment.deposit", "payment.withdraw"} \union Gaming

\* The thresholds of each kind of key, the severest first.
Rules ==
  [all_ip             |-> <<Vt.ip_all_high, Vt.ip_all_medium>>,
   login_ip           |-> <<Vt.login_ip_critical, Vt.login_ip_high, Vt.login_ip_medium>>,
   login_ip_users     |-> <<Vt.login_ip_distinct_users_critical, Vt.login_ip_distinct_users_high>>,
   login_user         |-> <<Vt.login_user_critical, Vt.login_user_high, Vt.login_user_medium>>,
   signup_ip          |-> <<Vt.signup_ip_critical>>,
   signup_domain      |-> <<Vt.signup_domain_critical>>,
   signup_fingerprint |-> <<Vt.signup_fingerprint_critical, Vt.signup_fingerprint_high>>,
   fingerprint_users  |-> <<Vt.fingerprint_distinct_users_critical,
                            Vt.fingerprint_distinct_users_high>>,
   method_users       |-> <<Vt.method_users_critical, Vt.method_users_high,
                            Vt.method_users_medium>>,
   deposit_user       |-> <<Vt.deposit_user_critical, Vt.deposit_user_high, Vt.deposit_user_medium>>,
   withdrawal_user    |-> <<Vt.withdrawal_user_critical, Vt.withdrawal_user_high,
                            Vt.withdrawal_user_medium>>,
   withdrawal_ip      |-> <<Vt.withdrawal_ip_high>>,
   game_bet_burst     |-> <<Vt.game_bet_critical, Vt.game_bet_high, Vt.game_bet_medium>>,
   wallet_bet_burst   |-> <<Vt.wallet_bet_critical, Vt.wallet_bet_high, Vt.wallet_bet_medium>>,
   wallet_win_burst   |-> <<Vt.wallet_win_critical, Vt.wallet_win_high, Vt.wallet_win_medium>>,
   bet_activity       |-> <<>>,
   failed_ip          |-> <<Vt.login_failed_ip_critical, Vt.login_failed_ip_high,
                            Vt.login_failed_ip_medium>>,
   failed_user        |-> <<Vt.login_failed_user_critical, Vt.login_failed_user_high>>,
   failed_email       |-> <<Vt.login_failed_user_high>>,
   signup_failed_ip   |-> <<Vt.signup_failed_ip_critical, Vt.signup_failed_ip_high>>,
   generic_ip         |-> <<11>>]

Kind == DOMAIN Rules
SetKind == {"login_ip_users", "fingerprint_users", "method_users"}

Window(kind) ==
  IF kind \in {"signup_domain", "method_users"} THEN DomainTtl
  ELSE IF kind \in {"game_bet_burst", "wallet_bet_burst", "wallet_win_burst", "bet_activity"}
       THEN BurstWindow
  ELSE IpTtl

\* The keys an event touches, in order; none of a kind if cond fails or the subject is missing.
Touch(cond, kind, subject) == IF cond /\ subject # None THEN << <<kind, subject>> >> ELSE <<>>

\* A failure without an email counts under "unknown", with everyone else's.
EmailOf(i) == IF i.email = None THEN "unknown" ELSE i.email

FailureKeys(i) ==
     Touch(i.type = "player.login.failed", "failed_ip", i.ip)
  \o Touch(i.type = "player.login.failed", "failed_user", i.user)
  \o Touch(i.type = "player.login.failed", "failed_email", EmailOf(i))
  \o Touch(i.type = "player.signup.failed", "signup_failed_ip", i.ip)

BettingKeys(i) ==
     Touch(i.type = "game.bet", "game_bet_burst", i.user)
  \o Touch(i.type = "wallet.bet", "wallet_bet_burst", i.user)
  \o Touch(i.type = "wallet.win", "wallet_win_burst", i.user)
  \o Touch(i.type \in Gaming, "bet_activity", i.user)

ScoreKeys(i) ==
     Touch(i.type \notin Gaming, "all_ip", i.ip)
  \o Touch(i.type = "player.login", "login_ip", i.ip)
  \o Touch(i.type = "player.login", "login_ip_users", i.ip)
  \o Touch(i.type = "player.login" /\ i.ip # None, "login_user", i.user)
  \o Touch(i.type = "player.signup", "signup_ip", i.ip)
  \o Touch(i.type = "player.signup", "signup_domain", i.domain)
  \o Touch(i.type = "player.signup", "signup_fingerprint", i.fingerprint)
  \o Touch(i.type \in {"player.signup", "player.login"}, "fingerprint_users", i.fingerprint)
  \o Touch(i.type = "payment.withdraw", "method_users", i.method)
  \o Touch(i.type = "payment.deposit", "deposit_user", i.user)
  \o Touch(i.type = "payment.withdraw", "withdrawal_user", i.user)
  \o Touch(i.type = "payment.withdraw", "withdrawal_ip", i.ip)
  \o BettingKeys(i)
  \o Touch(i.type \notin Counted /\ i.ip # None, "generic_ip", <<i.type, i.ip>>)

Recorded(e) == FailureKeys(Info[e]) \o ScoreKeys(Info[e])

Key == UNION {{Recorded(e)[i] : i \in DOMAIN Recorded(e)} : e \in Event}

ASSUME VelocityAssumption ==
  /\ Event # {}
  /\ \A e \in Event : Info[e].user \in User
  /\ \A kind \in Kind : Rules[kind] \in Seq(Nat)
  /\ IpTtl \in Nat /\ DomainTtl \in Nat /\ BurstWindow \in Nat /\ None \notin Nat
  /\ MaxStarts \in Nat /\ MaxFaults \in Nat /\ MaxTime \in Nat

VARIABLES
  redis,       \* which store init_velocity_store made
  store,       \* what it holds of each key, and when Redis drops it
  th,          \* the evaluations under way
  crossed,     \* history: crossings reported, of keys still alive
  lost,        \* history: crossings whose evaluation raised, of keys still alive
  stranded,    \* history: counters whose evaluation raised before it gave them a deadline
  now,
  starts, faults

vars == <<redis, store, th, crossed, lost, stranded, now, starts, faults>>

Entry == [n : Nat, users : SUBSET User, expires : Nat \union {None}]
Absent == [n |-> 0, users |-> {}, expires |-> None]

IsSet(k) == k[1] \in SetKind
Size(k) == IF IsSet(k) THEN Cardinality(store[k].users) ELSE store[k].n
Present(k) == store[k].n > 0 \/ store[k].users # {}

\* The email domain of signups has no rule in memory.
Tiers(k) == IF k[1] = "signup_domain" /\ ~redis THEN <<>> ELSE Rules[k[1]]

\* Mutated: a threshold has to be passed, not reached.
CrossingBeyond(k, n) ==
  {<<k, i>> : i \in {j \in 1..Len(Tiers(k)) :
                       Tiers(k)[j] < n /\ \A h \in 1..(j - 1) : n <= Tiers(k)[h]}}

\* The branch of if and elif that a count of n takes: the severest threshold it reaches.
Crossing(k, n) ==
  {<<k, i>> : i \in {j \in 1..Len(Tiers(k)) :
                       Tiers(k)[j] <= n /\ \A h \in 1..(j - 1) : n < Tiers(k)[h]}}

\* pc: "next" is about to touch the first key of todo.  In Redis a key is then given its
\* deadline ("expire"), and a set counted ("count"); in memory a counter is read, written
\* ("write") and read again ("count").  n is what was read, owes the crossings found so far
\* of keys that are still alive.
Phase == {"idle", "next", "expire", "write", "count"}
Task == [pc : Phase, ev : Event, todo : Seq(Key), n : Nat, owes : SUBSET (Key \X Nat)]
IdleTask == [pc |-> "idle", ev |-> CHOOSE e \in Event : TRUE, todo |-> <<>>, n |-> 0, owes |-> {}]

TypeOK ==
  /\ redis \in BOOLEAN
  /\ store \in [Key -> Entry]
  /\ th \in [Thread -> Task]
  /\ crossed \subseteq Key \X Nat
  /\ lost \subseteq Key \X Nat
  /\ stranded \subseteq Key
  /\ now \in Nat /\ starts \in Nat /\ faults \in Nat

Init ==
  /\ redis \in BOOLEAN
  /\ store = [k \in Key |-> Absent]
  /\ th = [t \in Thread |-> IdleTask]
  /\ crossed = {} /\ lost = {} /\ stranded = {}
  /\ now = 0 /\ starts = 0 /\ faults = 0

At(t, pc) == th[t].pc = pc
KeyOf(t) == Head(th[t].todo)

\* A win only reads the bet activity.
Reads(t) == KeyOf(t)[1] = "bet_activity" /\ Info[th[t].ev].type = "wallet.win"

About(t, isRedis, isSet) ==
  /\ At(t, "next") /\ th[t].todo # <<>>
  /\ redis = isRedis /\ IsSet(KeyOf(t)) = isSet /\ ~Reads(t)

Goto(t, pc, n) == th' = [th EXCEPT ![t].pc = pc, ![t].n = n]

\* The key at hand has the count n: the evaluation goes on with the next key.
Counts(t, n) ==
  th' = [th EXCEPT ![t].pc = "next", ![t].n = 0, ![t].todo = Tail(@),
                   ![t].owes = @ \union Crossing(KeyOf(t), n)]

Start(t, e) ==
  /\ At(t, "idle") /\ starts < MaxStarts
  /\ starts' = starts + 1
  /\ th' = [th EXCEPT ![t] = [IdleTask EXCEPT !.pc = "next", !.ev = e, !.todo = Recorded(e)]]
  /\ UNCHANGED <<redis, store, crossed, lost, stranded, now, faults>>

RedisIncrExpiring(t, first) ==
  LET k == KeyOf(t)
      n == store[k].n + 1
  IN /\ About(t, TRUE, FALSE)
     /\ store' = [store EXCEPT ![k].n = n]
     /\ IF n = first THEN Goto(t, "expire", n) ELSE Counts(t, n)
     /\ UNCHANGED <<redis, crossed, lost, stranded, now, starts, faults>>

\* Mutated: EXPIRE after the second count.
RedisIncrLate(t) == RedisIncrExpiring(t, 2)

\* _incr: INCR, and EXPIRE if the counter was not there.
RedisIncr(t) == RedisIncrExpiring(t, 1)

RedisAdds(t, member) ==
  /\ About(t, TRUE, TRUE)
  /\ store' = [store EXCEPT ![KeyOf(t)].users = @ \union {member}]
  /\ Goto(t, "expire", 0)
  /\ UNCHANGED <<redis, crossed, lost, stranded, now, starts, faults>>

\* _sadd: SADD, then EXPIRE whether or not the set was there.
RedisSadd(t) == RedisAdds(t, Info[th[t].ev].user)

\* EXPIRE does nothing to a key that has gone.
Deadline(k) ==
  IF Present(k) THEN [store EXCEPT ![k].expires = now + Window(k[1])] ELSE store

RedisExpire(t) ==
  LET k == KeyOf(t)
  IN /\ At(t, "expire")
     /\ store' = Deadline(k)
     /\ stranded' = stranded \ {k}
     /\ IF IsSet(k) THEN Goto(t, "count", 0) ELSE Counts(t, th[t].n)
     /\ UNCHANGED <<redis, crossed, lost, now, starts, faults>>

\* The dictionary's _incr: the value read and the value written are steps apart.
MemoryRead(t) ==
  /\ About(t, FALSE, FALSE)
  /\ Goto(t, "write", store[KeyOf(t)].n)
  /\ UNCHANGED <<redis, store, crossed, lost, stranded, now, starts, faults>>

MemoryWrite(t) ==
  /\ At(t, "write")
  /\ store' = [store EXCEPT ![KeyOf(t)].n = th[t].n + 1]
  /\ Goto(t, "count", 0)
  /\ UNCHANGED <<redis, crossed, lost, stranded, now, starts, faults>>

MemorySadd(t) ==
  /\ About(t, FALSE, TRUE)
  /\ store' = [store EXCEPT ![KeyOf(t)].users = @ \union {Info[th[t].ev].user}]
  /\ Goto(t, "count", 0)
  /\ UNCHANGED <<redis, crossed, lost, stranded, now, starts, faults>>

\* SCARD, len(bucket), or the counter read again.
Count(t) ==
  /\ At(t, "count")
  /\ Counts(t, Size(KeyOf(t)))
  /\ UNCHANGED <<redis, store, crossed, lost, stranded, now, starts, faults>>

Read(t) ==
  /\ At(t, "next") /\ th[t].todo # <<>> /\ Reads(t)
  /\ th' = [th EXCEPT ![t].todo = Tail(@)]
  /\ UNCHANGED <<redis, store, crossed, lost, stranded, now, starts, faults>>

\* The signals are returned.
Finish(t) ==
  /\ At(t, "next") /\ th[t].todo = <<>>
  /\ crossed' = crossed \union th[t].owes
  /\ th' = [th EXCEPT ![t] = IdleTask]
  /\ UNCHANGED <<redis, store, lost, stranded, now, starts, faults>>

\* The count a thread is about to be told of the key at hand.
Pending(t) == IF At(t, "expire") /\ ~IsSet(KeyOf(t)) THEN th[t].n ELSE Size(KeyOf(t))

PendingCrossings(t) ==
  IF At(t, "expire") \/ At(t, "count")
  THEN {KeyOf(t)} \X {i \in 1..Len(Tiers(KeyOf(t))) : Tiers(KeyOf(t))[i] <= Pending(t)}
  ELSE {}

\* A call to Redis raises, or another engine does: the evaluation ends without a result, what
\* it counted stays counted.  A crash of the process is a failure of each of its evaluations.
Fail(t) ==
  /\ ~At(t, "idle") /\ (redis \/ At(t, "next")) /\ faults < MaxFaults
  /\ faults' = faults + 1
  /\ lost' = lost \union th[t].owes \union PendingCrossings(t)
  /\ stranded' = stranded \union
       {k \in Key : At(t, "expire") /\ k = KeyOf(t) /\ store[k].expires = None}
  /\ th' = [th EXCEPT ![t] = IdleTask]
  /\ UNCHANGED <<redis, store, crossed, now, starts>>

\* Time passes, and Redis drops the keys whose time has come.
Tick ==
  LET gone == {k \in Key : store[k].expires # None /\ store[k].expires <= now + 1}
  IN /\ now < MaxTime
     /\ now' = now + 1
     /\ store' = [k \in Key |-> IF k \in gone THEN Absent ELSE store[k]]
     /\ crossed' = {c \in crossed : c[1] \notin gone}
     /\ lost' = {c \in lost : c[1] \notin gone}
     /\ th' = [t \in Thread |->
                 [th[t] EXCEPT !.owes = {c \in th[t].owes : c[1] \notin gone}]]
     /\ UNCHANGED <<redis, stranded, starts, faults>>

Evaluate(t) ==
  \/ \E e \in Event : Start(t, e)
  \/ RedisIncr(t) \/ RedisSadd(t) \/ RedisExpire(t)
  \/ MemoryRead(t) \/ MemoryWrite(t) \/ MemorySadd(t)
  \/ Count(t) \/ Read(t) \/ Finish(t) \/ Fail(t)

Next == Tick \/ \E t \in Thread : Evaluate(t)

Spec == Init /\ [][Next]_vars

-----------------------------------------------------------------------------

\* Crossing i of k, or a severer one, was reported, will be, or went with a raised evaluation.
Noticed(k, i) ==
  \/ \E j \in 1..i : <<k, j>> \in crossed \union lost
  \/ \E t \in Thread : \E j \in 1..i : <<k, j>> \in th[t].owes \union PendingCrossings(t)

\* However the calls of concurrent evaluations interleave, whichever store is used and whatever
\* raises: once a key has reached a threshold, some evaluation has reported that threshold or a
\* severer one of it, is about to, or was lost on the way (velocity_store.py:311, :321, :187).
CrossingNoticed ==
  \A k \in Key : \A i \in 1..Len(Tiers(k)) :
    Present(k) /\ Tiers(k)[i] <= Size(k) => Noticed(k, i)

\* No key lives in Redis for ever: one without a deadline is about to be given one, unless the
\* evaluation that created it raised between INCR or SADD and EXPIRE (velocity_store.py:313).
KeysExpire ==
  redis => \A k \in Key :
    Present(k) /\ store[k].expires = None =>
      k \in stranded \/ \E t \in Thread : At(t, "expire") /\ KeyOf(t) = k

=============================================================================
