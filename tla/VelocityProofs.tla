--------------------------- MODULE VelocityProofs ---------------------------
(***************************************************************************)
(* Of VelocityStore, for any number of threads, events, keys and faults:   *)
(* every key expires, and every threshold reached is noticed.              *)
(***************************************************************************)
EXTENDS VelocityStore, FiniteSetTheorems, SequenceTheorems, WellFoundedInduction, TLAPS

\* What an event touches are keys of known kinds.
LEMMA RecordedTyped ==
  ASSUME NEW e \in Event
  PROVE  \E S : Recorded(e) \in Seq(Kind \X S)
<1> DEFINE i == Info[e]
           S == {i.ip, i.user, EmailOf(i), i.domain, i.fingerprint, i.method, <<i.type, i.ip>>}
           T == Kind \X S
<1>1. /\ <<>> \in Seq(T)
      /\ \A kind \in Kind : \A x \in S : << <<kind, x>> >> \in Seq(T)
  OBVIOUS
<1>k. /\ "all_ip" \in Kind /\ "login_ip" \in Kind /\ "login_ip_users" \in Kind
      /\ "login_user" \in Kind /\ "signup_ip" \in Kind /\ "signup_domain" \in Kind
      /\ "signup_fingerprint" \in Kind /\ "fingerprint_users" \in Kind
      /\ "method_users" \in Kind /\ "deposit_user" \in Kind /\ "withdrawal_user" \in Kind
      /\ "withdrawal_ip" \in Kind /\ "game_bet_burst" \in Kind /\ "wallet_bet_burst" \in Kind
      /\ "wallet_win_burst" \in Kind /\ "bet_activity" \in Kind /\ "failed_ip" \in Kind
      /\ "failed_user" \in Kind /\ "failed_email" \in Kind /\ "signup_failed_ip" \in Kind
      /\ "generic_ip" \in Kind
  BY DEF Kind, Rules
<1>2. \A s1, s2 \in Seq(T) : s1 \o s2 \in Seq(T)
  OBVIOUS
<1>3. /\ i.ip \in S /\ i.user \in S /\ EmailOf(i) \in S /\ i.domain \in S
      /\ i.fingerprint \in S /\ i.method \in S /\ <<i.type, i.ip>> \in S
  OBVIOUS
<1> HIDE DEF S, T, i
<1>4. FailureKeys(i) \in Seq(T)
  <2>1. /\ Touch(i.type = "player.login.failed", "failed_ip", i.ip) \in Seq(T)
        /\ Touch(i.type = "player.login.failed", "failed_user", i.user) \in Seq(T)
        /\ Touch(i.type = "player.login.failed", "failed_email", EmailOf(i)) \in Seq(T)
        /\ Touch(i.type = "player.signup.failed", "signup_failed_ip", i.ip) \in Seq(T)
    BY <1>1, <1>3, <1>k DEF Touch
  <2> QED
    BY <2>1, <1>2, Zenon DEF FailureKeys
<1>5. BettingKeys(i) \in Seq(T)
  <2>1. /\ Touch(i.type = "game.bet", "game_bet_burst", i.user) \in Seq(T)
        /\ Touch(i.type = "wallet.bet", "wallet_bet_burst", i.user) \in Seq(T)
        /\ Touch(i.type = "wallet.win", "wallet_win_burst", i.user) \in Seq(T)
        /\ Touch(i.type \in Gaming, "bet_activity", i.user) \in Seq(T)
    BY <1>1, <1>3, <1>k DEF Touch
  <2> QED
    BY <2>1, <1>2, Zenon DEF BettingKeys
<1>6. ScoreKeys(i) \in Seq(T)
  <2>1. /\ Touch(i.type \notin Gaming, "all_ip", i.ip) \in Seq(T)
        /\ Touch(i.type = "player.login", "login_ip", i.ip) \in Seq(T)
        /\ Touch(i.type = "player.login", "login_ip_users", i.ip) \in Seq(T)
        /\ Touch(i.type = "player.login" /\ i.ip # None, "login_user", i.user) \in Seq(T)
        /\ Touch(i.type = "player.signup", "signup_ip", i.ip) \in Seq(T)
        /\ Touch(i.type = "player.signup", "signup_domain", i.domain) \in Seq(T)
    BY <1>1, <1>3, <1>k DEF Touch
  <2>2. /\ Touch(i.type = "player.signup", "signup_fingerprint", i.fingerprint) \in Seq(T)
        /\ Touch(i.type \in {"player.signup", "player.login"}, "fingerprint_users",
                 i.fingerprint) \in Seq(T)
        /\ Touch(i.type = "payment.withdraw", "method_users", i.method) \in Seq(T)
        /\ Touch(i.type = "payment.deposit", "deposit_user", i.user) \in Seq(T)
        /\ Touch(i.type = "payment.withdraw", "withdrawal_user", i.user) \in Seq(T)
        /\ Touch(i.type = "payment.withdraw", "withdrawal_ip", i.ip) \in Seq(T)
        /\ Touch(i.type \notin Counted /\ i.ip # None, "generic_ip", <<i.type, i.ip>>) \in Seq(T)
    BY <1>1, <1>3, <1>k DEF Touch
  <2> QED
    <3> DEFINE First == Touch(i.type \notin Gaming, "all_ip", i.ip)
                    \o Touch(i.type = "player.login", "login_ip", i.ip)
                    \o Touch(i.type = "player.login", "login_ip_users", i.ip)
                    \o Touch(i.type = "player.login" /\ i.ip # None, "login_user", i.user)
                    \o Touch(i.type = "player.signup", "signup_ip", i.ip)
                    \o Touch(i.type = "player.signup", "signup_domain", i.domain)
    <3>1. First \in Seq(T)
      BY <2>1, <1>2, Zenon
    <3>2. ScoreKeys(i) =
             First
          \o Touch(i.type = "player.signup", "signup_fingerprint", i.fingerprint)
          \o Touch(i.type \in {"player.signup", "player.login"}, "fingerprint_users",
                   i.fingerprint)
          \o Touch(i.type = "payment.withdraw", "method_users", i.method)
          \o Touch(i.type = "payment.deposit", "deposit_user", i.user)
          \o Touch(i.type = "payment.withdraw", "withdrawal_user", i.user)
          \o Touch(i.type = "payment.withdraw", "withdrawal_ip", i.ip)
          \o BettingKeys(i)
          \o Touch(i.type \notin Counted /\ i.ip # None, "generic_ip", <<i.type, i.ip>>)
      BY Zenon DEF ScoreKeys
    <3> HIDE DEF First
    <3> DEFINE Second ==
             First
          \o Touch(i.type = "player.signup", "signup_fingerprint", i.fingerprint)
          \o Touch(i.type \in {"player.signup", "player.login"}, "fingerprint_users",
                   i.fingerprint)
          \o Touch(i.type = "payment.withdraw", "method_users", i.method)
          \o Touch(i.type = "payment.deposit", "deposit_user", i.user)
    <3>3. Second \in Seq(T)
      BY <3>1, <2>2, <1>2, Zenon
    <3> DEFINE ByUser == Touch(i.type = "payment.withdraw", "withdrawal_user", i.user)
               ByIp == Touch(i.type = "payment.withdraw", "withdrawal_ip", i.ip)
               Betting == BettingKeys(i)
               Generic ==
                 Touch(i.type \notin Counted /\ i.ip # None, "generic_ip", <<i.type, i.ip>>)
    <3>4. ScoreKeys(i) = Second \o ByUser \o ByIp \o Betting \o Generic
      BY <3>2, Zenon
    <3>5. ByUser \in Seq(T) /\ ByIp \in Seq(T) /\ Betting \in Seq(T) /\ Generic \in Seq(T)
      BY <2>2, <1>5
    <3> HIDE DEF Second, ByUser, ByIp, Betting, Generic
    <3> QED
      BY <3>3, <3>4, <3>5, <1>2
<1>7. Recorded(e) \in Seq(T)
  BY <1>2, <1>4, <1>6 DEF Recorded, i
<1> QED
  BY <1>7 DEF T

LEMMA KeysKnown ==
  /\ \A e \in Event : Recorded(e) \in Seq(Key)
  /\ \A k \in Key : k[1] \in Kind
<1>1. ASSUME NEW e \in Event
      PROVE  Recorded(e) \in Seq(Key)
  <2>1. PICK S : Recorded(e) \in Seq(Kind \X S)
    BY RecordedTyped
  <2>2. \A j \in 1..Len(Recorded(e)) : Recorded(e)[j] \in Key
    BY <2>1 DEF Key
  <2> QED
    BY <2>1, <2>2
<1>2. ASSUME NEW k \in Key
      PROVE  k[1] \in Kind
  <2>1. PICK e \in Event : \E j \in DOMAIN Recorded(e) : k = Recorded(e)[j]
    BY DEF Key
  <2>2. PICK S : Recorded(e) \in Seq(Kind \X S)
    BY RecordedTyped
  <2> QED
    BY <2>1, <2>2
<1> QED
  BY <1>1, <1>2

-----------------------------------------------------------------------------

\* What a thread does at each place, and that only Redis gives deadlines.
Shape ==
  /\ \A t \in Thread :
       /\ th[t].pc \in {"expire", "write", "count"} => th[t].todo # <<>>
       /\ th[t].pc = "expire" => redis
       /\ th[t].pc = "write" => ~redis
       /\ th[t].pc = "idle" => th[t].owes = {}
  /\ \A k \in Key : IsFiniteSet(store[k].users)

\* A size is a number.
LEMMA SizeNat ==
  ASSUME TypeOK, Shape, NEW k \in Key
  PROVE  Size(k) \in Nat
BY FS_CardinalityType DEF TypeOK, Shape, Size, Entry

\* A rule is a sequence of numbers.
LEMMA TiersTyped ==
  ASSUME NEW k \in Key
  PROVE  Tiers(k) \in Seq(Nat) /\ Len(Tiers(k)) \in Nat
<1>1. Rules[k[1]] \in Seq(Nat)
  BY KeysKnown, VelocityAssumption
<1>2. Tiers(k) \in Seq(Nat)
  BY <1>1 DEF Tiers
<1> QED
  BY <1>2

\* A count that reaches a threshold is a crossing of it or of a severer one.
LEMMA CrossingCovers ==
  ASSUME NEW k \in Key, NEW n \in Nat,
         NEW i \in 1..Len(Tiers(k)), Tiers(k)[i] <= n
  PROVE  \E j \in 1..i : <<k, j>> \in Crossing(k, n)
<1> DEFINE Reached == {j \in 1..Len(Tiers(k)) : Tiers(k)[j] <= n}
<1>1. /\ Len(Tiers(k)) \in Nat
      /\ \A j \in 1..Len(Tiers(k)) : Tiers(k)[j] \in Nat
  BY TiersTyped
<1>2. i \in Reached /\ Reached \in SUBSET Nat
  BY <1>1
<1>3. PICK j \in Reached : \A h \in Reached : j <= h
  <2> DEFINE Less == OpToRel(<, Nat)
  <2>1. IsWellFoundedOn(Less, Nat)
    BY NatLessThanWellFounded
  <2>2. \A x, y \in Nat : <<x, y>> \notin Less => y <= x
    <3>1. \A x, y \in Nat : x < y => <<x, y>> \in Less
      BY DEF OpToRel
    <3>2. ASSUME NEW x \in Nat, NEW y \in Nat, <<x, y>> \notin Less
          PROVE  y <= x
      <4> HIDE DEF Less
      <4> QED
        BY <3>1, <3>2
    <3> QED
      BY <3>2
  <2> HIDE DEF Reached, Less
  <2>3. PICK j \in Reached : \A h \in Reached : ~ (<<h, j>> \in Less)
    BY <1>2, <2>1, WFMin
  <2>4. \A h \in Reached : j <= h
    BY <1>2, <2>2, <2>3
  <2> QED
    BY <2>4
<1>4. j \in 1..i /\ j \in 1..Len(Tiers(k)) /\ Tiers(k)[j] <= n
  BY <1>1, <1>2, <1>3
<1>5. ASSUME NEW h \in 1..(j - 1)
      PROVE  n < Tiers(k)[h]
  <2>1. h \in 1..Len(Tiers(k)) /\ ~(j <= h)
    BY <1>1, <1>4
  <2>2. h \notin Reached
    BY <1>3, <2>1
  <2> QED
    BY <1>1, <2>1, <2>2
<1> QED
  BY <1>4, <1>5 DEF Crossing

\* A crossing is a key and the number of one of its thresholds.
LEMMA CrossingTyped ==
  ASSUME NEW k \in Key, NEW n
  PROVE  Crossing(k, n) \subseteq Key \X Nat
BY TiersTyped DEF Crossing

\* The key at hand of a thread that has one.
LEMMA AtHand ==
  ASSUME TypeOK, NEW t \in Thread, th[t].todo # <<>>
  PROVE  KeyOf(t) \in Key /\ Tail(th[t].todo) \in Seq(Key)
BY DEF TypeOK, Task, KeyOf

LEMMA TypedInit == Init => TypeOK /\ Shape
<1> SUFFICES ASSUME Init PROVE TypeOK /\ Shape
  OBVIOUS
<1>1. IdleTask \in Task
  BY VelocityAssumption DEF IdleTask, Task, Phase
<1>2. Absent \in Entry /\ IsFiniteSet(Absent.users)
  BY FS_EmptySet DEF Absent, Entry
<1> QED
  BY <1>1, <1>2 DEF Init, TypeOK, Shape, IdleTask

\* A thread changes its own task only: what is left to show of a step that changes th.
LEMMA TaskStep ==
  ASSUME TypeOK, Shape, NEW t \in Thread, NEW task \in Task, th' = [th EXCEPT ![t] = task],
         redis' = redis,
         task.pc \in {"expire", "write", "count"} => task.todo # <<>>,
         task.pc = "expire" => redis,
         task.pc = "write" => ~redis,
         task.pc = "idle" => task.owes = {}
  PROVE  /\ th' \in [Thread -> Task]
         /\ \A u \in Thread :
              /\ th'[u].pc \in {"expire", "write", "count"} => th'[u].todo # <<>>
              /\ th'[u].pc = "expire" => redis'
              /\ th'[u].pc = "write" => ~redis'
              /\ th'[u].pc = "idle" => th'[u].owes = {}
BY DEF TypeOK, Shape

\* Time takes from what a thread owes and leaves the rest of it alone.
LEMMA TickKeeps ==
  ASSUME TypeOK, Tick
  PROVE  /\ th' \in [Thread -> Task]
         /\ \A u \in Thread :
              /\ th'[u].pc = th[u].pc /\ th'[u].todo = th[u].todo
              /\ th'[u].owes \subseteq th[u].owes
<1> DEFINE gone == {k \in Key : store[k].expires # None /\ store[k].expires <= now + 1}
           left(u) == {c \in th[u].owes : c[1] \notin gone}
<1>1. th' = [u \in Thread |-> [th[u] EXCEPT !.owes = left(u)]]
  BY DEF Tick
<1>2. \A u \in Thread : left(u) \subseteq th[u].owes
  OBVIOUS
<1> HIDE DEF left
<1>3. ASSUME NEW u \in Thread
      PROVE  /\ th'[u] \in Task
             /\ th'[u].pc = th[u].pc /\ th'[u].todo = th[u].todo
             /\ th'[u].owes \subseteq th[u].owes
  <2>1. th[u] \in Task /\ th'[u] = [th[u] EXCEPT !.owes = left(u)]
    BY <1>1 DEF TypeOK
  <2> QED
    BY <1>2, <2>1 DEF Task
<1> QED
  BY <1>1, <1>3

\* The two ways for a thread to go on with the key at hand.
LEMMA GotoTyped ==
  ASSUME TypeOK, Shape, NEW t \in Thread, NEW pc \in {"expire", "write", "count"},
         NEW n \in Nat, Goto(t, pc, n), redis' = redis, th[t].todo # <<>>, pc = "expire" => redis,
         pc = "write" => ~redis
  PROVE  /\ th' \in [Thread -> Task]
         /\ \A u \in Thread :
              /\ th'[u].pc \in {"expire", "write", "count"} => th'[u].todo # <<>>
              /\ th'[u].pc = "expire" => redis'
              /\ th'[u].pc = "write" => ~redis'
              /\ th'[u].pc = "idle" => th'[u].owes = {}
<1> DEFINE task == [th[t] EXCEPT !.pc = pc, !.n = n]
<1>1. th' = [th EXCEPT ![t] = task]
  BY DEF Goto
<1>2. task \in Task /\ task.pc = pc /\ task.todo # <<>>
  BY DEF TypeOK, Task, Phase
<1> QED
  BY <1>1, <1>2, TaskStep

LEMMA CountsTyped ==
  ASSUME TypeOK, Shape, NEW t \in Thread, NEW n, Counts(t, n), redis' = redis,
         th[t].todo # <<>>
  PROVE  /\ th' \in [Thread -> Task]
         /\ \A u \in Thread :
              /\ th'[u].pc \in {"expire", "write", "count"} => th'[u].todo # <<>>
              /\ th'[u].pc = "expire" => redis'
              /\ th'[u].pc = "write" => ~redis'
              /\ th'[u].pc = "idle" => th'[u].owes = {}
<1> DEFINE more == Crossing(KeyOf(t), n)
           task == [th[t] EXCEPT !.pc = "next", !.n = 0, !.todo = Tail(@), !.owes = @ \union more]
<1>1. th' = [th EXCEPT ![t] = task]
  BY DEF Counts
<1>2. more \subseteq Key \X Nat /\ Tail(th[t].todo) \in Seq(Key)
  BY AtHand, CrossingTyped
<1> HIDE DEF more
<1>3. task \in Task /\ task.pc = "next"
  BY <1>2 DEF TypeOK, Task, Phase
<1> QED
  BY <1>1, <1>3, TaskStep

\* What the threads' part of the invariant and the store's part make together.
LEMMA TypedParts ==
  ASSUME TypeOK, redis' = redis,
         th' \in [Thread -> Task],
         \A u \in Thread :
           /\ th'[u].pc \in {"expire", "write", "count"} => th'[u].todo # <<>>
           /\ th'[u].pc = "expire" => redis'
           /\ th'[u].pc = "write" => ~redis'
           /\ th'[u].pc = "idle" => th'[u].owes = {},
         store' \in [Key -> Entry], \A k \in Key : IsFiniteSet(store'[k].users),
         crossed' \subseteq Key \X Nat, lost' \subseteq Key \X Nat, stranded' \subseteq Key,
         now' \in Nat, starts' \in Nat, faults' \in Nat
  PROVE  TypeOK' /\ Shape'
BY DEF TypeOK, Shape

\* Adding a member keeps the store typed.
LEMMA AddTyped ==
  ASSUME TypeOK, Shape, NEW k \in Key, NEW user \in User,
         store' = [store EXCEPT ![k].users = @ \union {user}]
  PROVE  /\ store' \in [Key -> Entry]
         /\ \A h \in Key : IsFiniteSet(store'[h].users)
<1>1. /\ store[k] \in Entry /\ store[k].users \subseteq User /\ IsFiniteSet(store[k].users)
  BY DEF TypeOK, Shape, Entry
<1>2. IsFiniteSet(store[k].users \union {user})
  BY <1>1, FS_AddElement
<1>3. store'[k] = [store[k] EXCEPT !.users = @ \union {user}]
  BY DEF TypeOK
<1>4. store'[k] \in Entry /\ store'[k].users = store[k].users \union {user}
  BY <1>1, <1>3 DEF Entry
<1>5. /\ DOMAIN store' = Key
      /\ store' = [h \in Key |-> store'[h]]
      /\ \A h \in Key : h # k => store'[h] = store[h]
  BY DEF TypeOK
<1> QED
  BY <1>2, <1>4, <1>5 DEF TypeOK, Shape

LEMMA TypedStep ==
  ASSUME TypeOK, Shape, [Next]_vars
  PROVE  TypeOK' /\ Shape'
<1>1. CASE UNCHANGED vars
  BY <1>1 DEF TypeOK, Shape, vars
<1> USE DEF TypeOK, Shape
<1>2. ASSUME NEW t \in Thread, NEW e \in Event, Start(t, e)
      PROVE  TypeOK' /\ Shape'
  <2> DEFINE task == [IdleTask EXCEPT !.pc = "next", !.ev = e, !.todo = Recorded(e)]
  <2>1. task \in Task /\ task.pc = "next"
    BY KeysKnown DEF Task, IdleTask, Phase
  <2>2. th' = [th EXCEPT ![t] = task] /\ redis' = redis
    BY <1>2 DEF Start
  <2> HIDE DEF task, TypeOK, Shape
  <2> QED
    BY <1>2, <2>1, <2>2, TaskStep, TypedParts DEF Start, TypeOK, Shape
<1>3. ASSUME NEW t \in Thread, RedisIncr(t)
      PROVE  TypeOK' /\ Shape'
  <2> DEFINE k == KeyOf(t)
             n == store[k].n + 1
  <2>1. k \in Key /\ n \in Nat /\ redis /\ th[t].todo # <<>>
    BY <1>3, AtHand DEF RedisIncr, RedisIncrExpiring, About, Entry
  <2>2. /\ store' \in [Key -> Entry]
        /\ \A h \in Key : IsFiniteSet(store'[h].users)
    BY <1>3, <2>1 DEF RedisIncr, RedisIncrExpiring, Entry
  <2>3. redis' = redis /\ (Goto(t, "expire", n) \/ Counts(t, n))
    BY <1>3 DEF RedisIncr, RedisIncrExpiring
  <2> HIDE DEF k, n
  <2> QED
    BY <1>3, <2>1, <2>2, <2>3, GotoTyped, CountsTyped, TypedParts
       DEF RedisIncr, RedisIncrExpiring
<1>4. ASSUME NEW t \in Thread, RedisSadd(t)
      PROVE  TypeOK' /\ Shape'
  <2>1. KeyOf(t) \in Key /\ redis /\ th[t].todo # <<>>
    BY <1>4, AtHand DEF RedisSadd, RedisAdds, About
  <2>2. Info[th[t].ev].user \in User
    BY VelocityAssumption DEF Task
  <2>3. /\ store' \in [Key -> Entry]
        /\ \A h \in Key : IsFiniteSet(store'[h].users)
    <3>1. store' = [store EXCEPT ![KeyOf(t)].users = @ \union {Info[th[t].ev].user}]
      BY <1>4 DEF RedisSadd, RedisAdds
    <3> QED
      BY <2>1, <2>2, <3>1, AddTyped
  <2> QED
    BY <1>4, <2>1, <2>3, GotoTyped, TypedParts DEF RedisSadd, RedisAdds
<1>5. ASSUME NEW t \in Thread, RedisExpire(t)
      PROVE  TypeOK' /\ Shape'
  <2>1. KeyOf(t) \in Key /\ redis /\ th[t].todo # <<>> /\ th[t].n \in Nat
    BY <1>5, AtHand DEF RedisExpire, At, Task
  <2>2. now + Window(KeyOf(t)[1]) \in Nat
    BY VelocityAssumption DEF Window
  <2>3. /\ store' \in [Key -> Entry]
        /\ \A h \in Key : IsFiniteSet(store'[h].users)
    BY <1>5, <2>1, <2>2 DEF RedisExpire, Deadline, Entry
  <2>4. stranded' \subseteq Key /\ redis' = redis
        /\ (Goto(t, "count", 0) \/ Counts(t, th[t].n))
    BY <1>5 DEF RedisExpire
  <2> QED
    BY <1>5, <2>1, <2>3, <2>4, GotoTyped, CountsTyped, TypedParts DEF RedisExpire
<1>6. ASSUME NEW t \in Thread, MemoryRead(t)
      PROVE  TypeOK' /\ Shape'
  <2>1. KeyOf(t) \in Key /\ th[t].todo # <<>> /\ store[KeyOf(t)].n \in Nat /\ ~redis
    BY <1>6, AtHand DEF MemoryRead, About, Entry
  <2> QED
    BY <1>6, <2>1, GotoTyped, TypedParts DEF MemoryRead
<1>7. ASSUME NEW t \in Thread, MemoryWrite(t)
      PROVE  TypeOK' /\ Shape'
  <2>1. KeyOf(t) \in Key /\ th[t].todo # <<>> /\ th[t].n + 1 \in Nat
    BY <1>7, AtHand DEF MemoryWrite, At, Task
  <2>2. /\ store' \in [Key -> Entry]
        /\ \A h \in Key : IsFiniteSet(store'[h].users)
    BY <1>7, <2>1 DEF MemoryWrite, Entry
  <2> QED
    BY <1>7, <2>1, <2>2, GotoTyped, TypedParts DEF MemoryWrite
<1>8. ASSUME NEW t \in Thread, MemorySadd(t)
      PROVE  TypeOK' /\ Shape'
  <2>1. KeyOf(t) \in Key /\ th[t].todo # <<>>
    BY <1>8, AtHand DEF MemorySadd, About
  <2>2. Info[th[t].ev].user \in User
    BY VelocityAssumption DEF Task
  <2>3. /\ store' \in [Key -> Entry]
        /\ \A h \in Key : IsFiniteSet(store'[h].users)
    <3>1. store' = [store EXCEPT ![KeyOf(t)].users = @ \union {Info[th[t].ev].user}]
      BY <1>8 DEF MemorySadd
    <3> QED
      BY <2>1, <2>2, <3>1, AddTyped
  <2> QED
    BY <1>8, <2>1, <2>3, GotoTyped, TypedParts DEF MemorySadd
<1>9. ASSUME NEW t \in Thread, Count(t)
      PROVE  TypeOK' /\ Shape'
  <2>1. th[t].todo # <<>>
    BY <1>9 DEF Count, At
  <2> QED
    BY <1>9, <2>1, CountsTyped, TypedParts DEF Count
<1>10. ASSUME NEW t \in Thread, Read(t)
      PROVE  TypeOK' /\ Shape'
  <2> DEFINE task == [th[t] EXCEPT !.todo = Tail(@)]
  <2>1. th' = [th EXCEPT ![t] = task]
    BY <1>10 DEF Read
  <2>2. task \in Task /\ task.pc = "next"
    BY <1>10, AtHand DEF Read, At, Task
  <2> HIDE DEF task
  <2> QED
    BY <1>10, <2>1, <2>2, TaskStep, TypedParts DEF Read
<1>11. ASSUME NEW t \in Thread, Finish(t) \/ Fail(t)
      PROVE  TypeOK' /\ Shape'
  <2>1. IdleTask \in Task /\ IdleTask.pc = "idle" /\ IdleTask.owes = {}
    BY VelocityAssumption DEF IdleTask, Task, Phase
  <2>2. th' = [th EXCEPT ![t] = IdleTask] /\ UNCHANGED <<redis, store, now, starts>>
    BY <1>11 DEF Finish, Fail
  <2>3. th[t].owes \subseteq Key \X Nat
    BY DEF Task
  <2>4. PendingCrossings(t) \subseteq Key \X Nat
    BY AtHand, TiersTyped DEF PendingCrossings, At
  <2>5. /\ crossed' \subseteq Key \X Nat
        /\ lost' \subseteq Key \X Nat
        /\ stranded' \subseteq Key
        /\ faults' \in Nat
    BY <1>11, <2>3, <2>4 DEF Finish, Fail
  <2> QED
    BY <2>1, <2>2, <2>5, TaskStep, TypedParts
<1>12. CASE Tick
  <2>1. \A k \in Key : store'[k] = Absent \/ store'[k] = store[k]
    BY <1>12 DEF Tick
  <2>2. store' = [k \in Key |-> store'[k]]
    BY <1>12 DEF Tick
  <2>3. Absent \in Entry /\ IsFiniteSet(Absent.users)
    BY FS_EmptySet DEF Absent, Entry
  <2>4. /\ store' \in [Key -> Entry]
        /\ \A k \in Key : IsFiniteSet(store'[k].users)
    BY <2>1, <2>2, <2>3
  <2>5. /\ th' \in [Thread -> Task]
        /\ \A u \in Thread :
             /\ th'[u].pc = th[u].pc /\ th'[u].todo = th[u].todo
             /\ th'[u].owes \subseteq th[u].owes
    BY <1>12, TickKeeps
  <2>6. /\ redis' = redis /\ now' \in Nat /\ starts' \in Nat /\ faults' \in Nat
        /\ crossed' \subseteq Key \X Nat /\ lost' \subseteq Key \X Nat /\ stranded' \subseteq Key
    BY <1>12 DEF Tick
  <2> QED
    BY <2>4, <2>5, <2>6, TypedParts
<1> QED
  BY <1>1, <1>2, <1>3, <1>4, <1>5, <1>6, <1>7, <1>8, <1>9, <1>10, <1>11, <1>12
     DEF Next, Evaluate

\* The state is well typed (velocity_store.py:305): TypeOK holds whatever interleaves and fails.
THEOREM VelocityTyped == Spec => [](TypeOK /\ Shape)
BY TypedInit, TypedStep, PTL DEF Spec

-----------------------------------------------------------------------------

\* A step of a thread leaves the others as they are.
LEMMA OthersUnchanged ==
  ASSUME TypeOK, NEW t \in Thread, NEW u \in Thread, u # t, Evaluate(t)
  PROVE  th'[u] = th[u] /\ redis' = redis
<1>1. ASSUME NEW e \in Event, Start(t, e)
      PROVE  th'[u] = th[u] /\ redis' = redis
  BY <1>1 DEF Start, TypeOK
<1>2. CASE RedisIncr(t)
  BY <1>2 DEF RedisIncr, RedisIncrExpiring, Goto, Counts, TypeOK
<1>3. CASE RedisSadd(t)
  BY <1>3 DEF RedisSadd, RedisAdds, Goto, TypeOK
<1>4. CASE RedisExpire(t)
  BY <1>4 DEF RedisExpire, Goto, Counts, TypeOK
<1>5. CASE MemoryRead(t) \/ MemoryWrite(t) \/ MemorySadd(t)
  BY <1>5 DEF MemoryRead, MemoryWrite, MemorySadd, Goto, TypeOK
<1>6. CASE Count(t)
  BY <1>6 DEF Count, Counts, TypeOK
<1>7. CASE Read(t) \/ Finish(t) \/ Fail(t)
  BY <1>7 DEF Read, Finish, Fail, TypeOK
<1> QED
  BY <1>1, <1>2, <1>3, <1>4, <1>5, <1>6, <1>7 DEF Evaluate

LEMMA ExpiryStep ==
  ASSUME TypeOK, Shape, KeysExpire, [Next]_vars
  PROVE  KeysExpire'
<1> SUFFICES ASSUME redis', NEW k \in Key, Present(k)', store'[k].expires = None,
                    k \notin stranded'
             PROVE  \E t \in Thread : At(t, "expire")' /\ KeyOf(t)' = k
  BY DEF KeysExpire
<1>1. CASE UNCHANGED vars
  BY <1>1 DEF vars, KeysExpire, Present, At, KeyOf
<1>2. CASE Tick
  <2>1. redis /\ stranded' = stranded
    BY <1>2 DEF Tick
  <2>2. store'[k] = Absent \/ store'[k] = store[k]
    BY <1>2 DEF Tick
  <2>3. store'[k] = store[k]
    BY <2>2 DEF Present, Absent
  <2>4. PICK u \in Thread : At(u, "expire") /\ KeyOf(u) = k
    BY <2>1, <2>3 DEF KeysExpire, Present
  <2>5. th'[u].pc = th[u].pc /\ th'[u].todo = th[u].todo
    BY <1>2 DEF Tick, TypeOK, Task
  <2> QED
    BY <2>4, <2>5 DEF At, KeyOf
<1>3. ASSUME NEW t \in Thread, Evaluate(t)
      PROVE  \E u \in Thread : At(u, "expire")' /\ KeyOf(u)' = k
  <2>1. ASSUME redis, Present(k), store[k].expires = None, k \notin stranded,
               ~(At(t, "expire") /\ KeyOf(t) = k)
        PROVE  \E u \in Thread : At(u, "expire")' /\ KeyOf(u)' = k
    <3>1. PICK u \in Thread : At(u, "expire") /\ KeyOf(u) = k
      BY <2>1 DEF KeysExpire
    <3>2. th'[u] = th[u]
      BY <1>3, <2>1, <3>1, OthersUnchanged
    <3> QED
      BY <3>1, <3>2 DEF At, KeyOf
  <2>2. CASE \E e \in Event : Start(t, e)
    BY <2>1, <2>2 DEF Start, At, Present
  <2>3. CASE RedisIncr(t)
    <3> DEFINE n == store[KeyOf(t)].n + 1
    <3>1. KeyOf(t) \in Key /\ ~At(t, "expire") /\ redis /\ stranded' = stranded
      BY <2>3, AtHand DEF RedisIncr, RedisIncrExpiring, About, At
    <3>2. store' = [store EXCEPT ![KeyOf(t)].n = n]
      BY <2>3 DEF RedisIncr, RedisIncrExpiring
    <3>3. CASE KeyOf(t) # k
      BY <2>1, <3>1, <3>2, <3>3 DEF TypeOK, Present
    <3>4. CASE KeyOf(t) = k /\ n # 1
      <4>1. store[k].n > 0 /\ store[k].expires = None
        BY <3>1, <3>2, <3>4 DEF TypeOK, Entry
      <4> QED
        BY <2>1, <3>1, <4>1 DEF Present
    <3>5. CASE KeyOf(t) = k /\ n = 1
      <4>1. Goto(t, "expire", 1)
        BY <2>3, <3>5 DEF RedisIncr, RedisIncrExpiring
      <4>2. th'[t].pc = "expire" /\ th'[t].todo = th[t].todo
        BY <4>1 DEF Goto, TypeOK, Task
      <4> QED
        BY <3>5, <4>2 DEF At, KeyOf
    <3> QED
      BY <3>3, <3>4, <3>5
  <2>4. CASE RedisSadd(t)
    <3>1. KeyOf(t) \in Key /\ ~At(t, "expire") /\ redis /\ stranded' = stranded
      BY <2>4, AtHand DEF RedisSadd, RedisAdds, About, At
    <3>2. CASE KeyOf(t) # k
      BY <2>1, <2>4, <3>1, <3>2 DEF RedisSadd, RedisAdds, TypeOK, Present
    <3>3. CASE KeyOf(t) = k
      <4>1. th'[t].pc = "expire" /\ th'[t].todo = th[t].todo
        BY <2>4 DEF RedisSadd, RedisAdds, Goto, TypeOK, Task
      <4> QED
        BY <3>3, <4>1 DEF At, KeyOf
    <3> QED
      BY <3>2, <3>3
  <2>5. CASE RedisExpire(t)
    <3>1. KeyOf(t) \in Key /\ redis /\ stranded' = stranded \ {KeyOf(t)} /\ store' = Deadline(KeyOf(t))
      BY <2>5, AtHand DEF RedisExpire, At, Shape
    <3>2. CASE KeyOf(t) # k
      BY <2>1, <3>1, <3>2 DEF Deadline, TypeOK, Present
    <3>3. CASE KeyOf(t) = k
      <4>1. now + Window(k[1]) # None
        <5>1. now + Window(k[1]) \in Nat
          BY VelocityAssumption DEF Window, TypeOK
        <5> QED
          BY <5>1, VelocityAssumption
      <4>2. Present(k) => store'[k].expires = now + Window(k[1])
        BY <3>1, <3>3 DEF Deadline, TypeOK, Entry
      <4>3. ~Present(k) => store' = store
        BY <3>1, <3>3 DEF Deadline
      <4> QED
        BY <4>1, <4>2, <4>3 DEF Present
    <3> QED
      BY <3>2, <3>3
  <2>6. CASE MemoryRead(t) \/ MemoryWrite(t) \/ MemorySadd(t)
    BY <2>6 DEF MemoryRead, MemoryWrite, MemorySadd, About, At, Shape
  <2>7. CASE Count(t) \/ Read(t) \/ Finish(t)
    BY <2>1, <2>7 DEF Count, Read, Finish, At, Present
  <2>8. CASE Fail(t)
    BY <2>1, <2>8 DEF Fail, Present
  <2> QED
    BY <1>3, <2>2, <2>3, <2>4, <2>5, <2>6, <2>7, <2>8 DEF Evaluate
<1> QED
  BY <1>1, <1>2, <1>3 DEF Next

-----------------------------------------------------------------------------

\* What another thread has found, or is about to, of a key whose size stays.
LEMMA OthersNotice ==
  ASSUME TypeOK, NEW t \in Thread, NEW u \in Thread, u # t, Evaluate(t),
         NEW k \in Key, Size(k)' = Size(k), NEW j,
         <<k, j>> \in th[u].owes \union PendingCrossings(u)
  PROVE  <<k, j>> \in th'[u].owes \union PendingCrossings(u)'
<1>1. th'[u] = th[u] /\ redis' = redis
  BY OthersUnchanged
<1>2. CASE <<k, j>> \in th[u].owes
  BY <1>1, <1>2
<1>3. CASE <<k, j>> \in PendingCrossings(u)
  <2>1. /\ At(u, "expire") \/ At(u, "count")
        /\ KeyOf(u) = k
        /\ j \in {i \in 1..Len(Tiers(k)) : Tiers(k)[i] <= Pending(u)}
    BY <1>3 DEF PendingCrossings
  <2>2. /\ At(u, "expire")' = At(u, "expire") /\ At(u, "count")' = At(u, "count")
        /\ KeyOf(u)' = k /\ Tiers(k)' = Tiers(k)
    BY <1>1, <2>1 DEF At, KeyOf, Tiers
  <2>3. Pending(u)' = Pending(u)
    BY <1>1, <2>1, <2>2 DEF Pending
  <2> QED
    BY <2>1, <2>2, <2>3 DEF PendingCrossings
<1> QED
  BY <1>2, <1>3

\* A thread's step that changes neither a key's size nor forgets what the thread knew of it.
LEMMA QuietStep ==
  ASSUME TypeOK, CrossingNoticed, NEW t \in Thread, Evaluate(t),
         NEW k \in Key, NEW i \in 1..Len(Tiers(k)), Present(k), Tiers(k)[i] <= Size(k),
         Size(k)' = Size(k), crossed \subseteq crossed', lost \subseteq lost',
         \A j \in 1..i : <<k, j>> \in th[t].owes \union PendingCrossings(t) =>
           \E h \in 1..j : <<k, h>> \in crossed' \union lost' \union th'[t].owes
                                        \union PendingCrossings(t)'
  PROVE  Noticed(k, i)'
<1>1. Noticed(k, i) /\ i \in Nat
  BY TiersTyped DEF CrossingNoticed
<1>2. CASE \E j \in 1..i : <<k, j>> \in crossed \union lost
  BY <1>2 DEF Noticed
<1>3. ASSUME NEW u \in Thread, NEW j \in 1..i, <<k, j>> \in th[u].owes \union PendingCrossings(u)
      PROVE  Noticed(k, i)'
  <2>1. CASE u # t
    BY <1>3, <2>1, OthersNotice DEF Noticed
  <2>2. CASE u = t
    <3>1. PICK h \in 1..j : <<k, h>> \in crossed' \union lost' \union th'[t].owes
                                          \union PendingCrossings(t)'
      BY <1>3, <2>2
    <3>2. h \in 1..i
      BY <1>1
    <3> QED
      BY <3>1, <3>2 DEF Noticed
  <2> QED
    BY <2>1, <2>2
<1> QED
  BY <1>1, <1>2, <1>3 DEF Noticed

\* A thread that will be told the size of its key next will notice every threshold reached.
LEMMA Waiting ==
  ASSUME NEW t \in Thread, NEW k \in Key, NEW i \in 1..Len(Tiers(k)), redis' = redis,
         KeyOf(t)' = k, At(t, "expire")' \/ At(t, "count")', Tiers(k)[i] <= Pending(t)'
  PROVE  Noticed(k, i)'
<1>1. Tiers(k)' = Tiers(k)
  BY DEF Tiers
<1>2. <<k, i>> \in PendingCrossings(t)'
  BY <1>1 DEF PendingCrossings
<1>3. i \in 1..i
  BY TiersTyped
<1> QED
  BY <1>2, <1>3 DEF Noticed

\* A thread that has just been told n will report every threshold that n reaches.
LEMMA Told ==
  ASSUME TypeOK, NEW t \in Thread, NEW k \in Key, NEW n \in Nat, Counts(t, n), KeyOf(t) = k,
         NEW i \in 1..Len(Tiers(k)), Tiers(k)[i] <= n
  PROVE  /\ \E h \in 1..i : <<k, h>> \in th'[t].owes
         /\ th[t].owes \subseteq th'[t].owes
<1> DEFINE more == Crossing(k, n)
<1>1. th'[t].owes = th[t].owes \union more
  BY DEF Counts, TypeOK, Task
<1>2. PICK h \in 1..i : <<k, h>> \in more
  BY CrossingCovers
<1> HIDE DEF more
<1> QED
  BY <1>1, <1>2

LEMMA GotoKeeps ==
  ASSUME TypeOK, NEW t \in Thread, NEW pc, NEW n, Goto(t, pc, n)
  PROVE  /\ th'[t].pc = pc /\ th'[t].n = n
         /\ th'[t].todo = th[t].todo /\ th'[t].owes = th[t].owes
<1>1. th'[t] = [th[t] EXCEPT !.pc = pc, !.n = n]
  BY DEF TypeOK, Goto
<1>2. th[t] \in Task
  BY DEF TypeOK
<1> QED
  BY <1>1, <1>2 DEF Task

LEMMA CountsKeeps ==
  ASSUME TypeOK, NEW t \in Thread, NEW n, Counts(t, n)
  PROVE  th[t].owes \subseteq th'[t].owes
<1> DEFINE more == Crossing(KeyOf(t), n)
<1>1. th'[t] = [th[t] EXCEPT !.pc = "next", !.n = 0, !.todo = Tail(@), !.owes = @ \union more]
  BY DEF TypeOK, Counts
<1>2. th[t] \in Task
  BY DEF TypeOK
<1> HIDE DEF more
<1>3. th'[t].owes = th[t].owes \union more
  BY <1>1, <1>2 DEF Task
<1> QED
  BY <1>3

LEMMA NoticeStep ==
  ASSUME TypeOK, Shape, CrossingNoticed, NEW t \in Thread, Evaluate(t),
         NEW k \in Key, NEW i \in 1..Len(Tiers(k)), Present(k)', Tiers(k)[i] <= Size(k)'
  PROVE  Noticed(k, i)'
<1> DEFINE Quiet == /\ Present(k) /\ Size(k)' = Size(k)
                    /\ crossed \subseteq crossed' /\ lost \subseteq lost'
           Kept == \A j \in 1..i : <<k, j>> \in th[t].owes \union PendingCrossings(t) =>
                     \E h \in 1..j : <<k, h>> \in crossed' \union lost' \union th'[t].owes
                                                  \union PendingCrossings(t)'
<1>1. Quiet /\ Kept => Noticed(k, i)'
  BY QuietStep
<1>0. \A j \in 1..i : j \in 1..j
  BY TiersTyped
<1>2. ASSUME th[t].owes \subseteq crossed' \union lost' \union th'[t].owes,
             \A j : <<k, j>> \notin PendingCrossings(t)
      PROVE  Kept
  <2> QED
    BY <1>0, <1>2
<1> HIDE DEF Kept
<1>3. ASSUME NEW e \in Event, Start(t, e)
      PROVE  Noticed(k, i)'
  <2>1. th[t].owes = {} /\ PendingCrossings(t) = {}
    BY <1>3 DEF Start, At, Shape, PendingCrossings
  <2>2. Quiet
    BY <1>3 DEF Start, Present, Size
  <2> QED
    BY <1>1, <1>2, <2>1, <2>2
<1>4. CASE RedisIncr(t)
  <2> DEFINE n == store[KeyOf(t)].n + 1
  <2>0. /\ At(t, "next") /\ th[t].todo # <<>> /\ ~IsSet(KeyOf(t))
        /\ redis' = redis /\ crossed' = crossed /\ lost' = lost
        /\ store' = [store EXCEPT ![KeyOf(t)].n = n]
    BY <1>4 DEF RedisIncr, RedisIncrExpiring, About
  <2>1. /\ KeyOf(t) \in Key /\ n \in Nat
    <3>1. KeyOf(t) \in Key
      BY <2>0, AtHand
    <3>2. store[KeyOf(t)] \in Entry
      BY <3>1 DEF TypeOK
    <3> QED
      BY <3>1, <3>2 DEF Entry
  <2>2. IF n = 1 THEN Goto(t, "expire", n) ELSE Counts(t, n)
    BY <1>4 DEF RedisIncr, RedisIncrExpiring
  <2> HIDE DEF n
  <2>3. CASE KeyOf(t) # k
    <3>1. Quiet
      BY <2>0, <2>1, <2>3 DEF TypeOK, Present, Size
    <3>2. th[t].owes \subseteq th'[t].owes /\ PendingCrossings(t) = {}
      <4>1. PendingCrossings(t) = {}
        BY <2>0, <2>1 DEF PendingCrossings, At
      <4>2. CASE n = 1
        BY <2>2, <4>1, <4>2, GotoKeeps
      <4>3. CASE n # 1
        BY <2>2, <4>1, <4>3, CountsKeeps
      <4> QED
        BY <4>1, <4>2, <4>3
    <3> QED
      BY <1>1, <1>2, <3>1, <3>2
  <2>4. CASE KeyOf(t) = k
    <3>1. Size(k)' = n
      BY <2>0, <2>1, <2>4 DEF Size, TypeOK, Entry, IsSet
    <3>2. CASE n = 1
      <4>1. th'[t].pc = "expire" /\ th'[t].todo = th[t].todo /\ th'[t].n = n
        BY <2>2, <3>2, GotoKeeps
      <4>2. At(t, "expire")' /\ KeyOf(t)' = k
        BY <2>4, <4>1 DEF At, KeyOf
      <4>3. Pending(t)' = n
        BY <2>0, <2>1, <2>4, <4>1, <4>2 DEF Pending, IsSet
      <4> QED
        BY <2>0, <2>1, <3>1, <4>2, <4>3, Waiting
    <3>3. CASE n # 1
      BY <2>0, <2>1, <2>2, <2>4, <3>1, <3>3, Told DEF Noticed
    <3> QED
      BY <3>2, <3>3
  <2> QED
    BY <2>3, <2>4
<1>5. CASE RedisSadd(t) \/ MemorySadd(t) \/ MemoryWrite(t)
  <2>1. /\ KeyOf(t) \in Key /\ (At(t, "next") \/ At(t, "write"))
        /\ redis' = redis /\ crossed' = crossed /\ lost' = lost
        /\ \A h \in Key : h # KeyOf(t) => store'[h] = store[h]
    BY <1>5, AtHand
       DEF RedisSadd, RedisAdds, MemorySadd, MemoryWrite, About, At, TypeOK, Entry, Shape
  <2>2. /\ th'[t].todo = th[t].todo /\ th'[t].owes = th[t].owes
        /\ th'[t].pc = "count" \/ (th'[t].pc = "expire" /\ IsSet(KeyOf(t)))
    BY <1>5, GotoKeeps DEF RedisSadd, RedisAdds, MemorySadd, MemoryWrite, About
  <2>3. CASE KeyOf(t) # k
    <3>1. Quiet
      BY <2>1, <2>3 DEF Present, Size
    <3>2. PendingCrossings(t) = {}
      BY <2>1 DEF PendingCrossings, At
    <3> QED
      BY <1>1, <1>2, <2>2, <3>1, <3>2
  <2>4. CASE KeyOf(t) = k
    <3>1. KeyOf(t)' = k /\ (At(t, "expire")' \/ At(t, "count")')
      BY <2>2, <2>4 DEF KeyOf, At
    <3>2. Pending(t)' = Size(k)'
      BY <2>2, <2>4, <3>1 DEF Pending, At, IsSet
    <3> QED
      BY <2>1, <3>1, <3>2, Waiting
  <2> QED
    BY <2>3, <2>4
<1>6. CASE RedisExpire(t)
  <2>1. /\ KeyOf(t) \in Key /\ At(t, "expire") /\ th[t].n \in Nat
        /\ redis' = redis /\ crossed' = crossed /\ lost' = lost
        /\ IF IsSet(KeyOf(t)) THEN Goto(t, "count", 0) ELSE Counts(t, th[t].n)
    BY <1>6, AtHand DEF RedisExpire, At, Shape, TypeOK, Task
  <2>2. store'[k].n = store[k].n /\ store'[k].users = store[k].users
    BY <1>6, <2>1 DEF RedisExpire, Deadline, TypeOK, Entry
  <2>3. Quiet
    BY <2>1, <2>2 DEF Present, Size
  <2>4. th[t].owes \subseteq th'[t].owes
    BY <2>1, GotoKeeps, CountsKeeps
  <2>5. CASE KeyOf(t) # k
    <3>1. \A j : <<k, j>> \notin PendingCrossings(t)
      BY <2>5 DEF PendingCrossings
    <3> QED
      BY <1>1, <1>2, <2>3, <2>4, <3>1
  <2>6. CASE KeyOf(t) = k /\ IsSet(k)
    <3>1. th'[t].pc = "count" /\ th'[t].todo = th[t].todo
      BY <2>1, <2>6, GotoKeeps
    <3>2. KeyOf(t)' = k /\ At(t, "count")'
      BY <2>6, <3>1 DEF KeyOf, At
    <3>3. Pending(t)' = Size(k)'
      BY <2>6, <3>1, <3>2 DEF Pending, At
    <3> QED
      BY <2>1, <3>2, <3>3, Waiting
  <2>7. CASE KeyOf(t) = k /\ ~IsSet(k)
    <3>1. ASSUME NEW j \in 1..i, <<k, j>> \in th[t].owes \union PendingCrossings(t)
          PROVE  \E h \in 1..j : <<k, h>> \in th'[t].owes
      <4>1. CASE <<k, j>> \in th[t].owes
        BY <1>0, <2>4, <4>1
      <4>2. CASE <<k, j>> \in PendingCrossings(t)
        <5>1. j \in 1..Len(Tiers(k)) /\ Tiers(k)[j] <= th[t].n
          BY <2>1, <2>7, <4>2 DEF PendingCrossings, Pending
        <5> QED
          BY <2>1, <2>7, <5>1, Told
      <4> QED
        BY <3>1, <4>1, <4>2
    <3>2. Kept
      BY <3>1 DEF Kept
    <3> QED
      BY <1>1, <2>3, <3>2
  <2> QED
    BY <2>5, <2>6, <2>7
<1>7. CASE Count(t)
  <2>1. /\ KeyOf(t) \in Key /\ Counts(t, Size(KeyOf(t))) /\ Size(KeyOf(t)) \in Nat
        /\ UNCHANGED <<redis, store, crossed, lost>>
    BY <1>7, AtHand, SizeNat DEF Count, At, Shape
  <2>2. Quiet
    BY <2>1 DEF Present, Size
  <2>3. CASE KeyOf(t) # k
    <3>1. \A j : <<k, j>> \notin PendingCrossings(t)
      BY <2>3 DEF PendingCrossings
    <3>2. th[t].owes \subseteq th'[t].owes
      BY <2>1, CountsKeeps
    <3> QED
      BY <1>1, <1>2, <2>2, <3>1, <3>2
  <2>4. CASE KeyOf(t) = k
    BY <2>1, <2>2, <2>4, Told DEF Noticed
  <2> QED
    BY <2>3, <2>4
<1>8. CASE MemoryRead(t) \/ Read(t) \/ Finish(t)
  <2>1. Quiet /\ PendingCrossings(t) = {}
    BY <1>8 DEF MemoryRead, Read, Finish, About, PendingCrossings, At, Present, Size
  <2>2. th[t].owes \subseteq crossed' \union lost' \union th'[t].owes
    <3>1. CASE MemoryRead(t)
      BY <3>1, GotoKeeps DEF MemoryRead
    <3>2. CASE Read(t)
      BY <3>2 DEF Read, TypeOK, Task
    <3>3. CASE Finish(t)
      BY <3>3 DEF Finish
    <3> QED
      BY <1>8, <3>1, <3>2, <3>3
  <2> QED
    BY <1>1, <1>2, <2>1, <2>2
<1>9. CASE Fail(t)
  <2>1. Quiet
    BY <1>9 DEF Fail, Present, Size
  <2>2. th[t].owes \union PendingCrossings(t) \subseteq lost'
    BY <1>9 DEF Fail
  <2>3. Kept
    BY <1>0, <2>2 DEF Kept
  <2> QED
    BY <1>1, <2>1, <2>3
<1> QED
  BY <1>3, <1>4, <1>5, <1>6, <1>7, <1>8, <1>9 DEF Evaluate

LEMMA CrossingStep ==
  ASSUME TypeOK, Shape, CrossingNoticed, [Next]_vars
  PROVE  CrossingNoticed'
<1>1. CASE UNCHANGED vars
  <2>1. /\ redis' = redis /\ store' = store /\ th' = th /\ crossed' = crossed /\ lost' = lost
    BY <1>1 DEF vars
  <2>2. \A t \in Thread : PendingCrossings(t)' = PendingCrossings(t)
    BY <2>1 DEF PendingCrossings, Pending, Size, Tiers, At, KeyOf
  <2>3. \A k \in Key : /\ Tiers(k)' = Tiers(k) /\ Size(k)' = Size(k)
                       /\ Present(k)' = Present(k)
    BY <2>1 DEF Tiers, Size, Present
  <2>4. ASSUME NEW k \in Key, NEW i PROVE Noticed(k, i)' = Noticed(k, i)
    BY <2>1, <2>2 DEF Noticed
  <2> QED
    BY <2>3, <2>4 DEF CrossingNoticed
<1>2. CASE Tick
  <2> SUFFICES ASSUME NEW k \in Key, NEW i \in 1..Len(Tiers(k)),
                      Present(k)', Tiers(k)[i] <= Size(k)'
               PROVE  Noticed(k, i)'
    BY <1>2 DEF CrossingNoticed, Tick, Tiers
  <2> DEFINE gone == {h \in Key : store[h].expires # None /\ store[h].expires <= now + 1}
  <2>1. /\ k \notin gone /\ store'[k] = store[k]
    BY <1>2 DEF Tick, Present, Absent
  <2>2. Present(k) /\ Size(k)' = Size(k) /\ redis' = redis
    BY <1>2, <2>1 DEF Tick, Present, Size
  <2>3. Noticed(k, i)
    BY <2>2 DEF CrossingNoticed
  <2>4. /\ crossed' = {c \in crossed : c[1] \notin gone}
        /\ lost' = {c \in lost : c[1] \notin gone}
        /\ \A t \in Thread : /\ th'[t].owes = {c \in th[t].owes : c[1] \notin gone}
                             /\ th'[t].pc = th[t].pc /\ th'[t].todo = th[t].todo
                             /\ th'[t].n = th[t].n
    BY <1>2 DEF Tick, TypeOK, Task
  <2> HIDE DEF gone
  <2>5. CASE \E j \in 1..i : <<k, j>> \in crossed \union lost
    BY <2>1, <2>4, <2>5 DEF Noticed
  <2>6. ASSUME NEW t \in Thread, NEW j \in 1..i, <<k, j>> \in th[t].owes
        PROVE  Noticed(k, i)'
    BY <2>1, <2>4, <2>6 DEF Noticed
  <2>7. ASSUME NEW t \in Thread, NEW j \in 1..i, <<k, j>> \in PendingCrossings(t)
        PROVE  Noticed(k, i)'
    <3>1. /\ At(t, "expire") \/ At(t, "count")
          /\ KeyOf(t) = k /\ j \in 1..Len(Tiers(k)) /\ Tiers(k)[j] <= Pending(t)
      BY <2>7 DEF PendingCrossings
    <3>2. /\ At(t, "expire")' = At(t, "expire") /\ At(t, "count")' = At(t, "count")
          /\ KeyOf(t)' = k
      BY <2>4, <3>1 DEF At, KeyOf
    <3>3. Pending(t)' = Pending(t)
      BY <2>2, <2>4, <3>1, <3>2 DEF Pending, IsSet
    <3>4. Noticed(k, j)'
      BY <2>2, <3>1, <3>2, <3>3, Waiting
    <3>5. 1..j \subseteq 1..i
      BY TiersTyped
    <3> QED
      BY <3>4, <3>5 DEF Noticed
  <2> QED
    BY <2>3, <2>5, <2>6, <2>7 DEF Noticed
<1>3. ASSUME NEW t \in Thread, Evaluate(t)
      PROVE  CrossingNoticed'
  <2>1. redis' = redis
    BY <1>3 DEF Evaluate, Start, RedisIncr, RedisIncrExpiring, RedisSadd, RedisAdds, RedisExpire,
                MemoryRead, MemoryWrite, MemorySadd, Count, Read, Finish, Fail
  <2>2. ASSUME NEW k \in Key, NEW i \in 1..Len(Tiers(k)), Present(k)', Tiers(k)[i] <= Size(k)'
        PROVE  Noticed(k, i)'
    BY <1>3, <2>2, NoticeStep
  <2>3. \A k \in Key : Tiers(k)' = Tiers(k)
    BY <2>1 DEF Tiers
  <2> QED
    BY <2>2, <2>3 DEF CrossingNoticed
<1> QED
  BY <1>1, <1>2, <1>3 DEF Next

\* Every key in Redis has a deadline, is being given one, or belongs to an evaluation that raised
\* between INCR and EXPIRE (velocity_store.py:311).
THEOREM EveryKeyExpires == Spec => []KeysExpire
<1>1. Init => KeysExpire
  BY DEF Init, KeysExpire, Present, Absent
<1> QED
  BY <1>1, TypedInit, TypedStep, ExpiryStep, PTL DEF Spec

\* No threshold is reached unnoticed, by whatever evaluations and however they interleave
\* (velocity_store.py:311, :321, :187).
THEOREM ThresholdsNoticed == Spec => []CrossingNoticed
<1>1. Init => CrossingNoticed
  BY DEF Init, CrossingNoticed, Present, Absent
<1> QED
  BY <1>1, TypedInit, TypedStep, CrossingStep, PTL DEF Spec
=============================================================================
