-------------------------- MODULE EvaluationProofs --------------------------
(***************************************************************************)
(* Type correctness of Evaluation, and what devices, withdrawals, the      *)
(* step-up engine and refused inserts rest on, for any number of threads,  *)
(* events, users, keys, repetitions and faults.                            *)
(***************************************************************************)
EXTENDS Evaluation, TLAPS

\* A thread about to write a row has a key for it.
KeysKnown ==
  \A t \in Thread :
    /\ th[t].pc = "insert" => Of(t).trustKey # NoKey
    /\ th[t].pc \in {"grantInsert", "grantUpdate"} => Of(t).grantKey # NoKey

TypeInv == TypeOK /\ KeysKnown

LEMMA AssessTyped ==
  ASSUME NEW type, NEW device, NEW score, NEW signals
  PROVE  Assess(type, device, score, signals) \in Outcome
<1> DEFINE all == signals \union DeviceSignals(type, device)
           d == DetermineDecision(Capped(score + DeviceScore(type, device)), type, all)
<1>1. d \in Outcome
  BY DEF DetermineDecision, LevelDecision, Outcome
<1>2. Assess(type, device, score, signals) = ApplyStepUpBypass(d, all)
  BY DEF Assess
<1> HIDE DEF d, all
<1> QED BY <1>1, <1>2 DEF ApplyStepUpBypass, Outcome

LEMMA InfoTyped ==
  ASSUME NEW e \in Event
  PROVE  Info[e] \in EventInfo
  BY EvaluationAssumption

LEMMA StepUpTyped ==
  ASSUME NEW e \in Event
  PROVE  StepUpFound(Info[e]) \in {"none", "failed", "foreign", "active"}
<1>1. Info[e].stepUp \in StepUpKind
  BY InfoTyped DEF EventInfo
<1> QED BY <1>1 DEF StepUpFound, StepUpKind

LEMMA StartedTyped ==
  ASSUME NEW e \in Event, NEW src \in Source, NEW pc \in Phase
  PROVE  /\ Started(e, src, pc) \in Task
         /\ Started(e, src, pc).pc = pc /\ Started(e, src, pc).ev = e
         /\ Started(e, src, pc).device = "trusted"
  BY DEF Started, Task

LEMMA IdleTyped == IdleTask \in Task /\ IdleTask.pc = "idle"
<1>1. PICK e \in Event : e = CHOOSE x \in Event : TRUE
  BY EvaluationAssumption
<1>2. IdleTask = Started(e, "sync", "idle")
  BY <1>1 DEF IdleTask
<1>3. "sync" \in Source /\ "idle" \in Phase
  BY DEF Source, Phase
<1> QED BY <1>2, <1>3, StartedTyped

\* The phases in which a thread has a decision, or a row to write.
Deciding == {"register", "insert", "grant", "grantInsert", "grantUpdate", "answer"}

TaskOK(k) ==
  /\ k \in Task
  /\ k.pc \in Deciding => k.dec \in Outcome
  /\ k.pc = "insert" => Info[k.ev].trustKey # NoKey
  /\ k.pc \in {"grantInsert", "grantUpdate"} => Info[k.ev].grantKey # NoKey

\* One thread moves on to k: what has to be shown of the threads is shown of k.
LEMMA ThreadMoves ==
  ASSUME TypeInv, NEW t \in Thread, NEW k, TaskOK(k), th' = [th EXCEPT ![t] = k]
  PROVE  /\ th' \in [Thread -> Task]
         /\ \A u \in Thread : th'[u].pc \in Deciding => th'[u].dec \in Outcome
         /\ KeysKnown'
<1>1. \A u \in Thread : th'[u] = IF u = t THEN k ELSE th[u]
  BY DEF TypeInv, TypeOK
<1>2. th' \in [Thread -> Task]
  BY DEF TypeInv, TypeOK, TaskOK
<1>3. \A u \in Thread : TaskOK(th'[u])
  BY <1>1 DEF TypeInv, TypeOK, KeysKnown, Of, Deciding, TaskOK
<1> QED BY <1>2, <1>3 DEF TaskOK, KeysKnown, Of, Deciding

LEMMA ThreadsStay ==
  ASSUME TypeInv, UNCHANGED th
  PROVE  /\ th' \in [Thread -> Task]
         /\ \A u \in Thread : th'[u].pc \in Deciding => th'[u].dec \in Outcome
         /\ KeysKnown'
  BY DEF TypeInv, TypeOK, KeysKnown, Of, Deciding

LEMMA ThreadTyped ==
  ASSUME TypeInv, NEW t \in Thread
  PROVE  /\ TaskOK(th[t]) /\ th[t].ev \in Event /\ Of(t) \in EventInfo
         /\ th[t].pc = "insert" => DeviceRow(Of(t)) \in User \X Key
         /\ th[t].pc \in {"grantInsert", "grantUpdate"} => GrantRow(Of(t)) \in User \X Key
<1>1. TaskOK(th[t]) /\ th[t].ev \in Event
  BY DEF TypeInv, TypeOK, KeysKnown, Of, Deciding, TaskOK, Task
<1>2. Of(t) \in EventInfo
  BY <1>1, InfoTyped DEF Of
<1>3. Of(t).user \in User /\ Of(t).trustKey \in Key \union {NoKey} /\ Of(t).grantKey \in Key \union {NoKey}
  BY <1>2 DEF EventInfo
<1> QED BY <1>1, <1>2, <1>3 DEF TaskOK, Of, DeviceRow, GrantRow

-----------------------------------------------------------------------------
(* Each action leaves every thread with a task of its own phase            *)

ThreadsTyped ==
  /\ th' \in [Thread -> Task]
  /\ \A u \in Thread : th'[u].pc \in Deciding => th'[u].dec \in Outcome
  /\ KeysKnown'

LEMMA DroppedTyped ==
  ASSUME TypeInv, NEW t \in Thread, th' = Dropped(t)
  PROVE  ThreadsTyped
<1>1. TaskOK(IdleTask)
  BY IdleTyped DEF TaskOK, Deciding
<1> QED BY <1>1, ThreadMoves DEF Dropped, ThreadsTyped

LEMMA BeginTyped ==
  ASSUME TypeInv, NEW t \in Thread, NEW e \in Event, NEW src \in Source, Begin(t, e, src)
  PROVE  ThreadsTyped
<1> DEFINE pc == IF Info[e].type \in DeviceCheckedTypes THEN "trusted" ELSE "decide"
<1>1. pc \in Phase /\ pc \notin Deciding
  BY DEF Phase, Deciding
<1>2. th' = [th EXCEPT ![t] = Started(e, src, pc)]
  BY DEF Begin
<1> HIDE DEF pc
<1>3. TaskOK(Started(e, src, pc))
  BY <1>1, StartedTyped DEF TaskOK, Deciding
<1> QED BY <1>2, <1>3, ThreadMoves DEF ThreadsTyped

LEMMA ReadTrustedTyped ==
  ASSUME TypeInv, NEW t \in Thread, ReadTrusted(t)
  PROVE  ThreadsTyped
<1>1. PICK pc \in {"decide", "count"} : th' = [th EXCEPT ![t] = [th[t] EXCEPT !.pc = pc]]
  BY DEF ReadTrusted, ReadTrustedIn
<1>2. TaskOK([th[t] EXCEPT !.pc = pc])
  BY ThreadTyped DEF TaskOK, Task, Phase, Deciding
<1> QED BY <1>1, <1>2, ThreadMoves DEF ThreadsTyped

LEMMA CountDevicesTyped ==
  ASSUME TypeInv, NEW t \in Thread, CountDevices(t)
  PROVE  ThreadsTyped
<1>1. PICK d \in {"unknown", "first"} :
        th' = [th EXCEPT ![t] = [th[t] EXCEPT !.pc = "decide", !.device = d]]
  BY DEF CountDevices
<1>2. TaskOK([th[t] EXCEPT !.pc = "decide", !.device = d])
  BY ThreadTyped DEF TaskOK, Task, Phase, Deciding
<1> QED BY <1>1, <1>2, ThreadMoves DEF ThreadsTyped

LEMMA DecideTyped ==
  ASSUME TypeInv, NEW t \in Thread, Decide(t)
  PROVE  /\ ThreadsTyped
         /\ \E step \in {"none", "failed", "foreign", "active"}, dec \in Outcome :
              /\ step = StepUpFound(Of(t))
              /\ th' = [th EXCEPT ![t] = [th[t] EXCEPT !.pc = "register", !.step = step, !.dec = dec]]
              /\ decided' = decided \union {[ev |-> th[t].ev, dec |-> dec]}
<1>1. StepUpFound(Of(t)) \in {"none", "failed", "foreign", "active"}
  BY ThreadTyped, StepUpTyped DEF Of
<1> DEFINE found == StepUpFound(Of(t))
           taken(o) == Assess(Of(t).type, th[t].device, o.score + StepUpScore(found),
                              o.signals \union StepUpSignals(found))
<1>2a. PICK o \in Other[th[t].ev] :
         /\ th' = [th EXCEPT ![t].pc = "register", ![t].step = found, ![t].dec = taken(o)]
         /\ decided' = decided \union {[ev |-> th[t].ev, dec |-> taken(o)]}
  BY DEF Decide
<1>2b. taken(o) \in Outcome
  BY AssessTyped
<1> HIDE DEF taken
<1>2. PICK step \in {"none", "failed", "foreign", "active"}, dec \in Outcome :
        /\ step = StepUpFound(Of(t))
        /\ th' = [th EXCEPT ![t].pc = "register", ![t].step = step, ![t].dec = dec]
        /\ decided' = decided \union {[ev |-> th[t].ev, dec |-> dec]}
  BY <1>1, <1>2a, <1>2b
<1>4. th' = [th EXCEPT ![t] = [th[t] EXCEPT !.pc = "register", !.step = step, !.dec = dec]]
  BY <1>2
<1>5. TaskOK([th[t] EXCEPT !.pc = "register", !.step = step, !.dec = dec])
  BY ThreadTyped DEF TaskOK, Task, Phase, Deciding
<1>6. ThreadsTyped
  BY <1>4, <1>5, ThreadMoves DEF ThreadsTyped
<1> QED BY <1>2, <1>4, <1>6

LEMMA RegisterTyped ==
  ASSUME TypeInv, NEW t \in Thread, Register(t)
  PROVE  ThreadsTyped
<1>1. PICK pc \in {"insert", "grant"} :
        /\ th' = [th EXCEPT ![t] = [th[t] EXCEPT !.pc = pc]]
        /\ pc = "insert" => Of(t).trustKey # NoKey
  BY DEF Register, RegisterFor
<1>2. th[t].pc = "register"
  BY DEF Register, RegisterFor
<1>3. TaskOK([th[t] EXCEPT !.pc = pc])
  BY <1>1, <1>2, ThreadTyped DEF TaskOK, Task, Phase, Deciding, Of
<1> QED BY <1>1, <1>3, ThreadMoves DEF ThreadsTyped

LEMMA InsertDeviceTyped ==
  ASSUME TypeInv, NEW t \in Thread, InsertDevice(t)
  PROVE  ThreadsTyped
<1>1. CASE th' = Dropped(t)
  BY <1>1, DroppedTyped
<1>2. CASE th' = [th EXCEPT ![t].pc = "grant"]
  <2>1. th' = [th EXCEPT ![t] = [th[t] EXCEPT !.pc = "grant"]]
    BY <1>2
  <2>2. TaskOK([th[t] EXCEPT !.pc = "grant"])
    BY ThreadTyped DEF TaskOK, Task, Phase, Deciding, InsertDevice
  <2> QED BY <2>1, <2>2, ThreadMoves DEF ThreadsTyped
<1> QED BY <1>1, <1>2 DEF InsertDevice, Refused

LEMMA PrepareGrantTyped ==
  ASSUME TypeInv, NEW t \in Thread, PrepareGrant(t)
  PROVE  ThreadsTyped
<1>0. th[t].pc = "grant" /\ TaskOK(th[t])
  BY ThreadTyped DEF PrepareGrant, PrepareGrantIf
<1>1. CASE th' = [th EXCEPT ![t].pc = "answer"]
  <2>1. th' = [th EXCEPT ![t] = [th[t] EXCEPT !.pc = "answer"]]
    BY <1>1
  <2>2. TaskOK([th[t] EXCEPT !.pc = "answer"])
    BY <1>0 DEF TaskOK, Task, Phase, Deciding
  <2> QED BY <2>1, <2>2, ThreadMoves DEF ThreadsTyped
<1>2. CASE Of(t).stepUp = "verified" /\ Of(t).grantKey # NoKey /\ Fresh(Of(t).at)
  <2>1. PICK pc \in {"grantInsert", "grantUpdate"} :
          th' = [th EXCEPT ![t] = [th[t] EXCEPT !.exp = now + GrantTtl, !.pc = pc]]
    BY <1>2 DEF PrepareGrant, PrepareGrantIf
  <2>2. now + GrantTtl \in Nat
    BY EvaluationAssumption DEF TypeInv, TypeOK
  <2>3. TaskOK([th[t] EXCEPT !.exp = now + GrantTtl, !.pc = pc])
    BY <1>0, <1>2, <2>2 DEF TaskOK, Task, Phase, Deciding, Of
  <2> QED BY <2>1, <2>3, ThreadMoves DEF ThreadsTyped
<1> QED BY <1>1, <1>2 DEF PrepareGrant, PrepareGrantIf

LEMMA WriteGrantTyped ==
  ASSUME TypeInv, NEW t \in Thread, UpdateGrant(t) \/ InsertGrant(t)
  PROVE  ThreadsTyped
<1>1. CASE th' = Dropped(t)
  BY <1>1, DroppedTyped
<1>2. CASE th' = [th EXCEPT ![t].pc = "answer"]
  <2>1. th' = [th EXCEPT ![t] = [th[t] EXCEPT !.pc = "answer"]]
    BY <1>2
  <2>2. TaskOK([th[t] EXCEPT !.pc = "answer"])
    BY ThreadTyped DEF TaskOK, Task, Phase, Deciding, UpdateGrant, InsertGrant
  <2> QED BY <2>1, <2>2, ThreadMoves DEF ThreadsTyped
<1> QED BY <1>1, <1>2 DEF UpdateGrant, InsertGrant, Refused

LEMMA ThreadStep ==
  ASSUME TypeInv, NEW t \in Thread, Evaluate(t)
  PROVE  ThreadsTyped
<1>1. CASE \E e \in Event, src \in Source : Begin(t, e, src)
  BY <1>1, BeginTyped
<1>2. CASE Return(t) \/ Fail(t)
  BY <1>2, DroppedTyped DEF Return, Fail
<1> QED
  BY <1>1, <1>2, ReadTrustedTyped, CountDevicesTyped, DecideTyped, RegisterTyped, InsertDeviceTyped,
     PrepareGrantTyped, WriteGrantTyped DEF Evaluate

\* The tables, the cache and the histories.
StoresTyped ==
  /\ devices \subseteq User \X Key
  /\ grants \in [User \X Key -> Nat]
  /\ cache \in [Event -> Outcome \union {NoDecision}]
  /\ answers \subseteq Answer
  /\ decided \subseteq [ev : Event, dec : Outcome]
  /\ overtaken \subseteq Thread
  /\ conflicts \subseteq [ev : Event, table : {"device", "grant"}, raced : BOOLEAN]
  /\ starts \in [Event -> Nat]
  /\ now \in Nat /\ faults \in Nat

LEMMA WonTyped ==
  ASSUME StoresTyped, NEW t \in Thread, NEW rivals \in SUBSET Thread, Won(t, rivals)
  PROVE  overtaken' \subseteq Thread /\ conflicts' = conflicts
  BY DEF Won, StoresTyped

LEMMA RefusedTyped ==
  ASSUME TypeInv, NEW t \in Thread, NEW table \in {"device", "grant"}, Refused(t, table)
  PROVE  /\ overtaken' \subseteq Thread
         /\ conflicts' \subseteq [ev : Event, table : {"device", "grant"}, raced : BOOLEAN]
<1>1. th[t].ev \in Event
  BY ThreadTyped
<1>2. [ev |-> th[t].ev, table |-> table, raced |-> t \in overtaken]
        \in [ev : Event, table : {"device", "grant"}, raced : BOOLEAN]
  BY <1>1
<1> QED BY <1>2 DEF Refused, TypeInv, TypeOK

LEMMA StoresStep ==
  ASSUME TypeInv, NEW t \in Thread, Evaluate(t)
  PROVE  StoresTyped'
<1>1. StoresTyped
  BY DEF TypeInv, TypeOK, StoresTyped
<1>2. ASSUME NEW e \in Event, NEW src \in Source, Begin(t, e, src)
      PROVE  StoresTyped'
  BY <1>1, <1>2 DEF Begin, StoresTyped
<1>3. CASE ReadTrusted(t) \/ CountDevices(t) \/ Register(t) \/ PrepareGrant(t)
  BY <1>1, <1>3 DEF ReadTrusted, ReadTrustedIn, CountDevices, Register, RegisterFor,
     PrepareGrant, PrepareGrantIf, StoresTyped
<1>4. CASE Decide(t)
  <2>1. PICK dec \in Outcome : decided' = decided \union {[ev |-> th[t].ev, dec |-> dec]}
    BY <1>4, DecideTyped
  <2>2. th[t].ev \in Event
    BY ThreadTyped
  <2>3. decided' \subseteq [ev : Event, dec : Outcome]
    BY <1>1, <2>1, <2>2 DEF StoresTyped
  <2>4. UNCHANGED <<devices, grants, cache, answers, overtaken, conflicts, starts, now, faults>>
    BY <1>4 DEF Decide
  <2> QED BY <1>1, <2>3, <2>4 DEF StoresTyped
<1>5. CASE InsertDevice(t)
  <2>1. DeviceRow(Of(t)) \in User \X Key
    BY <1>5, ThreadTyped DEF InsertDevice
  <2>2. CASE Refused(t, "device") /\ UNCHANGED devices
    BY <1>1, <1>5, <2>2, RefusedTyped DEF InsertDevice, StoresTyped
  <2>3. CASE /\ devices' = devices \union {DeviceRow(Of(t))}
             /\ Won(t, {u \in Thread : DeviceRow(Of(u)) = DeviceRow(Of(t))})
    <3>1. overtaken' \subseteq Thread /\ conflicts' = conflicts
      BY <1>1, <2>3, WonTyped
    <3> QED BY <1>1, <1>5, <2>1, <2>3, <3>1 DEF InsertDevice, StoresTyped
  <2> QED BY <1>5, <2>2, <2>3 DEF InsertDevice
<1>6. CASE UpdateGrant(t) \/ InsertGrant(t)
  <2>1. GrantRow(Of(t)) \in User \X Key
    BY <1>6, ThreadTyped DEF UpdateGrant, InsertGrant
  <2>3. th[t].exp \in Nat
    BY ThreadTyped DEF TaskOK, Task
  <2>4. [grants EXCEPT ![GrantRow(Of(t))] = th[t].exp] \in [User \X Key -> Nat]
    BY <1>1, <2>1, <2>3 DEF StoresTyped
  <2>5. CASE UpdateGrant(t)
    BY <1>1, <2>4, <2>5 DEF UpdateGrant, StoresTyped
  <2>6. CASE InsertGrant(t) /\ Refused(t, "grant") /\ UNCHANGED grants
    BY <1>1, <2>6, RefusedTyped DEF InsertGrant, StoresTyped
  <2>7. CASE /\ InsertGrant(t) /\ grants' = [grants EXCEPT ![GrantRow(Of(t))] = th[t].exp]
             /\ Won(t, {u \in Thread : GrantRow(Of(u)) = GrantRow(Of(t))})
    <3>1. overtaken' \subseteq Thread /\ conflicts' = conflicts
      BY <1>1, <2>7, WonTyped
    <3> QED BY <1>1, <2>4, <2>7, <3>1 DEF InsertGrant, StoresTyped
  <2> QED BY <1>6, <2>5, <2>6, <2>7 DEF InsertGrant
<1>7. CASE Return(t)
  <2>1. th[t].ev \in Event /\ th[t].dec \in Outcome
    BY <1>7, ThreadTyped DEF Return, TaskOK, Deciding
  <2>2. cache' \in [Event -> Outcome \union {NoDecision}]
    BY <1>1, <1>7, <2>1 DEF Return, StoresTyped
  <2>3. answers' \subseteq Answer
    BY <1>1, <1>7, <2>1 DEF Return, StoresTyped, Answer
  <2> QED BY <1>1, <1>7, <2>2, <2>3 DEF Return, StoresTyped
<1>8. CASE Fail(t)
  BY <1>1, <1>8 DEF Fail, StoresTyped
<1> QED BY <1>2, <1>3, <1>4, <1>5, <1>6, <1>7, <1>8 DEF Evaluate

LEMMA CacheTyped ==
  ASSUME TypeInv, NEW e \in Event, CacheHit(e) \/ CacheExpires(e)
  PROVE  StoresTyped'
<1>1. StoresTyped
  BY DEF TypeInv, TypeOK, StoresTyped
<1>2. CASE CacheHit(e)
  <2>1. cache[e] \in Outcome
    BY <1>1, <1>2 DEF CacheHit, StoresTyped
  <2> QED BY <1>1, <1>2, <2>1 DEF CacheHit, ReturnCached, StoresTyped, Answer
<1>3. CASE CacheExpires(e)
  BY <1>1, <1>3 DEF CacheExpires, StoresTyped
<1> QED BY <1>2, <1>3

LEMMA TypeStep ==
  ASSUME TypeInv, [Next]_vars
  PROVE  TypeInv'
<1>1. ThreadsTyped
  BY ThreadStep, ThreadsStay DEF Next, CacheHit, ReturnCached, CacheExpires, Tick, vars, ThreadsTyped
<1>2. StoresTyped
  BY DEF TypeInv, TypeOK, StoresTyped
<1>3. StoresTyped'
  <2>1. CASE Tick
    BY <1>2, <2>1 DEF Tick, StoresTyped
  <2>2. CASE UNCHANGED vars
    BY <1>2, <2>2 DEF vars, StoresTyped
  <2> QED BY <2>1, <2>2, StoresStep, CacheTyped DEF Next
<1> QED BY <1>1, <1>3 DEF ThreadsTyped, StoresTyped, TypeInv, TypeOK, Deciding

LEMMA TypeInit == Init => TypeInv
<1> SUFFICES ASSUME Init PROVE TypeInv
  OBVIOUS
<1>1. th \in [Thread -> Task] /\ \A t \in Thread : th[t].pc = "idle"
  BY IdleTyped DEF Init
<1>2. StoresTyped
  BY EvaluationAssumption DEF Init, StoresTyped
<1> QED BY <1>1, <1>2 DEF TypeInv, TypeOK, KeysKnown, StoresTyped

LEMMA TypeInvariant == Spec => []TypeInv
  BY TypeInit, TypeStep, PTL DEF Spec

\* Every reachable state is well typed, and a thread that acts on a decision has one.
THEOREM EvaluationTyped == Spec => []TypeOK
<1>1. TypeInv => TypeOK
  BY DEF TypeInv
<1> QED BY <1>1, TypeInvariant, PTL

-----------------------------------------------------------------------------
(* What trust rests on                                                     *)

\* A decision in hand is on record; a device about to be inserted belongs to an admitted
\* login or signup; a withdrawal found on a trusted device has an admission behind it.
TaskTrust(k) ==
  /\ k.pc \in Deciding => [ev |-> k.ev, dec |-> k.dec] \in decided
  /\ k.pc = "insert" => Info[k.ev].type \in RegistrationTypes /\ k.dec \in {"allow", "challenge"}
  /\ k.pc = "decide" /\ Info[k.ev].type = "payment.withdraw" /\ k.device = "trusted"
       => Admitted(Info[k.ev].user, Info[k.ev].trustKey)

WithdrawalsDecided ==
  \A d \in decided :
    Info[d.ev].type = "payment.withdraw" /\ d.dec = "allow" /\ "payment.withdraw" \notin Applicable
      => Admitted(Info[d.ev].user, Info[d.ev].trustKey)

CacheDecided == \A e \in Event : cache[e] # NoDecision => [ev |-> e, dec |-> cache[e]] \in decided

TrustInv ==
  /\ \A t \in Thread : TaskTrust(th[t])
  /\ TrustEarned
  /\ WithdrawalsDecided
  /\ CacheDecided
  /\ answers \subseteq decided

\* One step of t leaves the other threads alone, and no record is ever erased.
LEMMA ThreadFrame ==
  ASSUME TypeInv, NEW t \in Thread, Evaluate(t), NEW u \in Thread, u # t
  PROVE  th'[u] = th[u]
<1>1. th \in [Thread -> Task]
  BY DEF TypeInv, TypeOK
<1>2. ASSUME NEW e \in Event, NEW src \in Source, Begin(t, e, src)
      PROVE  th'[u] = th[u]
  BY <1>1, <1>2 DEF Begin
<1>3. CASE ReadTrusted(t) \/ CountDevices(t)
  BY <1>1, <1>3 DEF ReadTrusted, ReadTrustedIn, CountDevices
<1>4. CASE Decide(t)
  BY <1>1, <1>4, DecideTyped
<1>5. CASE Register(t) \/ InsertDevice(t)
  BY <1>1, <1>5 DEF Register, RegisterFor, InsertDevice, Refused, Dropped
<1>6. CASE PrepareGrant(t) \/ UpdateGrant(t) \/ InsertGrant(t)
  BY <1>1, <1>6 DEF PrepareGrant, PrepareGrantIf, UpdateGrant, InsertGrant, Refused, Dropped
<1>7. CASE Return(t) \/ Fail(t)
  BY <1>1, <1>7 DEF Return, Fail, Dropped
<1> QED BY <1>2, <1>3, <1>4, <1>5, <1>6, <1>7 DEF Evaluate

LEMMA AdmittedStays ==
  ASSUME decided \subseteq decided', NEW user, NEW key, Admitted(user, key)
  PROVE  Admitted(user, key)'
  BY DEF Admitted

LEMMA TaskTrustStays ==
  ASSUME decided \subseteq decided', NEW k, TaskTrust(k)
  PROVE  /\ k.pc \in Deciding => [ev |-> k.ev, dec |-> k.dec] \in decided'
         /\ k.pc = "insert" => Info[k.ev].type \in RegistrationTypes /\ k.dec \in {"allow", "challenge"}
         /\ k.pc = "decide" /\ Info[k.ev].type = "payment.withdraw" /\ k.device = "trusted"
              => Admitted(Info[k.ev].user, Info[k.ev].trustKey)'
<1>1. ASSUME NEW user, NEW key, Admitted(user, key)
      PROVE  Admitted(user, key)'
  BY <1>1, AdmittedStays
<1> QED BY <1>1 DEF TaskTrust

\* The steps that record no decision: nothing but the moving thread needs looking at.
LEMMA TrustKept ==
  ASSUME TypeInv, TrustInv, NEW t \in Thread, Evaluate(t), UNCHANGED <<decided, devices, answers, cache>>,
         /\ th'[t].pc \in Deciding => [ev |-> th'[t].ev, dec |-> th'[t].dec] \in decided
         /\ th'[t].pc = "insert" =>
              Info[th'[t].ev].type \in RegistrationTypes /\ th'[t].dec \in {"allow", "challenge"}
         /\ th'[t].pc = "decide" /\ Info[th'[t].ev].type = "payment.withdraw" /\ th'[t].device = "trusted"
              => Admitted(Info[th'[t].ev].user, Info[th'[t].ev].trustKey)
  PROVE  TrustInv'
<1>1. decided' = decided
  OBVIOUS
<1>2. \A user, key : Admitted(user, key)' = Admitted(user, key)
  BY <1>1 DEF Admitted
<1>3. ASSUME NEW u \in Thread PROVE TaskTrust(th[u])'
  <2>1. CASE u = t
    BY <1>1, <1>2, <2>1 DEF TaskTrust
  <2>2. CASE u # t
    BY <1>1, <1>2, <2>2, ThreadFrame DEF TaskTrust, TrustInv
  <2> QED BY <2>1, <2>2
<1>4. TrustEarned' /\ WithdrawalsDecided' /\ CacheDecided' /\ answers' \subseteq decided'
  BY <1>1, <1>2 DEF TrustInv, TrustEarned, WithdrawalsDecided, CacheDecided
<1> QED BY <1>3, <1>4 DEF TrustInv

\* From a device that is not trusted a withdrawal is never allowed, unless the step-up
\* engine speaks for the player.
LEMMA UntrustedNotAllowed ==
  ASSUME NEW device \in {"unknown", "first"}, NEW score,
         NEW signals, "step_up_verification_active" \notin signals
  PROVE  Assess("payment.withdraw", device, score, signals) # "allow"
<1> DEFINE own == DeviceSignals("payment.withdraw", device)
           all == signals \union own
           d == DetermineDecision(Capped(score + DeviceScore("payment.withdraw", device)),
                                  "payment.withdraw", all)
<1>1. "new_device_on_withdrawal" \in own /\ "step_up_verification_active" \notin own
  BY DEF DeviceSignals, UnknownDeviceSignal
<1>2. DeviceTrustChallenge("payment.withdraw", all)
  BY <1>1 DEF DeviceTrustChallenge
<1>3. d \in {"block", "challenge"}
  BY <1>2 DEF DetermineDecision
<1>4. Assess("payment.withdraw", device, score, signals) = ApplyStepUpBypass(d, all)
  BY DEF Assess
<1>5. "step_up_verification_active" \notin all
  BY <1>1
<1> HIDE DEF d, all
<1> QED BY <1>3, <1>4, <1>5 DEF ApplyStepUpBypass

LEMMA DecideTrust ==
  ASSUME TypeInv, TrustInv, NEW t \in Thread, Decide(t)
  PROVE  TrustInv'
<1> DEFINE i == Of(t)
           step == StepUpFound(i)
           dec(o) == Assess(i.type, th[t].device, o.score + StepUpScore(step),
                            o.signals \union StepUpSignals(step))
<1>1. PICK o \in Other[th[t].ev] :
        /\ th' = [th EXCEPT ![t].pc = "register", ![t].step = step, ![t].dec = dec(o)]
        /\ decided' = decided \union {[ev |-> th[t].ev, dec |-> dec(o)]}
  BY DEF Decide
<1>2. PICK d : d = dec(o)
  OBVIOUS
<1>3. th[t].ev \in Event /\ th[t] \in Task /\ th[t].pc = "decide" /\ UNCHANGED <<devices, answers, cache>>
  BY ThreadTyped DEF Decide, TaskOK
<1>4. ASSUME i.type = "payment.withdraw", d = "allow", "payment.withdraw" \notin Applicable
      PROVE  Admitted(i.user, i.trustKey)
  <2>1. step = "none"
    BY <1>4 DEF StepUpFound
  <2>2. "step_up_verification_active" \notin o.signals
    BY <1>1, <1>3, EvaluationAssumption DEF OtherSignal
  <2>3. "step_up_verification_active" \notin o.signals \union StepUpSignals(step)
    BY <2>1, <2>2 DEF StepUpSignals
  <2>4. th[t].device = "trusted"
    <3> SUFFICES ASSUME th[t].device \in {"unknown", "first"} PROVE FALSE
      BY <1>3 DEF Task
    <3>1. d = Assess("payment.withdraw", th[t].device, o.score + StepUpScore(step),
                     o.signals \union StepUpSignals(step))
      BY <1>2, <1>4
    <3> QED BY <1>4, <2>3, <3>1, UntrustedNotAllowed
  <2> QED BY <1>3, <1>4, <2>4 DEF TrustInv, TaskTrust, Of
<1> HIDE DEF dec, step
<1>5. decided' = decided \union {[ev |-> th[t].ev, dec |-> d]} /\ decided \subseteq decided'
  BY <1>1, <1>2
<1>6. \A user, key : Admitted(user, key) => Admitted(user, key)'
  BY <1>5, AdmittedStays
<1>7. th \in [Thread -> Task] /\ th' = [th EXCEPT ![t] = [th[t] EXCEPT !.pc = "register", !.step = step, !.dec = d]]
  BY <1>1, <1>2 DEF TypeInv, TypeOK
<1>8. ASSUME NEW u \in Thread PROVE TaskTrust(th[u])'
  <2>1. CASE u = t
    <3>1. th'[u] = [th[t] EXCEPT !.pc = "register", !.step = step, !.dec = d]
      BY <1>7, <2>1
    <3>2. th'[u].pc = "register" /\ th'[u].ev = th[t].ev /\ th'[u].dec = d
      BY <1>3, <3>1 DEF Task
    <3> QED BY <1>5, <3>2 DEF TaskTrust
  <2>2. CASE u # t
    <3>1. th'[u] = th[u]
      BY <1>7, <2>2
    <3> QED BY <1>5, <1>6, <3>1, TaskTrustStays DEF TaskTrust, TrustInv
  <2> QED BY <2>1, <2>2
<1>9. TrustEarned'
  BY <1>3, <1>6 DEF TrustInv, TrustEarned
<1>10. WithdrawalsDecided'
  BY <1>4, <1>5, <1>6 DEF TrustInv, WithdrawalsDecided, Of
<1>11. CacheDecided' /\ answers' \subseteq decided'
  BY <1>3, <1>5 DEF TrustInv, CacheDecided
<1> QED BY <1>8, <1>9, <1>10, <1>11 DEF TrustInv

LEMMA InsertTrust ==
  ASSUME TypeInv, TrustInv, NEW t \in Thread, InsertDevice(t)
  PROVE  TrustInv'
<1>1. th[t] \in Task /\ th[t].ev \in Event /\ th \in [Thread -> Task]
  BY ThreadTyped DEF TaskOK, TypeInv, TypeOK
<1>2. /\ th[t].pc = "insert" /\ [ev |-> th[t].ev, dec |-> th[t].dec] \in decided
      /\ Of(t).type \in RegistrationTypes /\ th[t].dec \in {"allow", "challenge"}
  BY DEF InsertDevice, TrustInv, TaskTrust, Of, Deciding
<1>3. Admitted(Of(t).user, Of(t).trustKey)
  BY <1>2 DEF Admitted, Of
<1>4. UNCHANGED <<decided, answers, cache>>
  BY DEF InsertDevice
<1>5. \A user, key : Admitted(user, key)' = Admitted(user, key)
  BY <1>4 DEF Admitted
<1>6. \A d \in devices' : d \in devices \/ d = DeviceRow(Of(t))
  BY DEF InsertDevice
<1>7. TrustEarned'
  BY <1>3, <1>5, <1>6 DEF TrustInv, TrustEarned, DeviceRow
<1>8. WithdrawalsDecided' /\ CacheDecided' /\ answers' \subseteq decided'
  BY <1>4, <1>5 DEF TrustInv, WithdrawalsDecided, CacheDecided
<1>9. ASSUME NEW u \in Thread PROVE TaskTrust(th[u])'
  <2>1. CASE u # t
    BY <1>4, <1>5, <2>1, ThreadFrame DEF Evaluate, TrustInv, TaskTrust
  <2>2. CASE u = t /\ th' = Dropped(t)
    <3>1. th'[u].pc = "idle"
      BY <1>1, <2>2, IdleTyped DEF Dropped
    <3> QED BY <3>1 DEF TaskTrust, Deciding
  <2>3. CASE u = t /\ th' = [th EXCEPT ![t].pc = "grant"]
    <3>1. th'[u].pc = "grant" /\ th'[u].ev = th[t].ev /\ th'[u].dec = th[t].dec
      BY <1>1, <2>3 DEF Task
    <3> QED BY <1>2, <1>4, <3>1 DEF TaskTrust
  <2> QED BY <2>1, <2>2, <2>3 DEF InsertDevice, Refused
<1> QED BY <1>7, <1>8, <1>9 DEF TrustInv

LEMMA BeginTrust ==
  ASSUME TypeInv, TrustInv, NEW t \in Thread, NEW e \in Event, NEW src \in Source, Begin(t, e, src)
  PROVE  TrustInv'
<1> DEFINE pc == IF Info[e].type \in DeviceCheckedTypes THEN "trusted" ELSE "decide"
<1>1. th' = [th EXCEPT ![t] = Started(e, src, pc)] /\ th \in [Thread -> Task]
  BY DEF Begin, TypeInv, TypeOK
<1>2. pc \in Phase /\ pc \notin Deciding /\ (pc = "decide" => Info[e].type # "payment.withdraw")
  BY DEF Phase, Deciding, DeviceCheckedTypes
<1> HIDE DEF pc
<1>3. th'[t].pc = pc /\ th'[t].ev = e
  BY <1>1, <1>2, StartedTyped
<1>4. UNCHANGED <<decided, devices, answers, cache>> /\ Evaluate(t)
  BY DEF Begin, Evaluate
<1> QED BY <1>2, <1>3, <1>4, TrustKept DEF Deciding

LEMMA ReadTrust ==
  ASSUME TypeInv, TrustInv, NEW t \in Thread, ReadTrusted(t) \/ CountDevices(t)
  PROVE  TrustInv'
<1>1. th[t] \in Task /\ th \in [Thread -> Task]
  BY ThreadTyped DEF TaskOK, TypeInv, TypeOK
<1>2. UNCHANGED <<decided, devices, answers, cache>> /\ Evaluate(t)
  BY DEF ReadTrusted, ReadTrustedIn, CountDevices, Evaluate
<1>3. th'[t].pc \notin Deciding /\ th'[t].ev = th[t].ev
  BY <1>1 DEF ReadTrusted, ReadTrustedIn, CountDevices, Deciding, Task
<1>4. th'[t].pc = "decide" => th'[t].device # "trusted" \/ Admitted(Of(t).user, Of(t).trustKey)
  <2>1. CASE ReadTrusted(t)
    <3>1. DeviceRow(Of(t)) \in devices => Admitted(Of(t).user, Of(t).trustKey)
      BY DEF TrustInv, TrustEarned, DeviceRow
    <3>2. th'[t].pc = "decide" => DeviceRow(Of(t)) \in devices
      BY <1>1, <2>1 DEF ReadTrusted, ReadTrustedIn, Task
    <3> QED BY <3>1, <3>2
  <2>2. CASE CountDevices(t)
    BY <1>1, <2>2 DEF CountDevices, Task
  <2> QED BY <2>1, <2>2
<1> QED BY <1>2, <1>3, <1>4, TrustKept DEF Of, Deciding

LEMMA RegisterTrust ==
  ASSUME TypeInv, TrustInv, NEW t \in Thread, Register(t)
  PROVE  TrustInv'
<1>1. th[t] \in Task /\ th \in [Thread -> Task]
  BY ThreadTyped DEF TaskOK, TypeInv, TypeOK
<1>2. UNCHANGED <<decided, devices, answers, cache>> /\ Evaluate(t)
  BY DEF Register, RegisterFor, Evaluate
<1>3. [ev |-> th[t].ev, dec |-> th[t].dec] \in decided
  BY DEF Register, RegisterFor, TrustInv, TaskTrust, Deciding
<1>4. /\ th'[t].ev = th[t].ev /\ th'[t].dec = th[t].dec /\ th'[t].pc \in {"insert", "grant"}
      /\ th'[t].pc = "insert" => Of(t).type \in RegistrationTypes /\ th[t].dec \in {"allow", "challenge"}
  BY <1>1 DEF Register, RegisterFor, Task
<1> QED BY <1>2, <1>3, <1>4, TrustKept DEF Of, Deciding

LEMMA GrantTrust ==
  ASSUME TypeInv, TrustInv, NEW t \in Thread, PrepareGrant(t) \/ UpdateGrant(t) \/ InsertGrant(t)
  PROVE  TrustInv'
<1>1. th[t] \in Task /\ th \in [Thread -> Task]
  BY ThreadTyped DEF TaskOK, TypeInv, TypeOK
<1>2. UNCHANGED <<decided, devices, answers, cache>> /\ Evaluate(t)
  BY DEF PrepareGrant, PrepareGrantIf, UpdateGrant, InsertGrant, Evaluate
<1>3. CASE th' = Dropped(t)
  <2>1. th'[t].pc = "idle"
    BY <1>1, <1>3, IdleTyped DEF Dropped
  <2> QED BY <1>2, <2>1, TrustKept DEF Deciding
<1>4. CASE th' # Dropped(t)
  <2>1. [ev |-> th[t].ev, dec |-> th[t].dec] \in decided
    BY DEF PrepareGrant, PrepareGrantIf, UpdateGrant, InsertGrant, TrustInv, TaskTrust, Deciding
  <2>2. /\ th'[t].ev = th[t].ev /\ th'[t].dec = th[t].dec
        /\ th'[t].pc \in {"grantInsert", "grantUpdate", "answer"}
    BY <1>1, <1>4 DEF PrepareGrant, PrepareGrantIf, UpdateGrant, InsertGrant, Refused, Task
  <2> QED BY <1>2, <2>1, <2>2, TrustKept
<1> QED BY <1>3, <1>4

LEMMA EndTrust ==
  ASSUME TypeInv, TrustInv, NEW t \in Thread, Return(t) \/ Fail(t)
  PROVE  TrustInv'
<1>1. th[t] \in Task /\ th \in [Thread -> Task] /\ th[t].ev \in Event
  BY ThreadTyped DEF TaskOK, TypeInv, TypeOK
<1>2. th'[t].pc = "idle"
  BY <1>1, IdleTyped DEF Return, Fail, Dropped
<1>3. decided' = decided /\ devices' = devices
  BY DEF Return, Fail
<1>4. \A user, key : Admitted(user, key)' = Admitted(user, key)
  BY <1>3 DEF Admitted
<1>5. answers' \subseteq decided' /\ CacheDecided'
  <2>1. CASE Return(t)
    <3>1. [ev |-> th[t].ev, dec |-> th[t].dec] \in decided
      BY <2>1 DEF Return, TrustInv, TaskTrust, Deciding
    <3>2. cache \in [Event -> Outcome \union {NoDecision}]
      BY DEF TypeInv, TypeOK
    <3> QED BY <1>1, <1>3, <2>1, <3>1, <3>2 DEF Return, TrustInv, CacheDecided
  <2>2. CASE Fail(t)
    BY <1>3, <2>2 DEF Fail, TrustInv, CacheDecided
  <2> QED BY <2>1, <2>2
<1>6. ASSUME NEW u \in Thread PROVE TaskTrust(th[u])'
  <2>1. CASE u = t
    BY <1>2, <2>1 DEF TaskTrust, Deciding
  <2>2. CASE u # t
    BY <1>3, <1>4, <2>2, ThreadFrame DEF Evaluate, TaskTrust, TrustInv
  <2> QED BY <2>1, <2>2
<1>7. TrustEarned' /\ WithdrawalsDecided'
  BY <1>3, <1>4 DEF TrustInv, TrustEarned, WithdrawalsDecided
<1> QED BY <1>5, <1>6, <1>7 DEF TrustInv

LEMMA TrustStep ==
  ASSUME TypeInv, TrustInv, [Next]_vars
  PROVE  TrustInv'
<1>1. ASSUME NEW t \in Thread, Evaluate(t) PROVE TrustInv'
  BY <1>1, BeginTrust, ReadTrust, DecideTrust, RegisterTrust, InsertTrust, GrantTrust, EndTrust
     DEF Evaluate
<1>2. ASSUME UNCHANGED <<th, decided, devices>>, answers' \subseteq decided, CacheDecided'
      PROVE  TrustInv'
  <2>1. \A user, key : Admitted(user, key)' = Admitted(user, key)
    BY <1>2 DEF Admitted
  <2>2. \A t \in Thread : TaskTrust(th[t])'
    BY <1>2, <2>1 DEF TrustInv, TaskTrust
  <2> QED BY <1>2, <2>1, <2>2 DEF TrustInv, TrustEarned, WithdrawalsDecided
<1>3. ASSUME NEW e \in Event, CacheHit(e) PROVE TrustInv'
  <2>1. answers' \subseteq decided /\ CacheDecided'
    BY <1>3 DEF CacheHit, ReturnCached, TrustInv, CacheDecided
  <2> QED BY <1>2, <1>3, <2>1 DEF CacheHit, ReturnCached
<1>4. ASSUME NEW e \in Event, CacheExpires(e) PROVE TrustInv'
  <2>1. answers' \subseteq decided /\ CacheDecided'
    BY <1>4 DEF CacheExpires, TrustInv, CacheDecided, TypeInv, TypeOK
  <2> QED BY <1>2, <1>4, <2>1 DEF CacheExpires
<1>5. CASE Tick \/ UNCHANGED vars
  BY <1>2, <1>5 DEF Tick, vars, TrustInv, CacheDecided
<1> QED BY <1>1, <1>3, <1>4, <1>5 DEF Next

LEMMA TrustInit == Init => TrustInv
<1> SUFFICES ASSUME Init PROVE TrustInv
  OBVIOUS
<1>1. \A t \in Thread : th[t].pc = "idle"
  BY IdleTyped DEF Init
<1> QED BY <1>1 DEF Init, TrustInv, TaskTrust, TrustEarned, WithdrawalsDecided, CacheDecided, Deciding

LEMMA TrustInvariant == Spec => []TrustInv
  BY TypeInvariant, TrustInit, TrustStep, PTL DEF Spec

\* A device becomes trusted only by a login or signup of that user from it that was not
\* blocked.
THEOREM TrustIsEarned == Spec => []TrustEarned
<1>1. TrustInv => TrustEarned
  BY DEF TrustInv
<1> QED BY <1>1, TrustInvariant, PTL

\* A withdrawal is allowed only from a device on which the same user was admitted before,
\* where the step-up does not apply to withdrawals.
THEOREM WithdrawalsAreGated == Spec => []WithdrawalGated
<1>1. TrustInv => WithdrawalGated
  BY DEF TrustInv, WithdrawalGated, WithdrawalsDecided
<1> QED BY <1>1, TrustInvariant, PTL

\* A response, whether of the evaluation that ends or of the cache, is a decision taken for that
\* very event: however threads, processes, retries and expiring entries interleave, no caller
\* gets the decision of another event.
THEOREM OnlyDecidedAnswered == Spec => [](answers \subseteq decided /\ CacheDecided)
<1>1. TrustInv => answers \subseteq decided /\ CacheDecided
  BY DEF TrustInv
<1> QED BY <1>1, TrustInvariant, PTL

-----------------------------------------------------------------------------
\* What the step-up engine rests on: the invariant relates every grant, in the table or on its way
\* there, to a verification the player passed.

\* The player passed a verification on this device that a grant until exp may stand for.
Backed(user, key, exp) ==
  \E v \in Event :
    /\ starts[v] > 0
    /\ Info[v].user = user /\ Info[v].grantKey = key /\ Info[v].stepUp = "verified"
    /\ Info[v].at <= now /\ exp <= Info[v].at + MaxAge + GrantTtl

TaskBacked(k) ==
  /\ k.pc # "idle" => starts[k.ev] > 0
  /\ k.pc \in {"grantInsert", "grantUpdate"} =>
       Backed(Info[k.ev].user, Info[k.ev].grantKey, k.exp)

TableBacked ==
  \A user \in User, key \in Key : grants[<<user, key>>] # 0 => Backed(user, key, grants[<<user, key>>])

GrantInv == TableBacked /\ \A t \in Thread : TaskBacked(th[t])

\* Time goes on and events are evaluated again: what was backed stays so.
LEMMA BackedStays ==
  ASSUME TypeInv, TypeInv', \A e \in Event : starts'[e] >= starts[e], now' >= now,
         NEW user, NEW key, NEW exp, Backed(user, key, exp)
  PROVE  Backed(user, key, exp)'
<1>1. PICK v \in Event :
        /\ starts[v] > 0
        /\ Info[v].user = user /\ Info[v].grantKey = key /\ Info[v].stepUp = "verified"
        /\ Info[v].at <= now /\ exp <= Info[v].at + MaxAge + GrantTtl
  BY DEF Backed
<1>2. starts[v] \in Nat /\ starts'[v] \in Nat /\ now \in Nat /\ now' \in Nat
  BY DEF TypeInv, TypeOK
<1>3. Info[v].at \in Nat
  BY InfoTyped DEF EventInfo
<1>4. starts'[v] > 0 /\ Info[v].at <= now'
  BY <1>1, <1>2, <1>3
<1> QED BY <1>1, <1>4 DEF Backed

\* No step takes back an evaluation or the time.
LEMMA TimeGoesOn ==
  ASSUME TypeInv, [Next]_vars
  PROVE  (\A e \in Event : starts'[e] >= starts[e]) /\ now' >= now
<1>1. starts \in [Event -> Nat] /\ now \in Nat
  BY DEF TypeInv, TypeOK
<1>2. CASE UNCHANGED <<starts, now>>
  BY <1>1, <1>2
<1>3. ASSUME NEW e \in Event, starts' = [starts EXCEPT ![e] = @ + 1], now' = now
      PROVE  (\A f \in Event : starts'[f] >= starts[f]) /\ now' >= now
  BY <1>1, <1>3
<1>4. CASE Tick
  BY <1>1, <1>4 DEF Tick
<1>5. ASSUME NEW t \in Thread, Evaluate(t)
      PROVE  \/ UNCHANGED <<starts, now>>
             \/ \E e \in Event : starts' = [starts EXCEPT ![e] = @ + 1] /\ now' = now
  BY <1>5 DEF Evaluate, Begin, ReadTrusted, ReadTrustedIn, CountDevices, Decide, Register, RegisterFor,
     InsertDevice, PrepareGrant, PrepareGrantIf, UpdateGrant, InsertGrant, Return, Fail
<1>6. ASSUME NEW e \in Event, CacheHit(e) \/ CacheExpires(e)
      PROVE  \/ UNCHANGED <<starts, now>>
             \/ \E f \in Event : starts' = [starts EXCEPT ![f] = @ + 1] /\ now' = now
  BY <1>6 DEF CacheHit, ReturnCached, CacheExpires
<1> QED BY <1>2, <1>3, <1>4, <1>5, <1>6 DEF Next, vars

\* What an evaluation does to the grants: it writes the one it prepared, or none.
LEMMA GrantsStep ==
  ASSUME TypeInv, GrantInv, NEW t \in Thread, Evaluate(t), NEW user \in User, NEW key \in Key
  PROVE  \/ grants'[<<user, key>>] = grants[<<user, key>>]
         \/ /\ th[t].pc \in {"grantInsert", "grantUpdate"}
            /\ user = Of(t).user /\ key = Of(t).grantKey
            /\ grants'[<<user, key>>] = th[t].exp
<1>1. CASE UNCHANGED grants
  BY <1>1
<1>2. CASE UpdateGrant(t) \/ InsertGrant(t)
  <2>1. grants \in [User \X Key -> Nat] /\ GrantRow(Of(t)) \in User \X Key
    BY <1>2, ThreadTyped DEF TypeInv, TypeOK, UpdateGrant, InsertGrant
  <2> QED BY <1>2, <2>1 DEF UpdateGrant, InsertGrant, GrantRow
<1>3. UNCHANGED grants \/ UpdateGrant(t) \/ InsertGrant(t)
  BY DEF Evaluate, Begin, ReadTrusted, ReadTrustedIn, CountDevices, Decide, Register, RegisterFor,
     InsertDevice, PrepareGrant, PrepareGrantIf, Return, Fail
<1> QED BY <1>1, <1>2, <1>3

\* Where the moving thread goes: it starts an event it counts, prepares a grant for a fresh
\* verification, or goes on with the event it has.
LEMMA ThreadGoesOn ==
  ASSUME TypeInv, NEW t \in Thread, Evaluate(t)
  PROVE  \/ th'[t].pc = "idle"
         \/ th'[t].pc \notin {"grantInsert", "grantUpdate"} /\ starts'[th'[t].ev] > 0
              /\ th'[t].ev \in Event
         \/ th'[t].pc \notin {"grantInsert", "grantUpdate"} /\ th'[t].ev = th[t].ev
              /\ th[t].pc # "idle"
         \/ /\ th[t].pc = "grant" /\ th'[t].ev = th[t].ev
            /\ th'[t].exp = now + GrantTtl
            /\ Of(t).stepUp = "verified" /\ Fresh(Of(t).at)
<1>1. th[t] \in Task /\ th \in [Thread -> Task] /\ starts \in [Event -> Nat]
  BY ThreadTyped DEF TaskOK, TypeInv, TypeOK
<1>2. ASSUME NEW e \in Event, NEW src \in Source, Begin(t, e, src)
      PROVE  th'[t].pc \notin {"grantInsert", "grantUpdate"} /\ starts'[th'[t].ev] > 0 /\ th'[t].ev \in Event
  <2>1. PICK pc \in {"trusted", "decide"} : th' = [th EXCEPT ![t] = Started(e, src, pc)]
    BY <1>2 DEF Begin
  <2>2. th'[t].pc = pc /\ th'[t].ev = e
    BY <1>1, <2>1, StartedTyped DEF Phase
  <2>3. starts'[e] = starts[e] + 1 /\ starts[e] \in Nat
    BY <1>1, <1>2 DEF Begin
  <2> QED BY <2>2, <2>3
<1>3. CASE ReadTrusted(t) \/ CountDevices(t) \/ Register(t)
  BY <1>1, <1>3 DEF ReadTrusted, ReadTrustedIn, CountDevices, Register, RegisterFor, Task
<1>4. CASE Decide(t)
  <2>1. PICK step \in {"none", "failed", "foreign", "active"}, dec \in Outcome :
          th' = [th EXCEPT ![t] = [th[t] EXCEPT !.pc = "register", !.step = step, !.dec = dec]]
    BY <1>4, DecideTyped
  <2> QED BY <1>1, <1>4, <2>1 DEF Decide, Task
<1>5. CASE th' = Dropped(t)
  BY <1>1, <1>5, IdleTyped DEF Dropped
<1>6. CASE InsertDevice(t) \/ UpdateGrant(t) \/ InsertGrant(t)
  BY <1>1, <1>5, <1>6 DEF InsertDevice, UpdateGrant, InsertGrant, Refused, Task
<1>7. CASE PrepareGrant(t)
  BY <1>1, <1>7 DEF PrepareGrant, PrepareGrantIf, Task
<1>8. CASE Return(t) \/ Fail(t)
  BY <1>5, <1>8 DEF Return, Fail
<1> QED BY <1>2, <1>3, <1>4, <1>6, <1>7, <1>8 DEF Evaluate

LEMMA GrantThreadStep ==
  ASSUME TypeInv, TypeInv', GrantInv, NEW t \in Thread, Evaluate(t)
  PROVE  GrantInv'
<1>0. (\A e \in Event : starts'[e] >= starts[e]) /\ now' >= now
  BY TimeGoesOn DEF Next
<1>1. ASSUME NEW user, NEW key, NEW exp, Backed(user, key, exp)
      PROVE  Backed(user, key, exp)'
  BY <1>0, <1>1, BackedStays
<1>2. \A u \in Thread : TaskBacked(th[u]) /\ th[u].ev \in Event
  BY ThreadTyped DEF GrantInv
<1>3. starts \in [Event -> Nat] /\ starts' \in [Event -> Nat] /\ now \in Nat
  BY DEF TypeInv, TypeOK
<1>4. \A e \in Event : starts[e] > 0 => starts'[e] > 0
  BY <1>0, <1>3
<1>5. TableBacked'
  <2> SUFFICES ASSUME NEW user \in User, NEW key \in Key, NEW n, n = grants'[<<user, key>>], n # 0
               PROVE  Backed(user, key, n)'
    BY DEF TableBacked
  <2>1. CASE n = grants[<<user, key>>]
    BY <1>1, <2>1 DEF GrantInv, TableBacked
  <2>2. CASE /\ th[t].pc \in {"grantInsert", "grantUpdate"}
             /\ user = Of(t).user /\ key = Of(t).grantKey
             /\ n = th[t].exp
    <3>1. Backed(user, key, n)
      BY <1>2, <2>2 DEF TaskBacked, Of
    <3> QED BY <1>1, <3>1
  <2> QED BY <2>1, <2>2, GrantsStep
<1>6. ASSUME NEW u \in Thread PROVE TaskBacked(th[u])'
  <2>1. CASE u # t
    <3>1. th'[u] = th[u]
      BY <2>1, ThreadFrame
    <3>2. PICK k : k = th[u]
      OBVIOUS
    <3>3. TaskBacked(k)'
      BY <1>1, <1>2, <1>4, <3>2 DEF TaskBacked
    <3> QED BY <3>1, <3>2, <3>3
  <2>2. CASE u = t
    <3>1. PICK k : k = th'[t]
      OBVIOUS
    <3>2. CASE k.pc = "grantInsert" \/ k.pc = "grantUpdate"
      <4>1. /\ th[t].pc = "grant" /\ k.ev = th[t].ev /\ k.exp = now + GrantTtl
            /\ Of(t).stepUp = "verified" /\ Fresh(Of(t).at)
        BY <3>1, <3>2, ThreadGoesOn
      <4>2. starts[k.ev] > 0 /\ k.ev \in Event
        BY <1>2, <4>1 DEF TaskBacked
      <4>3. Info[k.ev].at \in Nat
        BY <4>2, InfoTyped DEF EventInfo
      <4>4. Info[k.ev].at <= now /\ now <= Info[k.ev].at + MaxAge /\ Info[k.ev].stepUp = "verified"
        BY <4>1 DEF Of, Fresh
      <4>5. k.exp <= Info[k.ev].at + MaxAge + GrantTtl
        BY <1>3, <4>1, <4>3, <4>4, EvaluationAssumption
      <4>6. Backed(Info[k.ev].user, Info[k.ev].grantKey, k.exp)
        BY <4>2, <4>4, <4>5 DEF Backed
      <4>7. PICK i : i = Info[k.ev]
        OBVIOUS
      <4>8. Backed(i.user, i.grantKey, k.exp)'
        BY <1>1, <4>6, <4>7
      <4>9. TaskBacked(k)'
        BY <1>4, <4>2, <4>7, <4>8 DEF TaskBacked
      <4> QED BY <2>2, <3>1, <4>9
    <3>3. CASE k.pc # "grantInsert" /\ k.pc # "grantUpdate"
      <4>1. k.pc # "idle" => starts'[k.ev] > 0
        BY <1>2, <1>4, <3>1, <3>3, ThreadGoesOn DEF TaskBacked
      <4>2. TaskBacked(k)'
        BY <3>3, <4>1 DEF TaskBacked
      <4> QED BY <2>2, <3>1, <4>2
    <3> QED BY <3>2, <3>3
  <2> QED BY <2>1, <2>2
<1> QED BY <1>5, <1>6 DEF GrantInv

LEMMA GrantStep ==
  ASSUME TypeInv, TypeInv', GrantInv, [Next]_vars
  PROVE  GrantInv'
<1>1. CASE \E t \in Thread : Evaluate(t)
  BY <1>1, GrantThreadStep
<1>2. CASE UNCHANGED <<grants, th>>
  <2>0. (\A e \in Event : starts'[e] >= starts[e]) /\ now' >= now
    BY TimeGoesOn
  <2>1. ASSUME NEW user, NEW key, NEW exp, Backed(user, key, exp)
        PROVE  Backed(user, key, exp)'
    BY <2>0, <2>1, BackedStays
  <2>2. \A e \in Event : starts[e] > 0 => starts'[e] > 0
    BY <2>0 DEF TypeInv, TypeOK
  <2>3. ASSUME NEW k, k.ev \in Event, TaskBacked(k) PROVE TaskBacked(k)'
    BY <2>1, <2>2, <2>3 DEF TaskBacked
  <2>4. ASSUME NEW u \in Thread PROVE TaskBacked(th[u])'
    <3>1. PICK k : k = th[u]
      OBVIOUS
    <3>2. TaskBacked(k)'
      BY <2>3, <3>1, ThreadTyped DEF GrantInv
    <3> QED BY <1>2, <3>1, <3>2
  <2>5. TableBacked'
    <3> SUFFICES ASSUME NEW user \in User, NEW key \in Key, NEW n, n = grants'[<<user, key>>], n # 0
                 PROVE  Backed(user, key, n)'
      BY DEF TableBacked
    <3>1. Backed(user, key, n)
      BY <1>2 DEF GrantInv, TableBacked
    <3> QED BY <2>1, <3>1
  <2> QED BY <2>4, <2>5 DEF GrantInv
<1> QED BY <1>1, <1>2 DEF Next, CacheHit, ReturnCached, CacheExpires, Tick, vars

LEMMA GrantInvariant == Spec => []GrantInv
<1>1. Init => GrantInv
  <2> SUFFICES ASSUME Init PROVE GrantInv
    OBVIOUS
  <2>1. \A t \in Thread : th[t].pc = "idle"
    BY IdleTyped DEF Init
  <2> QED BY <2>1 DEF Init, GrantInv, TableBacked, TaskBacked
<1> QED BY <1>1, TypeInvariant, GrantStep, PTL DEF Spec

\* A thread comes to hear of an active step-up only when it decides, from what the step-up
\* engine finds.
LEMMA ActiveFound ==
  ASSUME TypeInv, [Next]_vars, NEW t \in Thread, th[t].step # "active", th'[t].step = "active"
  PROVE  th[t].pc # "idle" /\ th'[t].ev = th[t].ev /\ StepUpFound(Of(t)) = "active"
<1>1. th[t] \in Task /\ th \in [Thread -> Task]
  BY ThreadTyped DEF TaskOK, TypeInv, TypeOK
<1>2. PICK u \in Thread : Evaluate(u)
  BY DEF Next, CacheHit, ReturnCached, CacheExpires, Tick, vars
<1>3. u = t
  BY <1>2, ThreadFrame
<1>4. IdleTask.step = "none" /\ \A e, src, pc : Started(e, src, pc).step = "none"
  BY DEF IdleTask, Started
<1>5. Decide(t)
  BY <1>1, <1>2, <1>3, <1>4 DEF Evaluate, Begin, ReadTrusted, ReadTrustedIn, CountDevices, Register,
     RegisterFor, InsertDevice, Refused, PrepareGrant, PrepareGrantIf, UpdateGrant, InsertGrant, Return, Fail,
     Dropped, Task
<1>6. PICK step \in {"none", "failed", "foreign", "active"}, dec \in Outcome :
        /\ step = StepUpFound(Of(t))
        /\ th' = [th EXCEPT ![t] = [th[t] EXCEPT !.pc = "register", !.step = step, !.dec = dec]]
  BY <1>5, DecideTyped
<1> QED BY <1>1, <1>5, <1>6 DEF Decide, Task

LEMMA FoundIsVerified ==
  ASSUME TypeInv, GrantInv, NEW t \in Thread, th[t].pc # "idle", StepUpFound(Of(t)) = "active"
  PROVE  Verified(Of(t).user, Of(t).grantKey)
<1>1. th[t].ev \in Event /\ Of(t) \in EventInfo /\ starts[th[t].ev] > 0 /\ now \in Nat
  BY ThreadTyped DEF GrantInv, TaskBacked, TypeInv, TypeOK
<1>2. CASE ActiveGrant(Of(t))
  <2> DEFINE g == grants[GrantRow(Of(t))]
  <2>1. Of(t).user \in User /\ Of(t).grantKey \in Key /\ g > now
    BY <1>1, <1>2 DEF ActiveGrant, EventInfo
  <2>2. g \in Nat
    BY <2>1 DEF TypeInv, TypeOK, GrantRow
  <2>3. g = grants[<<Of(t).user, Of(t).grantKey>>] /\ g # 0
    BY <1>1, <2>1, <2>2 DEF GrantRow
  <2>4. Backed(Of(t).user, Of(t).grantKey, g)
    BY <2>1, <2>3 DEF GrantInv, TableBacked
  <2>5. PICK v \in Event :
          /\ starts[v] > 0
          /\ Info[v].user = Of(t).user /\ Info[v].grantKey = Of(t).grantKey
          /\ Info[v].stepUp = "verified"
          /\ Info[v].at <= now /\ g <= Info[v].at + MaxAge + GrantTtl
    BY <2>4 DEF Backed
  <2>6. Info[v].at \in Nat
    BY InfoTyped DEF EventInfo
  <2> HIDE DEF g
  <2>7. now < Info[v].at + MaxAge + GrantTtl
    BY <1>1, <2>1, <2>2, <2>5, <2>6, EvaluationAssumption
  <2> QED BY <2>5, <2>7 DEF Verified
<1>3. CASE ~ActiveGrant(Of(t))
  <2>1. Of(t).stepUp = "verified" /\ Fresh(Of(t).at)
    BY <1>1, <1>3 DEF StepUpFound, EventInfo, StepUpKind
  <2>2. Of(t).at \in Nat
    BY <1>1 DEF EventInfo
  <2>3. Of(t).at <= now /\ now < Of(t).at + MaxAge + GrantTtl
    BY <1>1, <2>1, <2>2, EvaluationAssumption DEF Fresh
  <2> QED BY <1>1, <2>1, <2>3 DEF Verified, Of
<1> QED BY <1>2, <1>3

\* The step-up engine speaks for a player only if that player passed a verification on the
\* device that is not out of date, for any thresholds, times to live and interleavings.
THEOREM StepUpIsBacked == Spec => StepUpBacked
<1>1. ASSUME TypeInv, GrantInv, [Next]_vars
      PROVE  [\A t \in Thread : th[t].step # "active" /\ th'[t].step = "active" =>
                Verified(Of(t)'.user, Of(t)'.grantKey)]_th
  <2> SUFFICES ASSUME NEW t \in Thread, th[t].step # "active", th'[t].step = "active"
               PROVE  Verified(Of(t)'.user, Of(t)'.grantKey)
    OBVIOUS
  <2>1. th[t].pc # "idle" /\ th'[t].ev = th[t].ev /\ StepUpFound(Of(t)) = "active"
    BY <1>1, ActiveFound
  <2>2. Verified(Of(t).user, Of(t).grantKey)
    BY <1>1, <2>1, FoundIsVerified
  <2>3. Of(t)' = Of(t)
    BY <2>1 DEF Of
  <2> QED BY <2>2, <2>3
<1> QED BY <1>1, TypeInvariant, GrantInvariant, PTL DEF Spec, StepUpBacked

-----------------------------------------------------------------------------
\* Inserts refused.  A thread that found no row and whose row is there now has been overtaken:
\* whoever inserted the row meanwhile has left its mark, and rows never go away again.

\* A grant on its way into the table expires at some instant after 0.
ExpSet == \A t \in Thread : th[t].pc \in {"grantInsert", "grantUpdate"} => th[t].exp # 0

RaceOf(t) ==
  /\ th[t].pc = "insert" /\ DeviceRow(Of(t)) \in devices => t \in overtaken
  /\ th[t].pc = "grantInsert" /\ grants[GrantRow(Of(t))] # 0 => t \in overtaken
  /\ th[t].pc = "grantUpdate" => grants[GrantRow(Of(t))] # 0

RaceInv == ConflictsAreRaces /\ \A t \in Thread : RaceOf(t)

LEMMA ExpSetStep ==
  ASSUME TypeInv, ExpSet, [Next]_vars
  PROVE  ExpSet'
<1>1. ASSUME NEW t \in Thread, Evaluate(t), NEW u \in Thread,
             th'[u].pc \in {"grantInsert", "grantUpdate"}
      PROVE  th'[u].exp # 0
  <2>1. CASE u # t
    BY <1>1, <2>1, ThreadFrame DEF ExpSet
  <2>2. CASE u = t
    <3>1. th'[t].exp = now + GrantTtl
      BY <1>1, <2>2, ThreadGoesOn
    <3>2. now \in Nat /\ GrantTtl \in Nat \ {0}
      BY EvaluationAssumption DEF TypeInv, TypeOK
    <3> QED BY <2>2, <3>1, <3>2
  <2> QED BY <2>1, <2>2
<1>2. CASE UNCHANGED th
  BY <1>2 DEF ExpSet
<1> QED BY <1>1, <1>2 DEF Next, CacheHit, ReturnCached, CacheExpires, Tick, vars, ExpSet

\* Every step but the two queries leaves the thread with no insert before it.
LEMMA QueriesSetOut ==
  ASSUME TypeInv, NEW t \in Thread, Evaluate(t), ~Register(t), ~PrepareGrant(t)
  PROVE  th'[t].pc \notin {"insert", "grantInsert", "grantUpdate"}
<1>1. th[t] \in Task /\ th \in [Thread -> Task]
  BY ThreadTyped DEF TaskOK, TypeInv, TypeOK
<1>2. ASSUME NEW e \in Event, NEW src \in Source, Begin(t, e, src)
      PROVE  th'[t].pc \notin {"insert", "grantInsert", "grantUpdate"}
  <2>1. PICK pc \in {"trusted", "decide"} : th' = [th EXCEPT ![t] = Started(e, src, pc)]
    BY <1>2 DEF Begin
  <2> QED BY <1>1, <2>1, StartedTyped DEF Phase
<1>3. CASE ReadTrusted(t) \/ CountDevices(t)
  BY <1>1, <1>3 DEF ReadTrusted, ReadTrustedIn, CountDevices, Task
<1>4. CASE Decide(t)
  <2>1. PICK step \in {"none", "failed", "foreign", "active"}, dec \in Outcome :
          th' = [th EXCEPT ![t] = [th[t] EXCEPT !.pc = "register", !.step = step, !.dec = dec]]
    BY <1>4, DecideTyped
  <2> QED BY <1>1, <2>1 DEF Task
<1>5. CASE th' = Dropped(t)
  BY <1>1, <1>5, IdleTyped DEF Dropped
<1>6. CASE InsertDevice(t) \/ UpdateGrant(t) \/ InsertGrant(t)
  BY <1>1, <1>5, <1>6 DEF InsertDevice, UpdateGrant, InsertGrant, Refused, Task
<1>7. CASE Return(t) \/ Fail(t)
  BY <1>5, <1>7 DEF Return, Fail
<1> QED BY <1>2, <1>3, <1>4, <1>6, <1>7 DEF Evaluate

\* A query lets its thread on to an insert only without a row, to an update only with one.
LEMMA QueryRace ==
  ASSUME TypeInv, NEW t \in Thread, Register(t) \/ PrepareGrant(t)
  PROVE  /\ RaceOf(t)'
         /\ UNCHANGED <<devices, grants, overtaken, conflicts>>
<1>1. th[t] \in Task /\ th \in [Thread -> Task]
  BY ThreadTyped DEF TaskOK, TypeInv, TypeOK
<1>2. UNCHANGED <<devices, grants, overtaken, conflicts>>
  BY DEF Register, RegisterFor, PrepareGrant, PrepareGrantIf
<1>3. th'[t].ev = th[t].ev
  BY <1>1 DEF Register, RegisterFor, PrepareGrant, PrepareGrantIf, Task
<1>4. CASE Register(t)
  <2>1. th'[t].pc \in {"insert", "grant"}
    BY <1>1, <1>4 DEF Register, RegisterFor, Task
  <2>2. th'[t].pc = "insert" => DeviceRow(Of(t)) \notin devices
    BY <1>1, <1>4 DEF Register, RegisterFor, Task
  <2> QED BY <1>2, <1>3, <2>1, <2>2 DEF RaceOf, Of
<1>5. CASE PrepareGrant(t)
  <2>1. th'[t].pc \in {"grantInsert", "grantUpdate", "answer"}
    BY <1>1, <1>5 DEF PrepareGrant, PrepareGrantIf, Task
  <2>2. th'[t].pc \in {"grantInsert", "grantUpdate"} =>
          (th'[t].pc = "grantInsert" <=> grants[GrantRow(Of(t))] = 0)
    BY <1>1, <1>5 DEF PrepareGrant, PrepareGrantIf, Task
  <2> QED BY <1>2, <1>3, <2>1, <2>2 DEF RaceOf, Of
<1> QED BY <1>2, <1>4, <1>5

\* An insert of the device: the others at that row are marked, or the thread was marked itself.
LEMMA DeviceRace ==
  ASSUME TypeInv, RaceInv, NEW t \in Thread, InsertDevice(t)
  PROVE  RaceInv'
<1>1. th[t].pc = "insert" /\ UNCHANGED grants
  BY DEF InsertDevice
<1>2. RaceOf(t)'
  <2>1. th'[t].pc \notin {"insert", "grantInsert", "grantUpdate"}
    BY <1>1, QueriesSetOut DEF Evaluate, Register, RegisterFor, PrepareGrant, PrepareGrantIf
  <2> QED BY <2>1 DEF RaceOf
<1>3. CASE /\ devices' = devices \union {DeviceRow(Of(t))}
           /\ Won(t, {u \in Thread : DeviceRow(Of(u)) = DeviceRow(Of(t))})
  <2>1. ASSUME NEW u \in Thread, u # t PROVE RaceOf(u)'
    <3>1. th'[u] = th[u] /\ Of(u)' = Of(u)
      BY <2>1, ThreadFrame DEF Evaluate, Of
    <3>2. th[u].pc = "insert" /\ DeviceRow(Of(u)) \in devices' => u \in overtaken'
      BY <1>1, <1>3, <2>1 DEF Won, RaceInv, RaceOf
    <3>3. overtaken \subseteq overtaken'
      BY <1>3 DEF Won
    <3>4. RaceOf(u)
      BY DEF RaceInv
    <3> QED BY <1>1, <3>1, <3>2, <3>3, <3>4 DEF RaceOf, DeviceRow, GrantRow
  <2> QED BY <1>2, <1>3, <2>1 DEF RaceInv, ConflictsAreRaces, Won
<1>4. CASE DeviceRow(Of(t)) \in devices /\ Refused(t, "device") /\ UNCHANGED devices
  <2>1. t \in overtaken
    BY <1>1, <1>4 DEF RaceInv, RaceOf
  <2>2. ConflictsAreRaces'
    <3>1. conflicts' \ conflicts \subseteq {[ev |-> th[t].ev, table |-> "device", raced |-> TRUE]}
      BY <1>4, <2>1, Zenon DEF Refused
    <3> QED BY <3>1 DEF RaceInv, ConflictsAreRaces
  <2>3. ASSUME NEW u \in Thread, u # t PROVE RaceOf(u)'
    <3>1. th'[u] = th[u] /\ Of(u)' = Of(u)
      BY <2>3, ThreadFrame DEF Evaluate, Of
    <3>2. u \in overtaken => u \in overtaken'
      BY <1>4, <2>3 DEF Refused
    <3>3. RaceOf(u)
      BY DEF RaceInv
    <3> QED BY <1>1, <1>4, <3>1, <3>2, <3>3 DEF RaceOf, DeviceRow, GrantRow
  <2> QED BY <1>2, <2>2, <2>3 DEF RaceInv
<1> QED BY <1>3, <1>4 DEF InsertDevice

\* The same of a grant; an update finds its row there, and leaves it there.
LEMMA GrantRace ==
  ASSUME TypeInv, ExpSet, RaceInv, NEW t \in Thread, UpdateGrant(t) \/ InsertGrant(t)
  PROVE  RaceInv'
<1>1. UNCHANGED devices /\ grants \in [User \X Key -> Nat]
  BY DEF UpdateGrant, InsertGrant, TypeInv, TypeOK
<1>2. th[t].pc \in {"grantInsert", "grantUpdate"} /\ GrantRow(Of(t)) \in User \X Key
      /\ th[t].exp # 0
  BY ThreadTyped DEF UpdateGrant, InsertGrant, ExpSet
<1>3. RaceOf(t)'
  <2>1. th'[t].pc \notin {"insert", "grantInsert", "grantUpdate"}
    BY <1>2, QueriesSetOut DEF Evaluate, Register, RegisterFor, PrepareGrant, PrepareGrantIf
  <2> QED BY <2>1 DEF RaceOf
<1>4. \A u \in Thread \ {t} : th'[u] = th[u] /\ Of(u)' = Of(u) /\ RaceOf(u)
  BY ThreadFrame DEF Evaluate, Of, RaceInv
<1>5. ASSUME NEW u \in Thread, u # t, th[u].pc \in {"grantInsert", "grantUpdate"}
      PROVE  GrantRow(Of(u)) \in User \X Key
  BY <1>5, ThreadTyped
<1>6. CASE UpdateGrant(t)
  <2>1. /\ grants' = [grants EXCEPT ![GrantRow(Of(t))] = th[t].exp]
        /\ UNCHANGED <<overtaken, conflicts>> /\ grants[GrantRow(Of(t))] # 0
    BY <1>6 DEF UpdateGrant, RaceInv, RaceOf
  <2>2. \A row \in User \X Key : grants'[row] # 0 <=> grants[row] # 0
    BY <1>1, <1>2, <2>1
  <2>3. ASSUME NEW u \in Thread, u # t PROVE RaceOf(u)'
    <3>1. th'[u] = th[u] /\ Of(u)' = Of(u) /\ RaceOf(u) /\ GrantRow(Of(u))' = GrantRow(Of(u))
          /\ DeviceRow(Of(u))' = DeviceRow(Of(u))
      BY <1>4, <2>3 DEF GrantRow, DeviceRow
    <3>2. th[u].pc \in {"grantInsert", "grantUpdate"} =>
            (grants'[GrantRow(Of(u))] # 0 <=> grants[GrantRow(Of(u))] # 0)
      BY <1>5, <2>2, <2>3
    <3> QED BY <1>1, <2>1, <3>1, <3>2 DEF RaceOf
  <2> QED BY <1>3, <2>1, <2>3 DEF RaceInv, ConflictsAreRaces
<1>7. CASE /\ InsertGrant(t) /\ grants' = [grants EXCEPT ![GrantRow(Of(t))] = th[t].exp]
           /\ Won(t, {u \in Thread : GrantRow(Of(u)) = GrantRow(Of(t))})
  <2>1. ASSUME NEW u \in Thread, u # t PROVE RaceOf(u)'
    <3>1. overtaken \subseteq overtaken'
      BY <1>7 DEF Won
    <3>2. th[u].pc = "grantInsert" /\ GrantRow(Of(u)) = GrantRow(Of(t)) => u \in overtaken'
      BY <1>7, <2>1 DEF InsertGrant, Won
    <3>3. \A row \in User \X Key :
            grants'[row] = IF row = GrantRow(Of(t)) THEN th[t].exp ELSE grants[row]
      BY <1>1, <1>7
    <3>4. th[u].pc \in {"grantInsert", "grantUpdate"} =>
            grants'[GrantRow(Of(u))] = IF GrantRow(Of(u)) = GrantRow(Of(t)) THEN th[t].exp
                                       ELSE grants[GrantRow(Of(u))]
      BY <1>5, <2>1, <3>3
    <3>5. th'[u] = th[u] /\ Of(u)' = Of(u) /\ RaceOf(u) /\ GrantRow(Of(u))' = GrantRow(Of(u))
          /\ DeviceRow(Of(u))' = DeviceRow(Of(u))
      BY <1>4, <2>1 DEF GrantRow, DeviceRow
    <3> QED BY <1>1, <1>2, <3>1, <3>2, <3>4, <3>5 DEF RaceOf
  <2> QED BY <1>3, <1>7, <2>1 DEF RaceInv, ConflictsAreRaces, Won
<1>8. CASE /\ InsertGrant(t) /\ grants[GrantRow(Of(t))] # 0
           /\ Refused(t, "grant") /\ UNCHANGED grants
  <2>1. t \in overtaken
    BY <1>8 DEF RaceInv, RaceOf, InsertGrant
  <2>2. ConflictsAreRaces'
    <3>1. conflicts' \ conflicts \subseteq {[ev |-> th[t].ev, table |-> "grant", raced |-> TRUE]}
      BY <1>8, <2>1, Zenon DEF Refused
    <3> QED BY <3>1 DEF RaceInv, ConflictsAreRaces
  <2>3. ASSUME NEW u \in Thread, u # t PROVE RaceOf(u)'
    <3>1. u \in overtaken => u \in overtaken'
      BY <1>8, <2>3 DEF Refused
    <3> QED BY <1>1, <1>4, <1>8, <2>3, <3>1 DEF RaceOf, DeviceRow, GrantRow
  <2> QED BY <1>3, <2>2, <2>3 DEF RaceInv
<1> QED BY <1>6, <1>7, <1>8 DEF InsertGrant

LEMMA RaceThreadStep ==
  ASSUME TypeInv, ExpSet, RaceInv, NEW t \in Thread, Evaluate(t)
  PROVE  RaceInv'
<1>1. CASE InsertDevice(t) \/ UpdateGrant(t) \/ InsertGrant(t)
  BY <1>1, DeviceRace, GrantRace
<1>2. CASE /\ UNCHANGED <<devices, grants, conflicts>>
           /\ overtaken' \in {overtaken, overtaken \ {t}}
  <2>1. RaceOf(t)'
    <3>1. CASE Register(t) \/ PrepareGrant(t)
      BY <3>1, QueryRace
    <3>2. CASE ~Register(t) /\ ~PrepareGrant(t)
      BY <3>2, QueriesSetOut DEF RaceOf
    <3> QED BY <3>1, <3>2
  <2>2. ASSUME NEW u \in Thread, u # t PROVE RaceOf(u)'
    <3>1. th'[u] = th[u] /\ Of(u)' = Of(u) /\ RaceOf(u)
      BY <2>2, ThreadFrame DEF RaceInv, Of
    <3>2. u \in overtaken => u \in overtaken'
      BY <1>2, <2>2
    <3> QED BY <1>2, <3>1, <3>2 DEF RaceOf, DeviceRow, GrantRow
  <2> QED BY <1>2, <2>1, <2>2 DEF RaceInv, ConflictsAreRaces
<1>3. \/ InsertDevice(t) \/ UpdateGrant(t) \/ InsertGrant(t)
      \/ /\ UNCHANGED <<devices, grants, conflicts>>
         /\ overtaken' \in {overtaken, overtaken \ {t}}
  BY DEF Evaluate, Begin, ReadTrusted, ReadTrustedIn, CountDevices, Decide, Register, RegisterFor,
     PrepareGrant, PrepareGrantIf, Return, Fail
<1> QED BY <1>1, <1>2, <1>3

LEMMA RaceStep ==
  ASSUME TypeInv, ExpSet, RaceInv, [Next]_vars
  PROVE  RaceInv'
<1>1. CASE \E t \in Thread : Evaluate(t)
  BY <1>1, RaceThreadStep
<1>2. CASE UNCHANGED <<devices, grants, overtaken, conflicts, th>>
  BY <1>2 DEF RaceInv, RaceOf, ConflictsAreRaces, Of, DeviceRow, GrantRow
<1> QED BY <1>1, <1>2 DEF Next, CacheHit, ReturnCached, CacheExpires, Tick, vars

\* An insert is refused only if another evaluation inserted the same row between this one's query
\* and its insert, however many threads evaluate and however often an event is repeated.
THEOREM ConflictsAreOnlyRaces == Spec => []ConflictsAreRaces
<1>1. Init => ExpSet /\ RaceInv
  <2> SUFFICES ASSUME Init PROVE ExpSet /\ RaceInv
    OBVIOUS
  <2>1. \A t \in Thread : th[t].pc = "idle"
    BY IdleTyped DEF Init
  <2> QED BY <2>1 DEF Init, ExpSet, RaceInv, RaceOf, ConflictsAreRaces
<1>2. RaceInv => ConflictsAreRaces
  BY DEF RaceInv
<1> QED BY <1>1, <1>2, TypeInvariant, ExpSetStep, RaceStep, PTL DEF Spec
=============================================================================
