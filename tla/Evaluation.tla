----------------------------- MODULE Evaluation -----------------------------
(***************************************************************************)
(* RiskEvaluator.evaluate, run by any number of threads of any number of   *)
(* processes over the same tables: trusted_devices and                     *)
(* step_up_verification_grants, each with one row per user and device key, *)
(* and the decision cache of the synchronous calls.  Every query and every *)
(* commit is a step of its own, so that evaluations interleave; what the   *)
(* engines without these stores find is a choice from Other.  Step-up      *)
(* verification is enabled, and every event names its user.                *)
(***************************************************************************)
EXTENDS Scoring

CONSTANTS
  Thread,       \* evaluations that may run at the same time
  Event, User, Key, NoKey, NoDecision,
  Info,         \* what each event says
  Other,        \* score and signals the other engines may find in each event
  Applicable,   \* applicable_event_types of the step-up configuration
  MaxAge,       \* max_verified_age_minutes
  GrantTtl,     \* grant_ttl_days
  MaxStarts,    \* bound: evaluations of each event
  MaxFaults,    \* bound: evaluations that raise for a reason outside the model
  MaxTime       \* bound: the last instant of the clock

\* A player's step-up: none, refused by Turnstile, verified, or verified for a
\* hostname the configuration does not allow.
StepUpKind == {"none", "failed", "verified", "foreign"}

Source == {"sync", "async"}

\* The two services derive their device keys from the same context in different ways.
EventInfo == [type : EventType, user : User, trustKey : Key \union {NoKey},
              grantKey : Key \union {NoKey}, stepUp : StepUpKind, at : Nat,
              sources : SUBSET Source]

\* No other engine raises what the device and the step-up engine raise.
OtherSignal == STRING \ (DeviceTrustSignals \union {"step_up_verification_active"})

ASSUME EvaluationAssumption ==
  /\ Event # {}
  /\ Info \in [Event -> EventInfo]
  /\ Other \in [Event -> SUBSET [score : Nat, signals : SUBSET OtherSignal]]
  /\ NoKey \notin Key
  /\ NoDecision \notin Outcome
  /\ Applicable \subseteq EventType
  /\ MaxAge \in Nat /\ GrantTtl \in Nat \ {0}
  /\ MaxStarts \in [Event -> Nat] /\ MaxFaults \in Nat /\ MaxTime \in Nat

VARIABLES
  devices,     \* trusted_devices: <<user, key>> of every row
  grants,      \* step_up_verification_grants: when each grant expires, 0 without a row
  cache,       \* decision:{event_id} in Redis
  th,          \* the evaluations under way
  answers,     \* history: the responses returned
  decided,     \* history: the decisions taken, whether or not returned
  overtaken,   \* history: threads about to insert a row that another one has inserted meanwhile
  conflicts,   \* history: inserts refused because the row was there, and whether overtaken
  starts,      \* history: how often each event was evaluated
  now,
  faults       \* history: faults so far

vars == <<devices, grants, cache, th, answers, decided, overtaken, conflicts, starts, now, faults>>

Phase == {"idle", "trusted", "count", "decide", "register", "insert",
          "grant", "grantInsert", "grantUpdate", "answer"}

Task == [pc : Phase, ev : Event, src : Source, device : {"trusted", "unknown", "first"},
         step : {"none", "failed", "foreign", "active"},
         dec : Outcome \union {NoDecision}, exp : Nat]

Answer == [ev : Event, dec : Outcome]

\* A thread works on e from pc on, having found nothing yet.
Started(e, src, pc) == [pc |-> pc, ev |-> e, src |-> src, device |-> "trusted",
                        step |-> "none", dec |-> NoDecision, exp |-> 0]

IdleTask == Started(CHOOSE e \in Event : TRUE, "sync", "idle")

\* Every variable has its type, and a thread that records a decision has one.
TypeOK ==
  /\ devices \subseteq User \X Key
  /\ grants \in [User \X Key -> Nat]
  /\ cache \in [Event -> Outcome \union {NoDecision}]
  /\ th \in [Thread -> Task]
  /\ answers \subseteq Answer
  /\ decided \subseteq [ev : Event, dec : Outcome]
  /\ overtaken \subseteq Thread
  /\ conflicts \subseteq [ev : Event, table : {"device", "grant"}, raced : BOOLEAN]
  /\ starts \in [Event -> Nat]
  /\ now \in Nat /\ faults \in Nat
  /\ \A t \in Thread :
       th[t].pc \in {"register", "insert", "grant", "grantInsert", "grantUpdate", "answer"}
         => th[t].dec \in Outcome

Of(t) == Info[th[t].ev]

DeviceRow(i) == <<i.user, i.trustKey>>
GrantRow(i)  == <<i.user, i.grantKey>>

\* is_verified_at_fresh: neither in the future nor too old.
Fresh(at) == at <= now /\ now <= at + MaxAge

-----------------------------------------------------------------------------
(* The cache and the engines                                               *)

ReturnCached(e) ==
  /\ starts[e] < MaxStarts[e]
  /\ starts' = [starts EXCEPT ![e] = @ + 1]
  /\ answers' = answers \union {[ev |-> e, dec |-> cache[e]]}
  /\ UNCHANGED <<devices, grants, cache, th, decided, overtaken, conflicts, now, faults>>

\* Mutated: an empty cache entry is returned too.
CacheHitUnchecked(e) == ReturnCached(e)

\* A synchronous call with a cached decision returns it and does nothing else.
CacheHit(e) == cache[e] # NoDecision /\ ReturnCached(e)

Begin(t, e, src) ==
  /\ th[t].pc = "idle"
  /\ starts[e] < MaxStarts[e]
  /\ src \in Info[e].sources
  /\ src = "sync" => cache[e] = NoDecision
  /\ starts' = [starts EXCEPT ![e] = @ + 1]
  /\ th' = [th EXCEPT ![t] =
              Started(e, src, IF Info[e].type \in DeviceCheckedTypes THEN "trusted" ELSE "decide")]
  /\ UNCHANGED <<devices, grants, cache, answers, decided, overtaken, conflicts, now, faults>>

\* The trusted-device engine looks for a row in this set.
ReadTrustedIn(t, rows) ==
  /\ th[t].pc = "trusted"
  /\ th' = IF DeviceRow(Of(t)) \in rows
           THEN [th EXCEPT ![t].pc = "decide"]
           ELSE [th EXCEPT ![t].pc = "count"]
  /\ UNCHANGED <<devices, grants, cache, answers, decided, overtaken, conflicts, starts, now, faults>>

\* Mutated: is_trusted filters on the device key only.
ReadTrustedAnyUser(t) == ReadTrustedIn(t, User \X {d[2] : d \in devices})

\* TrustedDeviceService.is_trusted; a context without a key is never trusted.
ReadTrusted(t) == ReadTrustedIn(t, devices)

\* trusted_device_count, a second query: the device may be trusted by now.
CountDevices(t) ==
  /\ th[t].pc = "count"
  /\ th' = [th EXCEPT ![t].pc = "decide",
              ![t].device = IF \E d \in devices : d[1] = Of(t).user THEN "unknown" ELSE "first"]
  /\ UNCHANGED <<devices, grants, cache, answers, decided, overtaken, conflicts, starts, now, faults>>

ActiveGrant(i) == i.grantKey # NoKey /\ grants[GrantRow(i)] > now

\* What the step-up engine reports; a stale verification counts for nothing.
StepUpFound(i) ==
  IF i.type \notin Applicable THEN "none"
  ELSE IF ActiveGrant(i) THEN "active"
  ELSE IF i.stepUp \in {"none", "failed"} THEN i.stepUp
  ELSE IF ~Fresh(i.at) THEN "none"
  ELSE IF i.stepUp = "foreign" THEN "foreign" ELSE "active"

StepUpScore(step) == IF step = "failed" THEN 15 ELSE IF step = "foreign" THEN 10 ELSE 0
StepUpSignals(step) == IF step = "active" THEN {"step_up_verification_active"} ELSE {}

\* The step-up engine comes last; nothing between its query and the decision waits.
Decide(t) ==
  /\ th[t].pc = "decide"
  /\ \E o \in Other[th[t].ev] :
       LET step == StepUpFound(Of(t))
           dec  == Assess(Of(t).type, th[t].device, o.score + StepUpScore(step),
                          o.signals \union StepUpSignals(step))
       IN /\ th' = [th EXCEPT ![t].pc = "register", ![t].step = step, ![t].dec = dec]
          /\ decided' = decided \union {[ev |-> th[t].ev, dec |-> dec]}
  /\ UNCHANGED <<devices, grants, cache, answers, overtaken, conflicts, starts, now, faults>>

-----------------------------------------------------------------------------
(* _post_process_event: the device                                         *)

\* The evaluation ends, or raises: a 500 for the caller, a nack for the broker.
Dropped(t) == [th EXCEPT ![t] = IdleTask]

\* t's insert is committed: of the rivals, those about to insert the same row will lose theirs.
Won(t, rivals) ==
  /\ overtaken' = overtaken \union {u \in rivals \ {t} : th[u].pc = th[t].pc}
  /\ UNCHANGED conflicts

\* t's insert is refused, and its evaluation raises.
Refused(t, table) ==
  /\ conflicts' = conflicts \union {[ev |-> th[t].ev, table |-> table, raced |-> t \in overtaken]}
  /\ overtaken' = overtaken \ {t}
  /\ th' = Dropped(t)

RegisterFor(t, outcomes, known) ==
  /\ th[t].pc = "register"
  /\ th' = IF /\ th[t].dec \in outcomes
              /\ Of(t).type \in RegistrationTypes
              /\ Of(t).trustKey # NoKey
              /\ DeviceRow(Of(t)) \notin known
           THEN [th EXCEPT ![t].pc = "insert"]
           ELSE [th EXCEPT ![t].pc = "grant"]
  /\ UNCHANGED <<devices, grants, cache, answers, decided, overtaken, conflicts, starts, now, faults>>

\* Mutated: a blocked login registers its device too.
RegisterAnyway(t) == RegisterFor(t, Outcome, devices)

\* Mutated: the row is inserted without looking for it first.
RegisterBlindly(t) == RegisterFor(t, {"allow", "challenge"}, {})

\* register_trusted_device looks for the row; of one that exists it renews last_seen_at.
Register(t) == RegisterFor(t, {"allow", "challenge"}, devices)

InsertDevice(t) ==
  /\ th[t].pc = "insert"
  /\ \/ /\ DeviceRow(Of(t)) \notin devices
        /\ devices' = devices \union {DeviceRow(Of(t))}
        /\ th' = [th EXCEPT ![t].pc = "grant"]
        /\ Won(t, {u \in Thread : DeviceRow(Of(u)) = DeviceRow(Of(t))})
     \/ /\ DeviceRow(Of(t)) \in devices
        /\ Refused(t, "device")
        /\ UNCHANGED devices
  /\ UNCHANGED <<grants, cache, answers, decided, starts, now, faults>>

-----------------------------------------------------------------------------
(* _post_process_step_up_grant: whatever the decision and the event type    *)

PrepareGrantIf(t, accepted) ==
  /\ th[t].pc = "grant"
  /\ th' = IF accepted
           THEN [th EXCEPT ![t].exp = now + GrantTtl,
                   ![t].pc = IF grants[GrantRow(Of(t))] = 0 THEN "grantInsert" ELSE "grantUpdate"]
           ELSE [th EXCEPT ![t].pc = "answer"]
  /\ UNCHANGED <<devices, grants, cache, answers, decided, overtaken, conflicts, starts, now, faults>>

\* Mutated: the age of the verification is not looked at again.
PrepareGrantStale(t) ==
  PrepareGrantIf(t, Of(t).stepUp = "verified" /\ Of(t).grantKey # NoKey)

\* register_grant checks again what the engine checked, later; then it looks for the row.
PrepareGrant(t) ==
  PrepareGrantIf(t, Of(t).stepUp = "verified" /\ Of(t).grantKey # NoKey /\ Fresh(Of(t).at))

UpdateGrant(t) ==
  /\ th[t].pc = "grantUpdate"
  /\ grants' = [grants EXCEPT ![GrantRow(Of(t))] = th[t].exp]
  /\ th' = [th EXCEPT ![t].pc = "answer"]
  /\ UNCHANGED <<devices, cache, answers, decided, overtaken, conflicts, starts, now, faults>>

InsertGrant(t) ==
  /\ th[t].pc = "grantInsert"
  /\ \/ /\ grants[GrantRow(Of(t))] = 0
        /\ grants' = [grants EXCEPT ![GrantRow(Of(t))] = th[t].exp]
        /\ th' = [th EXCEPT ![t].pc = "answer"]
        /\ Won(t, {u \in Thread : GrantRow(Of(u)) = GrantRow(Of(t))})
     \/ /\ grants[GrantRow(Of(t))] # 0
        /\ Refused(t, "grant")
        /\ UNCHANGED grants
  /\ UNCHANGED <<devices, cache, answers, decided, starts, now, faults>>

-----------------------------------------------------------------------------
\* A synchronous evaluation caches its response; an asynchronous one returns it to the
\* consumer, which publishes it.
Return(t) ==
  /\ th[t].pc = "answer"
  /\ answers' = answers \union {[ev |-> th[t].ev, dec |-> th[t].dec]}
  /\ cache' = IF th[t].src = "sync" THEN [cache EXCEPT ![th[t].ev] = th[t].dec] ELSE cache
  /\ th' = Dropped(t)
  /\ UNCHANGED <<devices, grants, decided, overtaken, conflicts, starts, now, faults>>

\* An engine, the database or Redis raises, or the process dies: what was committed stays.
Fail(t) ==
  /\ th[t].pc # "idle"
  /\ faults < MaxFaults
  /\ faults' = faults + 1
  /\ th' = Dropped(t)
  /\ overtaken' = overtaken \ {t}
  /\ UNCHANGED <<devices, grants, cache, answers, decided, conflicts, starts, now>>

CacheExpires(e) ==
  /\ cache[e] # NoDecision
  /\ cache' = [cache EXCEPT ![e] = NoDecision]
  /\ UNCHANGED <<devices, grants, th, answers, decided, overtaken, conflicts, starts, now, faults>>

Tick ==
  /\ now < MaxTime
  /\ now' = now + 1
  /\ UNCHANGED <<devices, grants, cache, th, answers, decided, overtaken, conflicts, starts, faults>>

Init ==
  /\ devices = {}
  /\ grants = [r \in User \X Key |-> 0]
  /\ cache = [e \in Event |-> NoDecision]
  /\ th = [t \in Thread |-> IdleTask]
  /\ answers = {}
  /\ decided = {}
  /\ overtaken = {}
  /\ conflicts = {}
  /\ starts = [e \in Event |-> 0]
  /\ now = 0
  /\ faults = 0

Evaluate(t) ==
  \/ \E e \in Event, src \in Source : Begin(t, e, src)
  \/ ReadTrusted(t) \/ CountDevices(t) \/ Decide(t)
  \/ Register(t) \/ InsertDevice(t)
  \/ PrepareGrant(t) \/ UpdateGrant(t) \/ InsertGrant(t)
  \/ Return(t) \/ Fail(t)

Next ==
  \/ \E t \in Thread : Evaluate(t)
  \/ \E e \in Event : CacheHit(e) \/ CacheExpires(e)
  \/ Tick

Spec == Init /\ [][Next]_vars

-----------------------------------------------------------------------------
(* Properties                                                              *)

\* A login or signup of this user from this device that was not blocked.
Admitted(user, key) ==
  \E d \in decided :
    /\ Info[d.ev].type \in RegistrationTypes
    /\ Info[d.ev].user = user /\ Info[d.ev].trustKey = key
    /\ d.dec \in {"allow", "challenge"}

\* This user passed a verification on this device, as the step-up service names it, and
\* neither it nor a grant made of it is out of date.
Verified(user, key) ==
  \E v \in Event :
    /\ starts[v] > 0
    /\ Info[v].user = user /\ Info[v].grantKey = key /\ Info[v].stepUp = "verified"
    /\ Info[v].at <= now /\ now < Info[v].at + MaxAge + GrantTtl

\* A device becomes trusted only by a login or signup of that user from it that was not
\* blocked, however evaluations interleave, raise and repeat.
TrustEarned == \A d \in devices : Admitted(d[1], d[2])

\* A withdrawal is allowed only from a device on which the same user was admitted before;
\* the step-up replaces it only where the operator made it applicable to withdrawals.
WithdrawalGated ==
  \A a \in answers :
    Info[a.ev].type = "payment.withdraw" /\ a.dec = "allow"
      /\ "payment.withdraw" \notin Applicable
    => Admitted(Info[a.ev].user, Info[a.ev].trustKey)

\* The step-up engine speaks for a player only if that player passed a verification on
\* that device less than MaxAge and the grant's time to live ago: a grant checked, prepared
\* and written at different times never outlives what it stands for.
StepUpBacked ==
  [][\A t \in Thread : th[t].step # "active" /\ th'[t].step = "active" =>
       Verified(Of(t)'.user, Of(t)'.grantKey)]_th

\* Registering a device or a grant twice is no error: an evaluation loses its insert, and with
\* it its answer, only if another one inserted the same row after this one had looked for it.
ConflictsAreRaces == \A c \in conflicts : c.raced

-----------------------------------------------------------------------------
(* What the documents say, and the code does not do                        *)

\* README: a login from an unknown device is challenged.  Who is let in without a
\* verification was admitted on the device by another event, or challenged for this one.
UnknownDeviceChallenged ==
  \A a \in answers :
    Info[a.ev].type = "player.login" /\ a.dec = "allow" =>
      \/ [a EXCEPT !.dec = "challenge"] \in answers
      \/ \E v \in Event : Info[v].stepUp = "verified" /\ Info[v].user = Info[a.ev].user
      \/ \E d \in decided :
           /\ d.ev # a.ev
           /\ Info[d.ev].user = Info[a.ev].user
           /\ Info[d.ev].trustKey = Info[a.ev].trustKey
=============================================================================
