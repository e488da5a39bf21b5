------------------------------ MODULE Pipeline ------------------------------
(***************************************************************************)
(* The asynchronous pipeline: the broker's events queue, the Risk service  *)
(* (EventConsumer, RiskEvaluator, ResultPublisher and the reconnect loop), *)
(* the results queue, the Orchestrator (ResultConsumer,                    *)
(* OrchestratorService, ActionPublisher), the audit table and the actions  *)
(* queue.                                                                  *)
(*                                                                         *)
(* The broker delivers at least once: a message stays "unacked" until its  *)
(* handler settles it, and every unacked message of a channel goes back to *)
(* its place in the queue when the channel goes away.  The handler of such *)
(* a message keeps running: its "live" flag is lost, its settlement raises *)
(* and has no effect, but what it did before remains.                      *)
(*                                                                         *)
(* Scoring is a choice of a decision: it depends on the stores (devices,   *)
(* velocity counters, configuration), which other modules model, so the    *)
(* same event scored twice may be decided twice differently.               *)
(***************************************************************************)
EXTENDS Naturals, Sequences, FiniteSets

CONSTANTS Event,        \* event ids
          Kind,         \* what parsing and scoring make of an event
          Decision,     \* allow, challenge, block
          NoDecision,
          RiskProc,     \* Risk processes
          OrchProc,     \* Orchestrator processes
          RiskSlot,     \* handler tasks of a Risk process
          OrchSlot,     \* handler tasks of an Orchestrator process
          Prefetch,     \* unacked messages a consumer channel may hold
          MaxCopies,    \* bound: how often the platform publishes an event
          MaxFaults     \* bound: lost connections, crashes, failed publishes

Kinds == {"scored", "skipped", "malformed", "poison"}

ASSUME PipelineAssumption ==
  /\ Kind \in [Event -> Kinds]
  /\ NoDecision \notin Decision
  /\ Prefetch \in Nat \ {0}
  /\ MaxCopies \in Nat
  /\ MaxFaults \in Nat

RiskWorker == RiskProc \X RiskSlot
OrchWorker == OrchProc \X OrchSlot

VARIABLES
  events,          \* the events queue: every message ever published, in order
  risk,            \* per Risk process: its connection, channels, reconnect loop
  rw,              \* per Risk handler task
  results,         \* the results queue
  orch,            \* per Orchestrator process: its two connections
  ow,              \* per Orchestrator handler task
  audit,           \* risk_audit_log: event -> decision, or NoDecision
  actions,         \* how many risk.actions messages carry <<event, decision>>
  skippedResults,  \* history: events messages whose result was not published
  skippedActions,  \* history: results messages whose action was not published
  faults           \* history: faults so far

riskVars == <<events, risk, rw, skippedResults>>
orchVars == <<orch, ow, audit, actions, skippedActions>>
vars == <<events, risk, rw, results, orch, ow, audit, actions,
          skippedResults, skippedActions, faults>>

-----------------------------------------------------------------------------
(* Types                                                                   *)

EventStatus  == {"ready", "unacked", "acked", "rejected"}
ResultStatus == {"ready", "unacked", "acked"}
Verdict      == {"none", "ack", "reject", "nack"}

EventMessage  == [ev : Event, st : EventStatus]
ResultMessage == [ev : Event, dec : Decision, st : ResultStatus]

RiskState  == [conn : BOOLEAN, pub : BOOLEAN, cons : BOOLEAN,
               loop : {"sleep", "publisher", "consumer"}]
RiskTask   == [pc : {"idle", "evaluate", "publish", "settle"}, msg : Nat,
               live : BOOLEAN, dec : Decision \union {NoDecision}, how : Verdict]
OrchState  == [up : BOOLEAN, pub : BOOLEAN, cons : BOOLEAN]
OrchTask   == [pc : {"idle", "query", "insert", "publish", "settle"}, msg : Nat,
               live : BOOLEAN, how : Verdict]

IdleRisk == [pc |-> "idle", msg |-> 0, live |-> FALSE, dec |-> NoDecision, how |-> "none"]
IdleOrch == [pc |-> "idle", msg |-> 0, live |-> FALSE, how |-> "none"]

\* Every variable has its type, a busy handler works on a message that exists, and a
\* handler that publishes has a decision: evaluate returns one or raises.
TypeOK ==
  /\ events \in Seq(EventMessage)
  /\ risk \in [RiskProc -> RiskState]
  /\ rw \in [RiskWorker -> RiskTask]
  /\ results \in Seq(ResultMessage)
  /\ orch \in [OrchProc -> OrchState]
  /\ ow \in [OrchWorker -> OrchTask]
  /\ audit \in [Event -> Decision \union {NoDecision}]
  /\ actions \in [Event \X Decision -> Nat]
  /\ skippedResults \subseteq DOMAIN events
  /\ skippedActions \subseteq DOMAIN results
  /\ faults \in Nat
  /\ \A w \in RiskWorker : rw[w].pc # "idle" => rw[w].msg \in DOMAIN events
  /\ \A w \in RiskWorker : rw[w].pc = "publish" => rw[w].dec \in Decision
  /\ \A w \in OrchWorker : ow[w].pc # "idle" => ow[w].msg \in DOMAIN results

-----------------------------------------------------------------------------
(* The broker                                                              *)

\* The message at the head of a queue: the first that nobody holds or settled.
IsHead(queue, i) ==
  /\ queue[i].st = "ready"
  /\ \A j \in 1..(i - 1) : queue[j].st # "ready"

\* A consumer channel is given no more than Prefetch messages at a time.
RiskRoom(p) == Cardinality({s \in RiskSlot : rw[<<p, s>>].live}) < Prefetch
OrchRoom(p) == Cardinality({s \in OrchSlot : ow[<<p, s>>].live}) < Prefetch

HeldByRisk(p, i) == \E s \in RiskSlot : rw[<<p, s>>].live /\ rw[<<p, s>>].msg = i
HeldByOrch(p, i) == \E s \in OrchSlot : ow[<<p, s>>].live /\ ow[<<p, s>>].msg = i

\* The channel of p is gone: what it held is ready again.
EventsRequeued(p) ==
  [i \in DOMAIN events |->
     IF HeldByRisk(p, i) THEN [events[i] EXCEPT !.st = "ready"] ELSE events[i]]
ResultsRequeued(p) ==
  [i \in DOMAIN results |->
     IF HeldByOrch(p, i) THEN [results[i] EXCEPT !.st = "ready"] ELSE results[i]]

\* The platform publishes an event, possibly again: its delivery is at least once too.
Submit(e) ==
  /\ Cardinality({i \in DOMAIN events : events[i].ev = e}) < MaxCopies
  /\ events' = Append(events, [ev |-> e, st |-> "ready"])
  /\ UNCHANGED <<risk, rw, results, orchVars, skippedResults, faults>>

-----------------------------------------------------------------------------
(* EventConsumer._handle_message and what it calls                         *)

\* Parsing decides how the handler goes on: None is acked, ValueError rejected.
AfterParse(e, i) ==
  LET task == [IdleRisk EXCEPT !.msg = i, !.live = TRUE]
  IN CASE Kind[e] \in {"scored", "poison"} -> [task EXCEPT !.pc = "evaluate"]
       [] Kind[e] = "skipped"   -> [task EXCEPT !.pc = "settle", !.how = "ack"]
       [] Kind[e] = "malformed" -> [task EXCEPT !.pc = "settle", !.how = "reject"]

RiskDeliver(w, i) ==
  /\ risk[w[1]].cons
  /\ rw[w].pc = "idle"
  /\ RiskRoom(w[1])
  /\ IsHead(events, i)
  /\ events' = [events EXCEPT ![i].st = "unacked"]
  /\ rw' = [rw EXCEPT ![w] = AfterParse(events[i].ev, i)]
  /\ UNCHANGED <<risk, results, orchVars, skippedResults, faults>>

\* RiskEvaluator.evaluate in its thread.
RiskEvaluate(w) ==
  /\ rw[w].pc = "evaluate"
  /\ Kind[events[rw[w].msg].ev] = "scored"
  /\ \E d \in Decision : rw' = [rw EXCEPT ![w].pc = "publish", ![w].dec = d]
  /\ UNCHANGED <<events, risk, results, orchVars, skippedResults, faults>>

\* Mutated: the exception of scoring is swallowed, and the handler goes on.
RiskEvaluateSwallows(w) ==
  /\ rw[w].pc = "evaluate"
  /\ rw' = [rw EXCEPT ![w].pc = "publish"]
  /\ UNCHANGED <<events, risk, results, orchVars, skippedResults, faults>>

\* Scoring raises: a store is unreachable, or the event always breaks an engine.
RiskEvaluateFails(w) ==
  /\ rw[w].pc = "evaluate"
  /\ rw' = [rw EXCEPT ![w].pc = "settle", ![w].how = "nack"]
  /\ UNCHANGED <<events, risk, results, orchVars, skippedResults, faults>>

ResultOf(w) == [ev |-> events[rw[w].msg].ev, dec |-> rw[w].dec, st |-> "ready"]

\* ResultPublisher.publish without a channel: a warning, and the message is acked.
RiskPublishSkipped(w) ==
  /\ rw[w].pc = "publish"
  /\ ~risk[w[1]].pub
  /\ rw' = [rw EXCEPT ![w].pc = "settle", ![w].how = "ack"]
  /\ skippedResults' = skippedResults \union {rw[w].msg}
  /\ UNCHANGED <<events, risk, results, orchVars, faults>>

RiskPublishAs(w, verdict) ==
  /\ rw[w].pc = "publish"
  /\ risk[w[1]].pub
  /\ results' = Append(results, ResultOf(w))
  /\ rw' = [rw EXCEPT ![w].pc = "settle", ![w].how = verdict]
  /\ UNCHANGED <<events, risk, orchVars, skippedResults, faults>>

\* Mutated: an event is handed back although its result went out.
RiskPublishUnacked(w) == RiskPublishAs(w, "nack")

RiskPublish(w) == RiskPublishAs(w, "ack")

\* The publish raises; the broker may have enqueued the result all the same.
RiskPublishRaisesAs(w, verdict) ==
  /\ rw[w].pc = "publish"
  /\ risk[w[1]].pub
  /\ faults < MaxFaults
  /\ faults' = faults + 1
  /\ results' \in {results, Append(results, ResultOf(w))}
  /\ rw' = [rw EXCEPT ![w].pc = "settle", ![w].how = verdict]
  /\ UNCHANGED <<events, risk, orchVars, skippedResults>>

\* Mutated: the exception of the publish is swallowed, so the message is acked.
RiskPublishSwallows(w) == RiskPublishRaisesAs(w, "ack")

RiskPublishRaises(w) == RiskPublishRaisesAs(w, "nack")

EventSettled(how) ==
  CASE how = "ack" -> "acked" [] how = "reject" -> "rejected" [] OTHER -> "ready"

\* ack, reject(requeue=False) or nack(requeue=True); on a closed channel it raises.
RiskSettle(w) ==
  /\ rw[w].pc = "settle"
  /\ rw' = [rw EXCEPT ![w] = IdleRisk]
  /\ events' = IF rw[w].live
               THEN [events EXCEPT ![rw[w].msg].st = EventSettled(rw[w].how)]
               ELSE events
  /\ UNCHANGED <<risk, results, orchVars, skippedResults, faults>>

-----------------------------------------------------------------------------
(* The Risk process: its connection, crashes and the reconnect loop        *)

RiskDisconnected(p) == [risk EXCEPT ![p].conn = FALSE, ![p].pub = FALSE, ![p].cons = FALSE]

RiskOrphaned(p) == [w \in RiskWorker |-> IF w[1] = p THEN [rw[w] EXCEPT !.live = FALSE] ELSE rw[w]]

\* Both channels share the broker connection and close with it; handlers go on.
RiskConnLost(p) ==
  /\ risk[p].conn
  /\ faults < MaxFaults
  /\ faults' = faults + 1
  /\ risk' = RiskDisconnected(p)
  /\ rw' = RiskOrphaned(p)
  /\ events' = EventsRequeued(p)
  /\ UNCHANGED <<results, orchVars, skippedResults>>

\* The process dies, handlers with it, and its successor runs the startup code.
RiskCrash(p) ==
  /\ faults < MaxFaults
  /\ faults' = faults + 1
  /\ risk' = [RiskDisconnected(p) EXCEPT ![p].loop = "publisher"]
  /\ rw' = [w \in RiskWorker |-> IF w[1] = p THEN IdleRisk ELSE rw[w]]
  /\ events' = EventsRequeued(p)
  /\ UNCHANGED <<results, orchVars, skippedResults>>

\* The loop wakes; it goes on only with a broker connection, restored if it must be.
LoopBroker(p) ==
  /\ risk[p].loop = "sleep"
  /\ risk' = [risk EXCEPT ![p].conn = TRUE, ![p].loop = "publisher"]
  /\ UNCHANGED <<events, rw, results, orchVars, skippedResults, faults>>

\* Startup and every round of the loop: the publisher's channel first.
LoopPublisher(p) ==
  /\ risk[p].loop = "publisher"
  /\ risk' = [risk EXCEPT ![p].conn = TRUE, ![p].pub = TRUE, ![p].loop = "consumer"]
  /\ UNCHANGED <<events, rw, results, orchVars, skippedResults, faults>>

\* The attempt fails, and the consumer is attempted all the same.
LoopPublisherFails(p) ==
  /\ risk[p].loop = "publisher"
  /\ ~risk[p].pub
  /\ risk' = [risk EXCEPT ![p].loop = "consumer"]
  /\ UNCHANGED <<events, rw, results, orchVars, skippedResults, faults>>

\* Mutated: the loop restores the publisher only.
LoopConsumerForgotten(p) ==
  /\ risk[p].loop = "consumer"
  /\ risk' = [risk EXCEPT ![p].loop = "sleep"]
  /\ UNCHANGED <<events, rw, results, orchVars, skippedResults, faults>>

\* ... then the consumer's; start() consumes at once.
LoopConsumer(p) ==
  /\ risk[p].loop = "consumer"
  /\ risk' = [risk EXCEPT ![p].conn = TRUE, ![p].cons = TRUE, ![p].loop = "sleep"]
  /\ UNCHANGED <<events, rw, results, orchVars, skippedResults, faults>>

LoopConsumerFails(p) ==
  /\ risk[p].loop = "consumer"
  /\ ~risk[p].cons
  /\ risk' = [risk EXCEPT ![p].loop = "sleep"]
  /\ UNCHANGED <<events, rw, results, orchVars, skippedResults, faults>>

-----------------------------------------------------------------------------
(* ResultConsumer._handle_message and OrchestratorService.process_result   *)

ResultAt(w) == results[ow[w].msg]

OrchDeliver(w, i) ==
  /\ orch[w[1]].cons
  /\ ow[w].pc = "idle"
  /\ OrchRoom(w[1])
  /\ IsHead(results, i)
  /\ results' = [results EXCEPT ![i].st = "unacked"]
  /\ ow' = [ow EXCEPT ![w] = [pc |-> "query", msg |-> i, live |-> TRUE, how |-> "none"]]
  /\ UNCHANGED <<riskVars, orch, audit, actions, skippedActions, faults>>

\* From the query to the commit the process does not yield: one handler at a time.
InSession(p) == \E s \in OrchSlot : ow[<<p, s>>].pc = "insert"

\* Mutated: a result already audited needs nothing more, the handler acks it.
OrchQueryDone(w) ==
  /\ ow[w].pc = "query"
  /\ ~InSession(w[1])
  /\ ow' = IF audit[ResultAt(w).ev] = NoDecision
           THEN [ow EXCEPT ![w].pc = "insert"]
           ELSE [ow EXCEPT ![w].pc = "settle", ![w].how = "ack"]
  /\ UNCHANGED <<riskVars, results, orch, audit, actions, skippedActions, faults>>

OrchQuery(w) ==
  /\ ow[w].pc = "query"
  /\ ~InSession(w[1])
  /\ ow' = [ow EXCEPT ![w].pc =
              IF audit[ResultAt(w).ev] = NoDecision THEN "insert" ELSE "publish"]
  /\ UNCHANGED <<riskVars, results, orch, audit, actions, skippedActions, faults>>

\* The insert commits, unless another process's did since the query: IntegrityError.
OrchInsert(w) ==
  /\ ow[w].pc = "insert"
  /\ \/ /\ audit[ResultAt(w).ev] = NoDecision
        /\ audit' = [audit EXCEPT ![ResultAt(w).ev] = ResultAt(w).dec]
        /\ ow' = [ow EXCEPT ![w].pc = "publish"]
     \/ /\ audit[ResultAt(w).ev] # NoDecision
        /\ ow' = [ow EXCEPT ![w].pc = "settle", ![w].how = "nack"]
        /\ UNCHANGED audit
  /\ UNCHANGED <<riskVars, results, orch, actions, skippedActions, faults>>

\* Mutated: a database error is logged and the action published all the same.
OrchDbErrorIgnored(w) ==
  /\ ow[w].pc \in {"query", "insert"}
  /\ ow' = [ow EXCEPT ![w].pc = "publish"]
  /\ UNCHANGED <<riskVars, results, orch, audit, actions, skippedActions, faults>>

\* The query or the commit raises.
OrchDbFails(w) ==
  /\ ow[w].pc \in {"query", "insert"}
  /\ ow' = [ow EXCEPT ![w].pc = "settle", ![w].how = "nack"]
  /\ UNCHANGED <<riskVars, results, orch, audit, actions, skippedActions, faults>>

ActionOf(w) == <<ResultAt(w).ev, ResultAt(w).dec>>

\* The action carries the decision of this result, whatever the audit row says.
OrchPublishAs(w, verdict) ==
  /\ ow[w].pc = "publish"
  /\ orch[w[1]].pub
  /\ actions' = [actions EXCEPT ![ActionOf(w)] = @ + 1]
  /\ ow' = [ow EXCEPT ![w].pc = "settle", ![w].how = verdict]
  /\ UNCHANGED <<riskVars, results, orch, audit, skippedActions, faults>>

\* Mutated: a result is handed back although its action went out.
OrchPublishUnacked(w) == OrchPublishAs(w, "nack")

OrchPublish(w) == OrchPublishAs(w, "ack")

\* ActionPublisher.publish without a channel: a warning, and the result is acked.
OrchPublishSkipped(w) ==
  /\ ow[w].pc = "publish"
  /\ ~orch[w[1]].pub
  /\ skippedActions' = skippedActions \union {ow[w].msg}
  /\ ow' = [ow EXCEPT ![w].pc = "settle", ![w].how = "ack"]
  /\ UNCHANGED <<riskVars, results, orch, audit, actions, faults>>

OrchPublishRaises(w) ==
  /\ ow[w].pc = "publish"
  /\ orch[w[1]].pub
  /\ faults < MaxFaults
  /\ faults' = faults + 1
  /\ actions' \in {actions, [actions EXCEPT ![ActionOf(w)] = @ + 1]}
  /\ ow' = [ow EXCEPT ![w].pc = "settle", ![w].how = "nack"]
  /\ UNCHANGED <<riskVars, results, orch, audit, skippedActions>>

OrchSettleTo(w, status) ==
  /\ ow[w].pc = "settle"
  /\ ow' = [ow EXCEPT ![w] = IdleOrch]
  /\ results' = IF ow[w].live THEN [results EXCEPT ![ow[w].msg].st = status] ELSE results
  /\ UNCHANGED <<riskVars, orch, audit, actions, skippedActions, faults>>

\* Mutated: a failed result is acked too.
OrchSettleDropped(w) == OrchSettleTo(w, "acked")

OrchSettle(w) == OrchSettleTo(w, IF ow[w].how = "ack" THEN "acked" ELSE "ready")

-----------------------------------------------------------------------------
(* The Orchestrator process: two connections, and no loop to restore them  *)

OrchConsumerLost(p) ==
  /\ orch[p].cons
  /\ faults < MaxFaults
  /\ faults' = faults + 1
  /\ orch' = [orch EXCEPT ![p].cons = FALSE]
  /\ ow' = [w \in OrchWorker |-> IF w[1] = p THEN [ow[w] EXCEPT !.live = FALSE] ELSE ow[w]]
  /\ results' = ResultsRequeued(p)
  /\ UNCHANGED <<riskVars, audit, actions, skippedActions>>

OrchPublisherLost(p) ==
  /\ orch[p].pub
  /\ faults < MaxFaults
  /\ faults' = faults + 1
  /\ orch' = [orch EXCEPT ![p].pub = FALSE]
  /\ UNCHANGED <<riskVars, results, ow, audit, actions, skippedActions>>

OrchCrash(p) ==
  /\ orch[p].up
  /\ faults < MaxFaults
  /\ faults' = faults + 1
  /\ orch' = [orch EXCEPT ![p] = [up |-> FALSE, pub |-> FALSE, cons |-> FALSE]]
  /\ ow' = [w \in OrchWorker |-> IF w[1] = p THEN IdleOrch ELSE ow[w]]
  /\ results' = ResultsRequeued(p)
  /\ UNCHANGED <<riskVars, audit, actions, skippedActions>>

\* lifespan: each connect is attempted once, and the service runs whatever came of it.
OrchStart(p) ==
  /\ ~orch[p].up
  /\ \E pub, cons \in BOOLEAN :
       orch' = [orch EXCEPT ![p] = [up |-> TRUE, pub |-> pub, cons |-> cons]]
  /\ UNCHANGED <<riskVars, results, ow, audit, actions, skippedActions, faults>>

-----------------------------------------------------------------------------
Init ==
  /\ events = <<>>
  /\ risk = [p \in RiskProc |->
               [conn |-> FALSE, pub |-> FALSE, cons |-> FALSE, loop |-> "publisher"]]
  /\ rw = [w \in RiskWorker |-> IdleRisk]
  /\ results = <<>>
  /\ orch = [p \in OrchProc |-> [up |-> FALSE, pub |-> FALSE, cons |-> FALSE]]
  /\ ow = [w \in OrchWorker |-> IdleOrch]
  /\ audit = [e \in Event |-> NoDecision]
  /\ actions = [a \in Event \X Decision |-> 0]
  /\ skippedResults = {}
  /\ skippedActions = {}
  /\ faults = 0

RiskHandler(w) ==
  \/ \E i \in DOMAIN events : RiskDeliver(w, i)
  \/ RiskEvaluate(w) \/ RiskEvaluateFails(w)
  \/ RiskPublish(w) \/ RiskPublishSkipped(w) \/ RiskPublishRaises(w)
  \/ RiskSettle(w)

RiskProcess(p) ==
  \/ RiskConnLost(p) \/ RiskCrash(p)
  \/ LoopBroker(p)
  \/ LoopPublisher(p) \/ LoopPublisherFails(p)
  \/ LoopConsumer(p) \/ LoopConsumerFails(p)

OrchHandler(w) ==
  \/ \E i \in DOMAIN results : OrchDeliver(w, i)
  \/ OrchQuery(w) \/ OrchInsert(w) \/ OrchDbFails(w)
  \/ OrchPublish(w) \/ OrchPublishSkipped(w) \/ OrchPublishRaises(w)
  \/ OrchSettle(w)

OrchProcess(p) ==
  \/ OrchConsumerLost(p) \/ OrchPublisherLost(p)
  \/ OrchCrash(p) \/ OrchStart(p)

Next ==
  \/ \E e \in Event : Submit(e)
  \/ \E w \in RiskWorker : RiskHandler(w)
  \/ \E p \in RiskProc : RiskProcess(p)
  \/ \E w \in OrchWorker : OrchHandler(w)
  \/ \E p \in OrchProc : OrchProcess(p)

Spec == Init /\ [][Next]_vars

(* A handler is an asyncio task and runs on, and so does the reconnect loop;  *)
(* a score, a query, a commit or a consumer start that is attempted again and *)
(* again succeeds at last.  The broker pushes: a message that is again and    *)
(* again at the head of the queue while a channel has room is delivered.      *)
(* The platform, faults and the restart of an Orchestrator are not fair.      *)
RiskRuns(w) ==
  RiskEvaluateFails(w) \/ RiskPublish(w) \/ RiskPublishSkipped(w) \/ RiskSettle(w)

LoopRuns(p) ==
  \/ LoopBroker(p) \/ LoopPublisher(p) \/ LoopPublisherFails(p)
  \/ LoopConsumer(p) \/ LoopConsumerFails(p)

OrchRuns(w) ==
  \/ \E i \in DOMAIN results : OrchDeliver(w, i)
  \/ OrchDbFails(w) \/ OrchPublish(w) \/ OrchPublishSkipped(w) \/ OrchSettle(w)

Fairness ==
  /\ \A i \in 1..(MaxCopies * Cardinality(Event)) :
       SF_vars(i \in DOMAIN events /\ \E w \in RiskWorker : RiskDeliver(w, i))
  /\ \A w \in RiskWorker : WF_vars(RiskRuns(w)) /\ SF_vars(RiskEvaluate(w))
  /\ \A p \in RiskProc : WF_vars(LoopRuns(p)) /\ SF_vars(LoopConsumer(p))
  /\ \A w \in OrchWorker :
       WF_vars(OrchRuns(w)) /\ SF_vars(OrchQuery(w)) /\ SF_vars(OrchInsert(w))

FairSpec == Spec /\ Fairness

-----------------------------------------------------------------------------
(* Properties                                                              *)

Copies(e) == {i \in DOMAIN events : events[i].ev = e}

\* The results published for an event, whatever their decisions.
ResultsFor(e) == {r \in DOMAIN results : results[r].ev = e}

\* An action for this event, with whatever decision, is in risk.actions.
Acted(e) == \E d \in Decision : actions[<<e, d>>] > 0

\* Every action message of this event, numbered among those with the same decision.
ActionsFor(e) == UNION {{d} \X (1..actions[<<e, d>>]) : d \in Decision}

\* A result of this event is still the broker's to deliver.
ResultPending(e) == \E i \in DOMAIN results : results[i].ev = e /\ results[i].st # "acked"

\* An event is scored and published again only on account of a fault: a handler that
\* outlives its channel publishes next to the one its message was redelivered to, and a
\* message acked too late is scored anew, but each lost connection, crash or failed
\* publish costs a copy of the event one result at most.  Failed scores cost none.
ResultsBounded ==
  \A e \in Event : Cardinality(ResultsFor(e)) <= Cardinality(Copies(e)) * (1 + faults)

\* The Risk service never loses a scored event: once it acks the message, the decision
\* is in the results queue, or the publisher had no channel and the result was skipped
\* (ResultPublisher.publish returns normally and the consumer acks).
AckedEventAccountedFor ==
  \A i \in DOMAIN events :
    events[i].st = "acked" /\ Kind[events[i].ev] = "scored" =>
      i \in skippedResults \/ \E r \in DOMAIN results : results[r].ev = events[i].ev

\* The Orchestrator tells the platform to act only on a decision of record: the audit
\* row is committed before any action of the event is published.
ActionOnlyAfterAudit == \A e \in Event : Acted(e) => audit[e] # NoDecision

\* A crash between the commit and the publish loses no action: an audited event was acted
\* on, or a result of it is still to be delivered, or the publish was skipped for want of
\* a channel.  This is why process_result publishes for an existing row too.
AuditedEventActed ==
  \A e \in Event : audit[e] # NoDecision =>
    \/ Acted(e)
    \/ ResultPending(e)
    \/ \E i \in skippedActions : results[i].ev = e

\* Failed scores, failed commits and IntegrityErrors between Orchestrators are retried
\* without ever duplicating an action: as long as no connection, process or publish
\* failed, an event is acted on at most once per copy the platform published.
ExactlyOnceWithoutFaults ==
  faults = 0 => \A e \in Event : Cardinality(ActionsFor(e)) <= Cardinality(Copies(e))

\* The audit row of an event is written once and never changes, even when two
\* Orchestrators handle two results of the event at the same time.
AuditWriteOnce ==
  [][\A e \in Event : audit[e] # NoDecision => audit'[e] = audit[e]]_audit

\* Whatever fails, the reconnect loop brings the consumer back and every message is
\* settled in the end, even with messages about that make scoring raise every time and are
\* requeued at the head of the queue for ever, if those are fewer than Prefetch.
EventsSettled ==
  \A e \in Event : Kind[e] # "poison" =>
    (Copies(e) # {} ~> \A i \in Copies(e) : events[i].st \in {"acked", "rejected"})

\* A published result is audited in the end, unless from some moment on no Orchestrator
\* has a consumer connection: once lost, or not opened at startup, it is never opened again.
ResultsAuditedWhileConsumed ==
  \A e \in Event : Kind[e] = "scored" =>
    (ResultPending(e) ~> audit[e] # NoDecision \/ [](\A p \in OrchProc : ~orch[p].cons))

\* The pipeline implements the ledger.
Ledger == INSTANCE EventLedger WITH
  Scored    <- {e \in Event : Kind[e] = "scored"},
  submitted <- {events[i].ev : i \in DOMAIN events},
  decided   <- {<<results[i].ev, results[i].dec>> : i \in DOMAIN results},
  acted     <- {a \in Event \X Decision : actions[a] > 0}

LedgerSpec == Ledger!Spec

-----------------------------------------------------------------------------
(* What the documents say, and the code does not do                        *)

\* contracts/platform-events-v1.yaml: consumers must deduplicate on event_id.
ConsumersDeduplicate == \A e \in Event : Cardinality(ActionsFor(e)) <= 1

\* README: risk.results is published always for an asynchronous event.
AckedEventHasResult ==
  \A i \in DOMAIN events :
    events[i].st = "acked" /\ Kind[events[i].ev] = "scored" =>
      \E r \in DOMAIN results : results[r].ev = events[i].ev
=============================================================================
