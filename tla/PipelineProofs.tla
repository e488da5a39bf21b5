--------------------------- MODULE PipelineProofs ---------------------------
(* Proofs about Pipeline, for any number of events, processes, handlers and  *)
(* faults.                                                                   *)
EXTENDS Pipeline, SequenceTheorems, TLAPS

\* A message sequence rewritten entry by entry is still a message sequence.
LEMMA Rewritten ==
  ASSUME NEW S, NEW s \in Seq(S), NEW t \in [DOMAIN s -> S]
  PROVE  /\ t \in Seq(S)
         /\ DOMAIN t = DOMAIN s
         /\ Len(t) = Len(s)
  OBVIOUS

LEMMA Appended ==
  ASSUME NEW S, NEW s \in Seq(S), NEW x \in S
  PROVE  /\ Append(s, x) \in Seq(S)
         /\ DOMAIN s \subseteq DOMAIN Append(s, x)
         /\ DOMAIN Append(s, x) = DOMAIN s \union {Len(s) + 1}
         /\ \A i \in DOMAIN s : Append(s, x)[i] = s[i]
         /\ Append(s, x)[Len(s) + 1] = x
  OBVIOUS

LEMMA Replaced ==
  ASSUME NEW S, NEW s \in Seq(S), NEW i \in DOMAIN s, NEW x \in S
  PROVE  /\ [s EXCEPT ![i] = x] \in Seq(S)
         /\ DOMAIN [s EXCEPT ![i] = x] = DOMAIN s
  OBVIOUS

-----------------------------------------------------------------------------
(* Types                                                                   *)

\* Only the result of a scored event is published.
PublishesScored ==
  \A w \in RiskWorker : rw[w].pc = "publish" => Kind[events[rw[w].msg].ev] = "scored"

TypeInv == TypeOK /\ PublishesScored

LEMMA TypeInit == Init => TypeInv
  BY PipelineAssumption
  DEF Init, TypeInv, TypeOK, PublishesScored, RiskState, RiskTask, OrchState, OrchTask,
      IdleRisk, IdleOrch, Verdict

(* A handler task rewritten: the other tasks keep what they had.           *)
LEMMA RiskTaskChanged ==
  ASSUME TypeInv, NEW w \in RiskWorker, NEW t \in RiskTask, rw' = [rw EXCEPT ![w] = t],
         DOMAIN events \subseteq DOMAIN events',
         \A i \in DOMAIN events : events'[i].ev = events[i].ev,
         t.pc # "idle" => t.msg \in DOMAIN events,
         t.pc = "publish" => t.dec \in Decision /\ Kind[events[t.msg].ev] = "scored"
  PROVE  /\ rw' \in [RiskWorker -> RiskTask]
         /\ \A v \in RiskWorker : rw'[v].pc # "idle" => rw'[v].msg \in DOMAIN events'
         /\ \A v \in RiskWorker : rw'[v].pc = "publish" => rw'[v].dec \in Decision
         /\ PublishesScored'
<1>1. rw' \in [RiskWorker -> RiskTask]
  BY DEF TypeInv, TypeOK
<1>2. \A v \in RiskWorker : v # w => rw'[v] = rw[v]
  BY DEF TypeInv, TypeOK
<1>3. rw'[w] = t
  BY DEF TypeInv, TypeOK
<1>4. /\ \A v \in RiskWorker : rw'[v].pc # "idle" => rw'[v].msg \in DOMAIN events'
      /\ \A v \in RiskWorker : rw'[v].pc = "publish" => rw'[v].dec \in Decision
  BY <1>2, <1>3 DEF TypeInv, TypeOK
<1>5. PublishesScored'
  BY <1>2, <1>3 DEF TypeInv, TypeOK, PublishesScored
<1> QED BY <1>1, <1>4, <1>5

\* Settling or requeueing a message changes its status alone.
LEMMA EventStatusChanged ==
  ASSUME TypeInv, NEW i \in DOMAIN events, NEW st \in EventStatus,
         events' = [events EXCEPT ![i].st = st]
  PROVE  /\ events' \in Seq(EventMessage)
         /\ DOMAIN events' = DOMAIN events
         /\ \A j \in DOMAIN events : events'[j].ev = events[j].ev
<1>1. events \in Seq(EventMessage) /\ events[i] \in EventMessage
  BY DEF TypeInv, TypeOK
<1>2. [events[i] EXCEPT !.st = st] \in EventMessage
  BY <1>1 DEF EventMessage
<1>3. events' \in Seq(EventMessage) /\ DOMAIN events' = DOMAIN events
  BY <1>1, <1>2, Replaced
<1>4. \A j \in DOMAIN events : events'[j].ev = events[j].ev
  BY <1>1 DEF EventMessage
<1> QED BY <1>3, <1>4

LEMMA TypeRisk ==
  ASSUME TypeInv, NEW w \in RiskWorker, RiskHandler(w)
  PROVE  TypeInv'
<1> DEFINE RwOK == /\ rw' \in [RiskWorker -> RiskTask]
                   /\ \A v \in RiskWorker : rw'[v].pc # "idle" => rw'[v].msg \in DOMAIN events'
                   /\ \A v \in RiskWorker : rw'[v].pc = "publish" => rw'[v].dec \in Decision
                   /\ PublishesScored'
<1>0. /\ rw[w] \in RiskTask
      /\ rw[w].pc # "idle" => rw[w].msg \in DOMAIN events /\ events[rw[w].msg] \in EventMessage
      /\ \A i \in DOMAIN events : i \in Nat
  BY DEF TypeInv, TypeOK
<1>1. ASSUME NEW i \in DOMAIN events, RiskDeliver(w, i) PROVE TypeInv'
  <2> DEFINE t == AfterParse(events[i].ev, i)
  <2>0. events[i] \in EventMessage
    BY DEF TypeInv, TypeOK
  <2>1. i \in Nat /\ Kind[events[i].ev] \in Kinds
    BY <1>0, <2>0, PipelineAssumption DEF EventMessage
  <2>2. t \in RiskTask /\ t.msg = i /\ t.pc # "publish"
    BY <2>1 DEF AfterParse, RiskTask, IdleRisk, Verdict, Kinds
  <2>3. /\ events' \in Seq(EventMessage)
        /\ DOMAIN events' = DOMAIN events
        /\ \A j \in DOMAIN events : events'[j].ev = events[j].ev
    BY <1>1, EventStatusChanged DEF RiskDeliver, EventStatus
  <2>4. rw' = [rw EXCEPT ![w] = t]
    BY <1>1 DEF RiskDeliver
  <2> HIDE DEF t
  <2>5. RwOK
    BY <2>2, <2>3, <2>4, RiskTaskChanged
  <2> QED BY <1>1, <2>3, <2>5 DEF RiskDeliver, orchVars, TypeInv, TypeOK
<1>2. CASE RiskEvaluate(w)
  <2>1. PICK d \in Decision : rw' = [rw EXCEPT ![w].pc = "publish", ![w].dec = d]
    BY <1>2 DEF RiskEvaluate
  <2> DEFINE t == [rw[w] EXCEPT !.pc = "publish", !.dec = d]
  <2>2. t \in RiskTask /\ t.msg = rw[w].msg /\ t.dec = d /\ rw' = [rw EXCEPT ![w] = t]
    BY <1>0, <2>1 DEF RiskTask
  <2> HIDE DEF t
  <2>3. RwOK
    BY <1>0, <1>2, <2>2, RiskTaskChanged DEF RiskEvaluate
  <2> QED BY <1>2, <2>3 DEF RiskEvaluate, orchVars, TypeInv, TypeOK
<1>3. ASSUME rw[w].pc # "idle", NEW how \in Verdict,
             rw' = [rw EXCEPT ![w].pc = "settle", ![w].how = how],
             UNCHANGED events
      PROVE  RwOK
  <2> DEFINE t == [rw[w] EXCEPT !.pc = "settle", !.how = how]
  <2>1. t \in RiskTask /\ t.msg = rw[w].msg /\ t.pc = "settle" /\ rw' = [rw EXCEPT ![w] = t]
    BY <1>0, <1>3 DEF RiskTask
  <2> HIDE DEF t
  <2> QED BY <1>0, <1>3, <2>1, RiskTaskChanged
<1>4. CASE RiskEvaluateFails(w)
  <2>1. RwOK
    BY <1>3, <1>4 DEF RiskEvaluateFails, Verdict
  <2> QED BY <1>4, <2>1 DEF RiskEvaluateFails, orchVars, TypeInv, TypeOK
<1>5. CASE RiskPublishSkipped(w)
  <2>1. RwOK
    BY <1>3, <1>5 DEF RiskPublishSkipped, Verdict
  <2> QED BY <1>0, <1>5, <2>1 DEF RiskPublishSkipped, orchVars, TypeInv, TypeOK
<1>6. ASSUME rw[w].pc = "publish"
      PROVE  /\ Append(results, ResultOf(w)) \in Seq(ResultMessage)
             /\ DOMAIN results \subseteq DOMAIN Append(results, ResultOf(w))
  <2>1. ResultOf(w) \in ResultMessage
    BY <1>0, <1>6
    DEF TypeInv, TypeOK, ResultOf, ResultMessage, ResultStatus, EventMessage
  <2> QED BY <2>1, Appended DEF TypeInv, TypeOK
<1>7. CASE RiskPublish(w)
  <2>1. RwOK
    BY <1>3, <1>7 DEF RiskPublish, RiskPublishAs, Verdict
  <2> QED BY <1>6, <1>7, <2>1 DEF RiskPublish, RiskPublishAs, orchVars, TypeInv, TypeOK
<1>8. CASE RiskPublishRaises(w)
  <2>1. RwOK
    BY <1>3, <1>8 DEF RiskPublishRaises, RiskPublishRaisesAs, Verdict
  <2>2. /\ results' \in Seq(ResultMessage)
        /\ DOMAIN results \subseteq DOMAIN results'
    BY <1>6, <1>8 DEF RiskPublishRaises, RiskPublishRaisesAs, TypeInv, TypeOK
  <2> QED BY <1>8, <2>1, <2>2
          DEF RiskPublishRaises, RiskPublishRaisesAs, orchVars, TypeInv, TypeOK
<1>9. CASE RiskSettle(w)
  <2>1. EventSettled(rw[w].how) \in EventStatus
    BY DEF EventSettled, EventStatus
  <2>2. /\ events' \in Seq(EventMessage)
        /\ DOMAIN events' = DOMAIN events
        /\ \A j \in DOMAIN events : events'[j].ev = events[j].ev
    BY <1>0, <1>9, <2>1, EventStatusChanged DEF RiskSettle, TypeInv, TypeOK
  <2>3. IdleRisk \in RiskTask /\ IdleRisk.pc = "idle"
    BY DEF IdleRisk, RiskTask, Verdict
  <2>4. RwOK
    BY <1>9, <2>2, <2>3, RiskTaskChanged DEF RiskSettle
  <2> QED BY <1>9, <2>2, <2>4 DEF RiskSettle, orchVars, TypeInv, TypeOK
<1> QED BY <1>1, <1>2, <1>4, <1>5, <1>7, <1>8, <1>9 DEF RiskHandler

-----------------------------------------------------------------------------
(* The processes                                                           *)

\* Requeueing keeps every message, in its place.
LEMMA EventsRequeuedType ==
  ASSUME TypeInv, NEW p \in RiskProc
  PROVE  /\ EventsRequeued(p) \in Seq(EventMessage)
         /\ DOMAIN EventsRequeued(p) = DOMAIN events
         /\ \A j \in DOMAIN events : EventsRequeued(p)[j].ev = events[j].ev
<1>1. \A i \in DOMAIN events : events[i] \in EventMessage
  BY DEF TypeInv, TypeOK
<1>2. \A i \in DOMAIN events : [events[i] EXCEPT !.st = "ready"] \in EventMessage
  BY <1>1 DEF EventMessage, EventStatus
<1>3. EventsRequeued(p) \in [DOMAIN events -> EventMessage]
  BY <1>1, <1>2 DEF EventsRequeued
<1>4. \A j \in DOMAIN events : EventsRequeued(p)[j].ev = events[j].ev
  BY <1>1 DEF EventsRequeued, EventMessage
<1>5. events \in Seq(EventMessage)
  BY DEF TypeInv, TypeOK
<1> QED BY <1>3, <1>4, <1>5, Rewritten

LEMMA ResultsRequeuedType ==
  ASSUME TypeInv, NEW p \in OrchProc
  PROVE  /\ ResultsRequeued(p) \in Seq(ResultMessage)
         /\ DOMAIN ResultsRequeued(p) = DOMAIN results
         /\ \A j \in DOMAIN results : /\ ResultsRequeued(p)[j].ev = results[j].ev
                                      /\ ResultsRequeued(p)[j].dec = results[j].dec
<1>1. \A i \in DOMAIN results : results[i] \in ResultMessage
  BY DEF TypeInv, TypeOK
<1>2. \A i \in DOMAIN results : [results[i] EXCEPT !.st = "ready"] \in ResultMessage
  BY <1>1 DEF ResultMessage, ResultStatus
<1>3. ResultsRequeued(p) \in [DOMAIN results -> ResultMessage]
  BY <1>1, <1>2 DEF ResultsRequeued
<1>4. \A j \in DOMAIN results : /\ ResultsRequeued(p)[j].ev = results[j].ev
                                /\ ResultsRequeued(p)[j].dec = results[j].dec
  BY <1>1 DEF ResultsRequeued, ResultMessage
<1>5. results \in Seq(ResultMessage)
  BY DEF TypeInv, TypeOK
<1> QED BY <1>3, <1>4, <1>5, Rewritten

LEMMA TypeRiskProcess ==
  ASSUME TypeInv, NEW p \in RiskProc, RiskProcess(p)
  PROVE  TypeInv'
<1>1. /\ risk \in [RiskProc -> RiskState]
      /\ rw \in [RiskWorker -> RiskTask]
      /\ \A w \in RiskWorker : w[1] = p \/ w[1] # p
      /\ faults \in Nat /\ MaxFaults \in Nat
  BY PipelineAssumption DEF TypeInv, TypeOK
<1>2. CASE UNCHANGED <<events, rw, results, orchVars, skippedResults, faults>>
           /\ risk' \in [RiskProc -> RiskState]
  BY <1>2 DEF orchVars, TypeInv, TypeOK, PublishesScored
<1>3. RiskDisconnected(p) \in [RiskProc -> RiskState]
  <2> DEFINE down == [risk[p] EXCEPT !.conn = FALSE, !.pub = FALSE, !.cons = FALSE]
  <2>1. down \in RiskState
    BY <1>1 DEF RiskState
  <2>2. RiskDisconnected(p) = [risk EXCEPT ![p] = down]
    BY <1>1 DEF RiskDisconnected
  <2> QED
    BY <1>1, <2>1, <2>2
<1>4. CASE RiskConnLost(p)
  <2>0. rw' = [w \in RiskWorker |-> IF w[1] = p THEN [rw[w] EXCEPT !.live = FALSE] ELSE rw[w]]
    BY <1>4 DEF RiskConnLost, RiskOrphaned
  <2>2. \A w \in RiskWorker : /\ rw'[w] \in RiskTask
                              /\ rw'[w].pc = rw[w].pc
                              /\ rw'[w].msg = rw[w].msg
                              /\ rw'[w].dec = rw[w].dec
    <3> TAKE w \in RiskWorker
    <3>1. rw[w] \in RiskTask
      BY <1>1
    <3>2. rw'[w] = rw[w] \/ rw'[w] = [rw[w] EXCEPT !.live = FALSE]
      BY <2>0
    <3> QED
      BY <3>1, <3>2 DEF RiskTask
  <2>1. rw' \in [RiskWorker -> RiskTask]
    BY <2>0, <2>2
  <2>3. /\ events' \in Seq(EventMessage)
        /\ DOMAIN events' = DOMAIN events
        /\ \A j \in DOMAIN events : events'[j].ev = events[j].ev
    BY <1>4, EventsRequeuedType DEF RiskConnLost
  <2>4. /\ PublishesScored'
        /\ \A w \in RiskWorker : rw'[w].pc # "idle" => rw'[w].msg \in DOMAIN events'
        /\ \A w \in RiskWorker : rw'[w].pc = "publish" => rw'[w].dec \in Decision
    <3>1. /\ \A w \in RiskWorker : rw[w].pc # "idle" => rw[w].msg \in DOMAIN events
          /\ \A w \in RiskWorker : rw[w].pc = "publish" => rw[w].dec \in Decision
      BY DEF TypeInv, TypeOK
    <3>2. PublishesScored
      BY DEF TypeInv
    <3> QED
      BY <2>2, <2>3, <3>1, <3>2 DEF PublishesScored
  <2> QED BY <1>1, <1>3, <1>4, <2>1, <2>3, <2>4 DEF RiskConnLost, orchVars, TypeInv, TypeOK
<1>5. CASE RiskCrash(p)
  <2>1. rw' \in [RiskWorker -> RiskTask]
    BY <1>1, <1>5 DEF RiskCrash, RiskTask, IdleRisk, Verdict
  <2>2. \A w \in RiskWorker : rw'[w] = rw[w] \/ rw'[w].pc = "idle"
    BY <1>5 DEF RiskCrash, IdleRisk
  <2>3. /\ events' \in Seq(EventMessage)
        /\ DOMAIN events' = DOMAIN events
        /\ \A j \in DOMAIN events : events'[j].ev = events[j].ev
    BY <1>5, EventsRequeuedType DEF RiskCrash
  <2>4. /\ PublishesScored'
        /\ \A w \in RiskWorker : rw'[w].pc # "idle" => rw'[w].msg \in DOMAIN events'
        /\ \A w \in RiskWorker : rw'[w].pc = "publish" => rw'[w].dec \in Decision
    BY <2>2, <2>3 DEF TypeInv, TypeOK, PublishesScored
  <2>5. risk' \in [RiskProc -> RiskState]
    BY <1>3, <1>5 DEF RiskCrash, RiskState
  <2> QED BY <1>1, <1>5, <2>1, <2>3, <2>4, <2>5 DEF RiskCrash, orchVars, TypeInv, TypeOK
<1>6. CASE LoopBroker(p)
  BY <1>1, <1>2, <1>6 DEF LoopBroker, RiskState
<1>7. CASE LoopPublisher(p)
  BY <1>1, <1>2, <1>7 DEF LoopPublisher, RiskState
<1>8. CASE LoopPublisherFails(p)
  BY <1>1, <1>2, <1>8 DEF LoopPublisherFails, RiskState
<1>9. CASE LoopConsumer(p)
  BY <1>1, <1>2, <1>9 DEF LoopConsumer, RiskState
<1>10. CASE LoopConsumerFails(p)
  BY <1>1, <1>2, <1>10 DEF LoopConsumerFails, RiskState
<1> QED BY <1>4, <1>5, <1>6, <1>7, <1>8, <1>9, <1>10 DEF RiskProcess

-----------------------------------------------------------------------------
(* The Orchestrator                                                        *)

LEMMA OrchTaskChanged ==
  ASSUME TypeInv, NEW w \in OrchWorker, NEW t \in OrchTask, ow' = [ow EXCEPT ![w] = t],
         DOMAIN results \subseteq DOMAIN results',
         t.pc # "idle" => t.msg \in DOMAIN results
  PROVE  /\ ow' \in [OrchWorker -> OrchTask]
         /\ \A v \in OrchWorker : ow'[v].pc # "idle" => ow'[v].msg \in DOMAIN results'
<1>1. ow' \in [OrchWorker -> OrchTask]
  BY DEF TypeInv, TypeOK
<1>2. \A v \in OrchWorker : v # w => ow'[v] = ow[v]
  BY DEF TypeInv, TypeOK
<1>3. ow'[w] = t
  BY DEF TypeInv, TypeOK
<1>4. \A v \in OrchWorker : ow'[v].pc # "idle" => ow'[v].msg \in DOMAIN results'
  BY <1>2, <1>3 DEF TypeInv, TypeOK
<1> QED BY <1>1, <1>4

LEMMA ResultStatusChanged ==
  ASSUME TypeInv, NEW i \in DOMAIN results, NEW st \in ResultStatus,
         results' = [results EXCEPT ![i].st = st]
  PROVE  /\ results' \in Seq(ResultMessage)
         /\ DOMAIN results' = DOMAIN results
         /\ \A j \in DOMAIN results : /\ results'[j].ev = results[j].ev
                                      /\ results'[j].dec = results[j].dec
<1>1. results \in Seq(ResultMessage) /\ results[i] \in ResultMessage
  BY DEF TypeInv, TypeOK
<1>2. [results[i] EXCEPT !.st = st] \in ResultMessage
  BY <1>1 DEF ResultMessage
<1>3. results' \in Seq(ResultMessage) /\ DOMAIN results' = DOMAIN results
  BY <1>1, <1>2, Replaced
<1>4. \A j \in DOMAIN results : /\ results'[j].ev = results[j].ev
                                /\ results'[j].dec = results[j].dec
  BY <1>1 DEF ResultMessage
<1> QED BY <1>3, <1>4

LEMMA TypeOrch ==
  ASSUME TypeInv, NEW w \in OrchWorker, OrchHandler(w)
  PROVE  TypeInv'
<1> DEFINE OwOK == /\ ow' \in [OrchWorker -> OrchTask]
                   /\ \A v \in OrchWorker : ow'[v].pc # "idle" => ow'[v].msg \in DOMAIN results'
<1>0. /\ ow[w] \in OrchTask
      /\ ow[w].pc # "idle" => ow[w].msg \in DOMAIN results /\ results[ow[w].msg] \in ResultMessage
      /\ \A i \in DOMAIN results : i \in Nat
      /\ actions \in [Event \X Decision -> Nat]
      /\ audit \in [Event -> Decision \union {NoDecision}]
      /\ faults \in Nat
  BY DEF TypeInv, TypeOK
<1>1. ASSUME ow[w].pc # "idle", NEW pc \in {"query", "insert", "publish", "settle"},
             ow' = [ow EXCEPT ![w].pc = pc], UNCHANGED results
      PROVE  OwOK
  <2> DEFINE t == [ow[w] EXCEPT !.pc = pc]
  <2>1. t \in OrchTask /\ t.msg = ow[w].msg /\ ow' = [ow EXCEPT ![w] = t]
    BY <1>0, <1>1 DEF OrchTask
  <2> HIDE DEF t
  <2> QED BY <1>0, <1>1, <2>1, OrchTaskChanged
<1>2. ASSUME ow[w].pc # "idle", NEW how \in Verdict,
             ow' = [ow EXCEPT ![w].pc = "settle", ![w].how = how], UNCHANGED results
      PROVE  OwOK
  <2> DEFINE t == [ow[w] EXCEPT !.pc = "settle", !.how = how]
  <2>1. t \in OrchTask /\ t.msg = ow[w].msg /\ ow' = [ow EXCEPT ![w] = t]
    BY <1>0, <1>2 DEF OrchTask
  <2> HIDE DEF t
  <2> QED BY <1>0, <1>2, <2>1, OrchTaskChanged
<1>3. ASSUME ow[w].pc # "idle"
      PROVE  /\ ResultAt(w).ev \in Event
             /\ ResultAt(w).dec \in Decision
             /\ [audit EXCEPT ![ResultAt(w).ev] = ResultAt(w).dec]
                  \in [Event -> Decision \union {NoDecision}]
             /\ [actions EXCEPT ![ActionOf(w)] = @ + 1] \in [Event \X Decision -> Nat]
  BY <1>0, <1>3 DEF ResultAt, ActionOf, ResultMessage
<1>4. ASSUME NEW i \in DOMAIN results, OrchDeliver(w, i) PROVE TypeInv'
  <2> DEFINE t == [pc |-> "query", msg |-> i, live |-> TRUE, how |-> "none"]
  <2>1. t \in OrchTask /\ t.msg = i /\ ow' = [ow EXCEPT ![w] = t]
    BY <1>0, <1>4 DEF OrchDeliver, OrchTask, Verdict
  <2>2. /\ results' \in Seq(ResultMessage)
        /\ DOMAIN results' = DOMAIN results
    BY <1>4, ResultStatusChanged DEF OrchDeliver, ResultStatus
  <2> HIDE DEF t
  <2>3. OwOK
    BY <2>1, <2>2, OrchTaskChanged
  <2> QED BY <1>4, <2>2, <2>3 DEF OrchDeliver, riskVars, TypeInv, TypeOK, PublishesScored
<1>5. CASE OrchQuery(w)
  <2>1. OwOK
    BY <1>1, <1>5 DEF OrchQuery
  <2> QED BY <1>5, <2>1 DEF OrchQuery, riskVars, TypeInv, TypeOK, PublishesScored
<1>6. CASE OrchInsert(w)
  <2>1. OwOK
    BY <1>1, <1>2, <1>6 DEF OrchInsert, Verdict
  <2>2. audit' \in [Event -> Decision \union {NoDecision}]
    BY <1>0, <1>3, <1>6 DEF OrchInsert
  <2> QED BY <1>6, <2>1, <2>2 DEF OrchInsert, riskVars, TypeInv, TypeOK, PublishesScored
<1>7. CASE OrchDbFails(w)
  <2>1. OwOK
    BY <1>2, <1>7 DEF OrchDbFails, Verdict
  <2> QED BY <1>7, <2>1 DEF OrchDbFails, riskVars, TypeInv, TypeOK, PublishesScored
<1>8. CASE OrchPublish(w)
  <2>1. OwOK
    BY <1>2, <1>8 DEF OrchPublish, OrchPublishAs, Verdict
  <2>2. actions' \in [Event \X Decision -> Nat]
    BY <1>3, <1>8 DEF OrchPublish, OrchPublishAs
  <2> QED BY <1>8, <2>1, <2>2
          DEF OrchPublish, OrchPublishAs, riskVars, TypeInv, TypeOK, PublishesScored
<1>9. CASE OrchPublishSkipped(w)
  <2>1. OwOK
    BY <1>2, <1>9 DEF OrchPublishSkipped, Verdict
  <2>2. skippedActions' \subseteq DOMAIN results'
    BY <1>0, <1>9 DEF OrchPublishSkipped, TypeInv, TypeOK
  <2> QED BY <1>9, <2>1, <2>2
          DEF OrchPublishSkipped, riskVars, TypeInv, TypeOK, PublishesScored
<1>10. CASE OrchPublishRaises(w)
  <2>1. OwOK
    BY <1>2, <1>10 DEF OrchPublishRaises, Verdict
  <2>2. actions' \in [Event \X Decision -> Nat]
    BY <1>0, <1>3, <1>10 DEF OrchPublishRaises
  <2>3. faults' \in Nat
    BY <1>0, <1>10 DEF OrchPublishRaises
  <2> QED BY <1>10, <2>1, <2>2, <2>3
          DEF OrchPublishRaises, riskVars, TypeInv, TypeOK, PublishesScored
<1>11. CASE OrchSettle(w)
  <2>1. /\ results' \in Seq(ResultMessage)
        /\ DOMAIN results' = DOMAIN results
    BY <1>0, <1>11, ResultStatusChanged
    DEF OrchSettle, OrchSettleTo, ResultStatus, TypeInv, TypeOK
  <2>2. IdleOrch \in OrchTask /\ IdleOrch.pc = "idle"
    BY DEF IdleOrch, OrchTask, Verdict
  <2>3. OwOK
    BY <1>11, <2>1, <2>2, OrchTaskChanged DEF OrchSettle, OrchSettleTo
  <2> QED BY <1>11, <2>1, <2>3
          DEF OrchSettle, OrchSettleTo, riskVars, TypeInv, TypeOK, PublishesScored
<1> QED BY <1>4, <1>5, <1>6, <1>7, <1>8, <1>9, <1>10, <1>11 DEF OrchHandler

LEMMA TypeOrchProcess ==
  ASSUME TypeInv, NEW p \in OrchProc, OrchProcess(p)
  PROVE  TypeInv'
<1>1. /\ orch \in [OrchProc -> OrchState]
      /\ ow \in [OrchWorker -> OrchTask]
      /\ faults \in Nat /\ MaxFaults \in Nat
      /\ \A w \in OrchWorker : ow[w].pc # "idle" => ow[w].msg \in DOMAIN results
  BY PipelineAssumption DEF TypeInv, TypeOK
<1>2. CASE OrchConsumerLost(p)
  <2>1. /\ results' \in Seq(ResultMessage)
        /\ DOMAIN results' = DOMAIN results
    BY <1>2, ResultsRequeuedType DEF OrchConsumerLost
  <2>2. /\ ow' \in [OrchWorker -> OrchTask]
        /\ \A w \in OrchWorker : ow'[w].pc # "idle" => ow'[w].msg \in DOMAIN results'
    BY <1>1, <1>2, <2>1 DEF OrchConsumerLost, OrchTask
  <2>3. orch' \in [OrchProc -> OrchState] /\ faults' \in Nat
    <3>1. [orch[p] EXCEPT !.cons = FALSE] \in OrchState
      BY <1>1 DEF OrchState
    <3>2. orch' = [orch EXCEPT ![p] = [orch[p] EXCEPT !.cons = FALSE]]
      BY <1>2 DEF OrchConsumerLost
    <3> QED BY <1>1, <1>2, <3>1, <3>2 DEF OrchConsumerLost
  <2> QED BY <1>2, <2>1, <2>2, <2>3
          DEF OrchConsumerLost, riskVars, TypeInv, TypeOK, PublishesScored
<1>3. CASE OrchPublisherLost(p)
  <2>1. orch' \in [OrchProc -> OrchState] /\ faults' \in Nat
    <3>1. [orch[p] EXCEPT !.pub = FALSE] \in OrchState
      BY <1>1 DEF OrchState
    <3>2. orch' = [orch EXCEPT ![p] = [orch[p] EXCEPT !.pub = FALSE]]
      BY <1>3 DEF OrchPublisherLost
    <3> QED BY <1>1, <1>3, <3>1, <3>2 DEF OrchPublisherLost
  <2> QED BY <1>3, <2>1
          DEF OrchPublisherLost, riskVars, TypeInv, TypeOK, PublishesScored
<1>4. CASE OrchCrash(p)
  <2>1. /\ results' \in Seq(ResultMessage)
        /\ DOMAIN results' = DOMAIN results
    BY <1>4, ResultsRequeuedType DEF OrchCrash
  <2>2. /\ ow' \in [OrchWorker -> OrchTask]
        /\ \A w \in OrchWorker : ow'[w].pc # "idle" => ow'[w].msg \in DOMAIN results'
    BY <1>1, <1>4, <2>1 DEF OrchCrash, OrchTask, IdleOrch, Verdict
  <2>3. orch' \in [OrchProc -> OrchState] /\ faults' \in Nat
    BY <1>1, <1>4 DEF OrchCrash, OrchState
  <2> QED BY <1>4, <2>1, <2>2, <2>3
          DEF OrchCrash, riskVars, TypeInv, TypeOK, PublishesScored
<1>5. CASE OrchStart(p)
  <2>1. orch' \in [OrchProc -> OrchState]
    BY <1>1, <1>5 DEF OrchStart, OrchState
  <2> QED BY <1>5, <2>1
          DEF OrchStart, riskVars, TypeInv, TypeOK, PublishesScored
<1> QED BY <1>2, <1>3, <1>4, <1>5 DEF OrchProcess

LEMMA TypeSubmit ==
  ASSUME TypeInv, NEW e \in Event, Submit(e)
  PROVE  TypeInv'
<1>1. [ev |-> e, st |-> "ready"] \in EventMessage
  BY DEF EventMessage, EventStatus
<1>2. /\ events' \in Seq(EventMessage)
      /\ DOMAIN events \subseteq DOMAIN events'
      /\ \A i \in DOMAIN events : events'[i] = events[i]
  BY <1>1, Appended DEF Submit, TypeInv, TypeOK
<1> QED BY <1>2 DEF Submit, orchVars, TypeInv, TypeOK, PublishesScored

LEMMA TypeStep == TypeInv /\ [Next]_vars => TypeInv'
<1>1. CASE UNCHANGED vars
  BY <1>1 DEF vars, TypeInv, TypeOK, PublishesScored
<1> QED BY <1>1, TypeSubmit, TypeRisk, TypeRiskProcess, TypeOrch, TypeOrchProcess DEF Next

(* Every variable keeps its type, a busy handler works on a message that     *)
(* exists, and one that publishes has a decision, whatever channels and      *)
(* processes are lost on the way.                                            *)
THEOREM TypeCorrect == Spec => []TypeOK
<1>1. TypeInv => TypeOK
  BY DEF TypeInv
<1> QED BY <1>1, TypeInit, TypeStep, PTL DEF Spec

-----------------------------------------------------------------------------
(* Broker and handlers agree on who holds which message: it is unacked       *)
(* exactly when one live handler works on it, through lost channels, crashes *)
(* and redeliveries.  The safety properties rest on this.  The two sides of  *)
(* the pipeline are alike and disturb one queue each.                        *)

RiskHeld ==
  /\ \A w \in RiskWorker : rw[w].live => rw[w].pc # "idle"
  /\ \A i \in DOMAIN events :
       events[i].st = "unacked" <=> \E w \in RiskWorker : rw[w].live /\ rw[w].msg = i
  /\ \A v, w \in RiskWorker : rw[v].live /\ rw[w].live /\ rw[v].msg = rw[w].msg => v = w

OrchHeld ==
  /\ \A w \in OrchWorker : ow[w].live => ow[w].pc # "idle"
  /\ \A i \in DOMAIN results :
       results[i].st = "unacked" <=> \E w \in OrchWorker : ow[w].live /\ ow[w].msg = i
  /\ \A v, w \in OrchWorker : ow[v].live /\ ow[w].live /\ ow[v].msg = ow[w].msg => v = w

LEMMA HeldInit == Init => RiskHeld /\ OrchHeld
  BY DEF Init, RiskHeld, OrchHeld, IdleRisk, IdleOrch

-----------------------------------------------------------------------------
(* The Risk side                                                           *)

\* A handler that goes on with its message changes nothing about who holds it.
LEMMA RiskHeldKept ==
  ASSUME TypeInv, RiskHeld,
         \A w \in RiskWorker : /\ rw'[w].live = rw[w].live
                               /\ rw'[w].msg = rw[w].msg
                               /\ rw[w].pc # "idle" => rw'[w].pc # "idle",
         UNCHANGED events
  PROVE  RiskHeld'
  BY DEF RiskHeld

LEMMA RiskHeldHandler ==
  ASSUME TypeInv, RiskHeld, NEW w \in RiskWorker, RiskHandler(w)
  PROVE  RiskHeld'
<1>0. /\ rw \in [RiskWorker -> RiskTask]
      /\ \A i \in DOMAIN events : events[i] \in EventMessage
      /\ \A v \in RiskWorker : rw[v].pc # "idle" => rw[v].msg \in DOMAIN events
      /\ \A v \in RiskWorker : rw[v].live => rw[v].msg \in DOMAIN events
  BY DEF TypeInv, TypeOK, RiskHeld
<1>1. ASSUME NEW i \in DOMAIN events, RiskDeliver(w, i) PROVE RiskHeld'
  <2>1. events[i].st = "ready" /\ ~rw[w].live
    BY <1>1 DEF RiskDeliver, IsHead, RiskHeld
  <2>2. /\ DOMAIN events' = DOMAIN events
        /\ events'[i].st = "unacked"
        /\ \A j \in DOMAIN events : j # i => events'[j] = events[j]
    BY <1>0, <1>1 DEF RiskDeliver, EventMessage
  <2>3. /\ rw'[w] = AfterParse(events[i].ev, i)
        /\ \A v \in RiskWorker : v # w => rw'[v] = rw[v]
    BY <1>0, <1>1 DEF RiskDeliver
  <2>4. Kind[events[i].ev] \in Kinds
    BY <1>0, PipelineAssumption DEF EventMessage
  <2>5. rw'[w].live /\ rw'[w].msg = i /\ rw'[w].pc # "idle"
    BY <2>3, <2>4 DEF AfterParse, IdleRisk, Kinds
  <2>6. \A v \in RiskWorker : ~(rw[v].live /\ rw[v].msg = i)
    BY <2>1 DEF RiskHeld
  <2> QED BY <2>1, <2>2, <2>3, <2>5, <2>6 DEF RiskHeld
<1>2. CASE \/ RiskEvaluate(w) \/ RiskEvaluateFails(w) \/ RiskPublish(w)
           \/ RiskPublishSkipped(w) \/ RiskPublishRaises(w)
  <2>1. /\ \A v \in RiskWorker : v # w => rw'[v] = rw[v]
        /\ rw'[w].live = rw[w].live /\ rw'[w].msg = rw[w].msg /\ rw'[w].pc # "idle"
        /\ UNCHANGED events
    BY <1>0, <1>2 DEF RiskTask, RiskEvaluate, RiskEvaluateFails, RiskPublish, RiskPublishAs,
       RiskPublishSkipped, RiskPublishRaises, RiskPublishRaisesAs
  <2>2. \A v \in RiskWorker : /\ rw'[v].live = rw[v].live
                              /\ rw'[v].msg = rw[v].msg
                              /\ rw[v].pc # "idle" => rw'[v].pc # "idle"
    BY <2>1
  <2> QED BY <2>1, <2>2, RiskHeldKept
<1>3. CASE RiskSettle(w)
  <2>1. /\ ~rw'[w].live
        /\ \A v \in RiskWorker : v # w => rw'[v] = rw[v]
    BY <1>0, <1>3 DEF RiskSettle, IdleRisk
  <2>2. EventSettled(rw[w].how) # "unacked"
    BY DEF EventSettled
  <2>3. CASE rw[w].live
    <3>1. /\ DOMAIN events' = DOMAIN events
          /\ events'[rw[w].msg].st # "unacked"
          /\ \A j \in DOMAIN events : j # rw[w].msg => events'[j] = events[j]
      BY <1>0, <1>3, <2>2, <2>3 DEF RiskSettle, EventMessage
    <3> QED BY <2>1, <2>3, <3>1 DEF RiskHeld
  <2>4. CASE ~rw[w].live
    <3>1. UNCHANGED events
      BY <1>3, <2>4 DEF RiskSettle
    <3> QED BY <2>1, <2>4, <3>1 DEF RiskHeld
  <2> QED BY <2>3, <2>4
<1> QED BY <1>1, <1>2, <1>3 DEF RiskHandler

\* A lost channel: its messages are ready again, its handlers no longer hold them.
LEMMA RiskHeldChannelGone ==
  ASSUME TypeInv, RiskHeld, NEW p \in RiskProc, events' = EventsRequeued(p),
         \A w \in RiskWorker : IF w[1] = p
                               THEN ~rw'[w].live
                               ELSE rw'[w] = rw[w]
  PROVE  RiskHeld'
<1>0. \A i \in DOMAIN events : events[i] \in EventMessage
  BY DEF TypeInv, TypeOK
<1>1. /\ DOMAIN events' = DOMAIN events
      /\ \A i \in DOMAIN events :
           events'[i].st = IF HeldByRisk(p, i) THEN "ready" ELSE events[i].st
  BY <1>0 DEF EventsRequeued, EventMessage
<1>2. \A i \in DOMAIN events :
        HeldByRisk(p, i) <=> \E w \in RiskWorker : w[1] = p /\ rw[w].live /\ rw[w].msg = i
  <2>1. \A w \in RiskWorker : w[1] = p => w[2] \in RiskSlot /\ w = <<p, w[2]>>
    BY DEF RiskWorker
  <2>2. \A s \in RiskSlot : <<p, s>> \in RiskWorker /\ <<p, s>>[1] = p
    BY DEF RiskWorker
  <2> TAKE i \in DOMAIN events
  <2>3. ASSUME HeldByRisk(p, i)
        PROVE  \E w \in RiskWorker : w[1] = p /\ rw[w].live /\ rw[w].msg = i
    BY <2>2, <2>3 DEF HeldByRisk
  <2>4. ASSUME NEW w \in RiskWorker, w[1] = p, rw[w].live, rw[w].msg = i
        PROVE  HeldByRisk(p, i)
    <3>1. w[2] \in RiskSlot /\ rw[<<p, w[2]>>] = rw[w]
      BY <2>1, <2>4
    <3> QED BY <2>4, <3>1 DEF HeldByRisk
  <2> QED BY <2>3, <2>4
<1>3. \A w \in RiskWorker : rw'[w].live => rw[w].live /\ rw'[w] = rw[w] /\ w[1] # p
  OBVIOUS
<1>4. \A w \in RiskWorker : rw[w].live /\ w[1] # p => rw'[w] = rw[w]
  OBVIOUS
<1>5. ASSUME NEW i \in DOMAIN events
      PROVE  events'[i].st = "unacked" <=> \E w \in RiskWorker : rw'[w].live /\ rw'[w].msg = i
  <2>1. CASE HeldByRisk(p, i)
    <3>1. PICK v \in RiskWorker : v[1] = p /\ rw[v].live /\ rw[v].msg = i
      BY <1>2, <2>1
    <3>2. \A w \in RiskWorker : rw[w].live /\ rw[w].msg = i => w = v
      BY <3>1 DEF RiskHeld
    <3> QED BY <1>1, <1>3, <2>1, <3>1, <3>2
  <2>2. CASE ~HeldByRisk(p, i)
    <3>1. events'[i].st = events[i].st
      BY <1>1, <2>2
    <3>2. \A w \in RiskWorker : rw[w].live /\ rw[w].msg = i => w[1] # p
      BY <1>2, <2>2
    <3> QED BY <1>3, <1>4, <3>1, <3>2 DEF RiskHeld
  <2> QED BY <2>1, <2>2
<1>6. /\ \A w \in RiskWorker : rw'[w].live => rw'[w].pc # "idle"
      /\ \A v, w \in RiskWorker : rw'[v].live /\ rw'[w].live /\ rw'[v].msg = rw'[w].msg => v = w
  BY <1>3 DEF RiskHeld
<1> QED BY <1>1, <1>5, <1>6 DEF RiskHeld

LEMMA RiskHeldStep == TypeInv /\ RiskHeld /\ [Next]_vars => RiskHeld'
<1> SUFFICES ASSUME TypeInv, RiskHeld, [Next]_vars PROVE RiskHeld'
  OBVIOUS
<1>0. rw \in [RiskWorker -> RiskTask]
  BY DEF TypeInv, TypeOK
<1>1. CASE UNCHANGED <<events, rw>>
  BY <1>1 DEF RiskHeld
<1>2. ASSUME NEW e \in Event, Submit(e) PROVE RiskHeld'
  <2>1. [ev |-> e, st |-> "ready"] \in EventMessage /\ events \in Seq(EventMessage)
    BY DEF EventMessage, EventStatus, TypeInv, TypeOK
  <2>2. /\ DOMAIN events' = DOMAIN events \union {Len(events) + 1}
        /\ \A i \in DOMAIN events : events'[i] = events[i]
        /\ events'[Len(events) + 1].st = "ready"
        /\ Len(events) + 1 \notin DOMAIN events
    BY <1>2, <2>1, Appended DEF Submit
  <2>3. \A w \in RiskWorker : rw[w].live => rw[w].msg \in DOMAIN events
    BY DEF RiskHeld, TypeInv, TypeOK
  <2> QED BY <1>2, <2>2, <2>3 DEF Submit, RiskHeld
<1>3. ASSUME NEW p \in RiskProc, RiskConnLost(p) PROVE RiskHeld'
  <2>1. \A w \in RiskWorker : IF w[1] = p THEN ~rw'[w].live ELSE rw'[w] = rw[w]
    BY <1>0, <1>3 DEF RiskConnLost, RiskOrphaned, RiskTask
  <2> QED BY <1>3, <2>1, RiskHeldChannelGone DEF RiskConnLost
<1>4. ASSUME NEW p \in RiskProc, RiskCrash(p) PROVE RiskHeld'
  <2>1. \A w \in RiskWorker : IF w[1] = p THEN ~rw'[w].live ELSE rw'[w] = rw[w]
    BY <1>4 DEF RiskCrash, IdleRisk
  <2> QED BY <1>4, <2>1, RiskHeldChannelGone DEF RiskCrash
<1>5. ASSUME NEW p \in RiskProc, RiskProcess(p), ~RiskConnLost(p), ~RiskCrash(p)
      PROVE  UNCHANGED <<events, rw>>
  BY <1>5 DEF RiskProcess, LoopBroker, LoopPublisher, LoopPublisherFails, LoopConsumer,
              LoopConsumerFails
<1>6. ASSUME NEW v \in OrchWorker, OrchHandler(v) PROVE UNCHANGED <<events, rw>>
  BY <1>6
  DEF OrchHandler, OrchDeliver, OrchQuery, OrchInsert, OrchDbFails, OrchPublish, OrchPublishAs,
      OrchPublishSkipped, OrchPublishRaises, OrchSettle, OrchSettleTo, riskVars
<1>7. ASSUME NEW p \in OrchProc, OrchProcess(p) PROVE UNCHANGED <<events, rw>>
  BY <1>7 DEF OrchProcess, OrchConsumerLost, OrchPublisherLost, OrchCrash, OrchStart, riskVars
<1> QED BY <1>1, <1>2, <1>3, <1>4, <1>5, <1>6, <1>7, RiskHeldHandler DEF Next, vars

-----------------------------------------------------------------------------
(* The Orchestrator side                                                   *)

LEMMA OrchHeldHandler ==
  ASSUME TypeInv, OrchHeld, NEW w \in OrchWorker, OrchHandler(w)
  PROVE  OrchHeld'
<1>0. /\ ow \in [OrchWorker -> OrchTask]
      /\ \A i \in DOMAIN results : results[i] \in ResultMessage
      /\ \A v \in OrchWorker : ow[v].pc # "idle" => ow[v].msg \in DOMAIN results
      /\ \A v \in OrchWorker : ow[v].live => ow[v].msg \in DOMAIN results
  BY DEF TypeInv, TypeOK, OrchHeld
<1>1. ASSUME NEW i \in DOMAIN results, OrchDeliver(w, i) PROVE OrchHeld'
  <2>1. results[i].st = "ready" /\ ~ow[w].live
    BY <1>1 DEF OrchDeliver, IsHead, OrchHeld
  <2>2. /\ DOMAIN results' = DOMAIN results
        /\ results'[i].st = "unacked"
        /\ \A j \in DOMAIN results : j # i => results'[j] = results[j]
    BY <1>0, <1>1 DEF OrchDeliver, ResultMessage
  <2>3. /\ ow'[w].live /\ ow'[w].msg = i /\ ow'[w].pc # "idle"
        /\ \A v \in OrchWorker : v # w => ow'[v] = ow[v]
    BY <1>0, <1>1 DEF OrchDeliver
  <2>4. \A v \in OrchWorker : ~(ow[v].live /\ ow[v].msg = i)
    BY <2>1 DEF OrchHeld
  <2> QED BY <2>1, <2>2, <2>3, <2>4 DEF OrchHeld
<1>2. CASE \/ OrchQuery(w) \/ OrchInsert(w) \/ OrchDbFails(w) \/ OrchPublish(w)
           \/ OrchPublishSkipped(w) \/ OrchPublishRaises(w)
  <2>1. /\ \A v \in OrchWorker : v # w => ow'[v] = ow[v]
        /\ ow'[w].live = ow[w].live /\ ow'[w].msg = ow[w].msg /\ ow'[w].pc # "idle"
        /\ UNCHANGED results
    BY <1>0, <1>2 DEF OrchTask, OrchQuery, OrchInsert, OrchDbFails, OrchPublish, OrchPublishAs,
       OrchPublishSkipped, OrchPublishRaises
  <2> QED BY <2>1 DEF OrchHeld
<1>3. CASE OrchSettle(w)
  <2>1. /\ ~ow'[w].live
        /\ \A v \in OrchWorker : v # w => ow'[v] = ow[v]
    BY <1>0, <1>3 DEF OrchSettle, OrchSettleTo, IdleOrch
  <2>2. CASE ow[w].live
    <3>1. /\ DOMAIN results' = DOMAIN results
          /\ results'[ow[w].msg].st # "unacked"
          /\ \A j \in DOMAIN results : j # ow[w].msg => results'[j] = results[j]
      BY <1>0, <1>3, <2>2 DEF OrchSettle, OrchSettleTo, ResultMessage
    <3> QED BY <2>1, <2>2, <3>1 DEF OrchHeld
  <2>3. CASE ~ow[w].live
    <3>1. UNCHANGED results
      BY <1>3, <2>3 DEF OrchSettle, OrchSettleTo
    <3> QED BY <2>1, <2>3, <3>1 DEF OrchHeld
  <2> QED BY <2>2, <2>3
<1> QED BY <1>1, <1>2, <1>3 DEF OrchHandler

LEMMA OrchHeldChannelGone ==
  ASSUME TypeInv, OrchHeld, NEW p \in OrchProc, results' = ResultsRequeued(p),
         \A w \in OrchWorker : IF w[1] = p
                               THEN ~ow'[w].live
                               ELSE ow'[w] = ow[w]
  PROVE  OrchHeld'
<1>0. \A i \in DOMAIN results : results[i] \in ResultMessage
  BY DEF TypeInv, TypeOK
<1>1. /\ DOMAIN results' = DOMAIN results
      /\ \A i \in DOMAIN results :
           results'[i].st = IF HeldByOrch(p, i) THEN "ready" ELSE results[i].st
  BY <1>0 DEF ResultsRequeued, ResultMessage
<1>2. \A i \in DOMAIN results :
        HeldByOrch(p, i) <=> \E w \in OrchWorker : w[1] = p /\ ow[w].live /\ ow[w].msg = i
  <2>1. \A w \in OrchWorker : w[1] = p => w[2] \in OrchSlot /\ w = <<p, w[2]>>
    BY DEF OrchWorker
  <2>2. \A s \in OrchSlot : <<p, s>> \in OrchWorker /\ <<p, s>>[1] = p
    BY DEF OrchWorker
  <2> TAKE i \in DOMAIN results
  <2>3. ASSUME HeldByOrch(p, i)
        PROVE  \E w \in OrchWorker : w[1] = p /\ ow[w].live /\ ow[w].msg = i
    BY <2>2, <2>3 DEF HeldByOrch
  <2>4. ASSUME NEW w \in OrchWorker, w[1] = p, ow[w].live, ow[w].msg = i
        PROVE  HeldByOrch(p, i)
    <3>1. w[2] \in OrchSlot /\ ow[<<p, w[2]>>] = ow[w]
      BY <2>1, <2>4
    <3> QED BY <2>4, <3>1 DEF HeldByOrch
  <2> QED BY <2>3, <2>4
<1>3. \A w \in OrchWorker : ow'[w].live => ow[w].live /\ ow'[w] = ow[w] /\ w[1] # p
  OBVIOUS
<1>4. \A w \in OrchWorker : ow[w].live /\ w[1] # p => ow'[w] = ow[w]
  OBVIOUS
<1>5. ASSUME NEW i \in DOMAIN results
      PROVE  results'[i].st = "unacked" <=> \E w \in OrchWorker : ow'[w].live /\ ow'[w].msg = i
  <2>1. CASE HeldByOrch(p, i)
    <3>1. PICK v \in OrchWorker : v[1] = p /\ ow[v].live /\ ow[v].msg = i
      BY <1>2, <2>1
    <3>2. \A w \in OrchWorker : ow[w].live /\ ow[w].msg = i => w = v
      BY <3>1 DEF OrchHeld
    <3> QED BY <1>1, <1>3, <2>1, <3>1, <3>2
  <2>2. CASE ~HeldByOrch(p, i)
    <3>1. results'[i].st = results[i].st
      BY <1>1, <2>2
    <3>2. \A w \in OrchWorker : ow[w].live /\ ow[w].msg = i => w[1] # p
      BY <1>2, <2>2
    <3> QED BY <1>3, <1>4, <3>1, <3>2 DEF OrchHeld
  <2> QED BY <2>1, <2>2
<1>6. /\ \A w \in OrchWorker : ow'[w].live => ow'[w].pc # "idle"
      /\ \A v, w \in OrchWorker : ow'[v].live /\ ow'[w].live /\ ow'[v].msg = ow'[w].msg => v = w
  BY <1>3 DEF OrchHeld
<1> QED BY <1>1, <1>5, <1>6 DEF OrchHeld

LEMMA OrchHeldStep == TypeInv /\ OrchHeld /\ [Next]_vars => OrchHeld'
<1> SUFFICES ASSUME TypeInv, OrchHeld, [Next]_vars PROVE OrchHeld'
  OBVIOUS
<1>0. ow \in [OrchWorker -> OrchTask]
  BY DEF TypeInv, TypeOK
<1>1. CASE UNCHANGED <<results, ow>>
  BY <1>1 DEF OrchHeld
<1>2. ASSUME NEW w \in RiskWorker, RiskPublish(w) \/ RiskPublishRaises(w) PROVE OrchHeld'
  <2>1. /\ rw[w].pc = "publish"
        /\ results' \in {results, Append(results, ResultOf(w))}
        /\ UNCHANGED ow
    BY <1>2 DEF RiskPublish, RiskPublishAs, RiskPublishRaises, RiskPublishRaisesAs, orchVars
  <2>2. CASE results' = results
    BY <1>1, <2>1, <2>2
  <2>3. CASE results' = Append(results, ResultOf(w))
    <3>1. /\ rw[w].msg \in DOMAIN events /\ events[rw[w].msg] \in EventMessage
          /\ results \in Seq(ResultMessage)
      BY <2>1 DEF TypeInv, TypeOK
    <3>2. ResultOf(w) \in ResultMessage /\ ResultOf(w).st = "ready"
      BY <2>1, <3>1
      DEF TypeInv, TypeOK, ResultOf, ResultMessage, ResultStatus, EventMessage
    <3>3. /\ DOMAIN results' = DOMAIN results \union {Len(results) + 1}
          /\ \A i \in DOMAIN results : results'[i] = results[i]
          /\ results'[Len(results) + 1].st = "ready"
          /\ Len(results) + 1 \notin DOMAIN results
      BY <2>3, <3>1, <3>2, Appended
    <3>4. \A v \in OrchWorker : ow[v].live => ow[v].msg \in DOMAIN results
      BY DEF OrchHeld, TypeInv, TypeOK
    <3> QED BY <2>1, <3>3, <3>4 DEF OrchHeld
  <2> QED BY <2>1, <2>2, <2>3
<1>3. ASSUME NEW w \in RiskWorker, RiskHandler(w), ~RiskPublish(w), ~RiskPublishRaises(w)
      PROVE  UNCHANGED <<results, ow>>
  BY <1>3 DEF RiskHandler, RiskDeliver, RiskEvaluate, RiskEvaluateFails, RiskPublishSkipped,
              RiskSettle, orchVars
<1>4. ASSUME NEW p \in OrchProc, OrchConsumerLost(p) \/ OrchCrash(p) PROVE OrchHeld'
  <2>1. results' = ResultsRequeued(p)
    BY <1>4 DEF OrchConsumerLost, OrchCrash
  <2>2. \A w \in OrchWorker : IF w[1] = p THEN ~ow'[w].live ELSE ow'[w] = ow[w]
    BY <1>0, <1>4 DEF OrchConsumerLost, OrchCrash, IdleOrch, OrchTask
  <2> QED BY <2>1, <2>2, OrchHeldChannelGone
<1>5. ASSUME NEW p \in OrchProc, OrchPublisherLost(p) \/ OrchStart(p)
      PROVE  UNCHANGED <<results, ow>>
  BY <1>5 DEF OrchPublisherLost, OrchStart
<1>6. ASSUME NEW p \in RiskProc, RiskProcess(p) PROVE UNCHANGED <<results, ow>>
  BY <1>6
  DEF RiskProcess, RiskConnLost, RiskCrash, LoopBroker, LoopPublisher, LoopPublisherFails,
      LoopConsumer, LoopConsumerFails, orchVars
<1>7. ASSUME NEW e \in Event, Submit(e) PROVE UNCHANGED <<results, ow>>
  BY <1>7 DEF Submit, orchVars
<1> QED BY <1>1, <1>2, <1>3, <1>4, <1>5, <1>6, <1>7, OrchHeldHandler DEF Next, OrchProcess, vars
=============================================================================
