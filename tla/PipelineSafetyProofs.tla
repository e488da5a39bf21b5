------------------------ MODULE PipelineSafetyProofs ------------------------
(* The safety properties of Pipeline, for any number of events, processes,   *)
(* handlers and faults.  First what every step keeps (Grow), then what a step *)
(* can do to a handler's task and to a message's status; with these, each    *)
(* invariant has only the few actions to consider that could disturb it.     *)
EXTENDS PipelineProofs, FiniteSetTheorems

\* Queues only grow, audit rows stay, actions are not taken back.
Grow ==
  /\ DOMAIN events \subseteq DOMAIN events'
  /\ \A i \in DOMAIN events : events'[i].ev = events[i].ev
  /\ DOMAIN results \subseteq DOMAIN results'
  /\ \A i \in DOMAIN results : results'[i].ev = results[i].ev /\ results'[i].dec = results[i].dec
  /\ skippedResults \subseteq skippedResults'
  /\ skippedActions \subseteq skippedActions'
  /\ \A e \in Event : audit[e] # NoDecision => audit'[e] = audit[e]
  /\ \A a \in Event \X Decision : actions[a] > 0 => actions'[a] > 0

LEMMA GrowRisk ==
  ASSUME TypeInv, NEW w \in RiskWorker, RiskHandler(w)
  PROVE  Grow
<1>1. rw[w].pc # "idle" => rw[w].msg \in DOMAIN events
  BY DEF TypeInv, TypeOK
<1>2. CASE \/ \E i \in DOMAIN events : RiskDeliver(w, i)
           \/ RiskSettle(w)
  <2>1. /\ DOMAIN events' = DOMAIN events
        /\ \A i \in DOMAIN events : events'[i].ev = events[i].ev
    <3>1. EventSettled(rw[w].how) \in EventStatus /\ "unacked" \in EventStatus
      BY DEF EventSettled, EventStatus
    <3> QED BY <1>1, <1>2, <3>1, EventStatusChanged DEF RiskDeliver, RiskSettle
  <2> QED BY <1>2, <2>1 DEF RiskDeliver, RiskSettle, orchVars, Grow
<1>3. CASE RiskEvaluate(w) \/ RiskEvaluateFails(w) \/ RiskPublishSkipped(w)
  BY <1>3 DEF RiskEvaluate, RiskEvaluateFails, RiskPublishSkipped, orchVars, Grow
<1>4. CASE RiskPublish(w) \/ RiskPublishRaises(w)
  <2>1. rw[w].pc = "publish"
    BY <1>4 DEF RiskPublish, RiskPublishAs, RiskPublishRaises, RiskPublishRaisesAs
  <2>2. rw[w].msg \in DOMAIN events /\ events[rw[w].msg] \in EventMessage
    BY <1>1, <2>1 DEF TypeInv, TypeOK
  <2>3. ResultOf(w) \in ResultMessage
    BY <2>1, <2>2
    DEF TypeInv, TypeOK, ResultOf, ResultMessage, ResultStatus, EventMessage
  <2>4. results' \in {results, Append(results, ResultOf(w))}
    BY <1>4 DEF RiskPublish, RiskPublishAs, RiskPublishRaises, RiskPublishRaisesAs
  <2>5. /\ DOMAIN results \subseteq DOMAIN results'
        /\ \A i \in DOMAIN results : results'[i] = results[i]
    <3>1. results \in Seq(ResultMessage)
      BY DEF TypeInv, TypeOK
    <3>2. /\ DOMAIN results \subseteq DOMAIN Append(results, ResultOf(w))
          /\ \A i \in DOMAIN results : Append(results, ResultOf(w))[i] = results[i]
      BY <2>3, <3>1, Appended
    <3> QED BY <2>4, <3>2
  <2> QED BY <1>4, <2>5 DEF RiskPublish, RiskPublishAs, RiskPublishRaises, RiskPublishRaisesAs,
          orchVars, Grow
<1> QED BY <1>2, <1>3, <1>4 DEF RiskHandler

LEMMA GrowOrch ==
  ASSUME TypeInv, NEW w \in OrchWorker, OrchHandler(w)
  PROVE  Grow
<1>1. /\ ow[w].pc # "idle" => ow[w].msg \in DOMAIN results
      /\ actions \in [Event \X Decision -> Nat]
      /\ audit \in [Event -> Decision \union {NoDecision}]
  BY DEF TypeInv, TypeOK
<1>2. CASE \/ \E i \in DOMAIN results : OrchDeliver(w, i)
           \/ OrchSettle(w)
  <2>1. /\ DOMAIN results' = DOMAIN results
        /\ \A i \in DOMAIN results : results'[i].ev = results[i].ev /\ results'[i].dec = results[i].dec
    BY <1>1, <1>2, ResultStatusChanged DEF OrchDeliver, OrchSettle, OrchSettleTo, ResultStatus
  <2> QED BY <1>2, <2>1 DEF OrchDeliver, OrchSettle, OrchSettleTo, riskVars, Grow
<1>3. CASE OrchQuery(w) \/ OrchDbFails(w) \/ OrchPublishSkipped(w)
  BY <1>3 DEF OrchQuery, OrchDbFails, OrchPublishSkipped, riskVars, Grow
<1>4. CASE OrchInsert(w)
  <2>1. \A e \in Event : audit[e] # NoDecision => audit'[e] = audit[e]
    BY <1>1, <1>4 DEF OrchInsert
  <2> QED BY <1>4, <2>1 DEF OrchInsert, riskVars, Grow
<1>5. CASE OrchPublish(w) \/ OrchPublishRaises(w)
  <2>1. \/ actions' = actions
        \/ actions' = [actions EXCEPT ![ActionOf(w)] = @ + 1]
    BY <1>5 DEF OrchPublish, OrchPublishAs, OrchPublishRaises
  <2>2. \A a \in Event \X Decision : actions[a] > 0 => actions'[a] > 0
    BY <1>1, <2>1
  <2> QED BY <1>5, <2>2 DEF OrchPublish, OrchPublishAs, OrchPublishRaises, riskVars, Grow
<1> QED BY <1>2, <1>3, <1>4, <1>5 DEF OrchHandler

LEMMA GrowStep == TypeInv /\ [Next]_vars => Grow
<1> SUFFICES ASSUME TypeInv, [Next]_vars PROVE Grow
  OBVIOUS
<1>1. CASE UNCHANGED vars
  BY <1>1 DEF vars, Grow
<1>2. ASSUME NEW e \in Event, Submit(e) PROVE Grow
  <2>1. [ev |-> e, st |-> "ready"] \in EventMessage
    BY DEF EventMessage, EventStatus
  <2>2. /\ DOMAIN events \subseteq DOMAIN events'
        /\ \A i \in DOMAIN events : events'[i] = events[i]
    BY <1>2, <2>1, Appended DEF Submit, TypeInv, TypeOK
  <2> QED BY <1>2, <2>2 DEF Submit, orchVars, Grow
<1>3. ASSUME NEW p \in RiskProc, RiskProcess(p) PROVE Grow
  <2>1. CASE RiskConnLost(p) \/ RiskCrash(p)
    BY <2>1, EventsRequeuedType DEF RiskConnLost, RiskCrash, orchVars, Grow
  <2>2. CASE ~(RiskConnLost(p) \/ RiskCrash(p))
    BY <1>3, <2>2 DEF RiskProcess, LoopBroker, LoopPublisher, LoopPublisherFails, LoopConsumer,
                      LoopConsumerFails, orchVars, Grow
  <2> QED BY <2>1, <2>2
<1>4. ASSUME NEW p \in OrchProc, OrchProcess(p) PROVE Grow
  <2>1. CASE OrchConsumerLost(p) \/ OrchCrash(p)
    BY <2>1, ResultsRequeuedType DEF OrchConsumerLost, OrchCrash, riskVars, Grow
  <2>2. CASE OrchPublisherLost(p) \/ OrchStart(p)
    BY <2>2 DEF OrchPublisherLost, OrchStart, riskVars, Grow
  <2> QED BY <1>4, <2>1, <2>2 DEF OrchProcess
<1> QED BY <1>1, <1>2, <1>3, <1>4, GrowRisk, GrowOrch DEF Next

(* The audit row of an event is written once and never changes: the insert   *)
(* commits only where no row is, whatever the query saw before.              *)
THEOREM AuditRowFinal == Spec => AuditWriteOnce
<1>1. TypeInv /\ [Next]_vars =>
        [\A e \in Event : audit[e] # NoDecision => audit'[e] = audit[e]]_audit
  BY GrowStep DEF Grow
<1> QED BY <1>1, TypeInit, TypeStep, PTL DEF Spec, AuditWriteOnce

-----------------------------------------------------------------------------
(* What a step does to one handler and to one message                      *)

LEMMA RiskTaskStep ==
  ASSUME TypeInv, [Next]_vars, NEW w \in RiskWorker
  PROVE  \/ /\ rw'[w].pc = rw[w].pc /\ rw'[w].msg = rw[w].msg
            /\ rw'[w].how = rw[w].how
         \/ rw'[w].pc = "idle"
         \/ RiskHandler(w)
<1>0. rw \in [RiskWorker -> RiskTask]
  BY DEF TypeInv, TypeOK
<1>1. CASE UNCHANGED rw
  BY <1>1
<1>2. ASSUME NEW v \in RiskWorker, v # w, RiskHandler(v) PROVE rw'[w] = rw[w]
  BY <1>0, <1>2
  DEF RiskHandler, RiskDeliver, RiskEvaluate, RiskEvaluateFails, RiskPublish, RiskPublishAs,
      RiskPublishSkipped, RiskPublishRaises, RiskPublishRaisesAs, RiskSettle
<1>3. ASSUME NEW p \in RiskProc, RiskConnLost(p)
      PROVE  rw'[w].pc = rw[w].pc /\ rw'[w].msg = rw[w].msg /\ rw'[w].how = rw[w].how
  BY <1>0, <1>3 DEF RiskConnLost, RiskOrphaned, RiskTask
<1>4. ASSUME NEW p \in RiskProc, RiskCrash(p) PROVE rw'[w] = rw[w] \/ rw'[w].pc = "idle"
  BY <1>4 DEF RiskCrash, IdleRisk
<1>5. ASSUME NEW p \in RiskProc, RiskProcess(p), ~RiskConnLost(p), ~RiskCrash(p)
      PROVE  UNCHANGED rw
  BY <1>5 DEF RiskProcess, LoopBroker, LoopPublisher, LoopPublisherFails, LoopConsumer,
              LoopConsumerFails
<1>6. ASSUME NEW e \in Event, Submit(e) PROVE UNCHANGED rw
  BY <1>6 DEF Submit
<1>7. ASSUME NEW v \in OrchWorker, OrchHandler(v) PROVE UNCHANGED rw
  BY <1>7
  DEF OrchHandler, OrchDeliver, OrchQuery, OrchInsert, OrchDbFails, OrchPublish, OrchPublishAs,
      OrchPublishSkipped, OrchPublishRaises, OrchSettle, OrchSettleTo, riskVars
<1>8. ASSUME NEW p \in OrchProc, OrchProcess(p) PROVE UNCHANGED rw
  BY <1>8 DEF OrchProcess, OrchConsumerLost, OrchPublisherLost, OrchCrash, OrchStart, riskVars
<1> QED BY <1>1, <1>2, <1>3, <1>4, <1>5, <1>6, <1>7, <1>8 DEF Next, vars

LEMMA OrchTaskStep ==
  ASSUME TypeInv, [Next]_vars, NEW w \in OrchWorker
  PROVE  \/ /\ ow'[w].pc = ow[w].pc /\ ow'[w].msg = ow[w].msg
            /\ ow'[w].how = ow[w].how
         \/ ow'[w].pc = "idle"
         \/ OrchHandler(w)
<1>0. ow \in [OrchWorker -> OrchTask]
  BY DEF TypeInv, TypeOK
<1>1. CASE UNCHANGED ow
  BY <1>1
<1>2. ASSUME NEW v \in OrchWorker, v # w, OrchHandler(v) PROVE ow'[w] = ow[w]
  BY <1>0, <1>2
  DEF OrchHandler, OrchDeliver, OrchQuery, OrchInsert, OrchDbFails, OrchPublish, OrchPublishAs,
      OrchPublishSkipped, OrchPublishRaises, OrchSettle, OrchSettleTo
<1>3. ASSUME NEW p \in OrchProc, OrchConsumerLost(p)
      PROVE  ow'[w].pc = ow[w].pc /\ ow'[w].msg = ow[w].msg /\ ow'[w].how = ow[w].how
  BY <1>0, <1>3 DEF OrchConsumerLost, OrchTask
<1>4. ASSUME NEW p \in OrchProc, OrchCrash(p) PROVE ow'[w] = ow[w] \/ ow'[w].pc = "idle"
  BY <1>4 DEF OrchCrash, IdleOrch
<1>5. ASSUME NEW p \in OrchProc, OrchPublisherLost(p) \/ OrchStart(p) PROVE UNCHANGED ow
  BY <1>5 DEF OrchPublisherLost, OrchStart
<1>6. ASSUME NEW e \in Event, Submit(e) PROVE UNCHANGED ow
  BY <1>6 DEF Submit, orchVars
<1>7. ASSUME NEW v \in RiskWorker, RiskHandler(v) PROVE UNCHANGED ow
  BY <1>7
  DEF RiskHandler, RiskDeliver, RiskEvaluate, RiskEvaluateFails, RiskPublish, RiskPublishAs,
      RiskPublishSkipped, RiskPublishRaises, RiskPublishRaisesAs, RiskSettle, orchVars
<1>8. ASSUME NEW p \in RiskProc, RiskProcess(p) PROVE UNCHANGED ow
  BY <1>8
  DEF RiskProcess, RiskConnLost, RiskCrash, LoopBroker, LoopPublisher, LoopPublisherFails,
      LoopConsumer, LoopConsumerFails, orchVars
<1> QED BY <1>1, <1>2, <1>3, <1>4, <1>5, <1>6, <1>7, <1>8 DEF Next, OrchProcess, vars

\* Only a handler that settles with an ack makes a message acked.
LEMMA EventAcked ==
  ASSUME TypeInv, [Next]_vars, NEW i \in DOMAIN events', events'[i].st = "acked"
  PROVE  /\ i \in DOMAIN events
         /\ \/ events[i].st = "acked"
            \/ \E w \in RiskWorker : rw[w].pc = "settle" /\ rw[w].how = "ack" /\ rw[w].msg = i
<1>0. /\ events \in Seq(EventMessage)
      /\ \A j \in DOMAIN events : events[j] \in EventMessage
  BY DEF TypeInv, TypeOK
<1>1. CASE UNCHANGED events
  BY <1>1
<1>2. ASSUME NEW e \in Event, Submit(e)
      PROVE  i \in DOMAIN events /\ events[i].st = "acked"
  <2>1. [ev |-> e, st |-> "ready"] \in EventMessage
    BY DEF EventMessage, EventStatus
  <2>2. \/ i \in DOMAIN events /\ events'[i] = events[i]
        \/ events'[i] = [ev |-> e, st |-> "ready"]
    BY <1>0, <1>2, <2>1, Appended DEF Submit
  <2> QED BY <2>2
<1>3. ASSUME NEW w \in RiskWorker, NEW j \in DOMAIN events, RiskDeliver(w, j)
      PROVE  i \in DOMAIN events /\ events[i].st = "acked"
  BY <1>0, <1>3 DEF RiskDeliver, EventMessage
<1>4. ASSUME NEW w \in RiskWorker, RiskSettle(w)
      PROVE  /\ i \in DOMAIN events
             /\ \/ events[i].st = "acked"
                \/ rw[w].pc = "settle" /\ rw[w].how = "ack" /\ rw[w].msg = i
  <2>1. CASE events' = events
    BY <1>4, <2>1 DEF RiskSettle
  <2>2. CASE events' = [events EXCEPT ![rw[w].msg].st = EventSettled(rw[w].how)]
    <3>1. DOMAIN events' = DOMAIN events
      BY <2>2
    <3>2. i # rw[w].msg => events'[i] = events[i]
      BY <2>2, <3>1
    <3>3. i = rw[w].msg => events'[i].st = EventSettled(rw[w].how)
      BY <1>0, <2>2, <3>1 DEF EventMessage
    <3>4. rw[w].how # "ack" => EventSettled(rw[w].how) # "acked"
      BY DEF EventSettled
    <3> QED BY <1>4, <3>1, <3>2, <3>3, <3>4 DEF RiskSettle
  <2> QED BY <1>4, <2>1, <2>2 DEF RiskSettle
<1>5. ASSUME NEW w \in RiskWorker, RiskHandler(w), ~RiskSettle(w),
             ~\E j \in DOMAIN events : RiskDeliver(w, j)
      PROVE  UNCHANGED events
  BY <1>5 DEF RiskHandler, RiskEvaluate, RiskEvaluateFails, RiskPublish, RiskPublishAs,
      RiskPublishSkipped,         RiskPublishRaises, RiskPublishRaisesAs
<1>6. ASSUME NEW p \in RiskProc, RiskConnLost(p) \/ RiskCrash(p)
      PROVE  i \in DOMAIN events /\ events[i].st = "acked"
  <2>1. events' = EventsRequeued(p)
    BY <1>6 DEF RiskConnLost, RiskCrash
  <2> QED BY <1>0, <2>1 DEF EventsRequeued, EventMessage
<1>7. ASSUME NEW p \in RiskProc, RiskProcess(p), ~RiskConnLost(p), ~RiskCrash(p)
      PROVE  UNCHANGED events
  BY <1>7 DEF RiskProcess, LoopBroker, LoopPublisher, LoopPublisherFails, LoopConsumer,
              LoopConsumerFails
<1>8. ASSUME NEW v \in OrchWorker, OrchHandler(v) PROVE UNCHANGED events
  BY <1>8
  DEF OrchHandler, OrchDeliver, OrchQuery, OrchInsert, OrchDbFails, OrchPublish, OrchPublishAs,
      OrchPublishSkipped, OrchPublishRaises, OrchSettle, OrchSettleTo, riskVars
<1>9. ASSUME NEW p \in OrchProc, OrchProcess(p) PROVE UNCHANGED events
  BY <1>9 DEF OrchProcess, OrchConsumerLost, OrchPublisherLost, OrchCrash, OrchStart, riskVars
<1> QED BY <1>1, <1>2, <1>3, <1>4, <1>5, <1>6, <1>7, <1>8, <1>9 DEF Next, vars

LEMMA ResultAcked ==
  ASSUME TypeInv, [Next]_vars, NEW i \in DOMAIN results', results'[i].st = "acked"
  PROVE  /\ i \in DOMAIN results
         /\ \/ results[i].st = "acked"
            \/ \E w \in OrchWorker : ow[w].pc = "settle" /\ ow[w].how = "ack" /\ ow[w].msg = i
<1>0. /\ results \in Seq(ResultMessage)
      /\ \A j \in DOMAIN results : results[j] \in ResultMessage
      /\ \A w \in RiskWorker : rw[w].pc # "idle" =>
           rw[w].msg \in DOMAIN events /\ events[rw[w].msg] \in EventMessage
  BY DEF TypeInv, TypeOK
<1>1. CASE UNCHANGED results
  BY <1>1
<1>2. ASSUME NEW w \in RiskWorker, RiskPublish(w) \/ RiskPublishRaises(w)
      PROVE  i \in DOMAIN results /\ results[i].st = "acked"
  <2>1. rw[w].pc = "publish" /\ results' \in {results, Append(results, ResultOf(w))}
    BY <1>2 DEF RiskPublish, RiskPublishAs, RiskPublishRaises, RiskPublishRaisesAs
  <2>2. ResultOf(w) \in ResultMessage /\ ResultOf(w).st = "ready"
    BY <1>0, <2>1
    DEF TypeInv, TypeOK, ResultOf, ResultMessage, ResultStatus, EventMessage
  <2>3. /\ DOMAIN Append(results, ResultOf(w)) = DOMAIN results \union {Len(results) + 1}
        /\ \A j \in DOMAIN results : Append(results, ResultOf(w))[j] = results[j]
        /\ Append(results, ResultOf(w))[Len(results) + 1] = ResultOf(w)
    BY <1>0, <2>2, Appended
  <2> QED BY <2>1, <2>2, <2>3
<1>3. ASSUME NEW w \in OrchWorker, NEW j \in DOMAIN results, OrchDeliver(w, j)
      PROVE  i \in DOMAIN results /\ results[i].st = "acked"
  BY <1>0, <1>3 DEF OrchDeliver, ResultMessage
<1>4. ASSUME NEW w \in OrchWorker, OrchSettle(w)
      PROVE  /\ i \in DOMAIN results
             /\ \/ results[i].st = "acked"
                \/ ow[w].pc = "settle" /\ ow[w].how = "ack" /\ ow[w].msg = i
  <2> DEFINE status == IF ow[w].how = "ack" THEN "acked" ELSE "ready"
  <2>1. CASE results' = results
    BY <1>4, <2>1 DEF OrchSettle, OrchSettleTo
  <2>2. CASE results' = [results EXCEPT ![ow[w].msg].st = status]
    <3>1. DOMAIN results' = DOMAIN results
      BY <2>2
    <3>2. i # ow[w].msg => results'[i] = results[i]
      BY <2>2, <3>1
    <3>3. i = ow[w].msg => results'[i].st = status
      BY <1>0, <2>2, <3>1 DEF ResultMessage
    <3> QED BY <1>4, <3>1, <3>2, <3>3 DEF OrchSettle, OrchSettleTo
  <2> QED BY <1>4, <2>1, <2>2 DEF OrchSettle, OrchSettleTo
<1>5. ASSUME NEW w \in OrchWorker, OrchHandler(w), ~OrchSettle(w),
             ~\E j \in DOMAIN results : OrchDeliver(w, j)
      PROVE  UNCHANGED results
  BY <1>5 DEF OrchHandler, OrchQuery, OrchInsert, OrchDbFails, OrchPublish, OrchPublishAs,
              OrchPublishSkipped, OrchPublishRaises
<1>6. ASSUME NEW p \in OrchProc, OrchConsumerLost(p) \/ OrchCrash(p)
      PROVE  i \in DOMAIN results /\ results[i].st = "acked"
  <2>1. results' = ResultsRequeued(p)
    BY <1>6 DEF OrchConsumerLost, OrchCrash
  <2> QED BY <1>0, <2>1 DEF ResultsRequeued, ResultMessage
<1>7. ASSUME NEW p \in OrchProc, OrchPublisherLost(p) \/ OrchStart(p) PROVE UNCHANGED results
  BY <1>7 DEF OrchPublisherLost, OrchStart
<1>8. ASSUME NEW w \in RiskWorker, RiskHandler(w), ~RiskPublish(w), ~RiskPublishRaises(w)
      PROVE  UNCHANGED results
  BY <1>8 DEF RiskHandler, RiskDeliver, RiskEvaluate, RiskEvaluateFails, RiskPublishSkipped,
              RiskSettle
<1>9. ASSUME NEW p \in RiskProc, RiskProcess(p) PROVE UNCHANGED results
  BY <1>9 DEF RiskProcess, RiskConnLost, RiskCrash, LoopBroker, LoopPublisher,
              LoopPublisherFails, LoopConsumer, LoopConsumerFails
<1>10. ASSUME NEW e \in Event, Submit(e) PROVE UNCHANGED results
  BY <1>10 DEF Submit
<1> QED BY <1>1, <1>2, <1>3, <1>4, <1>5, <1>6, <1>7, <1>8, <1>9, <1>10 DEF Next, OrchProcess, vars

-----------------------------------------------------------------------------
(* An acked event is accounted for                                         *)

Accounted(i) ==
  i \in skippedResults \/ \E r \in DOMAIN results : results[r].ev = events[i].ev

\* A handler about to ack a scored event has published its result, or skipped it.
AckingAccounted ==
  \A w \in RiskWorker :
    rw[w].pc = "settle" /\ rw[w].how = "ack" /\ Kind[events[rw[w].msg].ev] = "scored" =>
      Accounted(rw[w].msg)

RiskInv == AckingAccounted /\ AckedEventAccountedFor

LEMMA RiskInvInit == Init => RiskInv
  BY DEF Init, RiskInv, AckingAccounted, AckedEventAccountedFor, IdleRisk

\* What is accounted for stays so.
LEMMA AccountedStays ==
  ASSUME TypeInv, Grow, NEW i \in DOMAIN events, Accounted(i)
  PROVE  Accounted(i)'
  BY DEF Grow, Accounted

LEMMA RiskInvStep == TypeInv /\ RiskInv /\ [Next]_vars => RiskInv'
<1> SUFFICES ASSUME TypeInv, RiskInv, [Next]_vars PROVE RiskInv'
  OBVIOUS
<1>0. Grow /\ TypeInv'
  BY GrowStep, TypeStep
<1>1. ASSUME NEW w \in RiskWorker, NEW i, i = rw'[w].msg,
             rw'[w].pc = "settle", rw'[w].how = "ack", Kind[events'[i].ev] = "scored"
      PROVE  Accounted(i)'
  <2>0. /\ rw \in [RiskWorker -> RiskTask]
        /\ rw[w].pc # "idle" => rw[w].msg \in DOMAIN events
        /\ \A j \in DOMAIN events : events'[j].ev = events[j].ev
    BY <1>0 DEF TypeInv, TypeOK, Grow
  <2>1. CASE rw'[w].pc = rw[w].pc /\ rw'[w].msg = rw[w].msg /\ rw'[w].how = rw[w].how
    <3>1. i \in DOMAIN events /\ Accounted(i)
      BY <1>1, <2>0, <2>1 DEF RiskInv, AckingAccounted
    <3> QED BY <1>0, <3>1, AccountedStays
  <2>2. CASE RiskPublishSkipped(w)
    <3>1. rw'[w].msg = rw[w].msg
      BY <2>0, <2>2 DEF RiskPublishSkipped, RiskTask
    <3> QED BY <1>1, <2>2, <3>1 DEF RiskPublishSkipped, Accounted
  <2>3. CASE RiskPublish(w)
    <3>1. i \in DOMAIN events /\ i = rw[w].msg /\ rw[w].pc = "publish"
      BY <1>1, <2>0, <2>3 DEF RiskPublish, RiskPublishAs, RiskTask
    <3>2. events[i] \in EventMessage /\ results \in Seq(ResultMessage)
      BY <3>1 DEF TypeInv, TypeOK
    <3>3. ResultOf(w) \in ResultMessage /\ ResultOf(w).ev = events[i].ev
      BY <3>1, <3>2
      DEF TypeInv, TypeOK, ResultOf, ResultMessage, ResultStatus, EventMessage
    <3>4. results' = Append(results, ResultOf(w))
      BY <2>3 DEF RiskPublish, RiskPublishAs
    <3>5. \E r \in DOMAIN results' : results'[r] = ResultOf(w)
      BY <3>2, <3>3, <3>4, Appended
    <3> QED BY <2>0, <3>1, <3>3, <3>5 DEF Accounted
  <2>4. ASSUME NEW j \in DOMAIN events, RiskDeliver(w, j) PROVE FALSE
    <3>1. rw'[w] = AfterParse(events[j].ev, j)
      BY <2>0, <2>4 DEF RiskDeliver
    <3>2. AfterParse(events[j].ev, j).msg = j
      <4>1. events[j] \in EventMessage
        BY DEF TypeInv, TypeOK
      <4>2. Kind[events[j].ev] \in Kinds
        BY <4>1, PipelineAssumption DEF EventMessage
      <4> QED BY <4>2 DEF AfterParse, IdleRisk, Kinds
    <3>3. Kind[events[j].ev] = "scored" => AfterParse(events[j].ev, j).pc = "evaluate"
      BY DEF AfterParse, IdleRisk
    <3> QED BY <1>1, <2>0, <2>4, <3>1, <3>2, <3>3
  <2>5. CASE \/ RiskEvaluate(w) \/ RiskEvaluateFails(w)
             \/ RiskPublishRaises(w) \/ RiskSettle(w)
    BY <1>1, <2>0, <2>5 DEF RiskEvaluate, RiskEvaluateFails, RiskPublishRaises,
       RiskPublishRaisesAs, RiskSettle, IdleRisk, RiskTask
  <2> QED BY <1>1, <2>1, <2>2, <2>3, <2>4, <2>5, RiskTaskStep DEF RiskHandler
<1>2. ASSUME NEW i \in DOMAIN events', events'[i].st = "acked", Kind[events'[i].ev] = "scored"
      PROVE  Accounted(i)'
  <2>1. i \in DOMAIN events /\ events'[i].ev = events[i].ev
    BY <1>0, <1>2, EventAcked DEF Grow
  <2>2. Accounted(i)
    BY <1>2, <2>1, EventAcked DEF RiskInv, AckingAccounted, AckedEventAccountedFor, Accounted
  <2> QED BY <1>0, <2>1, <2>2 DEF Grow, Accounted
<1> QED BY <1>1, <1>2 DEF RiskInv, AckingAccounted, AckedEventAccountedFor, Accounted

(* The Risk service never loses a scored event: once its message is acked,   *)
(* the result is in the queue or was skipped for want of a channel.          *)
THEOREM NoScoredEventLost == Spec => []AckedEventAccountedFor
<1>1. RiskInv => AckedEventAccountedFor
  BY DEF RiskInv
<1> QED BY <1>1, TypeInit, TypeStep, RiskInvInit, RiskInvStep, PTL DEF Spec

-----------------------------------------------------------------------------
(* Audit before action, action after audit                                 *)

\* The result was acted on, or skipped for want of a channel.
Done(i) ==
  Acted(results[i].ev) \/ \E j \in skippedActions : results[j].ev = results[i].ev

\* A handler about to publish works on an audited event.
PublishesAudited ==
  \A w \in OrchWorker : ow[w].pc = "publish" => audit[ResultAt(w).ev] # NoDecision

AuditHasResult ==
  \A e \in Event : audit[e] # NoDecision => \E r \in DOMAIN results : results[r].ev = e

AckingDone == \A w \in OrchWorker : ow[w].pc = "settle" /\ ow[w].how = "ack" => Done(ow[w].msg)

AckedDone == \A i \in DOMAIN results : results[i].st = "acked" => Done(i)

OrchInv == PublishesAudited /\ ActionOnlyAfterAudit /\ AuditHasResult /\ AckingDone /\ AckedDone

LEMMA OrchInvInit == Init => OrchInv
<1> SUFFICES ASSUME Init PROVE OrchInv
  OBVIOUS
<1>1. \A e \in Event : audit[e] = NoDecision
  BY DEF Init
<1>2. \A e \in Event, d \in Decision : ~(actions[<<e, d>>] > 0)
  BY DEF Init
<1>3. PublishesAudited /\ AckingDone
  BY DEF Init, IdleOrch, PublishesAudited, AckingDone
<1>4. AckedDone
  BY DEF Init, AckedDone
<1>5. ActionOnlyAfterAudit
  BY <1>2 DEF ActionOnlyAfterAudit, Acted
<1>6. AuditHasResult
  BY <1>1 DEF AuditHasResult
<1> QED BY <1>3, <1>4, <1>5, <1>6 DEF OrchInv

LEMMA DoneStays ==
  ASSUME TypeInv, Grow, NEW i \in DOMAIN results, Done(i)
  PROVE  Done(i)'
<1>0. \A j \in DOMAIN results : results[j] \in ResultMessage
  BY DEF TypeInv, TypeOK
<1>1. \A j \in DOMAIN results : results'[j].ev = results[j].ev /\ results[j].ev \in Event
  BY <1>0 DEF Grow, ResultMessage
<1>2. skippedActions \subseteq DOMAIN results
  BY DEF TypeInv, TypeOK
<1>3. Acted(results[i].ev) => Acted(results[i].ev)'
  BY <1>1 DEF Grow, Acted
<1> QED BY <1>1, <1>2, <1>3 DEF Grow, Done, Acted

\* Only an insert writes the audit table, only a publish the actions queue.
LEMMA AuditStep ==
  ASSUME TypeInv, [Next]_vars, audit' # audit
  PROVE  \E w \in OrchWorker :
           /\ OrchInsert(w)
           /\ ow[w].pc = "insert"
           /\ audit' = [audit EXCEPT ![ResultAt(w).ev] = ResultAt(w).dec]
<1>1. ~UNCHANGED vars
  BY DEF vars
<1>2. ASSUME NEW e \in Event, Submit(e) PROVE FALSE
  BY <1>2 DEF Submit, orchVars
<1>3. ASSUME NEW w \in RiskWorker, RiskHandler(w) PROVE FALSE
  BY <1>3
  DEF RiskHandler, RiskDeliver, RiskEvaluate, RiskEvaluateFails, RiskPublish, RiskPublishAs,
      RiskPublishSkipped, RiskPublishRaises, RiskPublishRaisesAs, RiskSettle, orchVars
<1>4. ASSUME NEW p \in RiskProc, RiskProcess(p) PROVE FALSE
  BY <1>4
  DEF RiskProcess, RiskConnLost, RiskCrash, LoopBroker, LoopPublisher, LoopPublisherFails,
      LoopConsumer, LoopConsumerFails, orchVars
<1>5. ASSUME NEW w \in OrchWorker, OrchHandler(w) PROVE OrchInsert(w)
  BY <1>5
  DEF OrchHandler, OrchDeliver, OrchQuery, OrchDbFails, OrchPublish, OrchPublishAs,
      OrchPublishSkipped, OrchPublishRaises, OrchSettle, OrchSettleTo
<1>6. ASSUME NEW p \in OrchProc, OrchProcess(p) PROVE FALSE
  BY <1>6 DEF OrchProcess, OrchConsumerLost, OrchPublisherLost, OrchCrash, OrchStart
<1>7. \E w \in OrchWorker : OrchInsert(w)
  BY <1>1, <1>2, <1>3, <1>4, <1>5, <1>6 DEF Next
<1> QED BY <1>7 DEF OrchInsert

LEMMA ActionsStep ==
  ASSUME TypeInv, [Next]_vars, actions' # actions
  PROVE  \E w \in OrchWorker :
           /\ ow[w].pc = "publish"
           /\ actions' = [actions EXCEPT ![ActionOf(w)] = @ + 1]
           /\ UNCHANGED <<audit, events, results>>
<1>1. ~UNCHANGED vars
  BY DEF vars
<1>2. ASSUME NEW e \in Event, Submit(e) PROVE FALSE
  BY <1>2 DEF Submit, orchVars
<1>3. ASSUME NEW w \in RiskWorker, RiskHandler(w) PROVE FALSE
  BY <1>3
  DEF RiskHandler, RiskDeliver, RiskEvaluate, RiskEvaluateFails, RiskPublish, RiskPublishAs,
      RiskPublishSkipped, RiskPublishRaises, RiskPublishRaisesAs, RiskSettle, orchVars
<1>4. ASSUME NEW p \in RiskProc, RiskProcess(p) PROVE FALSE
  BY <1>4
  DEF RiskProcess, RiskConnLost, RiskCrash, LoopBroker, LoopPublisher, LoopPublisherFails,
      LoopConsumer, LoopConsumerFails, orchVars
<1>5. ASSUME NEW w \in OrchWorker, OrchHandler(w) PROVE OrchPublish(w) \/ OrchPublishRaises(w)
  BY <1>5
  DEF OrchHandler, OrchDeliver, OrchQuery, OrchDbFails, OrchInsert, OrchPublishSkipped,
      OrchSettle, OrchSettleTo
<1>6. ASSUME NEW p \in OrchProc, OrchProcess(p) PROVE FALSE
  BY <1>6 DEF OrchProcess, OrchConsumerLost, OrchPublisherLost, OrchCrash, OrchStart
<1>7. \E w \in OrchWorker : OrchPublish(w) \/ OrchPublishRaises(w)
  BY <1>1, <1>2, <1>3, <1>4, <1>5, <1>6 DEF Next
<1> QED BY <1>7 DEF OrchPublish, OrchPublishAs, OrchPublishRaises, riskVars

LEMMA OrchInvStep == TypeInv /\ OrchInv /\ [Next]_vars => OrchInv'
<1> SUFFICES ASSUME TypeInv, OrchInv, [Next]_vars PROVE OrchInv'
  OBVIOUS
<1>0. Grow /\ TypeInv'
  BY GrowStep, TypeStep
<1>t. /\ ow \in [OrchWorker -> OrchTask]
      /\ audit \in [Event -> Decision \union {NoDecision}]
      /\ actions \in [Event \X Decision -> Nat]
      /\ NoDecision \notin Decision
      /\ \A i \in DOMAIN results : results[i].ev \in Event /\ results[i].dec \in Decision
      /\ \A w \in OrchWorker : ow[w].pc # "idle" => ow[w].msg \in DOMAIN results
  <2>1. \A i \in DOMAIN results : results[i] \in ResultMessage
    BY DEF TypeInv, TypeOK
  <2>2. \A i \in DOMAIN results : results[i].ev \in Event /\ results[i].dec \in Decision
    BY <2>1 DEF ResultMessage
  <2> QED BY <2>2, PipelineAssumption DEF TypeInv, TypeOK
<1>1. ASSUME NEW w \in OrchWorker, NEW i, i = ow'[w].msg, ow'[w].pc = "publish"
      PROVE  audit'[results'[i].ev] # NoDecision
  <2>1. CASE ow'[w].pc = ow[w].pc /\ ow'[w].msg = ow[w].msg
    BY <1>0, <1>1, <1>t, <2>1 DEF OrchInv, PublishesAudited, ResultAt, Grow
  <2>2. CASE OrchQuery(w)
    BY <1>1, <1>t, <2>2 DEF OrchQuery, ResultAt, OrchTask
  <2>3. CASE OrchInsert(w)
    BY <1>1, <1>t, <2>3 DEF OrchInsert, ResultAt, OrchTask
  <2>4. CASE /\ OrchHandler(w)
             /\ ~OrchQuery(w) /\ ~OrchInsert(w)
    BY <1>1, <1>t, <2>4
    DEF OrchHandler, OrchDeliver, OrchDbFails, OrchPublish, OrchPublishAs, OrchPublishSkipped,
        OrchPublishRaises, OrchSettle, OrchSettleTo, IdleOrch, OrchTask
  <2> QED BY <1>1, <2>1, <2>2, <2>3, <2>4, OrchTaskStep
<1>2. ActionOnlyAfterAudit'
  <2> SUFFICES ASSUME NEW e \in Event, Acted(e)' PROVE audit'[e] # NoDecision
    BY DEF ActionOnlyAfterAudit
  <2>1. CASE actions' = actions
    BY <1>0, <2>1 DEF OrchInv, ActionOnlyAfterAudit, Acted, Grow
  <2>2. CASE actions' # actions
    <3>1. PICK w \in OrchWorker : /\ ow[w].pc = "publish"
                                  /\ actions' = [actions EXCEPT ![ActionOf(w)] = @ + 1]
                                  /\ UNCHANGED <<audit, events, results>>
      BY <2>2, ActionsStep
    <3>2. CASE e = ResultAt(w).ev
      BY <3>1, <3>2 DEF OrchInv, PublishesAudited
    <3>3. CASE e # ResultAt(w).ev
      <4>1. \A d \in Decision : actions'[<<e, d>>] = actions[<<e, d>>]
        BY <1>t, <3>1, <3>3 DEF ActionOf, ResultAt
      <4> QED BY <3>1, <4>1 DEF OrchInv, ActionOnlyAfterAudit, Acted
    <3> QED BY <3>2, <3>3
  <2> QED BY <2>1, <2>2
<1>3. AuditHasResult'
  <2> SUFFICES ASSUME NEW e \in Event, audit'[e] # NoDecision
               PROVE  \E r \in DOMAIN results' : results'[r].ev = e
    BY DEF AuditHasResult
  <2>1. \E r \in DOMAIN results : results[r].ev = e
    BY <1>t, AuditStep DEF OrchInv, AuditHasResult, ResultAt
  <2> QED BY <1>0, <2>1 DEF Grow
<1>4. ASSUME NEW w \in OrchWorker, NEW i, i = ow'[w].msg,
             ow'[w].pc = "settle", ow'[w].how = "ack"
      PROVE  Done(i)'
  <2>1. CASE ow'[w].pc = ow[w].pc /\ ow'[w].msg = ow[w].msg /\ ow'[w].how = ow[w].how
    <3>1. i \in DOMAIN results /\ Done(i)
      BY <1>4, <1>t, <2>1 DEF OrchInv, AckingDone
    <3> QED BY <1>0, <3>1, DoneStays
  <2>2. CASE OrchPublish(w)
    <3>1. /\ i = ow[w].msg /\ i \in DOMAIN results /\ results' = results
          /\ actions' = [actions EXCEPT ![<<results[i].ev, results[i].dec>>] = @ + 1]
      BY <1>4, <1>t, <2>2 DEF OrchPublish, OrchPublishAs, ActionOf, ResultAt, OrchTask
    <3>2. actions'[<<results[i].ev, results[i].dec>>] > 0
      BY <1>t, <3>1
    <3> QED BY <1>t, <3>1, <3>2 DEF Done, Acted
  <2>3. CASE OrchPublishSkipped(w)
    BY <1>4, <1>t, <2>3 DEF OrchPublishSkipped, Done, OrchTask
  <2>4. CASE /\ OrchHandler(w)
             /\ ~OrchPublish(w) /\ ~OrchPublishSkipped(w)
    BY <1>4, <1>t, <2>4
    DEF OrchHandler, OrchDeliver, OrchQuery, OrchInsert, OrchDbFails, OrchPublishRaises,
        OrchSettle, OrchSettleTo, IdleOrch, OrchTask
  <2> QED BY <1>4, <2>1, <2>2, <2>3, <2>4, OrchTaskStep
<1>5. ASSUME NEW i \in DOMAIN results', results'[i].st = "acked" PROVE Done(i)'
  <2>1. i \in DOMAIN results /\ Done(i)
    BY <1>5, ResultAcked DEF OrchInv, AckingDone, AckedDone
  <2> QED BY <1>0, <2>1, DoneStays
<1>6. PublishesAudited' /\ AckingDone' /\ AckedDone'
  BY <1>1, <1>4, <1>5 DEF PublishesAudited, ResultAt, AckingDone, AckedDone, Done
<1> QED BY <1>2, <1>3, <1>6 DEF OrchInv

(* The platform is told to act only on a decision of record: the audit row   *)
(* is committed before any action of the event is published.                 *)
THEOREM AuditBeforeAction == Spec => []ActionOnlyAfterAudit
<1>1. OrchInv => ActionOnlyAfterAudit
  BY DEF OrchInv
<1> QED BY <1>1, TypeInit, TypeStep, OrchInvInit, OrchInvStep, PTL DEF Spec

(* No action is lost between the commit and the publish: an audited event    *)
(* was acted on, has a result to deliver still, or was skipped.              *)
THEOREM AuditedActionKept == Spec => []AuditedEventActed
<1>1. TypeInv /\ OrchInv => AuditedEventActed
  BY DEF OrchInv, AuditHasResult, AckedDone, Done, AuditedEventActed, ResultPending
<1> QED BY <1>1, TypeInit, TypeStep, OrchInvInit, OrchInvStep, PTL DEF Spec

-----------------------------------------------------------------------------
\* The pipeline implements the ledger: under the refinement mapping every step is one step of
\* EventLedger or changes nothing it speaks of.

\* The mapping of Pipeline!Ledger.
Submitted == {events[i].ev : i \in DOMAIN events}
Decided   == {<<results[i].ev, results[i].dec>> : i \in DOMAIN results}
ActedOn   == {a \in Event \X Decision : actions[a] > 0}

LEMMA LedgerInit == Init => Ledger!Init
  BY DEF Init, Ledger!Init

\* A step that adds no message, row or action is a stutter of the ledger.
LEMMA LedgerStutter ==
  ASSUME Grow, DOMAIN events' = DOMAIN events, DOMAIN results' = DOMAIN results,
         UNCHANGED <<audit, actions>>
  PROVE  UNCHANGED Ledger!vars
<1>1. Submitted' = Submitted
  BY DEF Grow, Submitted
<1>2. Decided' = Decided
  BY DEF Grow, Decided
<1> QED BY <1>1, <1>2 DEF Ledger!vars, Submitted, Decided

LEMMA LedgerSubmit ==
  ASSUME TypeInv, NEW e \in Event, Submit(e)
  PROVE  Ledger!Next
<1>1. [ev |-> e, st |-> "ready"] \in EventMessage /\ events \in Seq(EventMessage)
  BY DEF EventMessage, EventStatus, TypeInv, TypeOK
<1>2. /\ DOMAIN events' = DOMAIN events \union {Len(events) + 1}
      /\ \A i \in DOMAIN events : events'[i] = events[i]
      /\ events'[Len(events) + 1].ev = e
  BY <1>1, Appended DEF Submit
<1>3. Submitted' = Submitted \union {e}
  BY <1>2 DEF Submitted
<1>4. Ledger!Submit(e)
  BY <1>3 DEF Ledger!Submit, Submit, Submitted, orchVars
<1> QED BY <1>4 DEF Ledger!Next

\* Publishing a result is taking a decision, though the handler may see it fail.
LEMMA LedgerDecide ==
  ASSUME TypeInv, NEW w \in RiskWorker, RiskPublish(w) \/ RiskPublishRaises(w)
  PROVE  [Ledger!Next]_Ledger!vars
<1>1. /\ rw[w].pc = "publish"
      /\ results' \in {results, Append(results, ResultOf(w))}
      /\ UNCHANGED <<events, audit, actions>>
  BY DEF RiskPublish, RiskPublishAs, RiskPublishRaises, RiskPublishRaisesAs, orchVars
<1>2. CASE results' = results
  BY <1>1, <1>2 DEF Ledger!vars
<1>3. CASE results' = Append(results, ResultOf(w))
  <2>1. /\ rw[w].msg \in DOMAIN events /\ events[rw[w].msg] \in EventMessage
        /\ rw[w].dec \in Decision /\ Kind[events[rw[w].msg].ev] = "scored"
        /\ results \in Seq(ResultMessage)
    BY <1>1 DEF TypeInv, TypeOK, PublishesScored
  <2>2. PICK e \in Event, d \in Decision : e = events[rw[w].msg].ev /\ d = rw[w].dec
    BY <2>1 DEF EventMessage
  <2>3. ResultOf(w) \in ResultMessage /\ ResultOf(w).ev = e /\ ResultOf(w).dec = d
    BY <2>1, <2>2 DEF ResultOf, ResultMessage, ResultStatus
  <2>4. /\ DOMAIN results' = DOMAIN results \union {Len(results) + 1}
        /\ \A i \in DOMAIN results : results'[i] = results[i]
        /\ results'[Len(results) + 1] = ResultOf(w)
    BY <1>3, <2>1, <2>3, Appended
  <2>5. Decided' = Decided \union {<<e, d>>}
    BY <2>3, <2>4 DEF Decided
  <2>6. e \in Submitted \intersect {x \in Event : Kind[x] = "scored"}
    BY <2>1, <2>2 DEF Submitted
  <2>7. Ledger!Decide(e, d)
    BY <1>1, <2>5, <2>6 DEF Ledger!Decide, Submitted, Decided
  <2> QED BY <2>7 DEF Ledger!Next
<1> QED BY <1>1, <1>2, <1>3

LEMMA LedgerRecord ==
  ASSUME TypeInv, NEW w \in OrchWorker, OrchInsert(w)
  PROVE  [Ledger!Next]_Ledger!vars
<1>1. UNCHANGED <<events, results, actions>>
  BY DEF OrchInsert, riskVars
<1>2. CASE audit' = audit
  BY <1>1, <1>2 DEF Ledger!vars
<1>3. CASE audit' # audit
  <2>1. ow[w].msg \in DOMAIN results /\ results[ow[w].msg] \in ResultMessage
    <3>1. ow[w].pc = "insert"
      BY DEF OrchInsert
    <3> QED BY <3>1 DEF TypeInv, TypeOK
  <2>2. PICK e \in Event, d \in Decision :
          e = ResultAt(w).ev /\ d = ResultAt(w).dec /\ <<e, d>> \in Decided
    BY <2>1 DEF ResultMessage, ResultAt, Decided
  <2>3. audit[e] = NoDecision /\ audit' = [audit EXCEPT ![e] = d]
    BY <1>3, <2>2 DEF OrchInsert
  <2>4. Ledger!Record(e, d)
    BY <1>1, <2>2, <2>3 DEF Ledger!Record, Decided
  <2> QED BY <2>4 DEF Ledger!Next
<1> QED BY <1>2, <1>3

LEMMA LedgerAct ==
  ASSUME TypeInv, OrchInv, NEW w \in OrchWorker, OrchPublish(w) \/ OrchPublishRaises(w)
  PROVE  [Ledger!Next]_Ledger!vars
<1>1. /\ ow[w].pc = "publish"
      /\ actions' \in {actions, [actions EXCEPT ![ActionOf(w)] = @ + 1]}
      /\ UNCHANGED <<events, results, audit>>
  BY DEF OrchPublish, OrchPublishAs, OrchPublishRaises, riskVars
<1>2. CASE actions' = actions
  BY <1>1, <1>2 DEF Ledger!vars
<1>3. CASE actions' = [actions EXCEPT ![ActionOf(w)] = @ + 1]
  <2>1. ow[w].msg \in DOMAIN results /\ results[ow[w].msg] \in ResultMessage
    BY <1>1 DEF TypeInv, TypeOK
  <2>2. PICK e \in Event, d \in Decision :
          e = ResultAt(w).ev /\ d = ResultAt(w).dec /\ <<e, d>> \in Decided
    BY <2>1 DEF ResultMessage, ResultAt, Decided
  <2>3. audit[e] # NoDecision
    BY <1>1, <2>2 DEF OrchInv, PublishesAudited
  <2>4. actions \in [Event \X Decision -> Nat] /\ actions' = [actions EXCEPT ![<<e, d>>] = @ + 1]
    BY <1>3, <2>2 DEF TypeInv, TypeOK, ActionOf
  <2>5. ActedOn' = ActedOn \union {<<e, d>>}
    BY <2>2, <2>4 DEF ActedOn
  <2>6. Ledger!Act(e, d)
    BY <1>1, <2>2, <2>3, <2>5 DEF Ledger!Act, ActedOn, Decided
  <2> QED BY <2>6 DEF Ledger!Next
<1> QED BY <1>1, <1>2, <1>3

LEMMA LedgerStep == TypeInv /\ OrchInv /\ [Next]_vars => [Ledger!Next]_Ledger!vars
<1> SUFFICES ASSUME TypeInv, OrchInv, [Next]_vars PROVE [Ledger!Next]_Ledger!vars
  OBVIOUS
<1>0. Grow
  BY GrowStep
<1> DEFINE Quiet == /\ DOMAIN events' = DOMAIN events /\ DOMAIN results' = DOMAIN results
                    /\ UNCHANGED <<audit, actions>>
<1>1. CASE UNCHANGED vars
  BY <1>1 DEF vars, Ledger!vars
<1>2. ASSUME NEW w \in RiskWorker, RiskHandler(w), ~RiskPublish(w), ~RiskPublishRaises(w)
      PROVE  Quiet
  BY <1>2
  DEF RiskHandler, RiskDeliver, RiskEvaluate, RiskEvaluateFails, RiskPublishSkipped, RiskSettle, orchVars
<1>3. ASSUME NEW p \in RiskProc, RiskProcess(p) PROVE Quiet
  BY <1>3, EventsRequeuedType
  DEF RiskProcess, RiskConnLost, RiskCrash, LoopBroker, LoopPublisher, LoopPublisherFails,
      LoopConsumer, LoopConsumerFails, orchVars
<1>4. ASSUME NEW w \in OrchWorker, OrchHandler(w), ~OrchInsert(w), ~OrchPublish(w),
             ~OrchPublishRaises(w)
      PROVE  Quiet
  BY <1>4
  DEF OrchHandler, OrchDeliver, OrchQuery, OrchDbFails, OrchPublishSkipped, OrchSettle,
      OrchSettleTo, riskVars
<1>5. ASSUME NEW p \in OrchProc, OrchProcess(p) PROVE Quiet
  BY <1>5, ResultsRequeuedType
  DEF OrchProcess, OrchConsumerLost, OrchPublisherLost, OrchCrash, OrchStart, riskVars
<1> HIDE DEF Quiet
<1>6. Quiet => UNCHANGED Ledger!vars
  BY <1>0, LedgerStutter DEF Quiet
<1> QED BY <1>1, <1>2, <1>3, <1>4, <1>5, <1>6, LedgerSubmit, LedgerDecide, LedgerRecord, LedgerAct
        DEF Next

(* The pipeline implements the ledger: decisions come of submitted scored    *)
(* events, the first one recorded stays, and actions carry decisions that    *)
(* were taken, on events that are recorded.                                  *)
THEOREM PipelineImplementsLedger == Spec => LedgerSpec
<1> QED BY LedgerInit, LedgerStep, TypeInit, TypeStep, OrchInvInit, OrchInvStep, PTL
        DEF Spec, LedgerSpec, Ledger!Spec

-----------------------------------------------------------------------------
(* Exactly once without faults.  As long as nothing failed, every busy handler holds its      *)
(* message, so what is done with a message stays done: to every result of an event its own    *)
(* copy of the event can be assigned, one that is acked or about to be; and to every action   *)
(* of the event its own result, acked or about to be.                                         *)

LEMMA InjectionInto ==
  ASSUME NEW S, NEW T, NEW U, T \subseteq U, NEW f \in Injection(S, T)
  PROVE  f \in Injection(S, U)
  BY DEF Injection, IsInjective

LEMMA InjectionExtended ==
  ASSUME NEW S, NEW T, NEW f \in Injection(S, T), NEW x, x \notin S, NEW y, y \notin T
  PROVE  \E g : g \in Injection(S \union {x}, T \union {y})
<1> DEFINE g == [s \in S \union {x} |-> IF s = x THEN y ELSE f[s]]
<1>1. f \in [S -> T] /\ \A a, b \in S : f[a] = f[b] => a = b
  BY DEF Injection, IsInjective
<1>2. g \in [S \union {x} -> T \union {y}]
  BY <1>1
<1>3. ASSUME NEW a \in S \union {x}, NEW b \in S \union {x}, g[a] = g[b]
      PROVE  a = b
  BY <1>1, <1>3
<1>4. g \in Injection(S \union {x}, T \union {y})
  BY <1>2, <1>3 DEF Injection, IsInjective
<1> QED BY <1>4

\* The message is settled for good, or its handler is about to do so.
EventDone(i) ==
  \/ events[i].st = "acked"
  \/ \E w \in RiskWorker :
       rw[w].live /\ rw[w].msg = i /\ rw[w].pc = "settle" /\ rw[w].how = "ack"

ResultDone(i) ==
  \/ results[i].st = "acked"
  \/ \E w \in OrchWorker :
       ow[w].live /\ ow[w].msg = i /\ ow[w].pc = "settle" /\ ow[w].how = "ack"

DoneCopies(e)  == {i \in DOMAIN events : events[i].ev = e /\ EventDone(i)}
DoneResults(e) == {i \in DOMAIN results : results[i].ev = e /\ ResultDone(i)}

\* Without a fault no handler lost its message.
NoneOrphaned ==
  /\ \A w \in RiskWorker : rw[w].pc # "idle" => rw[w].live
  /\ \A w \in OrchWorker : ow[w].pc # "idle" => ow[w].live

OnceInv ==
  faults = 0 =>
    /\ NoneOrphaned
    /\ \A e \in Event : /\ \E f : f \in Injection(ResultsFor(e), DoneCopies(e))
                        /\ \E f : f \in Injection(ActionsFor(e), DoneResults(e))

LEMMA OnceInit == Init => OnceInv
<1> SUFFICES ASSUME Init PROVE OnceInv
  OBVIOUS
<1>1. NoneOrphaned
  BY DEF Init, NoneOrphaned, IdleRisk, IdleOrch
<1>2. ASSUME NEW e \in Event PROVE ResultsFor(e) = {} /\ ActionsFor(e) = {}
  <2>1. \A d \in Decision : actions[<<e, d>>] = 0
    BY DEF Init
  <2>2. 1..0 = {}
    OBVIOUS
  <2>3. ActionsFor(e) = UNION {{d} \X {} : d \in Decision}
    BY <2>1, <2>2 DEF ActionsFor
  <2> QED BY <2>3 DEF Init, ResultsFor
<1>3. ASSUME NEW T PROVE \E f : f \in Injection({}, T)
  <2> DEFINE g == [s \in {} |-> s]
  <2>1. g \in Injection({}, T)
    BY DEF Injection, IsInjective
  <2> QED BY <2>1
<1> QED BY <1>1, <1>2, <1>3 DEF OnceInv

\* Without a fault only these steps change a handler or a message.
NoFaultStep ==
  \/ UNCHANGED <<events, rw, results, ow, actions>>
  \/ \E e \in Event : Submit(e)
  \/ \E w \in RiskWorker : RiskHandler(w) /\ ~RiskPublishRaises(w)
  \/ \E w \in OrchWorker : OrchHandler(w) /\ ~OrchPublishRaises(w)

LEMMA NoFault ==
  ASSUME TypeInv, [Next]_vars, faults' = 0
  PROVE  faults = 0 /\ NoFaultStep
<1>0. faults \in Nat
  BY DEF TypeInv, TypeOK
<1>1. CASE UNCHANGED vars
  BY <1>1 DEF vars, NoFaultStep
<1>2. ASSUME NEW e \in Event, Submit(e) PROVE faults = 0 /\ NoFaultStep
  BY <1>2 DEF Submit, NoFaultStep
<1>3. ASSUME NEW w \in RiskWorker, RiskHandler(w) PROVE faults = 0 /\ NoFaultStep
  <2>1. ~RiskPublishRaises(w)
    BY <1>0 DEF RiskPublishRaises, RiskPublishRaisesAs
  <2>2. faults = 0
    BY <1>3, <2>1 DEF RiskHandler, RiskDeliver, RiskEvaluate, RiskEvaluateFails, RiskPublish,
       RiskPublishAs, RiskPublishSkipped, RiskSettle
  <2> QED BY <1>3, <2>1, <2>2 DEF NoFaultStep
<1>4. ASSUME NEW w \in OrchWorker, OrchHandler(w) PROVE faults = 0 /\ NoFaultStep
  <2>1. ~OrchPublishRaises(w)
    BY <1>0 DEF OrchPublishRaises
  <2>2. faults = 0
    BY <1>4, <2>1 DEF OrchHandler, OrchDeliver, OrchQuery, OrchInsert, OrchDbFails, OrchPublish,
       OrchPublishAs, OrchPublishSkipped, OrchSettle, OrchSettleTo
  <2> QED BY <1>4, <2>1, <2>2 DEF NoFaultStep
<1>5. ASSUME NEW p \in RiskProc, RiskProcess(p) PROVE faults = 0 /\ NoFaultStep
  <2>1. ~RiskConnLost(p) /\ ~RiskCrash(p)
    BY <1>0 DEF RiskConnLost, RiskCrash
  <2> QED BY <1>5, <2>1 DEF RiskProcess, LoopBroker, LoopPublisher, LoopPublisherFails,
          LoopConsumer, LoopConsumerFails, orchVars, NoFaultStep
<1>6. ASSUME NEW p \in OrchProc, OrchProcess(p) PROVE faults = 0 /\ NoFaultStep
  <2>1. ~OrchConsumerLost(p) /\ ~OrchPublisherLost(p) /\ ~OrchCrash(p)
    BY <1>0 DEF OrchConsumerLost, OrchPublisherLost, OrchCrash
  <2> QED BY <1>6, <2>1 DEF OrchProcess, OrchStart, riskVars, NoFaultStep
<1> QED BY <1>1, <1>2, <1>3, <1>4, <1>5, <1>6 DEF Next

-----------------------------------------------------------------------------
(* The Risk side                                                           *)

\* What is done with an event stays done, and a handler that was busy or is now holds its message.
LEMMA EventDoneStays ==
  ASSUME TypeInv, RiskHeld, NoFaultStep, \A w \in RiskWorker : rw[w].pc # "idle" => rw[w].live
  PROVE  /\ \A i \in DOMAIN events : EventDone(i) => EventDone(i)'
         /\ \A w \in RiskWorker : rw'[w].pc # "idle" => rw'[w].live
<1>0. /\ rw \in [RiskWorker -> RiskTask]
      /\ \A i \in DOMAIN events : events[i] \in EventMessage
      /\ \A v \in RiskWorker : rw[v].pc # "idle" => rw[v].msg \in DOMAIN events
  BY DEF TypeInv, TypeOK
<1>1. CASE UNCHANGED <<events, rw>>
  BY <1>1 DEF EventDone
<1>2. ASSUME NEW e \in Event, Submit(e)
      PROVE  /\ \A i \in DOMAIN events : EventDone(i) => EventDone(i)'
             /\ UNCHANGED rw
  <2>1. [ev |-> e, st |-> "ready"] \in EventMessage /\ events \in Seq(EventMessage)
    BY DEF EventMessage, EventStatus, TypeInv, TypeOK
  <2>2. \A i \in DOMAIN events : events'[i] = events[i]
    BY <1>2, <2>1, Appended DEF Submit
  <2> QED BY <1>2, <2>2 DEF Submit, EventDone
<1>3. ASSUME NEW w \in RiskWorker, NEW i \in DOMAIN events, RiskDeliver(w, i)
      PROVE  /\ \A j \in DOMAIN events : EventDone(j) => EventDone(j)'
             /\ \A v \in RiskWorker : rw'[v].pc # "idle" => rw'[v].live
  <2>1. events[i].st = "ready" /\ ~rw[w].live
    BY <1>3 DEF RiskDeliver, IsHead, RiskHeld
  <2>2. /\ \A j \in DOMAIN events : j # i => events'[j] = events[j]
        /\ \A v \in RiskWorker : v # w => rw'[v] = rw[v]
        /\ rw'[w] = AfterParse(events[i].ev, i)
    BY <1>0, <1>3 DEF RiskDeliver
  <2>3. ~EventDone(i)
    BY <2>1 DEF EventDone, RiskHeld
  <2>4. Kind[events[i].ev] \in Kinds
    BY <1>0, PipelineAssumption DEF EventMessage
  <2>5. rw'[w].live
    BY <2>2, <2>4 DEF AfterParse, IdleRisk, Kinds
  <2>6. \A j \in DOMAIN events : EventDone(j) => EventDone(j)'
    BY <2>1, <2>2, <2>3 DEF EventDone
  <2> QED BY <2>2, <2>5, <2>6
<1>4. ASSUME NEW w \in RiskWorker,
             \/ RiskEvaluate(w) \/ RiskEvaluateFails(w) \/ RiskPublish(w) \/ RiskPublishSkipped(w)
      PROVE  /\ \A j \in DOMAIN events : EventDone(j) => EventDone(j)'
             /\ \A v \in RiskWorker : rw'[v].pc # "idle" => rw'[v].live
  <2>1. /\ UNCHANGED events /\ rw[w].pc \in {"evaluate", "publish"}
        /\ \A v \in RiskWorker : v # w => rw'[v] = rw[v]
        /\ rw'[w].live = rw[w].live
    BY <1>0, <1>4 DEF RiskTask, RiskEvaluate, RiskEvaluateFails, RiskPublish,
       RiskPublishAs, RiskPublishSkipped
  <2> QED BY <2>1 DEF EventDone
<1>5. ASSUME NEW w \in RiskWorker, RiskSettle(w)
      PROVE  /\ \A j \in DOMAIN events : EventDone(j) => EventDone(j)'
             /\ \A v \in RiskWorker : rw'[v].pc # "idle" => rw'[v].live
  <2>1. /\ rw'[w].pc = "idle" /\ rw[w].live /\ rw[w].pc = "settle"
        /\ \A v \in RiskWorker : v # w => rw'[v] = rw[v]
        /\ events' = [events EXCEPT ![rw[w].msg].st = EventSettled(rw[w].how)]
    BY <1>0, <1>5 DEF RiskSettle, IdleRisk
  <2>2. /\ rw[w].msg \in DOMAIN events
        /\ events'[rw[w].msg].st = EventSettled(rw[w].how)
        /\ \A j \in DOMAIN events : j # rw[w].msg => events'[j] = events[j]
    BY <1>0, <2>1 DEF EventMessage
  <2>3. ASSUME EventDone(rw[w].msg) PROVE rw[w].how = "ack"
    <3>1. events[rw[w].msg].st = "unacked"
      BY <2>1, <2>2 DEF RiskHeld
    <3> QED BY <2>1, <2>3, <3>1 DEF EventDone, RiskHeld
  <2>4. EventSettled("ack") = "acked"
    BY DEF EventSettled
  <2>5. \A j \in DOMAIN events : EventDone(j) => EventDone(j)'
    BY <2>1, <2>2, <2>3, <2>4 DEF EventDone
  <2> QED BY <2>1, <2>5
<1>6. ASSUME NEW w \in OrchWorker, OrchHandler(w) PROVE UNCHANGED <<events, rw>>
  BY <1>6
  DEF OrchHandler, OrchDeliver, OrchQuery, OrchInsert, OrchDbFails, OrchPublish, OrchPublishAs,
      OrchPublishSkipped, OrchPublishRaises, OrchSettle, OrchSettleTo, riskVars
<1> QED BY <1>1, <1>2, <1>3, <1>4, <1>5, <1>6 DEF NoFaultStep, RiskHandler

\* A result is published by a handler that then acks: one more result, one more event done.
LEMMA ResultPublished ==
  ASSUME TypeInv, RiskHeld, \A w \in RiskWorker : rw[w].pc # "idle" => rw[w].live,
         NEW w \in RiskWorker, RiskPublish(w), NEW e \in Event
  PROVE  \/ ResultsFor(e)' = ResultsFor(e)
         \/ \E x, y : /\ x \notin ResultsFor(e) /\ ResultsFor(e)' = ResultsFor(e) \union {x}
                      /\ y \notin DoneCopies(e) /\ y \in DoneCopies(e)'
<1>0. /\ rw \in [RiskWorker -> RiskTask]
      /\ rw[w].pc = "publish" /\ rw[w].live
      /\ rw[w].msg \in DOMAIN events /\ events[rw[w].msg] \in EventMessage
      /\ results \in Seq(ResultMessage)
  <2>1. rw[w].pc = "publish"
    BY DEF RiskPublish, RiskPublishAs
  <2> QED BY <2>1 DEF TypeInv, TypeOK
<1>1. ResultOf(w) \in ResultMessage
  BY <1>0 DEF TypeInv, TypeOK, ResultOf, ResultMessage, ResultStatus, EventMessage
<1> DEFINE x == Len(results) + 1
           y == rw[w].msg
<1>2. /\ DOMAIN results' = DOMAIN results \union {x}
      /\ \A i \in DOMAIN results : results'[i] = results[i]
      /\ results'[x].ev = events[y].ev
      /\ x \notin DOMAIN results
  BY <1>0, <1>1, Appended DEF RiskPublish, RiskPublishAs, ResultOf
<1>3. CASE events[y].ev # e
  BY <1>2, <1>3 DEF ResultsFor
<1>4. CASE events[y].ev = e
  <2>1. x \notin ResultsFor(e) /\ ResultsFor(e)' = ResultsFor(e) \union {x}
    BY <1>2, <1>4 DEF ResultsFor
  <2>2. ~EventDone(y)
    <3>1. events[y].st = "unacked"
      BY <1>0 DEF RiskHeld
    <3>2. \A v \in RiskWorker : rw[v].live /\ rw[v].msg = y => rw[v].pc = "publish"
      BY <1>0 DEF RiskHeld
    <3> QED BY <3>1, <3>2 DEF EventDone
  <2>3. EventDone(y)'
    <3>1. rw'[w].live /\ rw'[w].msg = y /\ rw'[w].pc = "settle" /\ rw'[w].how = "ack"
      BY <1>0 DEF RiskPublish, RiskPublishAs, RiskTask
    <3> QED BY <3>1 DEF EventDone
  <2>4. y \in DoneCopies(e)' /\ y \notin DoneCopies(e)
    BY <1>0, <1>4, <2>2, <2>3 DEF RiskPublish, RiskPublishAs, DoneCopies
  <2> QED BY <2>1, <2>4
<1> QED BY <1>3, <1>4

LEMMA ResultsAssigned ==
  ASSUME TypeInv, RiskHeld, NoneOrphaned, Grow, NoFaultStep, NEW e \in Event,
         \E f : f \in Injection(ResultsFor(e), DoneCopies(e))
  PROVE  \E f : f \in Injection(ResultsFor(e)', DoneCopies(e)')
<1>1. DoneCopies(e) \subseteq DoneCopies(e)'
  BY EventDoneStays DEF NoneOrphaned, Grow, DoneCopies
<1>2. PICK f : f \in Injection(ResultsFor(e), DoneCopies(e))
  OBVIOUS
<1>3. CASE ResultsFor(e)' = ResultsFor(e)
  <2>1. f \in Injection(ResultsFor(e), DoneCopies(e)')
    BY <1>1, <1>2, InjectionInto
  <2> QED BY <1>3, <2>1
<1>4. ASSUME NEW x, NEW y,
             x \notin ResultsFor(e), ResultsFor(e)' = ResultsFor(e) \union {x},
             y \notin DoneCopies(e), y \in DoneCopies(e)'
      PROVE  \E g : g \in Injection(ResultsFor(e)', DoneCopies(e)')
  <2>1. PICK g : g \in Injection(ResultsFor(e) \union {x}, DoneCopies(e) \union {y})
    BY <1>2, <1>4, InjectionExtended
  <2>2. DoneCopies(e) \union {y} \subseteq DoneCopies(e)'
    BY <1>1, <1>4
  <2>3. g \in Injection(ResultsFor(e) \union {x}, DoneCopies(e)')
    BY <2>1, <2>2, InjectionInto
  <2> QED BY <1>4, <2>3
<1>5. (\E w \in RiskWorker : RiskPublish(w)) \/ ResultsFor(e)' = ResultsFor(e)
  <2>1. ASSUME ~\E w \in RiskWorker : RiskPublish(w)
        PROVE  UNCHANGED results \/ \E w \in OrchWorker : OrchHandler(w)
    BY <2>1 DEF NoFaultStep, Submit, RiskHandler, RiskDeliver, RiskEvaluate, RiskEvaluateFails,
       RiskPublishSkipped, RiskSettle
  <2>2. ASSUME NEW w \in OrchWorker, OrchHandler(w)
        PROVE  DOMAIN results' = DOMAIN results
    <3>1. ow[w].pc # "idle" => ow[w].msg \in DOMAIN results
      BY DEF TypeInv, TypeOK
    <3> QED BY <2>2, <3>1
        DEF OrchHandler, OrchDeliver, OrchQuery, OrchInsert, OrchDbFails, OrchPublish,
            OrchPublishAs, OrchPublishSkipped, OrchPublishRaises, OrchSettle, OrchSettleTo
  <2>3. DOMAIN results' = DOMAIN results => ResultsFor(e)' = ResultsFor(e)
    BY DEF Grow, ResultsFor
  <2> QED BY <2>1, <2>2, <2>3
<1> QED BY <1>3, <1>4, <1>5, ResultPublished DEF NoneOrphaned

-----------------------------------------------------------------------------
(* The Orchestrator side                                                   *)

LEMMA ResultDoneStays ==
  ASSUME TypeInv, OrchHeld, NoFaultStep, \A w \in OrchWorker : ow[w].pc # "idle" => ow[w].live
  PROVE  /\ \A i \in DOMAIN results : ResultDone(i) => ResultDone(i)'
         /\ \A w \in OrchWorker : ow'[w].pc # "idle" => ow'[w].live
<1>0. /\ ow \in [OrchWorker -> OrchTask]
      /\ \A i \in DOMAIN results : results[i] \in ResultMessage
      /\ \A v \in OrchWorker : ow[v].pc # "idle" => ow[v].msg \in DOMAIN results
  BY DEF TypeInv, TypeOK
<1>1. CASE UNCHANGED <<results, ow>>
  BY <1>1 DEF ResultDone
<1>2. ASSUME NEW w \in RiskWorker, RiskPublish(w)
      PROVE  /\ \A i \in DOMAIN results : ResultDone(i) => ResultDone(i)'
             /\ UNCHANGED ow
  <2>1. /\ rw[w].pc = "publish" /\ rw[w].msg \in DOMAIN events
        /\ events[rw[w].msg] \in EventMessage /\ results \in Seq(ResultMessage)
    BY <1>2 DEF RiskPublish, RiskPublishAs, TypeInv, TypeOK
  <2>2. ResultOf(w) \in ResultMessage
    BY <2>1 DEF TypeInv, TypeOK, ResultOf, ResultMessage, ResultStatus, EventMessage
  <2>3. \A i \in DOMAIN results : results'[i] = results[i]
    BY <1>2, <2>1, <2>2, Appended DEF RiskPublish, RiskPublishAs
  <2> QED BY <1>2, <2>3 DEF RiskPublish, RiskPublishAs, orchVars, ResultDone
<1>3. ASSUME NEW w \in OrchWorker, NEW i \in DOMAIN results, OrchDeliver(w, i)
      PROVE  /\ \A j \in DOMAIN results : ResultDone(j) => ResultDone(j)'
             /\ \A v \in OrchWorker : ow'[v].pc # "idle" => ow'[v].live
  <2>1. results[i].st = "ready" /\ ~ow[w].live
    BY <1>3 DEF OrchDeliver, IsHead, OrchHeld
  <2>2. /\ \A j \in DOMAIN results : j # i => results'[j] = results[j]
        /\ \A v \in OrchWorker : v # w => ow'[v] = ow[v]
        /\ ow'[w].live
    BY <1>0, <1>3 DEF OrchDeliver
  <2>3. ~ResultDone(i)
    BY <2>1 DEF ResultDone, OrchHeld
  <2>4. \A j \in DOMAIN results : ResultDone(j) => ResultDone(j)'
    BY <2>1, <2>2, <2>3 DEF ResultDone
  <2> QED BY <2>2, <2>4
<1>4. ASSUME NEW w \in OrchWorker,
             \/ OrchQuery(w) \/ OrchInsert(w) \/ OrchDbFails(w) \/ OrchPublish(w)
             \/ OrchPublishSkipped(w)
      PROVE  /\ \A j \in DOMAIN results : ResultDone(j) => ResultDone(j)'
             /\ \A v \in OrchWorker : ow'[v].pc # "idle" => ow'[v].live
  <2>1. /\ UNCHANGED results /\ ow[w].pc \in {"query", "insert", "publish"}
        /\ \A v \in OrchWorker : v # w => ow'[v] = ow[v]
        /\ ow'[w].live = ow[w].live
    BY <1>0, <1>4 DEF OrchTask, OrchQuery, OrchInsert, OrchDbFails, OrchPublish, OrchPublishAs,
       OrchPublishSkipped
  <2> QED BY <2>1 DEF ResultDone
<1>5. ASSUME NEW w \in OrchWorker, OrchSettle(w)
      PROVE  /\ \A j \in DOMAIN results : ResultDone(j) => ResultDone(j)'
             /\ \A v \in OrchWorker : ow'[v].pc # "idle" => ow'[v].live
  <2> DEFINE status == IF ow[w].how = "ack" THEN "acked" ELSE "ready"
  <2>1. /\ ow'[w].pc = "idle" /\ ow[w].live /\ ow[w].pc = "settle"
        /\ \A v \in OrchWorker : v # w => ow'[v] = ow[v]
        /\ results' = [results EXCEPT ![ow[w].msg].st = status]
    BY <1>0, <1>5 DEF OrchSettle, OrchSettleTo, IdleOrch
  <2>2. /\ ow[w].msg \in DOMAIN results
        /\ results'[ow[w].msg].st = status
        /\ \A j \in DOMAIN results : j # ow[w].msg => results'[j] = results[j]
    BY <1>0, <2>1 DEF ResultMessage
  <2>3. ASSUME ResultDone(ow[w].msg) PROVE ow[w].how = "ack"
    <3>1. results[ow[w].msg].st = "unacked"
      BY <2>1, <2>2 DEF OrchHeld
    <3> QED BY <2>1, <2>3, <3>1 DEF ResultDone, OrchHeld
  <2>4. \A j \in DOMAIN results : ResultDone(j) => ResultDone(j)'
    BY <2>1, <2>2, <2>3 DEF ResultDone
  <2> QED BY <2>1, <2>4
<1>6. ASSUME NEW w \in RiskWorker, RiskHandler(w), ~RiskPublish(w), ~RiskPublishRaises(w)
      PROVE  UNCHANGED <<results, ow>>
  BY <1>6 DEF RiskHandler, RiskDeliver, RiskEvaluate, RiskEvaluateFails, RiskPublishSkipped,
     RiskSettle, orchVars
<1>7. ASSUME NEW e \in Event, Submit(e) PROVE UNCHANGED <<results, ow>>
  BY <1>7 DEF Submit, orchVars
<1> QED BY <1>1, <1>2, <1>3, <1>4, <1>5, <1>6, <1>7 DEF NoFaultStep, OrchHandler

\* Pairs of an element of D and a number up to its count.
LEMMA Numbered ==
  ASSUME NEW D, NEW f, NEW p
  PROVE  p \in UNION {{d} \X (1..f[d]) : d \in D} <=>
           \E d \in D : \E k \in 1..f[d] : p = <<d, k>>
<1> DEFINE Pairs(d) == {d} \X (1..f[d])
<1>1. \A d \in D : p \in Pairs(d) <=> \E k \in 1..f[d] : p = <<d, k>>
  OBVIOUS
<1>2. p \in UNION {Pairs(d) : d \in D} <=> \E d \in D : p \in Pairs(d)
  <2> HIDE DEF Pairs
  <2> QED OBVIOUS
<1> QED BY <1>1, <1>2

\* What ActionsFor would be of these counts.
Numbering(e, count) == UNION {{d} \X (1..count[<<e, d>>]) : d \in Decision}

IsNumbered(e, count, p) == \E d \in Decision : \E k \in 1..count[<<e, d>>] : p = <<d, k>>

LEMMA ActionsCounted == \A e, count, p : p \in Numbering(e, count) <=> IsNumbered(e, count, p)
<1> TAKE e, count, p
<1> DEFINE f == [d \in Decision |-> count[<<e, d>>]]
<1>1. Numbering(e, count) = UNION {{d} \X (1..f[d]) : d \in Decision}
  BY DEF Numbering
<1>2. \A d \in Decision : f[d] = count[<<e, d>>]
  OBVIOUS
<1> HIDE DEF f
<1>3. p \in UNION {{d} \X (1..f[d]) : d \in Decision} <=>
        \E d \in Decision : \E k \in 1..f[d] : p = <<d, k>>
  BY Numbered
<1> QED BY <1>1, <1>2, <1>3 DEF IsNumbered

\* An action is published by a handler that then acks: one more action, one more result done.
LEMMA ActionPublished ==
  ASSUME TypeInv, OrchHeld, \A w \in OrchWorker : ow[w].pc # "idle" => ow[w].live,
         NEW w \in OrchWorker, OrchPublish(w), NEW e \in Event
  PROVE  \/ ActionsFor(e)' = ActionsFor(e)
         \/ \E x, y : /\ x \notin ActionsFor(e) /\ ActionsFor(e)' = ActionsFor(e) \union {x}
                      /\ y \notin DoneResults(e) /\ y \in DoneResults(e)'
<1>0. /\ ow \in [OrchWorker -> OrchTask]
      /\ ow[w].pc = "publish" /\ ow[w].live
      /\ ow[w].msg \in DOMAIN results /\ results[ow[w].msg] \in ResultMessage
      /\ actions \in [Event \X Decision -> Nat]
  BY DEF OrchPublish, OrchPublishAs, TypeInv, TypeOK
<1>a. PICK y : y = ow[w].msg
  OBVIOUS
<1>1. PICK d \in Decision : d = results[y].dec
  BY <1>0, <1>a DEF ResultMessage
<1>2. PICK v \in Event : v = results[y].ev
  BY <1>0, <1>a DEF ResultMessage
<1>3. actions' = [actions EXCEPT ![<<v, d>>] = @ + 1]
  BY <1>1, <1>2, <1>a DEF OrchPublish, OrchPublishAs, ActionOf, ResultAt
<1>4. CASE v # e
  <2>1. \A c \in Decision : actions'[<<e, c>>] = actions[<<e, c>>]
    BY <1>0, <1>3, <1>4
  <2> QED BY <2>1 DEF ActionsFor
<1>5. CASE v = e
  <2>1. PICK n \in Nat : n = actions[<<e, d>>]
    BY <1>0
  <2>2. /\ actions'[<<e, d>>] = n + 1
        /\ \A c \in Decision : c # d => actions'[<<e, c>>] = actions[<<e, c>>]
    BY <1>0, <1>3, <1>5, <2>1
  <2>3. 1..(n + 1) = (1..n) \union {n + 1} /\ n + 1 \notin 1..n
    BY <2>1
  <2>5. \A p : p \in ActionsFor(e)' <=> p \in ActionsFor(e) \/ p = <<d, n + 1>>
    <3>1. ActionsFor(e) = Numbering(e, actions) /\ ActionsFor(e)' = Numbering(e, actions')
      BY DEF ActionsFor, Numbering
    <3>2. \A p : /\ p \in ActionsFor(e) <=> IsNumbered(e, actions, p)
                 /\ p \in ActionsFor(e)' <=> IsNumbered(e, actions', p)
      BY <3>1, ActionsCounted
    <3>3. ASSUME NEW p, IsNumbered(e, actions', p)
          PROVE  IsNumbered(e, actions, p) \/ p = <<d, n + 1>>
      <4>1. PICK c \in Decision : \E k \in 1..actions'[<<e, c>>] : p = <<c, k>>
        BY <3>3 DEF IsNumbered
      <4>2. PICK k \in 1..actions'[<<e, c>>] : p = <<c, k>>
        BY <4>1
      <4>3. CASE c # d
        BY <2>2, <4>2, <4>3 DEF IsNumbered
      <4>4. CASE c = d
        BY <2>1, <2>2, <2>3, <4>2, <4>4 DEF IsNumbered
      <4> QED BY <4>3, <4>4
    <3>4. ASSUME NEW p, IsNumbered(e, actions, p)
          PROVE  IsNumbered(e, actions', p)
      <4>1. PICK c \in Decision : \E k \in 1..actions[<<e, c>>] : p = <<c, k>>
        BY <3>4 DEF IsNumbered
      <4>2. PICK k \in 1..actions[<<e, c>>] : p = <<c, k>>
        BY <4>1
      <4>3. k \in 1..actions'[<<e, c>>]
        BY <2>1, <2>2, <2>3, <4>2
      <4> QED BY <4>2, <4>3 DEF IsNumbered
    <3>5. IsNumbered(e, actions', <<d, n + 1>>)
      <4>1. n + 1 \in 1..actions'[<<e, d>>]
        BY <2>2, <2>3
      <4> QED BY <4>1 DEF IsNumbered
    <3> QED BY <3>2, <3>3, <3>4, <3>5
  <2>6. <<d, n + 1>> \notin ActionsFor(e)
    <3>1. ActionsFor(e) = Numbering(e, actions)
      BY DEF ActionsFor, Numbering
    <3>2. ~IsNumbered(e, actions, <<d, n + 1>>)
      BY <2>1, <2>3 DEF IsNumbered
    <3> QED BY <3>1, <3>2, ActionsCounted
  <2>7. ActionsFor(e)' = ActionsFor(e) \union {<<d, n + 1>>}
    BY <2>5
  <2>8. ~ResultDone(y)
    <3>1. results[y].st = "unacked"
      BY <1>0, <1>a DEF OrchHeld
    <3>2. \A u \in OrchWorker : ow[u].live /\ ow[u].msg = y => ow[u].pc = "publish"
      BY <1>0, <1>a DEF OrchHeld
    <3> QED BY <3>1, <3>2 DEF ResultDone
  <2>9. ResultDone(y)'
    <3>1. ow'[w].live /\ ow'[w].msg = y /\ ow'[w].pc = "settle" /\ ow'[w].how = "ack"
      BY <1>0, <1>a DEF OrchPublish, OrchPublishAs, OrchTask
    <3> QED BY <3>1 DEF ResultDone
  <2>10. y \in DoneResults(e)' /\ y \notin DoneResults(e)
    <3>1. results' = results /\ y \in DOMAIN results /\ results[y].ev = e
      BY <1>0, <1>a, <1>2, <1>5 DEF OrchPublish, OrchPublishAs
    <3> QED BY <2>8, <2>9, <3>1 DEF DoneResults
  <2> QED BY <2>6, <2>7, <2>10
<1> QED BY <1>4, <1>5

LEMMA ActionsAssigned ==
  ASSUME TypeInv, OrchHeld, NoneOrphaned, Grow, NoFaultStep, NEW e \in Event,
         \E f : f \in Injection(ActionsFor(e), DoneResults(e))
  PROVE  \E f : f \in Injection(ActionsFor(e)', DoneResults(e)')
<1>1. DoneResults(e) \subseteq DoneResults(e)'
  BY ResultDoneStays DEF NoneOrphaned, Grow, DoneResults
<1>2. PICK f : f \in Injection(ActionsFor(e), DoneResults(e))
  OBVIOUS
<1>3. CASE ActionsFor(e)' = ActionsFor(e)
  <2>1. f \in Injection(ActionsFor(e), DoneResults(e)')
    BY <1>1, <1>2, InjectionInto
  <2> QED BY <1>3, <2>1
<1>4. ASSUME NEW x, NEW y,
             x \notin ActionsFor(e), ActionsFor(e)' = ActionsFor(e) \union {x},
             y \notin DoneResults(e), y \in DoneResults(e)'
      PROVE  \E g : g \in Injection(ActionsFor(e)', DoneResults(e)')
  <2>1. PICK g : g \in Injection(ActionsFor(e) \union {x}, DoneResults(e) \union {y})
    BY <1>2, <1>4, InjectionExtended
  <2>2. DoneResults(e) \union {y} \subseteq DoneResults(e)'
    BY <1>1, <1>4
  <2>3. g \in Injection(ActionsFor(e) \union {x}, DoneResults(e)')
    BY <2>1, <2>2, InjectionInto
  <2> QED BY <1>4, <2>3
<1>5. ASSUME ~\E w \in OrchWorker : OrchPublish(w)
      PROVE  UNCHANGED actions
  BY <1>5 DEF NoFaultStep, Submit, RiskHandler, RiskDeliver, RiskEvaluate, RiskEvaluateFails,
     RiskPublish, RiskPublishAs, RiskPublishSkipped, RiskSettle, OrchHandler, OrchDeliver,
     OrchQuery, OrchInsert, OrchDbFails, OrchPublishSkipped, OrchSettle, OrchSettleTo, orchVars
<1>6. UNCHANGED actions => ActionsFor(e)' = ActionsFor(e)
  BY DEF ActionsFor
<1> QED BY <1>3, <1>4, <1>5, <1>6, ActionPublished DEF NoneOrphaned

-----------------------------------------------------------------------------
LEMMA OnceStep ==
  ASSUME TypeInv, RiskHeld, OrchHeld, OnceInv, [Next]_vars
  PROVE  OnceInv'
<1> SUFFICES ASSUME faults' = 0
             PROVE  (/\ NoneOrphaned
                     /\ \A e \in Event : /\ \E f : f \in Injection(ResultsFor(e), DoneCopies(e))
                                         /\ \E f : f \in Injection(ActionsFor(e), DoneResults(e)))'
  BY DEF OnceInv
<1>1. NoFaultStep /\ NoneOrphaned /\ Grow
  BY NoFault, GrowStep DEF OnceInv
<1>2. NoneOrphaned'
  BY <1>1, EventDoneStays, ResultDoneStays DEF NoneOrphaned
<1>3. ASSUME NEW e \in Event
      PROVE  /\ \E f : f \in Injection(ResultsFor(e)', DoneCopies(e)')
             /\ \E f : f \in Injection(ActionsFor(e)', DoneResults(e)')
  <2>1. faults = 0
    BY NoFault
  <2>2. /\ \E f : f \in Injection(ResultsFor(e), DoneCopies(e))
        /\ \E f : f \in Injection(ActionsFor(e), DoneResults(e))
    BY <2>1 DEF OnceInv
  <2> QED BY <1>1, <2>2, ResultsAssigned, ActionsAssigned
<1> QED BY <1>2, <1>3

\* Failed scores, failed commits and redeliveries never make a second action of one message: as
\* long as nothing was lost an event has at most as many actions as copies, for any number of
\* events, handlers and decisions.
THEOREM ActedOncePerCopy == Spec => []ExactlyOnceWithoutFaults
<1>1. ASSUME TypeInv, OnceInv PROVE ExactlyOnceWithoutFaults
  <2> SUFFICES ASSUME faults = 0, NEW e \in Event
               PROVE  Cardinality(ActionsFor(e)) <= Cardinality(Copies(e))
    BY DEF ExactlyOnceWithoutFaults
  <2>1. /\ DOMAIN events = 1..Len(events) /\ Len(events) \in Nat
        /\ DOMAIN results = 1..Len(results) /\ Len(results) \in Nat
    BY <1>1 DEF TypeInv, TypeOK
  <2>2. IsFiniteSet(DOMAIN events) /\ IsFiniteSet(DOMAIN results)
    BY <2>1, FS_Interval
  <2>3. /\ IsFiniteSet(Copies(e)) /\ IsFiniteSet(ResultsFor(e))
        /\ IsFiniteSet(DoneCopies(e)) /\ IsFiniteSet(DoneResults(e))
    BY <2>2, FS_Subset DEF Copies, ResultsFor, DoneCopies, DoneResults
  <2>4. /\ DoneCopies(e) \in SUBSET Copies(e)
        /\ DoneResults(e) \in SUBSET ResultsFor(e)
    BY DEF Copies, ResultsFor, DoneCopies, DoneResults
  <2>5. /\ Cardinality(DoneCopies(e)) <= Cardinality(Copies(e))
        /\ Cardinality(DoneResults(e)) <= Cardinality(ResultsFor(e))
    BY <2>3, <2>4, FS_Subset
  <2>6. PICK f : f \in Injection(ResultsFor(e), DoneCopies(e))
    BY <1>1 DEF OnceInv
  <2>7. PICK g : g \in Injection(ActionsFor(e), DoneResults(e))
    BY <1>1 DEF OnceInv
  <2>8. Cardinality(ResultsFor(e)) <= Cardinality(DoneCopies(e))
    BY <2>3, <2>6, FS_Injection
  <2>9. IsFiniteSet(ActionsFor(e)) /\ Cardinality(ActionsFor(e)) <= Cardinality(DoneResults(e))
    BY <2>3, <2>7, FS_Injection
  <2>10. /\ Cardinality(ActionsFor(e)) \in Nat /\ Cardinality(DoneResults(e)) \in Nat
         /\ Cardinality(ResultsFor(e)) \in Nat /\ Cardinality(DoneCopies(e)) \in Nat
         /\ Cardinality(Copies(e)) \in Nat
    BY <2>3, <2>9, FS_CardinalityType
  <2> QED BY <2>5, <2>8, <2>9, <2>10
<1> QED BY <1>1, TypeInit, TypeStep, HeldInit, RiskHeldStep, OrchHeldStep, OnceInit, OnceStep,
        PTL DEF Spec

-----------------------------------------------------------------------------
(* Results are bounded by faults.  To every result of an event, to every copy *)
(* of it still to be published and to every handler that will publish one    *)
(* after its channel went, a copy and a number up to the faults so far can be *)
(* assigned: publishing turns a copy or a handler into a result, and a fault  *)
(* has its own number for every copy it costs a further result.               *)

LEMMA InjectionNarrowed ==
  ASSUME NEW S, NEW T, NEW S2, NEW T2, NEW f \in Injection(S, T), S2 \subseteq S, T \subseteq T2
  PROVE  \E g : g \in Injection(S2, T2)
<1> DEFINE g == [s \in S2 |-> f[s]]
<1>1. g \in Injection(S2, T2)
  BY DEF Injection, IsInjective
<1> QED BY <1>1

LEMMA InjectionMoved ==
  ASSUME NEW S, NEW T, NEW f \in Injection(S, T), NEW x \in S, NEW y,
         NEW S2, S2 \subseteq (S \ {x}) \union {y}
  PROVE  \E g : g \in Injection(S2, T)
<1> DEFINE g == [s \in S2 |-> IF s = y THEN f[x] ELSE f[s]]
<1>1. f \in [S -> T] /\ \A a, b \in S : f[a] = f[b] => a = b
  BY DEF Injection, IsInjective
<1>2. g \in [S2 -> T]
  BY <1>1
<1>3. ASSUME NEW a \in S2, NEW b \in S2, g[a] = g[b]
      PROVE  a = b
  BY <1>1, <1>3
<1>4. g \in Injection(S2, T)
  BY <1>2, <1>3 DEF Injection, IsInjective
<1> QED BY <1>4

\* A further number k serves as many new members as there are copies.
LEMMA InjectionCharged ==
  ASSUME NEW S, NEW C, NEW K, NEW k, k \notin K, NEW f \in Injection(S, C \X K),
         NEW N, NEW h \in Injection(N, C), NEW S2, S2 \subseteq S \union N
  PROVE  \E g : g \in Injection(S2, C \X (K \union {k}))
<1> DEFINE g == [s \in S2 |-> IF s \in S THEN f[s] ELSE <<h[s], k>>]
<1>1. /\ f \in [S -> C \X K] /\ \A a, b \in S : f[a] = f[b] => a = b
      /\ h \in [N -> C] /\ \A a, b \in N : h[a] = h[b] => a = b
  BY DEF Injection, IsInjective
<1>2. \A s \in S2 : \/ s \in S /\ g[s] = f[s] /\ f[s] \in C \X K /\ f[s][2] # k
                    \/ s \notin S /\ s \in N /\ g[s] = <<h[s], k>> /\ h[s] \in C /\ g[s][2] = k
  BY <1>1
<1>3. g \in [S2 -> C \X (K \union {k})]
  <2>1. \A s \in S2 : g[s] \in C \X (K \union {k})
    BY <1>2
  <2> QED BY <2>1
<1>4. ASSUME NEW a \in S2, NEW b \in S2, g[a] = g[b]
      PROVE  a = b
  <2>1. CASE a \in S /\ b \in S
    BY <1>1, <1>2, <1>4, <2>1
  <2>2. CASE a \notin S /\ b \notin S
    <3>1. h[a] = h[b] /\ a \in N /\ b \in N
      BY <1>2, <1>4, <2>2
    <3> QED BY <1>1, <3>1
  <2>3. CASE (a \in S /\ b \notin S) \/ (a \notin S /\ b \in S)
    BY <1>2, <1>4, <2>3
  <2> QED BY <2>1, <2>2, <2>3
<1>5. g \in Injection(S2, C \X (K \union {k}))
  BY <1>3, <1>4 DEF Injection, IsInjective
<1> QED BY <1>5

-----------------------------------------------------------------------------
Publishing(w) == rw[w].pc \in {"evaluate", "publish"}

\* The handler still has to publish, or hands its message back to be handled anew.
Unfinished(w) ==
  \/ Publishing(w)
  \/ rw[w].pc = "settle" /\ EventSettled(rw[w].how) = "ready"

Unpublished(e) ==
  {i \in DOMAIN events :
     /\ events[i].ev = e
     /\ \/ events[i].st = "ready"
        \/ \E w \in RiskWorker : rw[w].live /\ rw[w].msg = i /\ Unfinished(w)}

Orphans(e) ==
  {w \in RiskWorker : ~rw[w].live /\ Publishing(w) /\ events[rw[w].msg].ev = e}

Tagged(out, copies, orphans) ==
  ({"out"} \X out) \union ({"copy"} \X copies) \union ({"orphan"} \X orphans)

Owed(e) == Tagged(ResultsFor(e), Unpublished(e), Orphans(e))

OwedInv == \A e \in Event : \E f : f \in Injection(Owed(e), Copies(e) \X (0..faults))

LEMMA InTagged ==
  ASSUME NEW R, NEW U, NEW O, NEW x
  PROVE  x \in Tagged(R, U, O) <=>
           \/ \E r \in R : x = <<"out", r>>
           \/ \E i \in U : x = <<"copy", i>>
           \/ \E w \in O : x = <<"orphan", w>>
  BY DEF Tagged

LEMMA OwedInit == Init => OwedInv
<1> SUFFICES ASSUME Init, NEW e \in Event
             PROVE  \E f : f \in Injection(Owed(e), Copies(e) \X (0..faults))
  BY DEF OwedInv
<1>1. ResultsFor(e) = {} /\ Unpublished(e) = {} /\ Orphans(e) = {}
  BY DEF Init, ResultsFor, Unpublished, Orphans, Publishing, IdleRisk
<1>2. Owed(e) = {}
  BY <1>1 DEF Owed, Tagged
<1> DEFINE g == [s \in {} |-> s]
<1>3. g \in Injection({}, Copies(e) \X (0..faults))
  BY DEF Injection, IsInjective
<1> QED BY <1>2, <1>3

\* Nothing more is owed, and the numbers that serve it are still there.
LEMMA OwedKept ==
  ASSUME TypeInv, TypeInv', OwedInv, NEW e \in Event, Copies(e) \subseteq Copies(e)',
         faults <= faults', ResultsFor(e)' \subseteq ResultsFor(e),
         Unpublished(e)' \subseteq Unpublished(e), Orphans(e)' \subseteq Orphans(e)
  PROVE  \E f : f \in Injection(Owed(e)', Copies(e)' \X (0..faults'))
<1>1. Owed(e)' \subseteq Owed(e)
  BY DEF Owed, Tagged
<1>2. faults \in Nat /\ faults' \in Nat
  BY DEF TypeInv, TypeOK
<1>3. 0..faults \subseteq 0..faults'
  BY <1>2
<1>4. Copies(e) \X (0..faults) \subseteq Copies(e)' \X (0..faults')
  BY <1>3
<1>5. PICK f : f \in Injection(Owed(e), Copies(e) \X (0..faults))
  BY DEF OwedInv
<1> QED BY <1>1, <1>4, <1>5, InjectionNarrowed

\* A fault: whatever is owed anew, a copy each, is served by the new number.
LEMMA OwedCharged ==
  ASSUME TypeInv, OwedInv, NEW e \in Event, UNCHANGED Copies(e), faults' = faults + 1,
         NEW N, NEW h \in Injection(N, Copies(e)), Owed(e)' \subseteq Owed(e) \union N
  PROVE  \E f : f \in Injection(Owed(e)', Copies(e)' \X (0..faults'))
<1>1. faults \in Nat
  BY DEF TypeInv, TypeOK
<1>2. 0..faults' = (0..faults) \union {faults'} /\ faults' \notin 0..faults
  BY <1>1
<1>3. PICK f : f \in Injection(Owed(e), Copies(e) \X (0..faults))
  BY DEF OwedInv
<1> DEFINE C == Copies(e)
           K == 0..faults
           k == faults'
           S == Owed(e)
           S2 == Owed(e)'
<1>4. /\ k \notin K /\ f \in Injection(S, C \X K) /\ h \in Injection(N, C)
      /\ S2 \subseteq S \union N
  BY <1>2, <1>3
<1>5. \E g : g \in Injection(S2, C \X (K \union {k}))
  <2> HIDE DEF C, K, k, S, S2
  <2> QED BY <1>4, InjectionCharged
<1>6. K \union {k} = 0..faults' /\ C = Copies(e)'
  BY <1>2
<1> HIDE DEF C, K, k, S
<1> QED BY <1>5, <1>6

\* A handler that does not publish a result owes no more than before.
LEMMA OwedByHandler ==
  ASSUME TypeInv, RiskHeld, NEW w \in RiskWorker, RiskHandler(w), ~RiskPublish(w),
         ~RiskPublishRaises(w), NEW e \in Event
  PROVE  /\ ResultsFor(e)' \subseteq ResultsFor(e)
         /\ Unpublished(e)' \subseteq Unpublished(e)
         /\ Orphans(e)' \subseteq Orphans(e)
<1>0. /\ rw \in [RiskWorker -> RiskTask]
      /\ \A i \in DOMAIN events : events[i] \in EventMessage
      /\ \A v \in RiskWorker : rw[v].pc # "idle" => rw[v].msg \in DOMAIN events
  BY DEF TypeInv, TypeOK
<1>1. UNCHANGED results
  BY DEF RiskHandler, RiskDeliver, RiskEvaluate, RiskEvaluateFails, RiskPublishSkipped, RiskSettle
<1>2. ResultsFor(e)' = ResultsFor(e)
  BY <1>1 DEF ResultsFor
<1>3. ASSUME NEW i \in DOMAIN events, RiskDeliver(w, i)
      PROVE  Unpublished(e)' \subseteq Unpublished(e) /\ Orphans(e)' \subseteq Orphans(e)
  <2>1. /\ DOMAIN events' = DOMAIN events
        /\ \A j \in DOMAIN events : events'[j].ev = events[j].ev
        /\ \A j \in DOMAIN events : j # i => events'[j] = events[j]
        /\ events[i].st = "ready"
    BY <1>0, <1>3 DEF RiskDeliver, IsHead, EventMessage
  <2>2. /\ \A v \in RiskWorker : v # w => rw'[v] = rw[v]
        /\ rw'[w] = AfterParse(events[i].ev, i)
    BY <1>0, <1>3 DEF RiskDeliver
  <2>3. Kind[events[i].ev] \in Kinds
    BY <1>0, PipelineAssumption DEF EventMessage
  <2>4. rw'[w].live /\ rw'[w].msg = i
    BY <2>2, <2>3 DEF AfterParse, IdleRisk, Kinds
  <2>5. Unpublished(e)' \subseteq Unpublished(e)
    BY <2>1, <2>2, <2>4 DEF Unpublished, Unfinished, Publishing
  <2>6. Orphans(e)' \subseteq Orphans(e)
    BY <1>0, <2>1, <2>2, <2>4 DEF Orphans, Publishing
  <2> QED BY <2>5, <2>6
<1>4. CASE RiskEvaluate(w) \/ RiskEvaluateFails(w) \/ RiskPublishSkipped(w)
  <2>1. /\ UNCHANGED events
        /\ \A v \in RiskWorker : v # w => rw'[v] = rw[v]
        /\ rw'[w].live = rw[w].live /\ rw'[w].msg = rw[w].msg
        /\ Publishing(w)
    BY <1>0, <1>4
    DEF RiskEvaluate, RiskEvaluateFails, RiskPublishSkipped, RiskTask, Publishing
  <2>2. /\ \A v \in RiskWorker : rw'[v].live = rw[v].live /\ rw'[v].msg = rw[v].msg
        /\ \A v \in RiskWorker : Publishing(v)' => Publishing(v)
        /\ \A v \in RiskWorker : Unfinished(v)' => Unfinished(v)
    BY <2>1 DEF Publishing, Unfinished
  <2>3. Unpublished(e)' \subseteq Unpublished(e)
    BY <2>1, <2>2 DEF Unpublished
  <2>4. ASSUME NEW v \in Orphans(e)' PROVE v \in Orphans(e)
    <3>1. v \in RiskWorker /\ ~rw'[v].live /\ Publishing(v)' /\ events'[rw'[v].msg].ev = e
      BY <2>4 DEF Orphans
    <3>2. ~rw[v].live /\ Publishing(v) /\ events[rw[v].msg].ev = e
      BY <2>1, <2>2, <3>1
    <3> QED BY <3>1, <3>2 DEF Orphans
  <2> QED BY <1>2, <2>3, <2>4
<1>5. CASE RiskSettle(w)
  <2>1. /\ \A v \in RiskWorker : v # w => rw'[v] = rw[v]
        /\ ~rw'[w].live /\ rw'[w].pc = "idle" /\ rw[w].pc = "settle"
        /\ rw[w].msg \in DOMAIN events
    BY <1>0, <1>5 DEF RiskSettle, IdleRisk
  <2>2. /\ DOMAIN events' = DOMAIN events
        /\ \A j \in DOMAIN events : events'[j].ev = events[j].ev
        /\ \A j \in DOMAIN events : \/ events'[j].st = events[j].st
                                    \/ /\ rw[w].live /\ rw[w].msg = j
                                       /\ events'[j].st = EventSettled(rw[w].how)
    BY <1>0, <1>5, <2>1 DEF RiskSettle, EventMessage
  <2>3. Unpublished(e)' \subseteq Unpublished(e)
    BY <2>1, <2>2 DEF Unpublished, Unfinished, Publishing
  <2>4. /\ ~Publishing(w)'
        /\ \A v \in RiskWorker : v # w => rw'[v].live = rw[v].live /\ rw'[v].msg = rw[v].msg
        /\ \A v \in RiskWorker : v # w /\ Publishing(v)' => Publishing(v) /\ rw[v].msg \in DOMAIN events
    BY <1>0, <2>1 DEF Publishing
  <2>5. ASSUME NEW v \in Orphans(e)' PROVE v \in Orphans(e)
    <3>1. v \in RiskWorker /\ ~rw'[v].live /\ Publishing(v)' /\ events'[rw'[v].msg].ev = e
      BY <2>5 DEF Orphans
    <3>2. v # w
      BY <2>4, <3>1
    <3>3. ~rw[v].live /\ Publishing(v) /\ events[rw[v].msg].ev = e
      BY <2>2, <2>4, <3>1, <3>2
    <3> QED BY <3>1, <3>3 DEF Orphans
  <2> QED BY <1>2, <2>3, <2>5
<1> QED BY <1>2, <1>3, <1>4, <1>5 DEF RiskHandler

\* A further result is one for its event only.
LEMMA ResultsGrown ==
  ASSUME NEW n, DOMAIN results' = DOMAIN results \union {n}, n \notin DOMAIN results,
         \A i \in DOMAIN results : results'[i] = results[i], NEW e
  PROVE  ResultsFor(e)' = IF results'[n].ev = e THEN ResultsFor(e) \union {n} ELSE ResultsFor(e)
<1>1. \A i \in DOMAIN results : i # n /\ results'[i].ev = results[i].ev
  OBVIOUS
<1>2. \A i : i \in ResultsFor(e)' <=> i \in DOMAIN results \union {n} /\ results'[i].ev = e
  BY DEF ResultsFor
<1>3. \A i : i \in ResultsFor(e)' <=> i \in ResultsFor(e) \/ (i = n /\ results'[n].ev = e)
  BY <1>1, <1>2 DEF ResultsFor
<1>4. CASE results'[n].ev = e
  BY <1>3, <1>4
<1>5. CASE results'[n].ev # e
  BY <1>3, <1>5
<1> QED BY <1>4, <1>5

\* The result that a publish adds, and what else it leaves owed.
LEMMA OwedAfterPublish ==
  ASSUME TypeInv, NEW w \in RiskWorker, RiskPublish(w) \/ RiskPublishRaises(w), NEW e \in Event,
         results' = Append(results, ResultOf(w))
  PROVE  /\ ResultsFor(e)' = IF events[rw[w].msg].ev = e
                             THEN ResultsFor(e) \union {Len(results) + 1}
                             ELSE ResultsFor(e)
         /\ rw[w].msg \in DOMAIN events
<1>1. rw[w].pc = "publish"
  BY DEF RiskPublish, RiskPublishAs, RiskPublishRaises, RiskPublishRaisesAs
<1>2. /\ rw[w].msg \in DOMAIN events /\ events[rw[w].msg] \in EventMessage
      /\ results \in Seq(ResultMessage)
  BY <1>1 DEF TypeInv, TypeOK
<1>3. ResultOf(w) \in ResultMessage
  BY <1>1, <1>2 DEF TypeInv, TypeOK, ResultOf, ResultMessage, ResultStatus, EventMessage
<1>4. /\ DOMAIN results' = DOMAIN results \union {Len(results) + 1}
      /\ \A i \in DOMAIN results : results'[i] = results[i]
      /\ results'[Len(results) + 1].ev = events[rw[w].msg].ev
      /\ Len(results) + 1 \notin DOMAIN results
  BY <1>2, <1>3, Appended DEF ResultOf
<1>5. ResultsFor(e)' = IF results'[Len(results) + 1].ev = e
                       THEN ResultsFor(e) \union {Len(results) + 1}
                       ELSE ResultsFor(e)
  BY <1>4, ResultsGrown
<1> QED BY <1>2, <1>4, <1>5

\* A publish turns its message, or its orphaned handler, into a result.
LEMMA OwedPublish ==
  ASSUME TypeInv, TypeInv', RiskHeld, OwedInv, NEW w \in RiskWorker, RiskPublish(w),
         NEW e \in Event
  PROVE  \E f : f \in Injection(Owed(e)', Copies(e)' \X (0..faults'))
<1> DEFINE i == rw[w].msg
           n == Len(results) + 1
<1>0. /\ rw \in [RiskWorker -> RiskTask]
      /\ \A v \in RiskWorker : rw[v].pc # "idle" => rw[v].msg \in DOMAIN events
      /\ faults \in Nat
  BY DEF TypeInv, TypeOK
<1>1. /\ results' = Append(results, ResultOf(w))
      /\ rw[w].pc = "publish" /\ UNCHANGED <<events, faults>>
  BY DEF RiskPublish, RiskPublishAs
<1>2. /\ rw'[w].pc = "settle" /\ rw'[w].how = "ack"
      /\ rw'[w].live = rw[w].live /\ rw'[w].msg = i
      /\ \A v \in RiskWorker : v # w => rw'[v] = rw[v]
  BY <1>0 DEF RiskPublish, RiskPublishAs, RiskTask
<1>3. /\ \A v \in RiskWorker : rw'[v].live = rw[v].live /\ rw'[v].msg = rw[v].msg
      /\ ~Publishing(w)' /\ ~Unfinished(w)'
      /\ \A v \in RiskWorker : v # w => /\ Publishing(v)' = Publishing(v)
                                        /\ Unfinished(v)' = Unfinished(v)
  BY <1>2 DEF Publishing, Unfinished, EventSettled
<1>4. Unpublished(e)' \subseteq Unpublished(e) /\ Orphans(e)' \subseteq Orphans(e)
  BY <1>1, <1>3 DEF Unpublished, Orphans
<1>5. UNCHANGED Copies(e) /\ i \in DOMAIN events
  BY <1>0, <1>1 DEF Copies
<1>6. CASE events[i].ev # e
  <2>1. ResultsFor(e)' = ResultsFor(e)
    BY <1>1, <1>6, OwedAfterPublish
  <2> QED BY <1>0, <1>1, <1>4, <1>5, <2>1, OwedKept
<1>7. CASE events[i].ev = e
  <2>1. ResultsFor(e)' = ResultsFor(e) \union {n}
    BY <1>1, <1>7, OwedAfterPublish
  <2>2. PICK f : f \in Injection(Owed(e), Copies(e) \X (0..faults))
    BY DEF OwedInv
  <2>3. CASE rw[w].live
    <3>1. i \in Unpublished(e)
      BY <1>1, <1>5, <1>7, <2>3 DEF Unpublished, Unfinished, Publishing
    <3>2. i \notin Unpublished(e)'
      <4>1. events'[i].st = "unacked"
        BY <1>1, <1>5, <2>3 DEF RiskHeld
      <4>2. \A v \in RiskWorker : rw'[v].live /\ rw'[v].msg = i => v = w
        BY <1>3, <2>3 DEF RiskHeld
      <4> QED BY <1>3, <4>1, <4>2 DEF Unpublished
    <3>3. /\ <<"copy", i>> \in Owed(e)
          /\ Owed(e)' \subseteq (Owed(e) \ {<<"copy", i>>}) \union {<<"out", n>>}
      BY <1>4, <2>1, <3>1, <3>2, InTagged DEF Owed
    <3> QED BY <1>1, <1>5, <2>2, <3>3, InjectionMoved
  <2>4. CASE ~rw[w].live
    <3>1. w \in Orphans(e) /\ w \notin Orphans(e)'
      BY <1>1, <1>3, <1>7, <2>4 DEF Orphans, Publishing
    <3>2. /\ <<"orphan", w>> \in Owed(e)
          /\ Owed(e)' \subseteq (Owed(e) \ {<<"orphan", w>>}) \union {<<"out", n>>}
      BY <1>4, <2>1, <3>1, InTagged DEF Owed
    <3> QED BY <1>1, <1>5, <2>2, <3>2, InjectionMoved
  <2> QED BY <2>3, <2>4
<1> QED BY <1>6, <1>7

\* A publish that raises is a fault: the result that went out all the same is charged to it.
LEMMA OwedPublishRaises ==
  ASSUME TypeInv, TypeInv', OwedInv, NEW w \in RiskWorker, RiskPublishRaises(w), NEW e \in Event
  PROVE  \E f : f \in Injection(Owed(e)', Copies(e)' \X (0..faults'))
<1> DEFINE i == rw[w].msg
           n == Len(results) + 1
<1>0. /\ rw \in [RiskWorker -> RiskTask]
      /\ \A v \in RiskWorker : rw[v].pc # "idle" => rw[v].msg \in DOMAIN events
      /\ faults \in Nat
  BY DEF TypeInv, TypeOK
<1>1. /\ results' \in {results, Append(results, ResultOf(w))}
      /\ rw[w].pc = "publish" /\ UNCHANGED events /\ faults' = faults + 1
  BY DEF RiskPublishRaises, RiskPublishRaisesAs
<1>2. /\ rw'[w].pc = "settle" /\ rw'[w].live = rw[w].live /\ rw'[w].msg = i
      /\ \A v \in RiskWorker : v # w => rw'[v] = rw[v]
  BY <1>0 DEF RiskPublishRaises, RiskPublishRaisesAs, RiskTask
<1>3. /\ \A v \in RiskWorker : rw'[v].live = rw[v].live /\ rw'[v].msg = rw[v].msg
      /\ \A v \in RiskWorker : Publishing(v)' => Publishing(v)
      /\ \A v \in RiskWorker : Unfinished(v)' => Unfinished(v)
  BY <1>1, <1>2 DEF Publishing, Unfinished
<1>4. Unpublished(e)' \subseteq Unpublished(e) /\ Orphans(e)' \subseteq Orphans(e)
  BY <1>1, <1>3 DEF Unpublished, Orphans
<1>5. UNCHANGED Copies(e) /\ i \in DOMAIN events
  BY <1>0, <1>1 DEF Copies
<1>6. ResultsFor(e)' \subseteq ResultsFor(e) \/ (/\ events[i].ev = e
                                               /\ ResultsFor(e)' = ResultsFor(e) \union {n})
  <2>1. CASE results' = results
    BY <2>1 DEF ResultsFor
  <2>2. CASE results' = Append(results, ResultOf(w))
    BY <2>2, OwedAfterPublish
  <2> QED BY <1>1, <2>1, <2>2
<1>7. CASE ResultsFor(e)' \subseteq ResultsFor(e)
  BY <1>0, <1>1, <1>4, <1>5, <1>7, OwedKept
<1>8. CASE events[i].ev = e /\ ResultsFor(e)' = ResultsFor(e) \union {n}
  <2> DEFINE h == [x \in {<<"out", n>>} |-> i]
  <2>1. i \in Copies(e)
    BY <1>5, <1>8 DEF Copies
  <2>2. h \in Injection({<<"out", n>>}, Copies(e))
    BY <2>1 DEF Injection, IsInjective
  <2>3. Owed(e)' \subseteq Owed(e) \union {<<"out", n>>}
    BY <1>4, <1>8, InTagged DEF Owed
  <2> QED BY <1>1, <1>5, <2>2, <2>3, OwedCharged
<1> QED BY <1>6, <1>7, <1>8

\* A lost channel owes one more result at most for each message it held: the handler goes on
\* as an orphan, or the message it was about to settle is handled anew.
LEMMA OwedChannelGone ==
  ASSUME TypeInv, RiskHeld, OwedInv, NEW p \in RiskProc, events' = EventsRequeued(p),
         \A w \in RiskWorker : IF w[1] = p
                               THEN \/ rw'[w].pc = "idle"
                                    \/ rw'[w].pc = rw[w].pc /\ rw'[w].msg = rw[w].msg
                               ELSE rw'[w] = rw[w],
         \A w \in RiskWorker : w[1] = p => ~rw'[w].live,
         UNCHANGED results, faults' = faults + 1, NEW e \in Event
  PROVE  \E f : f \in Injection(Owed(e)', Copies(e)' \X (0..faults'))
<1>0. /\ \A i \in DOMAIN events : events[i] \in EventMessage
      /\ \A w \in RiskWorker : rw[w].pc # "idle" => rw[w].msg \in DOMAIN events
  BY DEF TypeInv, TypeOK
<1>1. /\ DOMAIN events' = DOMAIN events
      /\ \A i \in DOMAIN events : events'[i].ev = events[i].ev
  BY EventsRequeuedType
<1>2. \A i \in DOMAIN events : events'[i].st = "ready" =>
        \/ events[i].st = "ready"
        \/ \E w \in RiskWorker : rw[w].live /\ rw[w].msg = i
  <2>1. \A s \in RiskSlot : <<p, s>> \in RiskWorker
    BY DEF RiskWorker
  <2> QED BY <1>0, <2>1 DEF EventsRequeued, HeldByRisk
<1>3. UNCHANGED Copies(e) /\ UNCHANGED ResultsFor(e)
  BY <1>1 DEF Copies, ResultsFor
<1> DEFINE U == Unpublished(e)' \ Unpublished(e)
           O == Orphans(e)' \ Orphans(e)
           N == ({"copy"} \X U) \union ({"orphan"} \X O)
           h == [x \in N |-> IF x[1] = "copy" THEN x[2] ELSE rw[x[2]].msg]
<1>4. \A i \in U : /\ i \in Copies(e)
                   /\ \E w \in RiskWorker : rw[w].live /\ rw[w].msg = i /\ ~Publishing(w)
  <2> TAKE i \in U
  <2>1. i \in DOMAIN events /\ events[i].ev = e /\ i \notin Unpublished(e)
    BY <1>1 DEF Unpublished
  <2>2. CASE events'[i].st = "ready"
    <3>1. events[i].st # "ready"
      BY <2>1 DEF Unpublished
    <3>2. PICK w \in RiskWorker : rw[w].live /\ rw[w].msg = i
      BY <1>2, <2>1, <2>2, <3>1
    <3>3. ~Publishing(w)
      BY <2>1, <3>2 DEF Unpublished, Unfinished
    <3> QED BY <2>1, <3>2, <3>3 DEF Copies
  <2>3. CASE events'[i].st # "ready"
    <3>1. PICK w \in RiskWorker : rw'[w].live /\ rw'[w].msg = i /\ Unfinished(w)'
      BY <2>3 DEF Unpublished
    <3>2. rw'[w] = rw[w]
      BY <3>1
    <3>3. rw[w].live /\ rw[w].msg = i /\ Unfinished(w)
      BY <3>1, <3>2 DEF Unfinished, Publishing
    <3> QED BY <2>1, <3>3 DEF Unpublished
  <2> QED BY <2>2, <2>3
<1>5. \A w \in O : /\ w \in RiskWorker /\ rw[w].live /\ Publishing(w)
                   /\ rw[w].msg \in Copies(e)
  <2> TAKE w \in O
  <2>1. /\ w \in RiskWorker /\ ~rw'[w].live /\ Publishing(w)' /\ events'[rw'[w].msg].ev = e
        /\ w \notin Orphans(e)
    BY DEF Orphans
  <2>2. rw'[w].pc = rw[w].pc /\ rw'[w].msg = rw[w].msg
    BY <2>1 DEF Publishing
  <2>3. Publishing(w) /\ rw[w].msg \in DOMAIN events /\ events[rw[w].msg].ev = e
    BY <1>0, <1>1, <2>1, <2>2 DEF Publishing
  <2>4. rw[w].live
    BY <2>1, <2>3 DEF Orphans
  <2> QED BY <2>1, <2>3, <2>4 DEF Copies
<1>6. h \in [N -> Copies(e)]
  <2>1. \A x \in N : h[x] \in Copies(e)
    BY <1>4, <1>5
  <2> QED BY <2>1
<1>7. ASSUME NEW x \in N, NEW y \in N, h[x] = h[y]
      PROVE  x = y
  <2>1. CASE x[1] = "copy" /\ y[1] = "copy"
    BY <1>7, <2>1
  <2>2. CASE x[1] = "orphan" /\ y[1] = "orphan"
    <3>1. x[2] \in O /\ y[2] \in O /\ rw[x[2]].msg = rw[y[2]].msg
      BY <1>7, <2>2
    <3>2. x[2] = y[2]
      BY <1>5, <3>1 DEF RiskHeld
    <3> QED BY <2>2, <3>2
  <2>3. ASSUME NEW c \in N, NEW o \in N, c[1] = "copy", o[1] = "orphan" PROVE h[c] # h[o]
    <3>1. c[2] \in U /\ o[2] \in O /\ h[c] = c[2] /\ h[o] = rw[o[2]].msg
      BY <2>3
    <3>2. PICK w \in RiskWorker : rw[w].live /\ rw[w].msg = c[2] /\ ~Publishing(w)
      BY <1>4, <3>1
    <3> QED BY <1>5, <3>1, <3>2 DEF RiskHeld
  <2>4. x[1] \in {"copy", "orphan"} /\ y[1] \in {"copy", "orphan"}
    OBVIOUS
  <2> QED BY <1>7, <2>1, <2>2, <2>3, <2>4
<1>8. h \in Injection(N, Copies(e))
  BY <1>6, <1>7 DEF Injection, IsInjective
<1>9. Owed(e)' \subseteq Owed(e) \union N
  <2> SUFFICES ASSUME NEW x \in Owed(e)' PROVE x \in Owed(e) \union N
    OBVIOUS
  <2>1. \/ \E r \in ResultsFor(e)' : x = <<"out", r>>
        \/ \E i \in Unpublished(e)' : x = <<"copy", i>>
        \/ \E w \in Orphans(e)' : x = <<"orphan", w>>
    BY InTagged DEF Owed
  <2> QED BY <1>3, <2>1, InTagged DEF Owed
<1> HIDE DEF N, h
<1> QED BY <1>3, <1>8, <1>9, OwedCharged

\* A further copy of an event may have a result of its own.
LEMMA OwedSubmit ==
  ASSUME TypeInv, TypeInv', RiskHeld, OwedInv, NEW s \in Event, Submit(s), NEW e \in Event
  PROVE  \E f : f \in Injection(Owed(e)', Copies(e)' \X (0..faults'))
<1> DEFINE n == Len(events) + 1
<1>0. /\ events \in Seq(EventMessage)
      /\ \A w \in RiskWorker : rw[w].pc # "idle" => rw[w].msg \in DOMAIN events
      /\ faults \in Nat
  BY DEF TypeInv, TypeOK
<1>1. [ev |-> s, st |-> "ready"] \in EventMessage
  BY DEF EventMessage, EventStatus
<1>2. /\ DOMAIN events' = DOMAIN events \union {n}
      /\ \A i \in DOMAIN events : events'[i] = events[i]
      /\ events'[n].ev = s
      /\ n \notin DOMAIN events
      /\ UNCHANGED <<rw, results, faults>>
  BY <1>0, <1>1, Appended DEF Submit
<1>3. \A w \in RiskWorker : rw[w].live => rw[w].msg \in DOMAIN events
  BY <1>0 DEF RiskHeld
<1>4. ResultsFor(e)' = ResultsFor(e)
  BY <1>2 DEF ResultsFor
<1>5. Orphans(e)' \subseteq Orphans(e)
  BY <1>0, <1>2 DEF Orphans, Publishing
<1>6. Unpublished(e)' \subseteq Unpublished(e) \union {i \in {n} : e = s}
  BY <1>2, <1>3 DEF Unpublished, Unfinished, Publishing
<1>7. CASE e # s
  <2>1. UNCHANGED Copies(e)
    BY <1>2, <1>7 DEF Copies
  <2>2. Unpublished(e)' \subseteq Unpublished(e) /\ ResultsFor(e)' \subseteq ResultsFor(e)
    BY <1>4, <1>6, <1>7
  <2> QED BY <1>0, <1>2, <1>5, <2>1, <2>2, OwedKept
<1>8. CASE e = s
  <2>1. Copies(e)' = Copies(e) \union {n} /\ n \notin Copies(e)
    BY <1>2, <1>8 DEF Copies
  <2>2. PICK f : f \in Injection(Owed(e), Copies(e) \X (0..faults))
    BY DEF OwedInv
  <2>3. Owed(e)' \subseteq Owed(e) \union {<<"copy", n>>}
    BY <1>4, <1>5, <1>6, InTagged DEF Owed
  <2>4. <<"copy", n>> \notin Owed(e)
    <3>1. n \notin Unpublished(e)
      BY <1>2 DEF Unpublished
    <3> QED BY <3>1, InTagged DEF Owed
  <2>5. <<n, 0>> \notin Copies(e) \X (0..faults)
    BY <2>1
  <2>6. PICK g : g \in Injection(Owed(e) \union {<<"copy", n>>},
                                 (Copies(e) \X (0..faults)) \union {<<n, 0>>})
    BY <2>2, <2>4, <2>5, InjectionExtended
  <2>7. (Copies(e) \X (0..faults)) \union {<<n, 0>>} \subseteq Copies(e)' \X (0..faults')
    BY <1>0, <1>2, <2>1
  <2> DEFINE S2 == Owed(e)'
             S == Owed(e) \union {<<"copy", n>>}
             T == (Copies(e) \X (0..faults)) \union {<<n, 0>>}
             T2 == Copies(e)' \X (0..faults')
  <2>8. g \in Injection(S, T) /\ S2 \subseteq S /\ T \subseteq T2
    BY <2>3, <2>6, <2>7
  <2>9. \E j : j \in Injection(S2, T2)
    <3> HIDE DEF S, S2, T, T2
    <3> QED BY <2>8, InjectionNarrowed
  <2> QED BY <2>9
<1> QED BY <1>7, <1>8

LEMMA OwedStep ==
  ASSUME TypeInv, TypeInv', RiskHeld, OwedInv, [Next]_vars
  PROVE  OwedInv'
<1> SUFFICES ASSUME NEW e \in Event
             PROVE  \E f : f \in Injection(Owed(e)', Copies(e)' \X (0..faults'))
  BY DEF OwedInv
<1>0. faults \in Nat /\ rw \in [RiskWorker -> RiskTask]
  BY DEF TypeInv, TypeOK
<1>1. ASSUME UNCHANGED <<events, rw>>, DOMAIN results' = DOMAIN results, faults <= faults'
      PROVE  \E f : f \in Injection(Owed(e)', Copies(e)' \X (0..faults'))
  <2>1. /\ UNCHANGED Copies(e)
        /\ ResultsFor(e)' \subseteq ResultsFor(e)
        /\ Unpublished(e)' \subseteq Unpublished(e)
        /\ Orphans(e)' \subseteq Orphans(e)
    BY <1>1, GrowStep
    DEF Grow, Copies, ResultsFor, Unpublished, Orphans, Unfinished, Publishing
  <2> QED BY <1>1, <2>1, OwedKept
<1>2. CASE UNCHANGED vars
  <2>1. UNCHANGED <<events, rw>> /\ DOMAIN results' = DOMAIN results /\ faults <= faults'
    BY <1>0, <1>2 DEF vars
  <2> QED BY <1>1, <2>1
<1>3. ASSUME NEW w \in RiskWorker, RiskHandler(w), ~RiskPublish(w), ~RiskPublishRaises(w)
      PROVE  \E f : f \in Injection(Owed(e)', Copies(e)' \X (0..faults'))
  <2>1. UNCHANGED faults
    BY <1>3
    DEF RiskHandler, RiskDeliver, RiskEvaluate, RiskEvaluateFails, RiskPublishSkipped, RiskSettle
  <2>2. Copies(e) \subseteq Copies(e)'
    BY GrowStep DEF Grow, Copies
  <2> QED BY <1>0, <1>3, <2>1, <2>2, OwedByHandler, OwedKept
<1>4. ASSUME NEW p \in RiskProc, RiskConnLost(p) \/ RiskCrash(p)
      PROVE  \E f : f \in Injection(Owed(e)', Copies(e)' \X (0..faults'))
  <2>1. \A w \in RiskWorker : IF w[1] = p
                              THEN \/ rw'[w].pc = "idle"
                                   \/ rw'[w].pc = rw[w].pc /\ rw'[w].msg = rw[w].msg
                              ELSE rw'[w] = rw[w]
    BY <1>0, <1>4 DEF RiskConnLost, RiskOrphaned, RiskCrash, IdleRisk, RiskTask
  <2>2. \A w \in RiskWorker : w[1] = p => ~rw'[w].live
    BY <1>0, <1>4 DEF RiskConnLost, RiskOrphaned, RiskCrash, IdleRisk, RiskTask
  <2>3. events' = EventsRequeued(p) /\ UNCHANGED results /\ faults' = faults + 1
    BY <1>4 DEF RiskConnLost, RiskCrash
  <2> QED BY <2>1, <2>2, <2>3, OwedChannelGone
<1>5. ASSUME NEW p \in RiskProc, RiskProcess(p), ~RiskConnLost(p), ~RiskCrash(p)
      PROVE  UNCHANGED <<events, rw, results, faults>>
  BY <1>5 DEF RiskProcess, LoopBroker, LoopPublisher, LoopPublisherFails, LoopConsumer,
              LoopConsumerFails
<1>6. ASSUME NEW v \in OrchWorker, OrchHandler(v)
      PROVE  UNCHANGED <<events, rw>> /\ DOMAIN results' = DOMAIN results /\ faults <= faults'
  BY <1>0, <1>6
  DEF OrchHandler, OrchDeliver, OrchQuery, OrchInsert, OrchDbFails, OrchPublish, OrchPublishAs,
      OrchPublishSkipped, OrchPublishRaises, OrchSettle, OrchSettleTo, riskVars
<1>7. ASSUME NEW p \in OrchProc, OrchProcess(p)
      PROVE  UNCHANGED <<events, rw>> /\ DOMAIN results' = DOMAIN results /\ faults <= faults'
  BY <1>0, <1>7, ResultsRequeuedType
  DEF OrchProcess, OrchConsumerLost, OrchPublisherLost, OrchCrash, OrchStart, riskVars
<1>8. ASSUME NEW s \in Event, Submit(s)
      PROVE  \E f : f \in Injection(Owed(e)', Copies(e)' \X (0..faults'))
  BY <1>8, OwedSubmit
<1>9. ASSUME NEW w \in RiskWorker, RiskHandler(w)
      PROVE  \E f : f \in Injection(Owed(e)', Copies(e)' \X (0..faults'))
  <2>1. CASE RiskPublish(w)
    BY <2>1, OwedPublish
  <2>2. CASE RiskPublishRaises(w)
    BY <2>2, OwedPublishRaises
  <2> QED BY <1>3, <1>9, <2>1, <2>2
<1>10. ASSUME NEW p \in RiskProc, RiskProcess(p)
       PROVE  \E f : f \in Injection(Owed(e)', Copies(e)' \X (0..faults'))
  <2>1. CASE RiskConnLost(p) \/ RiskCrash(p)
    BY <1>4, <2>1
  <2>2. CASE ~RiskConnLost(p) /\ ~RiskCrash(p)
    <3>1. UNCHANGED <<events, rw, results, faults>>
      BY <1>5, <1>10, <2>2
    <3>2. UNCHANGED <<events, rw>> /\ DOMAIN results' = DOMAIN results /\ faults <= faults'
      BY <1>0, <3>1
    <3> QED BY <1>1, <3>2
  <2> QED BY <2>1, <2>2
<1>11. ASSUME NEW v \in OrchWorker, OrchHandler(v)
       PROVE  \E f : f \in Injection(Owed(e)', Copies(e)' \X (0..faults'))
  BY <1>1, <1>6, <1>11
<1>12. ASSUME NEW p \in OrchProc, OrchProcess(p)
       PROVE  \E f : f \in Injection(Owed(e)', Copies(e)' \X (0..faults'))
  BY <1>1, <1>7, <1>12
<1> QED BY <1>2, <1>8, <1>9, <1>10, <1>11, <1>12 DEF Next

(* An event is scored and published again only on account of a fault, and a   *)
(* fault costs each copy of it one result at most: neither failed scores nor *)
(* any number of orphaned handlers, redeliveries and reconnections make more. *)
THEOREM RepublishedOncePerFault == Spec => []ResultsBounded
<1>1. ASSUME TypeInv, OwedInv PROVE ResultsBounded
  <2> SUFFICES ASSUME NEW e \in Event
               PROVE  Cardinality(ResultsFor(e)) <= Cardinality(Copies(e)) * (1 + faults)
    BY DEF ResultsBounded
  <2> DEFINE T == Copies(e) \X (0..faults)
  <2>1. DOMAIN events = 1..Len(events) /\ Len(events) \in Nat /\ faults \in Nat
    BY <1>1 DEF TypeInv, TypeOK
  <2>2. IsFiniteSet(Copies(e)) /\ IsFiniteSet(0..faults)
    <3>1. IsFiniteSet(DOMAIN events)
      BY <2>1, FS_Interval
    <3>2. IsFiniteSet(0..faults)
      BY <2>1, FS_Interval
    <3>3. Copies(e) \subseteq DOMAIN events
      BY DEF Copies
    <3> QED BY <3>1, <3>2, <3>3, FS_Subset
  <2>3. Cardinality(0..faults) = 1 + faults
    BY <2>1, FS_Interval
  <2>4. IsFiniteSet(T) /\ Cardinality(T) = Cardinality(Copies(e)) * (1 + faults)
    BY <2>2, <2>3, FS_Product
  <2>5. PICK f : f \in Injection(Owed(e), T)
    BY <1>1 DEF OwedInv
  <2> DEFINE g == [r \in ResultsFor(e) |-> f[<<"out", r>>]]
  <2>6. \A r \in ResultsFor(e) : <<"out", r>> \in Owed(e)
    BY InTagged DEF Owed
  <2>7. g \in Injection(ResultsFor(e), T)
    <3>1. f \in [Owed(e) -> T] /\ \A a, b \in Owed(e) : f[a] = f[b] => a = b
      BY <2>5 DEF Injection, IsInjective
    <3>2. g \in [ResultsFor(e) -> T]
      BY <2>6, <3>1
    <3>3. \A q, r \in ResultsFor(e) : g[q] = g[r] => q = r
      BY <2>6, <3>1
    <3> QED BY <3>2, <3>3 DEF Injection, IsInjective
  <2>8. Cardinality(ResultsFor(e)) <= Cardinality(T)
    BY <2>4, <2>7, FS_Injection
  <2> QED BY <2>4, <2>8
<1> QED BY <1>1, TypeInit, TypeStep, HeldInit, RiskHeldStep, OwedInit, OwedStep, PTL DEF Spec
=============================================================================
