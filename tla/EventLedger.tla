---------------------------- MODULE EventLedger ----------------------------
(***************************************************************************)
(* What the asynchronous pipeline promises, whatever queues, processes and *)
(* connections lie in between: an event is submitted, the Risk service     *)
(* decides it (more than once when it is redelivered, and not always the   *)
(* same way), the first decision to reach the database becomes the audit   *)
(* row and stays, and an enforcement action is emitted only for an audited *)
(* event and only for a decision that was really taken.                    *)
(***************************************************************************)
CONSTANTS Event,       \* event ids
          Scored,      \* the events of a type the Risk service scores
          Decision,    \* allow, challenge, block
          NoDecision   \* no audit row yet

VARIABLES submitted,   \* events the platform has published
          decided,     \* <<event, decision>> pairs the Risk service published
          audit,       \* event -> decision of its audit row, or NoDecision
          acted        \* <<event, decision>> pairs sent to the platform

vars == <<submitted, decided, audit, acted>>

Init == /\ submitted = {}
        /\ decided = {}
        /\ audit = [e \in Event |-> NoDecision]
        /\ acted = {}

Submit(e) == /\ submitted' = submitted \union {e}
             /\ UNCHANGED <<decided, audit, acted>>

Decide(e, d) == /\ e \in submitted \intersect Scored
                /\ decided' = decided \union {<<e, d>>}
                /\ UNCHANGED <<submitted, audit, acted>>

Record(e, d) == /\ <<e, d>> \in decided
                /\ audit[e] = NoDecision
                /\ audit' = [audit EXCEPT ![e] = d]
                /\ UNCHANGED <<submitted, decided, acted>>

Act(e, d) == /\ <<e, d>> \in decided
             /\ audit[e] # NoDecision
             /\ acted' = acted \union {<<e, d>>}
             /\ UNCHANGED <<submitted, decided, audit>>

Next == \E e \in Event : \/ Submit(e)
                         \/ \E d \in Decision : Decide(e, d) \/ Record(e, d) \/ Act(e, d)

Spec == Init /\ [][Next]_vars
=============================================================================
