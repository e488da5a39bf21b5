----------------------------- MODULE MCPipeline -----------------------------
(* Instances of Pipeline for TLC: which event is of which kind.            *)
EXTENDS Pipeline, TLC

CONSTANTS e1, e2, e3, allow, block, r1, o1, o2, s1, s2, t1, t2

\* e1 is scored; an event that is not scored and one that cannot be parsed come with it.
ScoredFirst ==
  [e \in Event |-> CASE e = e1 -> "scored" [] e = e2 -> "skipped" [] e = e3 -> "malformed"]

\* e1 makes an engine raise every time, e2 is ordinary, e3 cannot be parsed.
PoisonFirst ==
  [e \in Event |-> CASE e = e1 -> "poison" [] e = e2 -> "scored" [] e = e3 -> "malformed"]

Symmetry == Permutations(Decision) \union Permutations(OrchProc) \union Permutations(RiskSlot)
=============================================================================
