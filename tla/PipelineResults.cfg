\* The event consumer starts although the result publisher could not.
CONSTANTS
  e1 = e1  e2 = e2  e3 = e3  allow = allow  block = block
  r1 = r1  o1 = o1  o2 = o2  s1 = s1  s2 = s2  t1 = t1  t2 = t2
  Event = {e1}
  Kind <- ScoredFirst
  Decision = {allow, block}
  NoDecision = NoDecision
  RiskProc = {r1}
  OrchProc = {o1}
  RiskSlot = {s1}
  OrchSlot = {t1}
  Prefetch = 1
  MaxCopies = 1
  MaxFaults = 0
SPECIFICATION Spec
INVARIANT AckedEventHasResult
CHECK_DEADLOCK FALSE
