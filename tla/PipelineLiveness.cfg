\* A message that always fails to score ahead of an ordinary one; one handler failure.
CONSTANTS
  e1 = e1  e2 = e2  e3 = e3  allow = allow  block = block
  r1 = r1  o1 = o1  o2 = o2  s1 = s1  s2 = s2  t1 = t1  t2 = t2
  Event = {e1, e2}
  Kind <- PoisonFirst
  Decision = {block}
  NoDecision = NoDecision
  RiskProc = {r1}
  OrchProc = {o1}
  RiskSlot = {s1, s2}
  OrchSlot = {t1}
  Prefetch = 2
  MaxCopies = 1
  MaxFaults = 1
SPECIFICATION FairSpec
PROPERTIES EventsSettled ResultsAuditedWhileConsumed
CHECK_DEADLOCK FALSE
