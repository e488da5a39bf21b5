\* One Risk process with two handlers, two Orchestrators with one handler each.
CONSTANTS
  e1 = e1  e2 = e2  e3 = e3  allow = allow  block = block
  r1 = r1  o1 = o1  o2 = o2  s1 = s1  s2 = s2  t1 = t1  t2 = t2
  Event = {e1, e2, e3}
  Kind <- ScoredFirst
  Decision = {allow, block}
  NoDecision = NoDecision
  RiskProc = {r1}
  OrchProc = {o1, o2}
  RiskSlot = {s1, s2}
  OrchSlot = {t1}
  Prefetch = 2
  MaxCopies = 1
  MaxFaults = 1
SPECIFICATION Spec
INVARIANTS TypeOK ResultsBounded AckedEventAccountedFor ActionOnlyAfterAudit AuditedEventActed
INVARIANT ExactlyOnceWithoutFaults
PROPERTY LedgerSpec
CHECK_DEADLOCK FALSE
SYMMETRY Symmetry
