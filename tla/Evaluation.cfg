\* Two evaluations at a time of a login, a verified login, a withdrawal and a stranger's login.
CONSTANTS
  login = login  verified = verified  withdraw = withdraw  stranger = stranger
  u1 = u1  u2 = u2  k1 = k1  t1 = t1  t2 = t2
  ChallengeAt = 31
  HighAt = 61
  BlockAt = 81
  CriticalSignals <- OneCritical
  Downgrade = TRUE
  Thread = {t1, t2}
  Event = {login, verified, withdraw, stranger}
  User = {u1, u2}
  Key = {k1}
  NoKey = NoKey
  NoDecision = NoDecision
  Info <- Sessions
  Other <- Found
  Applicable <- LoginOnly
  MaxAge = 0
  GrantTtl = 1
  MaxStarts <- VerifiedTwice
  MaxFaults = 1
  MaxTime = 2
SPECIFICATION Spec
INVARIANTS TypeOK TrustEarned WithdrawalGated ConflictsAreRaces
PROPERTY StepUpBacked
CHECK_DEADLOCK FALSE
SYMMETRY Symmetry
