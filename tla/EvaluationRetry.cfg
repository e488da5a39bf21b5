\* One login from a device never seen, evaluated again after its evaluation raised.
CONSTANTS
  login = login  verified = verified  withdraw = withdraw  stranger = stranger
  u1 = u1  u2 = u2  k1 = k1  t1 = t1  t2 = t2
  ChallengeAt = 31
  HighAt = 61
  BlockAt = 81
  CriticalSignals <- OneCritical
  Downgrade = TRUE
  Thread = {t1}
  Event = {login}
  User = {u1, u2}
  Key = {k1}
  NoKey = NoKey
  NoDecision = NoDecision
  Info <- Sessions
  Other <- Found
  Applicable <- LoginOnly
  MaxAge = 0
  GrantTtl = 1
  MaxStarts <- LoginTwice
  MaxFaults = 1
  MaxTime = 2
SPECIFICATION Spec
INVARIANT UnknownDeviceChallenged
CHECK_DEADLOCK FALSE
