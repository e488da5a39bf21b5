\* One evaluation at a time of wins only.
CONSTANTS
  loginA = loginA  loginB = loginB  bet = bet  win = win
  u1 = u1  u2 = u2  ip1 = ip1  t1 = t1  t2 = t2
  Thread = {t1}
  Event = {win}
  User = {u1, u2}
  None = None
  Info <- Events
  Vt <- Thresholds
  IpTtl = 1
  DomainTtl = 2
  BurstWindow = 2
  MaxStarts = 4
  MaxFaults = 0
  MaxTime = 3
SPECIFICATION WindowSpec
INVARIANT BurstsNoticed
CHECK_DEADLOCK FALSE
