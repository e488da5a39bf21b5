\* Every engine that keeps something, two evaluations, synchronisations or lookups at a time.
CONSTANTS
  \* The default thresholds; every type of event, every device, two step-ups.
  ChallengeAt = 31
  HighAt = 61
  BlockAt = 81
  CriticalSignals <- SomeCritical
  Downgrade = TRUE
  \* Logins, bets and wins, with Redis and in memory.
  loginA = loginA  loginB = loginB  bet = bet  win = win
  u1 = u1  u2 = u2  ip1 = ip1  t1 = t1  t2 = t2
  Thread = {t1, t2}
  Event = {loginA, loginB, bet, win}
  User = {u1, u2}
  None = None
  Info <- Events
  Vt <- Thresholds
  IpTtl = 1
  DomainTtl = 2
  BurstWindow = 2
  MaxStarts = 2
  MaxFaults = 1
  MaxTime = 2
  \* Bets on both sides of two rounds, some of them retried.
  onBanker = onBanker  onPlayer = onPlayer  nextBanker = nextBanker  nextPlayer = nextPlayer
  r1 = r1  r2 = r2  banker = banker  player = player
  Bettor = {t1, t2}
  Bet = {onBanker, onPlayer, nextBanker, nextPlayer}
  Round = {r1, r2}
  Selection = {banker, player}
  NoLeg = NoLeg
  BetInfo <- Bets
  OppositeGroups <- Groups
  Tolerance = 10
  RoundTtl = 1
  StatsWindow = 2
  MaxBets = 3
  MaxBetFaults = 1
  MaxBetTime = 2
  \* Two synchronisations of two lists, of one wallet each.
  w1 = w1  w2 = w2  listA = listA  listB = listB
  Syncer = {t1, t2}
  Wallet = {w1, w2}
  Country = {country}
  Asset = {listA, listB}
  AssetOf <- Assets
  MaxSyncs = 3
  MaxDisturbances = 1
  \* Lookups of one address.
  Lookup = {t1, t2}
  CacheTtl = {2}
  LongestTtl = 2
  Nothing = Nothing
  MaxInstant = 3
  MaxLookups = 3
  MaxTurnsOfIp = 1
SPECIFICATION EnginesSpec
INVARIANTS
  EnginesTypeOK CrossingNoticed KeysExpire
  VerdictsRight HedgedWithinGross HedgesCounted StatsExpire
  ListKept ConflictsAreOverlaps
  ChangeFoundOut OutageNotClean
PROPERTIES NeverSoftened StepUpOnlyLiftsChallenge
\* Each engine ends where its bounds do.
CHECK_DEADLOCK FALSE
SYMMETRY Symmetry
