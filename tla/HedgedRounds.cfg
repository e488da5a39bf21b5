\* One round, bet on by two evaluations at a time.
CONSTANTS
  onBanker = onBanker  onPlayer = onPlayer  nextBanker = nextBanker  nextPlayer = nextPlayer
  r1 = r1  r2 = r2  banker = banker  player = player  t1 = t1  t2 = t2
  Bettor = {t1, t2}
  Bet = {onBanker, onPlayer}
  Round = {r1}
  Selection = {banker, player}
  NoLeg = NoLeg
  BetInfo <- Bets
  OppositeGroups <- Groups
  Tolerance = 10
  RoundTtl = 2
  StatsWindow = 3
  MaxBets = 3
  MaxBetFaults = 0
  MaxBetTime = 2
SPECIFICATION HedgeSpec
INVARIANT DistinctRoundsCounted
CHECK_DEADLOCK FALSE
