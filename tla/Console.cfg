SPECIFICATION ConsoleSpec
CONSTANTS
  Parts = {"config", "select", "texts", "logs", "page", "form"}
  Probe <- Probes
  NoProbe = NoProbe
  Blank = Blank
  Broken = Broken
  VelocityDefaults <- MCVelocityDefaults
  Json <- MCJson
  Console = {c1, c2}
  Process = {p1, p2}
  Path <- MCPath
  InitialDoc <- MCInitialDoc
  FactoryDoc <- MCFactoryDoc
  Typable <- MCTypable
  NoDoc = NoDoc
  MaxRequests = 2
  MaxEdits = 1
  MaxConfigFaults = 1
  Listed = {1, 2}
  Unlisted = {3}
  Query <- MCQuery
  NoQuery = NoQuery
  LogKind = {a, b}
  NoFilter = NoFilter
  NoEntry = NoEntry
  Loading = Loading
  Failed = Failed
  PageSize = {1, 2}
  FirstPageSize = 1
  MaxLogs = 2
  MaxReads = 2
  MaxClicks = 4
  Key = {good, bad}
  NoKey = NoKey
  GoodKey = good
  Timeframe = {day, hour}
  DefaultTimeframe = day
  NoMetrics = NoMetrics
  MaxConnects = 2
  MaxLoads = 3
  MaxPageTurns = 4
INVARIANTS
  FormKeeps CopiesCurrent UneditedKept
  ViewsAgree
  ConsoleSpeaks
  LogsShowAsked ConsoleTypeOK
  AppHasKey RefreshOnDashboard AnswersShown
\* Each part ends where its bounds do, and the form is a value.
CHECK_DEADLOCK FALSE
