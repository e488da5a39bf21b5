SPECIFICATION AlertSpec
CONSTANTS
  Source = {"log", "audit"}
  Mark = {"block"}
  RowLimit = 1
  Limit = 1
  MaxInbox = 1
  NoCursor = NoCursor
  NoAnswer = NoAnswer
  Disabled = Disabled
  Skew <- Skews
  MaxRows = 2
  MaxClock = 2
  MaxTurns = 2
  MaxPolls = 2
INVARIANTS
   CentreAgrees

  
\* Without a poll the clock and the bounds on rows and turns end a behaviour.
CHECK_DEADLOCK FALSE
