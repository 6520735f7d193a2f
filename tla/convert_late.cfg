CONSTANTS
  trades = trades
  bbo = bbo
  events = events
  Tables <- AllTables
  Trades = trades
  Selections <- EitherOrder
  LastTables <- EventsLast
  Batches = 2
  Runs = 1
  Faults = {"rename", "flag"}
SPECIFICATION Spec
INVARIANTS FailedLeavesNothing
