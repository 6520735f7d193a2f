CONSTANTS
  trades = trades
  bbo = bbo
  events = events
  Tables <- AllTables
  Trades = trades
  Selections <- EitherOrder
  LastTables <- EventsLast
  Batches = 2
  Runs = 2
  Faults = {"feed", "open", "write", "close", "rename", "flag", "interrupt", "kill"}
SPECIFICATION Spec
INVARIANTS FinalsWhole Complete NothingLeft
PROPERTIES Ends
