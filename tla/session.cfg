CONSTANTS
  Refs = {r1, r2}
  NilRef = NilRef
  FarRef = FarRef
  MaxLocate = 1
  MaxPrice = 1
  MaxShares = 2
  Symbols = {AAPL}
  States <- HaltStates
  Blank = Blank
  Toggles = {}
  kTrades = TRUE
  NoPrint = NoPrint
  Depth = 1
  Absent = Absent
  Selections <- AllOrSome
  SideBytes = {"B", "S", "N", "X"}
SPECIFICATION LSpec
VIEW LastingTables
SYMMETRY RefSymmetry
INVARIANTS CopyExact DepthCurrent
PROPERTIES LinesAccount
