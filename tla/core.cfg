CONSTANTS
  Refs = {r1, r2, r3}
  NilRef = NilRef
  FarRef = FarRef
  MaxLocate = 0
  MaxPrice = 3
  MaxShares = 2
  Symbols = {}
  States = {}
  Blank = Blank
  Toggles = {}
  kTrades = FALSE
  NoPrint = NoPrint
  Absent = Absent
SPECIFICATION Spec
VIEW Lasting
SYMMETRY RefSymmetry
INVARIANTS TypeOK OrdersPlaced Ladders HandlesPartitioned TimePriority LevelTotals
