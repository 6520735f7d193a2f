CONSTANTS
  Refs = {r1, r2, r3}
  NilRef = NilRef
  FarRef = FarRef
  MaxLocate = 1
  MaxPrice = 1
  MaxShares = 2
  Symbols = {}
  States = {}
  Blank = Blank
  Toggles = {}
  kTrades = FALSE
  NoPrint = NoPrint
  Absent = Absent
  AnyFeed = TRUE
SPECIFICATION DSpec
VIEW LastingPair
SYMMETRY RefSymmetry
INVARIANTS MirroredExactly
