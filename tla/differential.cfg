CONSTANTS
  Refs = {r1, r2}
  NilRef = NilRef
  FarRef = FarRef
  MaxLocate = 1
  MaxPrice = 3
  MaxShares = 2
  Symbols = {}
  States = {}
  Blank = Blank
  Toggles = {}
  kTrades = FALSE
  NoPrint = NoPrint
  Absent = Absent
  AnyFeed = FALSE
SPECIFICATION DSpec
VIEW LastingPair
SYMMETRY RefSymmetry
INVARIANTS BooksMatch
