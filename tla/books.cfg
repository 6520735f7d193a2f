CONSTANTS
  Refs = {r1, r2}
  NilRef = NilRef
  FarRef = FarRef
  MaxLocate = 1
  MaxPrice = 2
  MaxShares = 2
  Symbols = {AAPL}
  States = {Halted}
  Blank = Blank
  Toggles = {TRUE, FALSE}
  kTrades = TRUE
  NoPrint = NoPrint
  Absent = Absent
SPECIFICATION Spec
VIEW Lasting
SYMMETRY RefSymmetry
INVARIANTS ToldTop
PROPERTIES TopsReported PrintedAtRest ImplementsPriceTimeQueue
