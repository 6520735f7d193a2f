CONSTANTS
  Refs = {r1, r2, r3}
  NilRef = NilRef
  Orders = {o1, o2}
  Dead = Dead
  Hints = {3}
  Caps = {2, 4, 8}
  InitialCap = 2
  MaxCap = 8
SPECIFICATION Spec
SYMMETRY RefSymmetry
PROPERTIES ImplementsMap
INVARIANTS ChainsWhole LoadBounded
