\* Nested frames over two maps.
SPECIFICATION Spec
CONSTANTS
  k1 = k1
  k2 = k2
  None = None
  Key = {k1, k2}
  a = a
  b = b
  Entry <- SomeEntries
  MaxLinks = 4
  MaxDepth = 2
  MaxUndo = 3
  MaxTime = 1
  SweepKeys = 0
INVARIANTS TypeOK ListsWhole IndexMirrors
PROPERTIES RollbackRestores
SYMMETRY KeysAlike
