\* The sweeper's cursor among writes, and frames.
SPECIFICATION FairSpec
CONSTANTS
  k1 = k1
  k2 = k2
  None = None
  Key = {k1, k2}
  a = a
  b = b
  Entry <- PlainEntries
  MaxLinks = 4
  MaxDepth = 1
  MaxUndo = 2
  MaxTime = 1
  SweepKeys = 2
PROPERTIES SweptInTheEnd
