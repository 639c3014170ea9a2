\* A session with WATCH, a queue of two and EXEC among direct calls.
SPECIFICATION Spec
CONSTANTS
  k1 = k1
  k2 = k2
  k3 = k3
  Text = Text
  Huge = Huge
  None = None
  Key = {k1, k2}
  Value <- FewValues
  Number = {0}
  KeySize <- OneByteKeys
  ValueSize <- Sizes
  MaxEntries = 2
  MaxBytes = 4
  MaxKeyBytes = 1
  MaxValueBytes = 2
  KeyTTL <- NoTTL
  Namespace = {"ns"}
  Under <- AllButFirst
  VersionSlack = 0
  Session = {s1}
  Span = {}
  Delta = {0}
  Batch = {}
  Image = {}
  QueuedOp <- Operations
  MaxQueue = 2
  MaxGeneration = 3
  MaxTime = 1
  MaxDrift = 1
INVARIANTS WatchSound
PROPERTIES CommitsAreSound ReportsTrue
