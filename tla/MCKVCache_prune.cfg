\* Room for one entry: a session watches keys whose versions are pruned.
SPECIFICATION Spec
CONSTANTS
  k1 = k1
  k2 = k2
  k3 = k3
  Text = Text
  Huge = Huge
  None = None
  Key = {k1, k2, k3}
  Value = {0}
  Number = {0}
  KeySize <- OneByteKeys
  ValueSize <- Sizes
  MaxEntries = 1
  MaxBytes = 4
  MaxKeyBytes = 1
  MaxValueBytes = 2
  KeyTTL <- NoTTL
  Namespace = {"ns"}
  Under <- AllButFirst
  VersionSlack = 0
  Session = {s1}
  Span = {}
  Delta = {}
  Batch = {}
  Image = {}
  QueuedOp <- OtherOperations
  MaxQueue = 1
  MaxGeneration = 5
  MaxTime = 0
  MaxDrift = 0
INVARIANTS WatchSound VersionTableBounded
PROPERTIES VersionsAdvance
