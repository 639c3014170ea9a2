\* incr() of an entry whose deadline passes during the call.
SPECIFICATION Spec
CONSTANTS
  k1 = k1
  k2 = k2
  k3 = k3
  Text = Text
  Huge = Huge
  None = None
  Key = {k1, k2}
  Value <- AllValues
  Number = {0}
  KeySize <- OneByteKeys
  ValueSize <- Sizes
  MaxEntries = 2
  MaxBytes = 5
  MaxKeyBytes = 1
  MaxValueBytes = 2
  KeyTTL <- NoTTL
  Namespace = {"ns"}
  Under <- AllButFirst
  VersionSlack = 0
  Session = {}
  Span = {1}
  Delta = {0}
  Batch <- Batches
  Image = {}
  QueuedOp = {}
  MaxQueue = 0
  MaxGeneration = 5
  MaxTime = 3
  MaxDrift = 1
INVARIANTS BytesExact
