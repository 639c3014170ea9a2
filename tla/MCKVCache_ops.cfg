\* Every operation on a cache that two entries or four bytes fill.
SPECIFICATION Spec
CONSTANTS
  k1 = k1
  k2 = k2
  k3 = k3
  Text = Text
  Huge = Huge
  None = None
  Key = {k1, k2, k3}
  Value <- AllValues
  Number = {0}
  KeySize <- OneByteKeys
  ValueSize <- Sizes
  MaxEntries = 2
  MaxBytes = 4
  MaxKeyBytes = 1
  MaxValueBytes = 2
  KeyTTL <- LastKeyTTL
  Namespace = {"ns"}
  Under <- AllButFirst
  VersionSlack = 0
  Session = {}
  Span = {1}
  Delta = {0}
  Batch <- Batches
  Image <- Images
  QueuedOp = {}
  MaxQueue = 0
  MaxGeneration = 5
  MaxTime = 2
  MaxDrift = 0
INVARIANTS TypeOK ListsAgree BytesExact StoreFits ImageFaithful
  EvictsOldestAndNoMore AcceptedWriteStays
