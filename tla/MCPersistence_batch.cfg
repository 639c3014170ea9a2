\* A batch that replays through a fuller cache than it ran through.
SPECIFICATION Spec
CONSTANTS
  k1 = k1
  k2 = k2
  k3 = k3
  Text = Text
  None = None
  Key = {k1, k2, k3}
  Value = {0, 1, Text}
  Number = {0, 1}
  KeySize <- OneByteKeys
  ValueSize <- Sizes
  MaxEntries = 3
  MaxBytes = 9
  MaxKeyBytes = 1
  MaxValueBytes = 3
  KeyTTL <- NoTTL
  Namespace = {"ns"}
  Under <- FirstOnly
  VersionSlack = 0
  Command <- Batches
  OldSnapshot <- NoSnapshot
  OldFile <- NoFile
  Tear = {}
  MaxSeq = 4
  MaxTime = 0
INVARIANTS NothingLost
