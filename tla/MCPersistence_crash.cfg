\* Crashes at every point of writes, saves, loads and restarts.
SPECIFICATION Spec
CONSTANTS
  k1 = k1
  k2 = k2
  k3 = k3
  Text = Text
  None = None
  Key = {k1, k2}
  Value = {0, 1, Text}
  Number = {0, 1}
  KeySize <- OneByteKeys
  ValueSize <- Sizes
  MaxEntries = 2
  MaxBytes = 7
  MaxKeyBytes = 1
  MaxValueBytes = 3
  KeyTTL <- NoTTL
  Namespace = {"ns"}
  Under <- FirstOnly
  VersionSlack = 0
  Command <- Commands
  OldSnapshot <- NoSnapshot
  OldFile <- Files
  Tear = {"nothing", "prefix"}
  MaxSeq = 3
  MaxTime = 1
INVARIANTS TypeOK NothingLost
PROPERTIES NumberedPastSnapshot CorruptLogUntouched
