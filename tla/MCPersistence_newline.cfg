\* An append that stops short of its newline.
SPECIFICATION Spec
CONSTANTS
  k1 = k1
  k2 = k2
  k3 = k3
  Text = Text
  None = None
  Key = {k1, k2}
  Value = {0, 1, Text}
  Number = {0, 1}
  KeySize <- OneByteKeys
  ValueSize <- Sizes
  MaxEntries = 2
  MaxBytes = 8
  MaxKeyBytes = 1
  MaxValueBytes = 3
  KeyTTL <- NoTTL
  Namespace = {"ns"}
  Under <- FirstOnly
  VersionSlack = 0
  Command <- Fixed
  OldSnapshot <- NoSnapshot
  OldFile <- NoFile
  Tear = {"unterminated"}
  MaxSeq = 3
  MaxTime = 0
INVARIANTS NothingLost
