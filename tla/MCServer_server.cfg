\* Two clients.
SPECIFICATION FairSpec
CONSTANTS
  c1 = c1
  c2 = c2
  k1 = k1
  k2 = k2
  Text = Text
  Other = "other"
  None = None
  Conn = {c1, c2}
  Channel = {"invalidate", "other"}
  Invalidate = "invalidate"
  Key = {k1, k2}
  Value = {0, 1, 2, Text}
  Number = {0, 1, 2}
  KeySize <- OneByteKeys
  ValueSize <- Sizes
  MaxEntries = 2
  MaxBytes = 9
  MaxKeyBytes = 1
  MaxValueBytes = 2
  KeyTTL <- NoTTL
  Namespace = {"ns"}
  Under <- FirstOnly
  VersionSlack = 4
  Plan <- Plans
  Batch = {1, 2}
  HighWater = 2
  MaxPending = 3
  MaxInflight = 9
  MaxQueued = 3
  MaxCommands = 2
  MaxWatched = 2
  MaxSubs = 2
  MaxJobs = 2
  MaxConns = 2
  SlowCommand = {"EXEC"}
INVARIANTS TypeOK RepliesInOrder MemoryBounded CleanStopSaved
PROPERTIES AnnouncedAsCommitted WatchRespected ShutdownEnds AnswersArrive
CHECK_DEADLOCK FALSE
