\* One client.
SPECIFICATION FairSpec
CONSTANTS
  None = None
  Plan <- Plans
  Call = {1, 2, 3}
  Conn = {1, 2, 3}
  PoolSize = 2
  MaxAttempts = 2
  MaxQueued = 2
  MaxPending = 1
  Op = {1, 2, 3}
  Sock = {1, 2, 3}
  Topic = {"a", "b"}
  MaxHandlers = 2
  MaxTopics = 2
  MaxRetries = 1
  MaxOps = 2
  MaxTransactions = 1
INVARIANTS TypeOK OwnReply PoolWhole Subscribed NoneMissed RunsAsTold
PROPERTIES GivenUpStaysUnsent WorkEnds
CHECK_DEADLOCK FALSE
