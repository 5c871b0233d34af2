SPECIFICATION SyncSpec
CONSTANTS
  Items = {"m", "n"}
  Folders = {}
  Nil = "nil"
  Writers = {w1, w2}
  Own = {w1}
  Cron = cron
  Parents <- MCOne
  Trashed = {}
  Requests = {"create", "rename", "delete"}
  PurgeBatch = 1
  MaxItems = 3
  MaxEpoch = 1
  MaxSeq = 2
  MaxNumber = 12
  MaxFaults = 0
  PageSize = 1
  MaxLeaves = 0
  PurgeOvertakes = TRUE
INVARIANT NothingResurrected
CHECK_DEADLOCK FALSE
