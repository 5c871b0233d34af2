SPECIFICATION Spec
CONSTANTS
  Items = {"f", "g", "h", "n"}
  Folders = {"f", "g", "h"}
  Nil = "nil"
  Writers = {w1, w2}
  Cron = cron
  Parents <- MCChain
  Trashed = {}
  Requests = {"create", "move", "delete"}
  PurgeBatch = 1
  MaxItems = 4
  MaxEpoch = 1
  MaxSeq = 6
  MaxNumber = 14
  MaxFaults = 0
INVARIANT NothingStranded
CHECK_DEADLOCK FALSE
