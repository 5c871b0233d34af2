SPECIFICATION Spec
CONSTANTS
  Items = {"f", "g", "n", "c"}
  Folders = {"f", "g"}
  Nil = "nil"
  Writers = {w1, w2}
  Cron = cron
  Parents <- MCParents
  Trashed = {"f"}
  Requests = {"create", "trash", "restore", "restoreToRoot", "move", "delete"}
  PurgeBatch = 1
  MaxItems = 4
  MaxEpoch = 1
  MaxSeq = 4
  MaxNumber = 12
  MaxFaults = 0
INVARIANTS TypeOK NoCycle DeletedIsEmpty
PROPERTY PurgedOnlyInside
CHECK_DEADLOCK FALSE
SYMMETRY MCSymmetry
