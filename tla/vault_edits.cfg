SPECIFICATION Spec
CONSTANTS
  Items = {"n"}
  Folders = {}
  Nil = "nil"
  Writers = {w1, w2}
  Cron = cron
  Parents <- MCNotes
  Trashed = {"n"}
  Requests = {"rename", "edit", "delete", "reseal"}
  PurgeBatch = 1
  MaxItems = 4
  MaxEpoch = 2
  MaxSeq = 2
  MaxNumber = 9
  MaxFaults = 1
INVARIANT MetaOpensContent
PROPERTIES NoEditLost ResealCompletes TrashEmpties
CHECK_DEADLOCK FALSE
