CONSTANTS
  k1 = k1
  k2 = k2
  Keys = {k1}
  Size <- SizeIs
  Quota = 2
  Stores = {"vault"}
  MaxUploads = 2
  MaxFailures = 0
SPECIFICATION Spec
CHECK_DEADLOCK FALSE
INVARIANTS ObjectsHaveRows
