SPECIFICATION Spec
CONSTANTS
  Attempts = {"a"}
  Slots = {"a"}
  SlotOf <- SlotOne
  Calls = {c1, c2}
  Nil = Nil
  MaxEpoch = 2
  MaxPolls = 2
  MaxFaults = 2
  Reopens = FALSE
INVARIANTS TokenFits
PROPERTIES RevocationStands PackageReachesJoiner
CHECK_DEADLOCK FALSE
