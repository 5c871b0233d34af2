SPECIFICATION Spec
CONSTANTS
  Attempts = {"a", "b"}
  Slots = {"a"}
  SlotOf <- SlotShared
  Calls = {c1, c2}
  Nil = Nil
  MaxEpoch = 1
  MaxPolls = 2
  MaxFaults = 0
  Reopens = FALSE
INVARIANT TokenFits
PROPERTY RevocationStands
CHECK_DEADLOCK FALSE
