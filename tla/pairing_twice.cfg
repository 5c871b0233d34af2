SPECIFICATION Spec
CONSTANTS
  Attempts = {"a"}
  Slots = {"a"}
  SlotOf <- SlotOne
  Calls = {c1, c2}
  Nil = Nil
  MaxEpoch = 1
  MaxPolls = 2
  MaxFaults = 0
  Reopens = FALSE
INVARIANTS JoinsOnce
CHECK_DEADLOCK FALSE
