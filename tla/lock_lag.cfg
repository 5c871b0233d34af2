SPECIFICATION Spec
CONSTANTS
  Messages = {m}
  Page = Pg
  Worker = Sw
  ContentKeys = {k}
  Clear = clear
  MaxFaults = 0
  MaxEpoch = 3
  Overlaps = FALSE
INVARIANT VaultIsCurrent
CHECK_DEADLOCK FALSE
