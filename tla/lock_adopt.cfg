SPECIFICATION Spec
CONSTANTS
  Messages = {m}
  Page = Pg
  Worker = Sw
  ContentKeys = {k}
  Clear = clear
  MaxFaults = 1
  MaxEpoch = 2
  Overlaps = TRUE
INVARIANT SecretsKept
CHECK_DEADLOCK FALSE
