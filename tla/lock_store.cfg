SPECIFICATION Spec
CONSTANTS
  Messages = {m}
  Page = Pg
  Worker = Sw
  ContentKeys = {k}
  Clear = clear
  MaxFaults = 1
  MaxEpoch = 2
  Overlaps = FALSE
INVARIANTS IndexCovers SecretsKept RingIsStored
PROPERTIES QueuedIsFlushed
CHECK_DEADLOCK FALSE
