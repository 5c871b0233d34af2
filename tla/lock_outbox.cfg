SPECIFICATION Spec
CONSTANTS
  Messages = {m}
  Page = Pg
  Worker = Sw
  ContentKeys = {k}
  Clear = clear
  MaxFaults = 0
  MaxEpoch = 2
  Overlaps = FALSE
PROPERTY OutboxFlushes
CHECK_DEADLOCK FALSE
