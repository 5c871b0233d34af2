CONSTANTS
  o = o
  b = b
  c = c
  m = m
  n = n
  t = t
  None = None
  Devices = {o, b, c}
  Founders = {o, b, c}
  SendOnly = {}
  Revocable = {c}
  Messages = {m}
  Author <- AuthorB
  Target <- TargetM
  WithFile = {m}
  MaxEpoch = 2
  MaxTries = 1
  MaxFaults = 0
  Forgetful = {c}
SPECIFICATION FairSpec
CHECK_DEADLOCK FALSE
INVARIANTS FileReadable FileMatchesRow
PROPERTIES OutboxDrains
