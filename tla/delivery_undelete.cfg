CONSTANTS
  o = o
  b = b
  c = c
  m = m
  n = n
  t = t
  None = None
  Devices = {o, b, c}
  Founders = {o, b}
  SendOnly = {}
  Revocable = {}
  Messages = {m, t}
  Author <- AuthorB
  Target <- TargetM
  WithFile = {m}
  MaxEpoch = 1
  MaxTries = 1
  MaxFaults = 0
  Forgetful = {}
SPECIFICATION Spec
CHECK_DEADLOCK FALSE
INVARIANTS DeletedStaysDeleted
