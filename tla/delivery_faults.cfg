CONSTANTS
  o = o
  b = b
  c = c
  m = m
  n = n
  t = t
  None = None
  Devices = {o, b, c}
  Founders = {o, b}
  SendOnly = {}
  Revocable = {b}
  Messages = {m}
  Author <- AuthorO
  Target <- TargetM
  WithFile = {m}
  MaxEpoch = 2
  MaxTries = 2
  MaxFaults = 1
  Forgetful = {}
SPECIFICATION Spec
CHECK_DEADLOCK FALSE
INVARIANTS TypeOK NoLostMessage
PROPERTIES NothingDroppedUnread
