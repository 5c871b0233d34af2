CONSTANTS
  o = o
  b = b
  c = c
  Devices = {o, b, c}
  Founders = {o, b}
  Owner = o
  Admins = {o}
  SendOnly = {b}
  Revocable = {b}
  OwedAtStart = {TRUE}
  Keys = {1, 2, 3, 4, 5, 6, 7, 8}
  FirstKey = 1
  Overlap = FALSE
  MaxTries = 2
  MaxFaults = 1
SPECIFICATION Spec
PROPERTIES JoinsAtCurrentEpoch AckAfterStore
