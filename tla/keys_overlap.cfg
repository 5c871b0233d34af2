CONSTANTS
  o = o
  b = b
  c = c
  Devices = {o, b, c}
  Founders = {o, b, c}
  Owner = o
  Admins = {o}
  SendOnly = {c}
  Revocable = {o, b, c}
  OwedAtStart = {FALSE}
  Keys = {1, 2, 3, 4, 5, 6, 7, 8}
  FirstKey = 1
  Overlap = TRUE
  MaxTries = 1
  MaxFaults = 0
SPECIFICATION Spec
PROPERTIES KeyringsOnlyGrow
