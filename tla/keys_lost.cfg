CONSTANTS
  o = o
  b = b
  c = c
  Devices = {o, b, c}
  Founders = {o, b, c}
  Owner = o
  Admins = {o}
  SendOnly = {c}
  Revocable = {c}
  OwedAtStart = {FALSE}
  Keys = {1, 2, 3, 4, 5, 6, 7, 8}
  FirstKey = 1
  Overlap = FALSE
  MaxTries = 3
  MaxFaults = 3
SPECIFICATION Spec
INVARIANTS NoneStranded
