CONSTANTS
  o = o
  b = b
  c = c
  Devices = {o, b, c}
  Founders = {o, b, c}
  Owner = o
  Admins = {o}
  SendOnly = {}
  Revocable = {b}
  OwedAtStart = {TRUE, FALSE}
  Keys = {1, 2, 3, 4, 5, 6, 7, 8}
  FirstKey = 1
  Overlap = FALSE
  MaxTries = 1
  MaxFaults = 0
SPECIFICATION FairSpec
INVARIANTS TypeOK WrapsOnlyForActive OneKeyPerEpoch NoSplitBrain RevokedLeftBehind
PROPERTIES KeysFollowLog CleanRotationCompletes KeyReachesEveryone
