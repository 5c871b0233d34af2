CONSTANTS
  k1 = k1
  k2 = k2
  Keys = {k1, k2}
  Size <- SizeIs
  Quota = 2
  Stores = {"files", "vault"}
  MaxUploads = 2
  MaxFailures = 2
SPECIFICATION FairSpec
CHECK_DEADLOCK FALSE
INVARIANTS VaultClaimsHold ObjectHasRow VaultQuotaHeld
PROPERTIES Reclaimed
