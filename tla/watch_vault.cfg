SPECIFICATION Spec
CONSTANTS
  Streams = {s1, s2}
  Written <- VaultKeys
  Lower <- MCLower
  VaultPrefix <- MCVault
  Requests <- VaultRequests
  Buffer = 1
  HasClient = TRUE
  MaxWrites = 2
  Spaced = FALSE
  Deletes = TRUE
  TraceReuse = FALSE
  Lossy = FALSE
  StaleScan = FALSE
  Drops = TRUE
INVARIANT VaultKeysConverge
PROPERTIES VaultDeltaFresh FailuresContained DeltasDrain
CHECK_DEADLOCK FALSE
