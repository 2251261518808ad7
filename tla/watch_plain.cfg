SPECIFICATION Spec
CONSTANTS
  Streams = {s1}
  Written <- PlainKeys
  Lower <- MCLower
  VaultPrefix <- MCVault
  Requests <- PlainRequests
  Buffer = 1
  HasClient = TRUE
  MaxWrites = 3
  Spaced = TRUE
  Deletes = TRUE
  TraceReuse = FALSE
  Lossy = TRUE
  StaleScan = FALSE
  Drops = TRUE
INVARIANTS TypeOK PlainKeysConverge
CHECK_DEADLOCK FALSE
