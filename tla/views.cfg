SPECIFICATION Spec
CONSTANTS
  Lower <- MCLower
  Keys <- MCKeys
  Level <- MCLevel
  Folder <- MCFolder
  Locks <- MCLocks
  Upper <- MCUpper
  Routings <- MCRoutings
  Values = {"v", "q", "s"}
  Quoted = {"q"}
  Batches <- MCBatches
  Templates <- MCTemplates
  Format = "json"
  BuiltIn <- MCBuiltIn
  Arguments <- MCArguments
  Begins <- MCBegins
  TimeParams <- MCTimeParams
  Limit = 2
  Old <- MCOld
  Second = 2
  MaxTime = 4
  MaxUpserts = 2
  Failing = {"row", "list", "get"}
INVARIANTS SecretsHidden HistoryHonest HistoryNewest BuildFilled ExportHonest
CHECK_DEADLOCK FALSE
