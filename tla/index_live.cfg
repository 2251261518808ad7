SPECIFICATION Spec
CONSTANTS
  Calls = {c1}
  Segments <- TreeSegments
  Lower <- TreeLower
  Batches <- LiveBatches
  Targets <- LiveTargets
  ChunkSize = 2
  Failing = {"put", "root", "page", "level"}
  StaleReads = TRUE
  Overlap = TRUE
  Paged = TRUE
PROPERTY CallsReturn
CHECK_DEADLOCK FALSE
