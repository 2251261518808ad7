SPECIFICATION Spec
CONSTANTS
  Calls = {c1, c2}
  Segments <- MCSegments
  Lower <- MCLower
  Batches <- MCBatches
  Targets <- MCTargets
  ChunkSize = 2
  Failing = {"put", "root", "page", "level"}
  StaleReads = FALSE
  Overlap = TRUE
  Paged = FALSE
INVARIANTS TypeOK ResultsHonest UpsertHeals
PROPERTY DeleteConfined
SYMMETRY CallSymmetry
CHECK_DEADLOCK FALSE
