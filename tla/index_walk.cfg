SPECIFICATION Spec
CONSTANTS
  Calls = {c1, c2}
  Segments <- TreeSegments
  Lower <- TreeLower
  Batches <- TreeBatches
  Targets <- TreeTargets
  ChunkSize = 25
  Failing = {}
  StaleReads = FALSE
  Overlap = FALSE
  Paged = TRUE
INVARIANTS DeleteRemovesSubtree OrphansAreOwned
SYMMETRY CallSymmetry
