SPECIFICATION Spec
CONSTANTS
  Calls = {c1, c2}
  Readers = {}
  Keys <- MCKeys
  Batches <- MCBatches
  Tables <- MCTables
  Orders <- MCOrders
  Paths <- MCPaths
  MaxWrites = 2
  MaxSwaps = 1
  Failing = {"param", "index", "process", "between"}
  Racing = FALSE
PROPERTY UpsertRestores
SYMMETRY CallSymmetry
CHECK_DEADLOCK FALSE
