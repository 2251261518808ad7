SPECIFICATION Spec
CONSTANTS
  Calls = {c1}
  Readers = {}
  Keys <- MCKeys
  Batches <- MCBatches
  Tables <- MCTables
  Orders <- MCOrders
  Paths <- MCPaths
  MaxWrites = 2
  MaxSwaps = 0
  Failing = {}
  Racing = FALSE
PROPERTY DeleteLeavesNothing
CHECK_DEADLOCK FALSE
