SPECIFICATION Spec
CONSTANTS
  Calls = {c1, c2}
  Readers = {r1}
  Keys <- MCKeys
  Batches <- MCBatches
  Tables <- MCTables
  Orders <- MCOrders
  Paths <- MCPaths
  MaxWrites = 2
  MaxSwaps = 2
  Failing = {"param", "index", "process"}
  Racing = FALSE
INVARIANTS TypeOK ResolveRegular NoDanglingRows RoutesSpecific
PROPERTY ImplementsMap
SYMMETRY CallSymmetry
CHECK_DEADLOCK FALSE
