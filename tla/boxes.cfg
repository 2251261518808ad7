SPECIFICATION Spec
CONSTANTS
  prod = prod
  dev = dev
  task = task
  env = env
  spec = spec
  Calls = {c1, c2}
  Reloads = {r1, r2}
  Ids = {spec}
  Stages = {prod, dev}
  Names <- MCNames
  Bodies <- MCBodies
  Extension <- MCExtension
  WellFormed = {"a", "b"}
  Matches <- MCMatches
  File <- MCFile
  Boxes <- MCBoxes
  MaxUpserts = 2
  Failing = {"object"}
INVARIANTS SchemasCurrent RecordsStored
PROPERTY ReloadForward
SYMMETRY Symmetry
CHECK_DEADLOCK FALSE
