SPECIFICATION Spec
CONSTANTS
  Sections <- Kernels
  Queries <- Asked
  Cpus = {c1, c2}
  Capacity = 2
  NoPath = NoPath
  MaxDrops = 2
  Paths = {"p", "stem", "long"}
  Stem <- Cut
  Guarded = {c1}
  Programs <- TwoPrograms
  MaxDeny = 1
  DenyLists <- Lists
CHECK_DEADLOCK FALSE
INVARIANTS OffsetsTrue GuardExact CountHonest
