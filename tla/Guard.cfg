SPECIFICATION Spec
CONSTANTS
  Sections <- OneKernel
  Queries <- Asked
  Cpus = {c1, c2}
  Capacity = 1
  NoPath = NoPath
  MaxDrops = 1
  Paths = {"p", "stem", "long"}
  Stem <- Cut
  Guarded = {c1, c2}
  Programs <- TwoPrograms
  MaxDeny = 1
  DenyLists <- OnlyStem
CHECK_DEADLOCK FALSE
INVARIANT ExactOneWay
