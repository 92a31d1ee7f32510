SPECIFICATION FairSpec
CONSTANTS
  Sections <- OneKernel
  Queries <- Asked
  Cpus = {c1, c2}
  Capacity = 2
  NoPath = NoPath
  MaxDrops = 1
  Paths = {"p", "stem", "long"}
  Stem <- Cut
  Guarded = {}
  Programs <- TwoPrograms
  MaxDeny = 1
  DenyLists <- NoLists
CHECK_DEADLOCK FALSE
INVARIANT NoLostWakeup
PROPERTIES Stops TimerServed
