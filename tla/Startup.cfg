SPECIFICATION StartupSpec
CONSTANTS
  Tgids = {1, 2, 3, 4}
  StartTimes = {1, 2, 3, 4, 5, 6, 7, 8}
  Names = {"a", "b"}
  NoName = NoName
  NoKey = NoKey
  Grace = 0
  Snapshot <- NothingRead
  Boot <- InitAndChild
  Capacity = 3
  MaxStart = 4
  Execers = {2}
  Runs = {"b"}
  Threads = FALSE
  PidReuse = FALSE
  Lossy = FALSE
  Ticks <- Shifted
INVARIANTS TableTypeOK Acyclic EveryoneKnown AncestryKin
