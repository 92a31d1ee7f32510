SPECIFICATION Spec
CONSTANTS
  Tgids = {1, 2, 3}
  StartTimes = {1, 2, 3, 4, 5}
  Names = {"a"}
  NoName = NoName
  NoKey = NoKey
  Grace = 0
  Snapshot <- FromProc
  Boot <- InitOnly
  Capacity = 2
  MaxStart = 5
  Execers = {}
  Runs = {"a"}
  Threads = FALSE
  PidReuse = TRUE
  Lossy = FALSE
INVARIANT Acyclic
