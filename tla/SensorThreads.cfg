SPECIFICATION Spec
CONSTANTS
  Tgids = {1, 2, 3, 4}
  StartTimes = {1, 2, 3, 4, 5, 6}
  Names = {"a"}
  NoName = NoName
  NoKey = NoKey
  Grace = 0
  Snapshot <- FromProc
  Boot <- InitAndChild
  Capacity = 2
  MaxStart = 6
  Execers = {2}
  Runs = {"a"}
  Threads = TRUE
  PidReuse = TRUE
  Lossy = FALSE
INVARIANT ResolveCurrent
