SPECIFICATION FairSpec
CONSTANTS
  Tgids = {1, 2, 3, 4}
  StartTimes = {1, 2, 3, 4, 5}
  Names = {"a", "b"}
  NoName = NoName
  NoKey = NoKey
  Grace = 0
  Snapshot <- FromProc
  Boot <- InitOnly
  Capacity = 2
  MaxStart = 5
  Execers = {2}
  Runs = {"a", "b"}
  Threads = FALSE
  PidReuse = FALSE
  Lossy = FALSE
INVARIANTS AncestryComplete ExeTracksImage DeathRecorded
PROPERTY Forgotten
