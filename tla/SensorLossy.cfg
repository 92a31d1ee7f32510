SPECIFICATION Spec
CONSTANTS
  Tgids = {1, 2, 3}
  StartTimes = {1, 2, 3, 4}
  Names = {"a"}
  NoName = NoName
  NoKey = NoKey
  Grace = 0
  Snapshot <- FromProc
  Boot <- InitOnly
  Capacity = 2
  MaxStart = 4
  Execers = {2}
  Runs = {"a"}
  Threads = TRUE
  PidReuse = FALSE
  Lossy = TRUE
INVARIANTS SensorTypeOK LinksAgree IndexAgrees Acyclic AncestryNeverWrong
PROPERTIES LineageKept DisciplinedSpec
