SPECIFICATION DetectionSpec
CONSTANTS
  Tgids = {1, 2, 3}
  StartTimes = {1, 2, 3, 4}
  Names = {"a", "b"}
  NoName = NoName
  NoKey = NoKey
  Grace = 0
  Snapshot <- FromProc
  Boot <- InitOnly
  Capacity = 2
  MaxStart = 4
  Execers = {2, 3}
  Runs = {"b"}
  Threads = FALSE
  PidReuse = FALSE
  Lossy = FALSE
  Rules <- MCRules
  Written = {"cron"}
  Dests = {"out", "lo"}
  Nothing = Nothing
  Active = {3}
  MaxHits = 2
INVARIANT FactsTrue
PROPERTY CorrelationMet
