SPECIFICATION Spec
CONSTANTS
  Services = {"backend"}
  Requests = {r1, r2}
  Tags = {"v1", "v2"}
  InitTag = "v1"
  Latest = "latest"
  NoTag = ""
  ImageOrder <- NewestOfTwo
  Broken = {}
  Kinds = {"update"}
  Faults = {"pull", "engine", "cancel", "exit", "sqlite"}
  MaxInFlight = 2
  MaxClock = 1
INVARIANTS TypeOK NeverLost SuccessMeansStarted
PROPERTIES HistoryIsFinal
SYMMETRY Symmetry
