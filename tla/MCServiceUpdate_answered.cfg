SPECIFICATION Spec
CONSTANTS
  Services = {"backend", "nginx"}
  Requests = {r1, r2}
  Tags = {"v1", "v2"}
  InitTag = "v1"
  Latest = "latest"
  NoTag = ""
  ImageOrder <- NewestOfTwo
  Broken = {"v2"}
  Kinds = {"update"}
  Faults = {"pull", "cancel"}
  MaxInFlight = 2
  MaxClock = 2
INVARIANTS HistoryMatchesAnswer
SYMMETRY Symmetry
