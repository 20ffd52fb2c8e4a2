SPECIFICATION Spec
CONSTANTS
  Services = {"backend"}
  Requests = {r1, r2, r3}
  Tags = {"v1", "v2"}
  InitTag = "v1"
  Latest = "latest"
  NoTag = ""
  ImageOrder <- NewestOfTwo
  Broken = {}
  Kinds = {"update", "restart"}
  Faults = {}
  MaxInFlight = 2
  MaxClock = 2
INVARIANTS UpAtRest
SYMMETRY Symmetry
