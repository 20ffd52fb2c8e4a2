SPECIFICATION Spec
CONSTANTS
  Services = {"backend"}
  Requests = {r1, r2, r3}
  Tags = {"v1", "v2", "v3"}
  InitTag = "v1"
  Latest = "latest"
  NoTag = ""
  ImageOrder <- NewestFirst
  Broken = {}
  Kinds = {"update", "rollback"}
  Faults = {}
  MaxInFlight = 1
  MaxClock = 1
INVARIANTS RollbackRestoresPrevious
