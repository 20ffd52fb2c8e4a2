SPECIFICATION FairSpec
CONSTANTS
  Services = {"backend", "nginx"}
  Requests = {r1, r2, r3}
  Tags = {"v1", "v2", "latest"}
  InitTag = "v1"
  Latest = "latest"
  NoTag = ""
  ImageOrder <- LatestLast
  Broken = {"v2"}
  Kinds = {"update", "rollback", "restart"}
  Faults = {"pull"}
  MaxInFlight = 1
  MaxClock = 1
INVARIANTS CleanAtRest HistoryExplainsTag AuditExplainsTag
PROPERTIES ImplementsServiceDeploy
