SPECIFICATION Spec
CONSTANTS
  Requests = {r1, r2, r3, r4}
  Guids = {"g1", "g2"}
  Bodies = {"on"}
  Fields = {"f1"}
  Values = {"0", "1"}
  Absent = ""
  Kinds = {"push", "remove", "purge", "set"}
  GatewayTakesActions = FALSE
  GatewayValues = {}
  Faults = {}
  FreshGuids = FALSE
  MaxInFlight = 1
  MaxRetries = 3
INVARIANTS AuditExplainsQueue PurgeCountsExactly AuditChain
