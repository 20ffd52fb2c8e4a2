SPECIFICATION Spec
CONSTANTS
  Requests = {r1, r2, r3, r4}
  Guids = {"g1", "g2"}
  Bodies = {"on"}
  Fields = {"f1"}
  Values = {"0", "1"}
  Absent = ""
  Kinds = {"push", "remove", "set"}
  GatewayTakesActions = FALSE
  GatewayValues = {"0"}
  Faults = {"exit"}
  FreshGuids = TRUE
  MaxInFlight = 4
  MaxRetries = 3
INVARIANTS AuditNeverLies AuditExplainsQueueSet LastWriterAudited
SYMMETRY Symmetry
