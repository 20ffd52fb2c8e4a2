SPECIFICATION Spec
CONSTANTS
  Requests = {r1, r2, r3}
  Guids = {"g1", "g2"}
  Bodies = {"on"}
  Fields = {}
  Values = {}
  Absent = ""
  Kinds = {"push", "remove"}
  GatewayTakesActions = FALSE
  GatewayValues = {}
  Faults = {}
  FreshGuids = TRUE
  MaxInFlight = 2
  MaxRetries = 3
INVARIANTS OneRowPerModification
