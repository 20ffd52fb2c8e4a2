SPECIFICATION Spec
CONSTANTS
  Requests = {r1, r2, r3}
  Guids = {"g1"}
  Bodies = {"on", "off"}
  Fields = {}
  Values = {}
  Absent = ""
  Kinds = {"push", "remove", "purge"}
  GatewayTakesActions = TRUE
  GatewayValues = {}
  Faults = {"redis", "sqlite"}
  FreshGuids = FALSE
  MaxInFlight = 3
  MaxRetries = 1
INVARIANTS TypeOK
PROPERTIES RemovesOnlyItsAction
SYMMETRY Symmetry
