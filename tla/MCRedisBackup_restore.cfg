SPECIFICATION Spec
CONSTANTS
  Lists = {"actions"}
  Hashes = {"exchange"}
  Strings = {"connected"}
  Sets = {"members"}
  KeyOrder <- Order
  NoKey = "none"
  Elements = {"a", "b"}
  Fields = {"0", "1"}
  Values = {"", "on"}
  EmptyString = ""
  Absent = absent
  InitDb <- Now
  InitFile <- Older
  Requests = {r1, r2}
  Faults = {"redis", "exit"}
  MaxInFlight = 2
  MaxLen = 2
  MaxMishaps = 1
INVARIANTS TypeOK BackupIsFaithful RestoreBringsBack
SYMMETRY Symmetry
