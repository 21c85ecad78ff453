\* Two nodes poll at once.
SPECIFICATION Spec
CONSTANTS
  n1 = n1
  n2 = n2
  Nodes = {n1, n2}
  Keys = {"k"}
  Payloads = {"k"}
  NoKey = NoKey
  FieldKey = "field"
  OwnKey <- IdKeys
  Ids <- TwoBlocks
  BatchSize = 2
  MaxTry = 2
  MaxRequests = 3
  MaxFaults = 0
  MaxCrashes = 0
INVARIANTS TaskDoneOnce SuccessHasEffect
PROPERTY KeepsLedger
CHECK_DEADLOCK FALSE
