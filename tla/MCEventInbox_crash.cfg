\* A node crashes between the commit of a dispatch and that of its batch.
SPECIFICATION Spec
CONSTANTS
  n1 = n1
  n2 = n2
  Nodes = {n1}
  Keys = {"k", NoKey}
  Payloads = {NoKey, "k", "broken"}
  NoKey = NoKey
  FieldKey = "field"
  OwnKey <- IdKeys
  Ids <- OneBlock
  BatchSize = 2
  MaxTry = 2
  MaxRequests = 1
  MaxFaults = 0
  MaxCrashes = 1
INVARIANT SuccessIsRecorded
CHECK_DEADLOCK FALSE
