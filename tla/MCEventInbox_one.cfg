\* One node, that may crash twice and dispatches that may fail twice.
SPECIFICATION FairSpec
CONSTANTS
  n1 = n1
  n2 = n2
  Nodes = {n1}
  Keys = {"k", NoKey}
  Payloads = {NoKey, "broken"}
  NoKey = NoKey
  FieldKey = "field"
  OwnKey <- IdKeys
  Ids <- OneBlock
  BatchSize = 2
  MaxTry = 2
  MaxRequests = 2
  MaxFaults = 2
  MaxCrashes = 2
INVARIANTS TypeOK RowsAreConsistent OneInstancePerKey SuccessHasEffect
PROPERTIES KeepsLedger EventuallySettled
CHECK_DEADLOCK FALSE
