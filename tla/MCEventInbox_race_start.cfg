\* Two nodes start instances with the same key.
SPECIFICATION Spec
CONSTANTS
  n1 = n1
  n2 = n2
  Nodes = {n1, n2}
  Keys = {"k", NoKey}
  Payloads = {NoKey, "k", "broken"}
  NoKey = NoKey
  FieldKey = "field"
  OwnKey <- IdKeys
  Ids <- TwoBlocks
  BatchSize = 2
  MaxTry = 2
  MaxRequests = 2
  MaxFaults = 0
  MaxCrashes = 0
INVARIANT OneInstancePerKey
CHECK_DEADLOCK FALSE
