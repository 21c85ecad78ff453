SPECIFICATION Spec
CONSTANTS
  Case <- CheckedRework
  Activities <- CaseActivities
  Kind <- CaseKind
  Order <- CaseOrder
  Out <- CaseOut
  In <- CaseIn
  Conditional <- CaseConditional
  Otherwise <- CaseOtherwise
  Rank <- CaseRank
  Block <- CaseBlock
  Feedback <- CaseFeedback
  Depth <- CaseDepth
  Outcomes <- CaseOutcomes
  LastOutcomes <- CaseLastOutcomes
  Deciders <- CaseDeciders
  MaxRuns = 2
  MaxFaults = 0
  MaxBacks = 0
  Engine = "engine"
PROPERTY JoinWaits
CHECK_DEADLOCK FALSE
