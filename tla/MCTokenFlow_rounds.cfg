SPECIFICATION FairSpec
CONSTANTS
  Case <- Rounds
  Activities <- CaseActivities
  Kind <- CaseKind
  Order <- CaseOrder
  Out <- CaseOut
  In <- CaseIn
  Conditional <- CaseConditional
  Otherwise <- CaseOtherwise
  Rank <- CaseRank
  Block <- CaseBlock
  Feedback <- CaseFeedback
  Depth <- CaseDepth
  Outcomes <- CaseOutcomes
  LastOutcomes <- CaseLastOutcomes
  Deciders <- CaseDeciders
  MaxRuns = 2
  MaxFaults = 0
  MaxBacks = 0
  Engine = "engine"
INVARIANT NoStrays
PROPERTIES JoinWaits EventuallyOver
CHECK_DEADLOCK FALSE
