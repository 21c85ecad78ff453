SPECIFICATION Spec
CONSTANTS
  Case <- Review
  Activities <- CaseActivities
  Kind <- CaseKind
  Order <- CaseOrder
  Out <- CaseOut
  In <- CaseIn
  Conditional <- CaseConditional
  Otherwise <- CaseOtherwise
  Rank <- CaseRank
  Block <- CaseBlock
  Feedback <- CaseFeedback
  Depth <- CaseDepth
  Outcomes <- CaseOutcomes
  LastOutcomes <- CaseLastOutcomes
  Deciders <- CaseDeciders
  MaxRuns = 1
  MaxFaults = 1
  MaxBacks = 1
  Engine = "engine"
INVARIANTS NoStrays TypeOK RowsFollowStatus RunsOnce NoTokenLeft CompletedIsQuiet
PROPERTIES JoinWaits EndedStaysEnded KeepsContract
CHECK_DEADLOCK FALSE
