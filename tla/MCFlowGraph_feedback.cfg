SPECIFICATION Spec
CONSTANTS
  Sheets <- Blocks
  Start = "start"
  Join = "join"
INVARIANT FeedbackReturns
\* The modeller stops drawing.
CHECK_DEADLOCK FALSE
