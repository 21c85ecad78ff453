SPECIFICATION Spec
CONSTANTS
  Sheets <- AllSheets
  Start = "start"
  Join = "join"
INVARIANTS ForwardAcyclic BlockIsClosed
\* The modeller stops drawing.
CHECK_DEADLOCK FALSE
