SPECIFICATION Spec
CONSTANTS
  x = x
  Names = {x}
  MaxTag = 4
  MaxActivities = 4
  MaxFlows = 3
  MaxGestures = 5
  Gestures <- Everything
  Null = Null
  NoTag = NoTag
  Loaded <- Small
INVARIANTS TypeOK RedoNeedsUndo
PROPERTIES UndoChainKept OnlyPasteHidesTags CanvasKeepsFlows
CHECK_DEADLOCK FALSE
