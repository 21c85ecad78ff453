--------------------------- MODULE MCProcessEditor ---------------------------
(* Instances of ProcessEditor for TLC.                                       *)
EXTENDS ProcessEditor, TLC

CONSTANT x

\* A start and a task, and the flow between them.
Small ==
  [activities |-> <<[tracingTag |-> 1, id |-> 1], [tracingTag |-> 2, id |-> 2]>>,
   flows      |-> <<[sourceRef |-> 1, targetRef |-> 2]>>]

Everything == {"drop", "extend", "connect", "reconnect", "trash", "change", "touch",
               "undo", "redo", "panel", "rename", "copy", "paste", "delete"}
=============================================================================
