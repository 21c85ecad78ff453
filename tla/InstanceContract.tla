--------------------------- MODULE InstanceContract ---------------------------
(***************************************************************************)
(* What the engine promises the people who work on a process instance,     *)
(* whatever its graph: a service call has all of its effect or none.  One  *)
(* call does one task; it may open tasks and withdraw others, and it may   *)
(* end the instance, but only a call that leaves no task open may complete *)
(* it, and what is completed takes no more calls than one that goes back.  *)
(* Going back undoes nothing that was counted.  It gives up one part of    *)
(* the promise: if other tasks were suspended then, the instance may be    *)
(* completed while they still are.                                         *)
(*                                                                         *)
(* The service methods of InstanceServiceImpl are what is promised; how    *)
(* they keep it is TokenFlow.                                              *)
(***************************************************************************)
EXTENDS Integers

CONSTANT Tasks     \* the human activities of the definition

VARIABLES
  life,     \* status of the instance
  open,     \* tasks with an open, or suspended, work item
  done,     \* how often each task was done
  held      \* tasks that stayed suspended when somebody went back

contract == <<life, open, done, held>>

Init ==
  /\ life = "NONE"
  /\ open = {}
  /\ done = [t \in Tasks |-> 0]
  /\ held = {}

\* The result of a call: any tasks may be open, only held ones if the instance is
\* completed.
Leaves ==
  /\ life' \in {"RUNNING", "STOPPED", "COMPLETED"}
  /\ open' \in SUBSET Tasks
  /\ life' = "COMPLETED" => open' \subseteq held'

Start ==
  /\ life = "NONE"
  /\ Leaves
  /\ UNCHANGED <<done, held>>

DoTask(t) ==
  /\ life # "COMPLETED"
  /\ t \in open
  /\ Leaves
  /\ done' = [done EXCEPT ![t] = @ + 1]
  /\ UNCHANGED held

Stop ==
  /\ life = "RUNNING"
  /\ life' = "STOPPED"
  /\ open' = {}
  /\ UNCHANGED <<done, held>>

\* A resumed task without a work item gets one.
Resume ==
  /\ life = "RUNNING"
  /\ open' \in SUBSET Tasks
  /\ open \subseteq open'
  /\ UNCHANGED <<life, done, held>>

GoBack ==
  /\ life # "NONE"
  /\ Leaves
  /\ held' \in SUBSET Tasks /\ held \subseteq held'
  /\ UNCHANGED done

Next == Start \/ Stop \/ Resume \/ GoBack \/ \E t \in Tasks : DoTask(t)

Spec == Init /\ [][Next]_contract
=============================================================================
