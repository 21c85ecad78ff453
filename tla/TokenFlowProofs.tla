---------------------------- MODULE TokenFlowProofs ----------------------------
(***************************************************************************)
(* What holds of TokenFlow for every process graph, with whatever blocks,  *)
(* conditions and priorities: its types, that a completed instance is at   *)
(* rest, and that it implements InstanceContract.                          *)
(***************************************************************************)
EXTENDS TokenFlow, SequenceTheorems, WellFoundedInduction, TLAPS

-----------------------------------------------------------------------------
(* Operators.                                                              *)

\* The engine takes the flows of a loop from the first one on.
LEMMA MinIsMember ==
  ASSUME NEW S \in SUBSET Nat, S # {}
  PROVE  Min(S) \in S
<1> DEFINE less == {p \in Nat \X Nat : p[1] < p[2]}
<1>1. less = OpToRel(<, Nat)
  BY Zenon DEF OpToRel
<1>2. IsWellFoundedOn(less, Nat)
  BY <1>1, NatLessThanWellFounded, Zenon
<1>3. PICK m \in S : \A x \in S : ~(<<x, m>> \in less)
  <2> HIDE DEF less
  <2> QED BY <1>2, WFMin, Zenon
<1>4. \A x \in S : m <= x
  <2> TAKE x \in S
  <2>1. <<x, m>> \in less <=> <<x, m>>[1] < <<x, m>>[2]
    BY Zenon
  <2>2. ~(x < m)
    BY <1>3, <2>1
  <2> QED BY <2>2
<1> QED
  BY <1>4 DEF Min

\* A completed activity continues along flows that leave it.
LEMMA NextOfType ==
  ASSUME NEW a \in Activities, NEW m
  PROVE  /\ NextOf(a, m) \subseteq DOMAIN Out[a]
         /\ NextOf(a, m) \in SUBSET Nat
         /\ Targets(a, NextOf(a, m)) \subseteq Activities
<1>1. Out[a] \in Seq(Activities)
  BY GraphAssumption
<1>2. Allowed(a, m) \subseteq DOMAIN Out[a]
  BY DEF Allowed
<1>3. GatewayNext(a, m) \subseteq DOMAIN Out[a]
  BY <1>2 DEF GatewayNext
<1>4. NextOf(a, m) \subseteq DOMAIN Out[a]
  BY <1>2, <1>3 DEF NextOf, FirstOf
<1> QED
  BY <1>1, <1>4 DEF Targets

\* The stack is never left with a loop that has nothing to do.
LEMMA StackType ==
  ASSUME stack \in Seq(Frames), stack # <<>>
  PROVE  /\ Top \in Frames
         /\ Current \in Activities
         /\ Popped \in Seq(Frames)
<1>1. Top \in Frames /\ Tail(stack) \in Seq(Frames)
  BY DEF Top
<1>2. ListOf(Top.by) \in Seq(Activities)
  BY <1>1, GraphAssumption DEF Frames, ListOf
<1>3. Min(Top.todo) \in Top.todo
  BY <1>1, MinIsMember DEF Frames
<1>4. Current \in Activities
  BY <1>1, <1>2, <1>3 DEF Frames, Current
<1>5. ASSUME Top.todo # {Min(Top.todo)}
      PROVE  [Top EXCEPT !.todo = @ \ {Min(@)}] \in Frames
  BY <1>1, <1>3, <1>5 DEF Frames
<1>6. Popped \in Seq(Frames)
  BY <1>1, <1>5 DEF Popped
<1> QED
  BY <1>1, <1>4, <1>6

-----------------------------------------------------------------------------
(* Types.                                                                  *)

\* Completing an activity keeps the types.
LEMMA CompleteType ==
  ASSUME TypeOK,
         NEW a \in Activities, NEW m, NEW rest \in Seq(Frames),
         NEW st \in [Activities -> Statuses], NEW rw \in [Humans -> RowStatuses],
         Complete(a, st, rw, m, rest)
  PROVE  /\ status' \in [Activities -> Statuses]
         /\ completions' \in [Activities -> Nat]
         /\ tokens' \in [Activities -> Nat]
         /\ row' \in [Humans -> RowStatuses]
         /\ strays' \in [Humans -> Nat]
         /\ stack' \in Seq(Frames)
         /\ ending' \in Nat
<1> DEFINE flows == NextOf(a, m)
           next  == Targets(a, flows)
<1>1. /\ status \in [Activities -> Statuses] /\ completions \in [Activities -> Nat]
      /\ tokens \in [Activities -> Nat] /\ strays \in [Humans -> Nat] /\ ending \in Nat
  BY DEF TypeOK, Snapshot, Durables
<1>2. Humans \subseteq Activities
  BY DEF Humans
<1>3. status' = [st EXCEPT ![a] = "COMPLETED"]
  BY DEF Complete
<1>4. completions' = [completions EXCEPT ![a] = @ + 1]
  BY DEF Complete
<1>5. tokens' = [x \in Activities |-> (IF x = a THEN 0 ELSE tokens[x])
                                     + (IF x \in next THEN 1 ELSE 0)]
  BY DEF Complete
<1>6. row' = [x \in Humans |-> IF x \in next THEN "NONE" ELSE rw[x]]
  BY DEF Complete
<1>7. strays' = [x \in Humans |-> IF x \in next /\ rw[x] = "NEW"
                                 THEN strays[x] + 1 ELSE strays[x]]
  BY DEF Complete
<1>8. stack' \in Seq(Frames) /\ ending' \in Nat
  <2>1. CASE flows = {}
    BY <1>1, <2>1 DEF Complete
  <2>2. CASE flows # {}
    <3>1. ListOf(a) = Out[a]
      BY GraphAssumption DEF ListOf
    <3>2. [by |-> a, todo |-> flows] \in Frames
      BY <2>2, <3>1, NextOfType DEF Frames
    <3>3. stack' = <<[by |-> a, todo |-> flows]>> \o rest /\ ending' = ending
      BY <2>2 DEF Complete
    <3> HIDE DEF flows
    <3> QED
      BY <1>1, <3>2, <3>3
  <2> QED
    BY <2>1, <2>2
<1> HIDE DEF next, flows
<1> QED
  BY <1>1, <1>2, <1>3, <1>4, <1>5, <1>6, <1>7, <1>8 DEF Statuses, RowStatuses

\* Every action keeps the types, whatever graph it runs on.
LEMMA TypeStep == TypeOK /\ [Next]_vars => TypeOK'
<1> SUFFICES ASSUME TypeOK, [Next]_vars
             PROVE  TypeOK'
  OBVIOUS
<1> DEFINE DurableTypes ==
             /\ instance \in Lives
             /\ status \in [Activities -> Statuses]
             /\ tokens \in [Activities -> Nat]
             /\ taken \in SUBSET (Activities \X Activities)
             /\ row \in [Humans -> RowStatuses]
             /\ strays \in [Humans -> Nat]
             /\ completions \in [Activities -> Nat]
             /\ met \in SUBSET Conditional
             /\ held \in SUBSET Humans
           CallTypes ==
             /\ stack \in Seq(Frames)
             /\ ending \in Nat
             /\ saved \in Seq(Durables) /\ Len(saved) <= 1
             /\ faults \in 0..MaxFaults /\ backs \in 0..MaxBacks
<1>1. DurableTypes /\ CallTypes
  BY DEF TypeOK, Snapshot, Durables
<1>2. ASSUME DurableTypes', CallTypes'
      PROVE  TypeOK'
  BY <1>2 DEF TypeOK, Snapshot, Durables
<1>3. /\ Humans \subseteq Activities /\ Order \in Seq(Activities)
      /\ MaxFaults \in Nat /\ MaxBacks \in Nat
  BY GraphAssumption DEF Humans
<1>4. ASSUME Begin
      PROVE  saved' \in Seq(Durables) /\ Len(saved') <= 1
  <2>1. Snapshot \in Durables
    BY DEF TypeOK
  <2> QED
    BY <1>4, <2>1 DEF Begin
<1>5. ASSUME Running
      PROVE  /\ Current \in Activities
             /\ Popped \in Seq(Frames)
             /\ Enter(Current) => taken' \in SUBSET (Activities \X Activities)
  <2>1. Top \in Frames /\ Current \in Activities /\ Popped \in Seq(Frames)
    BY <1>1, <1>5, StackType DEF Running
  <2>2. Top.by \in Activities \cup {Engine}
    BY <2>1 DEF Frames
  <2> QED
    BY <1>1, <2>1, <2>2 DEF Enter
<1>6. ASSUME NEW A
      PROVE  /\ StatusStopping(A) \in [Activities -> Statuses]
             /\ RowsStopping(A) \in [Humans -> RowStatuses]
  BY <1>1, <1>3 DEF StatusStopping, RowsStopping, Statuses, RowStatuses
<1> HIDE DEF DurableTypes, CallTypes
<1>7. CASE Start
  <2>1. met' \in SUBSET Conditional
    BY <1>7, GraphAssumption DEF Start
  <2>2. stack' \in Seq(Frames)
    <3> DEFINE todo == {i \in DOMAIN Order : IsStart(Order[i])}
    <3>1. todo # {}
      <4>1. PICK a \in ToSet(Order) : IsStart(a)
        BY GraphAssumption
      <4>2. PICK i \in DOMAIN Order : Order[i] = a
        BY DEF ToSet
      <4> QED
        BY <4>1, <4>2
    <3>2. [by |-> Engine, todo |-> todo] \in Frames
      <4>1. todo \in SUBSET Nat /\ todo \subseteq DOMAIN Order
        BY <1>3
      <4> HIDE DEF todo
      <4> QED
        BY <3>1, <4>1 DEF Frames, ListOf
    <3>3. stack' = <<[by |-> Engine, todo |-> todo]>>
      BY <1>7 DEF Start
    <3> QED
      BY <3>2, <3>3
  <2> QED
    BY <1>1, <1>2, <1>4, <1>7, <2>1, <2>2 DEF Start, Lives, DurableTypes, CallTypes
<1>8. CASE Work
  <2>1. PICK a \in Activities : CompleteTask(a)
    BY <1>8 DEF Work
  <2>2. met' \in SUBSET Conditional
    BY <1>1, <2>1, GraphAssumption DEF CompleteTask, Decisions, DurableTypes
  <2>3. [row EXCEPT ![a] = "COMPLETED"] \in [Humans -> RowStatuses]
    BY <1>1 DEF DurableTypes, RowStatuses
  <2>4. Complete(a, status, [row EXCEPT ![a] = "COMPLETED"], met', <<>>)
    BY <2>1 DEF CompleteTask
  <2>5. <<>> \in Seq(Frames) /\ status \in [Activities -> Statuses]
    BY <1>1 DEF DurableTypes
  <2>6. /\ status' \in [Activities -> Statuses] /\ completions' \in [Activities -> Nat]
        /\ tokens' \in [Activities -> Nat] /\ row' \in [Humans -> RowStatuses]
        /\ strays' \in [Humans -> Nat] /\ stack' \in Seq(Frames) /\ ending' \in Nat
    BY <2>3, <2>4, <2>5, CompleteType
  <2> QED
    BY <1>1, <1>2, <1>4, <2>1, <2>2, <2>6 DEF CompleteTask, DurableTypes, CallTypes
<1>9. CASE Stop
  BY <1>1, <1>2, <1>6, <1>9 DEF Stop, Lives, DurableTypes, CallTypes
<1>10. CASE Suspend
  <2>1. /\ status' \in [Activities -> Statuses]
        /\ row' \in [Humans -> RowStatuses]
    BY <1>1, <1>10 DEF Suspend, DurableTypes, Statuses, RowStatuses
  <2> QED
    BY <1>1, <1>2, <1>10, <2>1 DEF Suspend, DurableTypes, CallTypes
<1>11. CASE Resume
  <2>1. stack' \in Seq(Frames)
    <3> DEFINE todo == {i \in DOMAIN Order : status[Order[i]] = "SUSPENDED"}
    <3>1. [by |-> Engine, todo |-> todo] \in Frames
      BY <1>3, <1>11 DEF Resume, Frames, ListOf
    <3>2. stack' = <<[by |-> Engine, todo |-> todo]>>
      BY <1>11 DEF Resume
    <3> QED
      BY <3>1, <3>2
  <2> QED
    BY <1>1, <1>2, <1>4, <1>11, <2>1 DEF Resume, durable, DurableTypes, CallTypes
<1>12. CASE Hold
  BY <1>1, <1>2, <1>5, <1>12 DEF Hold, durable, DurableTypes, CallTypes
<1>13. CASE OpenTask
  <2>1. /\ status' \in [Activities -> Statuses]
        /\ row' \in [Humans -> RowStatuses]
    BY <1>1, <1>13 DEF OpenTask, DurableTypes, Statuses, RowStatuses
  <2> QED
    BY <1>1, <1>2, <1>5, <1>13, <2>1 DEF OpenTask, DurableTypes, CallTypes
<1>14. CASE PassThrough
  <2>1. Complete(Current, status, row, met, Popped)
    BY <1>14 DEF PassThrough
  <2>2. Current \in Activities /\ Popped \in Seq(Frames)
    BY <1>5, <1>14 DEF PassThrough
  <2>3. /\ status' \in [Activities -> Statuses] /\ completions' \in [Activities -> Nat]
        /\ tokens' \in [Activities -> Nat] /\ row' \in [Humans -> RowStatuses]
        /\ strays' \in [Humans -> Nat] /\ stack' \in Seq(Frames) /\ ending' \in Nat
    BY <1>1, <2>1, <2>2, CompleteType DEF DurableTypes
  <2> QED
    BY <1>1, <1>2, <1>5, <1>14, <2>3 DEF PassThrough, DurableTypes, CallTypes
<1>15. CASE PassExclusive
  <2>1. PICK A : Complete(Current, StatusStopping(A), RowsStopping(A), met, Popped)
    BY <1>15 DEF PassExclusive
  <2>2. Current \in Activities /\ Popped \in Seq(Frames)
    BY <1>5, <1>15 DEF PassExclusive
  <2>3. /\ status' \in [Activities -> Statuses] /\ completions' \in [Activities -> Nat]
        /\ tokens' \in [Activities -> Nat] /\ row' \in [Humans -> RowStatuses]
        /\ strays' \in [Humans -> Nat] /\ stack' \in Seq(Frames) /\ ending' \in Nat
    BY <1>6, <2>1, <2>2, CompleteType
  <2> QED
    BY <1>1, <1>2, <1>5, <1>15, <2>3 DEF PassExclusive, DurableTypes, CallTypes
<1>16. CASE Terminate
  <2>1. Complete(Current, StatusStopping(Stoppable), RowsStopping(Stoppable), met, Popped)
    BY <1>16 DEF Terminate
  <2>2. Current \in Activities /\ Popped \in Seq(Frames)
    BY <1>5, <1>16 DEF Terminate
  <2>3. /\ status' \in [Activities -> Statuses] /\ completions' \in [Activities -> Nat]
        /\ tokens' \in [Activities -> Nat] /\ row' \in [Humans -> RowStatuses]
        /\ strays' \in [Humans -> Nat] /\ stack' \in Seq(Frames) /\ ending' \in Nat
    BY <1>6, <2>1, <2>2, CompleteType
  <2> QED
    BY <1>1, <1>2, <1>5, <1>16, <2>3 DEF Terminate, Lives, DurableTypes, CallTypes
<1>17. CASE AutoFails
  <2>1. saved[1] \in Durables
    BY <1>1, <1>17 DEF AutoFails, Running, Idle, CallTypes
  <2>2. DurableTypes'
    BY <1>17, <2>1 DEF AutoFails, Restored, Durables, DurableTypes
  <2>3. faults' \in 0..MaxFaults
    BY <1>1, <1>3, <1>17 DEF AutoFails, CallTypes
  <2> QED
    BY <1>1, <1>2, <1>17, <2>2, <2>3 DEF AutoFails, CallTypes
<1>18. CASE Commit
  <2>1. /\ row' \in [Humans -> RowStatuses]
        /\ strays' \in [Humans -> Nat]
        /\ instance' \in Lives
    BY <1>1, <1>18 DEF Commit, DurableTypes, RowStatuses, Lives
  <2> QED
    BY <1>1, <1>2, <1>18, <2>1 DEF Commit, DurableTypes, CallTypes
<1>19. CASE GoBack
  <2>1. PICK a \in Activities : BackToHere(a)
    BY <1>19 DEF GoBack
  <2>2. /\ status' \in [Activities -> Statuses]
        /\ row' \in [Humans -> RowStatuses]
        /\ taken' \in SUBSET (Activities \X Activities)
        /\ held' \in SUBSET Humans
    BY <1>1, <2>1 DEF BackToHere, DurableTypes, Statuses, RowStatuses
  <2>3. stack' \in Seq(Frames)
    <3> DEFINE todo == {i \in DOMAIN Order : Order[i] = a}
    <3>1. todo # {}
      BY <2>1, GraphAssumption DEF ToSet
    <3>2. todo \in SUBSET Nat /\ todo \subseteq DOMAIN Order
      BY <1>3
    <3>3. stack' = <<[by |-> Engine, todo |-> todo]>>
      BY <2>1 DEF BackToHere
    <3> HIDE DEF todo
    <3>4. [by |-> Engine, todo |-> todo] \in Frames
      BY <3>1, <3>2 DEF Frames, ListOf
    <3> QED
      BY <3>3, <3>4
  <2>4. /\ instance' = "RUNNING" /\ Begin /\ backs' \in 0..MaxBacks
        /\ UNCHANGED <<tokens, strays, completions, met, ending, faults>>
    BY <1>1, <1>3, <2>1 DEF BackToHere, CallTypes
  <2> QED
    BY <1>1, <1>2, <1>4, <2>2, <2>3, <2>4 DEF Lives, DurableTypes, CallTypes
<1>20. CASE UNCHANGED vars
  BY <1>1, <1>2, <1>20 DEF vars, durable, DurableTypes, CallTypes
<1> QED
  BY <1>7, <1>8, <1>9, <1>10, <1>11, <1>12, <1>13, <1>14, <1>15, <1>16, <1>17,
     <1>18, <1>19, <1>20 DEF Next, EngineStep

\* The variables always have their types; in particular no call is ever left
\* with a loop that has nothing to do.
THEOREM TypeCorrect == Spec => []TypeOK
<1>1. Init => TypeOK
  <2> SUFFICES ASSUME Init PROVE TypeOK
    OBVIOUS
  <2>1. Snapshot \in Durables
    BY DEF Init, Snapshot, Durables, Lives, Statuses, RowStatuses
  <2> QED
    BY <2>1, GraphAssumption DEF Init, TypeOK
<1> QED
  BY <1>1, TypeStep, PTL DEF Spec

-----------------------------------------------------------------------------
(* A completed instance is at rest.                                        *)

\* What the database holds of the statuses `st' and the work items `rw' always
\* fits together: only human activities wait, and no more than the activity
\* does its work item.
Fitting(st, rw) ==
  /\ \A a \in Activities : st[a] \in {"RUNNING", "SUSPENDED"} => a \in Humans
  /\ \A a \in Humans :
       /\ rw[a] = "NEW" => st[a] = "RUNNING"
       /\ rw[a] = "SUSPENDED" => st[a] = "SUSPENDED"
       /\ st[a] = "RUNNING" => rw[a] \in {"NEW", "NONE"}

NoneIs(s, st) == \A a \in Activities : st[a] # s

\* What is suspended stayed so when somebody went back.
OnlyHeld(st, h) == \A a \in Activities : st[a] = "SUSPENDED" => a \in h

\* Between the statuses `st' and `next' nobody is suspended.
NoneSuspended(st, next) ==
  \A a \in Activities : next[a] = "SUSPENDED" => st[a] = "SUSPENDED"

\* What holds of the state that a call finds and leaves.
Sound(d) ==
  /\ Fitting(d.status, d.row)
  /\ NoneIs("RUNNING", d.status) \/ OnlyHeld(d.status, d.held)
  /\ d.instance = "COMPLETED" =>
       /\ NoneIs("RUNNING", d.status) /\ OnlyHeld(d.status, d.held)
       /\ \A a \in Humans : d.strays[a] = 0
  /\ d.instance = "NONE" => /\ NoneIs("RUNNING", d.status)
                            /\ OnlyHeld(d.status, d.held)

\* Human activities have been completed as often as the saved state says.
SameDone == \A a \in Humans : completions[a] = saved[1].completions[a]

SameHeld == held = saved[1].held

\* A start.
Starting ==
  /\ saved[1].instance = "NONE"
  /\ OnlyHeld(status, held)
  /\ SameDone /\ SameHeld

\* Somebody completed the task `t'.
Working(t) ==
  /\ saved[1].instance \in {"RUNNING", "STOPPED"}
  /\ saved[1].row[t] = "NEW"
  /\ OnlyHeld(status, held) /\ SameHeld
  /\ \A a \in Humans : completions[a] =
       saved[1].completions[a] + (IF a = t THEN 1 ELSE 0)

\* A resume: it opens one suspended task after the other and reaches no end.
Resuming ==
  /\ saved[1].instance = "RUNNING" /\ instance = "RUNNING"
  /\ ending = 0
  /\ SameDone /\ SameHeld
  /\ stack = <<>> \/ (Tail(stack) = <<>> /\ Top.by = Engine)
  /\ stack # <<>> => \A i \in Top.todo : Order[i] \in Humans
  /\ \A a \in Activities : status[a] = "SUSPENDED" =>
       stack # <<>> /\ \E i \in Top.todo : Order[i] = a
  /\ \A a \in Humans : saved[1].row[a] \in {"NEW", "SUSPENDED"}
                        => row[a] \in {"NEW", "SUSPENDED"}

\* Somebody went back.
GoingBack ==
  /\ saved[1].instance # "NONE"
  /\ OnlyHeld(status, held)
  /\ SameDone /\ saved[1].held \subseteq held

\* The inductive invariant.
CallInv ==
  /\ Idle => Sound(Snapshot) /\ stack = <<>> /\ ending = 0
  /\ ~Idle => /\ Fitting(status, row)
              /\ instance \in {"RUNNING", "STOPPED"}
              /\ Sound(saved[1])
              /\ Starting \/ Resuming \/ GoingBack \/ \E t \in Humans : Working(t)

Inv == TypeOK /\ CallInv

\* What the invariant says of the types of the call's parts.
LEMMA TypesOfInv ==
  ASSUME TypeOK
  PROVE  /\ instance \in Lives
         /\ status \in [Activities -> Statuses]
         /\ row \in [Humans -> RowStatuses]
         /\ strays \in [Humans -> Nat]
         /\ completions \in [Activities -> Nat]
         /\ stack \in Seq(Frames)
         /\ ending \in Nat
         /\ saved \in Seq(Durables) /\ Len(saved) <= 1
         /\ held \in SUBSET Humans
         /\ Humans \subseteq Activities
BY DEF TypeOK, Snapshot, Durables, Humans

\* Stopping activities withdraws their work items with them.
LEMMA StoppingFits ==
  ASSUME TypeOK, Fitting(status, row), NEW A
  PROVE  /\ Fitting(StatusStopping(A), RowsStopping(A))
         /\ NoneSuspended(status, StatusStopping(A))
<1>1. Humans \subseteq Activities
  BY DEF Humans
<1> QED
  BY <1>1 DEF Fitting, NoneSuspended, StatusStopping, RowsStopping

\* Completing an activity opens no work item and makes nobody wait.
LEMMA CompletingFits ==
  ASSUME NEW a \in Activities, NEW m, NEW rest,
         NEW st \in [Activities -> Statuses], NEW rw,
         Complete(a, st, rw, m, rest),
         Fitting([st EXCEPT ![a] = "COMPLETED"], rw)
  PROVE  /\ Fitting(status', row')
         /\ NoneSuspended(st, status')
<1> DEFINE next == Targets(a, NextOf(a, m))
<1>1. status' = [st EXCEPT ![a] = "COMPLETED"]
  BY DEF Complete
<1>2. row' = [x \in Humans |-> IF x \in next THEN "NONE" ELSE rw[x]]
  BY DEF Complete
<1> HIDE DEF next
<1> QED
  BY <1>1, <1>2 DEF Fitting, NoneSuspended

\* What is not a human activity completes without touching those of others.
LEMMA PassingFits ==
  ASSUME NEW a \in Activities \ Humans, NEW m, NEW rest,
         NEW st \in [Activities -> Statuses], NEW rw,
         Complete(a, st, rw, m, rest), TypeOK, Fitting(st, rw)
  PROVE  /\ Fitting(status', row')
         /\ NoneSuspended(st, status')
         /\ \A x \in Humans : completions'[x] = completions[x]
<1>1. Fitting([st EXCEPT ![a] = "COMPLETED"], rw)
  BY DEF Fitting
<1>2. completions' = [completions EXCEPT ![a] = @ + 1]
  BY DEF Complete
<1>3. completions \in [Activities -> Nat] /\ Humans \subseteq Activities
  BY TypesOfInv
<1> QED
  BY <1>1, <1>2, <1>3, CompletingFits

\* A resume executes human activities only, and without a join test.
LEMMA ResumingOpens ==
  ASSUME TypeOK, Running, Resuming
  PROVE  Current \in Humans /\ MayEnter(Current)
<1>1. Top \in Frames /\ Top.by = Engine
  BY TypesOfInv, StackType DEF Running, Resuming
<1>2. Min(Top.todo) \in Top.todo
  BY <1>1, MinIsMember DEF Frames
<1> QED
  BY <1>1, <1>2 DEF Running, Resuming, Current, ListOf, MayEnter

\* What an engine step has to keep for the invariant to go on.
LEMMA CallGoesOn ==
  ASSUME Inv, ~Idle, saved' = saved,
         Fitting(status', row'), instance' \in {"RUNNING", "STOPPED"},
         NoneSuspended(status, status'), held' = held,
         \A x \in Humans : completions'[x] = completions[x],
         Resuming => Resuming'
  PROVE  CallInv'
<1>1. ~Idle'
  BY DEF Idle
<1>2. Sound(saved[1])' /\ Fitting(status, row)'
  BY DEF Inv, CallInv, Sound, Fitting, NoneIs, OnlyHeld
<1>3. Starting => Starting'
  BY DEF Starting, SameDone, SameHeld, OnlyHeld, NoneSuspended
<1>4. ASSUME NEW t \in Humans, Working(t)
      PROVE  Working(t)'
  BY <1>4 DEF Working, SameHeld, OnlyHeld, NoneSuspended
<1>5. GoingBack => GoingBack'
  BY DEF GoingBack, SameDone, OnlyHeld, NoneSuspended
<1> QED
  BY <1>1, <1>2, <1>3, <1>4, <1>5 DEF Inv, CallInv

\* Every action keeps what the invariant says of the running call.
LEMMA CallStep == Inv /\ [Next]_vars => CallInv'
<1> SUFFICES ASSUME Inv, [Next]_vars
             PROVE  CallInv'
  OBVIOUS
<1>1. TypeOK /\ TypeOK'
  BY TypeStep DEF Inv
<1>2. ASSUME Running, saved' = saved, held' = held,
             instance' \in {"RUNNING", "STOPPED"}, Current \notin Humans,
             NEW st \in [Activities -> Statuses], NEW rw, NEW m, NEW rest,
             Fitting(st, rw), NoneSuspended(status, st),
             Complete(Current, st, rw, m, rest)
      PROVE  CallInv'
  <2>1. ~Resuming
    BY <1>1, <1>2, ResumingOpens
  <2>2. Current \in Activities
    BY <1>1, <1>2, TypesOfInv, StackType DEF Running
  <2>3. /\ Fitting(status', row')
        /\ NoneSuspended(st, status')
        /\ \A x \in Humans : completions'[x] = completions[x]
    BY <1>1, <1>2, <2>2, PassingFits
  <2>4. NoneSuspended(status, status')
    BY <1>2, <2>3 DEF NoneSuspended
  <2> QED
    BY <1>2, <2>1, <2>3, <2>4, CallGoesOn DEF Running
<1>3. CASE Start
  <2>1. Idle /\ Sound(Snapshot) /\ instance = "NONE"
    BY <1>3 DEF Start, Inv, CallInv
  <2>2. saved' = <<Snapshot>> /\ ~Idle'
    BY <1>3 DEF Start, Begin, Idle
  <2>3. Fitting(status, row)' /\ OnlyHeld(status, held)'
    BY <1>3, <2>1 DEF Start, Sound, Snapshot, Fitting, OnlyHeld
  <2>4. Sound(saved[1])'
    BY <2>1, <2>2
  <2>5. Starting'
    BY <1>3, <2>1, <2>2, <2>3 DEF Start, Starting, SameDone, SameHeld, Snapshot
  <2> QED
    BY <1>3, <2>2, <2>3, <2>4, <2>5 DEF Start, CallInv
<1>4. CASE Work
  <2>1. PICK a \in Activities : CompleteTask(a)
    BY <1>4 DEF Work
  <2> DEFINE rw == [row EXCEPT ![a] = "COMPLETED"]
  <2>2. /\ Idle /\ Sound(Snapshot) /\ a \in Humans /\ status[a] = "RUNNING"
        /\ row[a] # "NONE" /\ Complete(a, status, rw, met', <<>>)
    BY <2>1 DEF CompleteTask, Inv, CallInv
  <2>3. saved' = <<Snapshot>> /\ ~Idle'
    BY <2>1 DEF CompleteTask, Begin, Idle
  <2>4. Fitting([status EXCEPT ![a] = "COMPLETED"], rw)
    BY <1>1, <2>2, TypesOfInv DEF Sound, Snapshot, Fitting
  <2>5. OnlyHeld(status, held) /\ row[a] = "NEW"
    BY <2>2 DEF Sound, Snapshot, Fitting, NoneIs
  <2>6. Fitting(status', row') /\ NoneSuspended(status, status')
    BY <1>1, <2>2, <2>4, CompletingFits, TypesOfInv
  <2>7. instance \in {"RUNNING", "STOPPED"}
    BY <1>1, <2>2, TypesOfInv DEF Sound, Snapshot, NoneIs, Lives
  <2>8. completions' = [completions EXCEPT ![a] = @ + 1]
    BY <2>2 DEF Complete
  <2>9. Working(a)'
    <3>1. held' = held /\ OnlyHeld(status, held)'
      BY <2>1, <2>5, <2>6 DEF CompleteTask, OnlyHeld, NoneSuspended
    <3> QED
      BY <1>1, <2>2, <2>3, <2>5, <2>7, <2>8, <3>1, TypesOfInv
         DEF Working, SameHeld, Snapshot
  <2>10. Sound(saved[1])'
    BY <2>2, <2>3
  <2> QED
    BY <2>1, <2>2, <2>3, <2>6, <2>7, <2>9, <2>10 DEF CompleteTask, CallInv
<1>5. CASE Stop
  <2>1. Idle /\ Sound(Snapshot)
    BY <1>5 DEF Stop, Inv, CallInv
  <2>2. Fitting(status', row')
    BY <1>1, <1>5, <2>1, StoppingFits DEF Stop, Sound, Snapshot
  <2>3. NoneIs("RUNNING", status')
    BY <1>5 DEF Stop, NoneIs, StatusStopping, Stoppable
  <2>4. Sound(Snapshot)' /\ Idle' /\ stack' = <<>> /\ ending' = 0
    BY <1>5, <2>1, <2>2, <2>3 DEF Stop, Sound, Snapshot, Idle, Inv, CallInv
  <2> QED
    BY <2>4 DEF CallInv
<1>6. CASE Suspend
  <2>1. Idle /\ Sound(Snapshot)
    BY <1>6 DEF Suspend, Inv, CallInv
  <2>2. Fitting(status', row')
    BY <1>1, <1>6, <2>1, TypesOfInv DEF Suspend, Sound, Snapshot, Fitting
  <2>3. NoneIs("RUNNING", status')
    BY <1>6 DEF Suspend, NoneIs
  <2>4. Sound(Snapshot)' /\ Idle' /\ stack' = <<>> /\ ending' = 0
    BY <1>6, <2>1, <2>2, <2>3 DEF Suspend, Sound, Snapshot, Idle, Inv, CallInv
  <2> QED
    BY <2>4 DEF CallInv
<1>7. CASE Resume
  <2> DEFINE todo == {i \in DOMAIN Order : status[Order[i]] = "SUSPENDED"}
  <2>1. Idle /\ Sound(Snapshot) /\ ending = 0
    BY <1>7 DEF Resume, Inv, CallInv
  <2>2. saved' = <<Snapshot>> /\ ~Idle' /\ stack' = <<[by |-> Engine, todo |-> todo]>>
    BY <1>7 DEF Resume, Begin, Idle
  <2>3. UNCHANGED durable /\ ending' = 0
    BY <1>7, <2>1 DEF Resume
  <2>4. Fitting(status', row') /\ Sound(saved[1])'
    BY <2>1, <2>2, <2>3 DEF Sound, Snapshot, durable
  <2>5. Tail(stack') = <<>> /\ Top' = [by |-> Engine, todo |-> todo]
    BY <2>2 DEF Top
  <2>6. \A i \in todo : Order[i] \in Humans
    BY <2>1, GraphAssumption DEF Sound, Snapshot, Fitting, ToSet
  <2>7. \A a \in Activities : status[a] = "SUSPENDED" => \E i \in todo : Order[i] = a
    BY GraphAssumption DEF ToSet
  <2>8. instance = "RUNNING"
    BY <1>7 DEF Resume
  <2>9. Resuming'
    BY <2>2, <2>3, <2>5, <2>6, <2>7, <2>8 DEF Resuming, SameDone, SameHeld, Snapshot, durable
  <2> QED
    BY <2>2, <2>3, <2>4, <2>8, <2>9 DEF CallInv, durable
<1>8. CASE Hold
  <2>1. ~Resuming
    BY <1>1, <1>8, ResumingOpens DEF Hold
  <2>2. Fitting(status', row') /\ instance' \in {"RUNNING", "STOPPED"}
    BY <1>8 DEF Hold, Inv, CallInv, Running, durable
  <2> QED
    BY <1>8, <2>1, <2>2, CallGoesOn DEF Hold, Running, durable, NoneSuspended
<1>9. CASE OpenTask
  <2>1. /\ ~Idle /\ Current \in Humans /\ saved' = saved
        /\ status' = [status EXCEPT ![Current] = "RUNNING"]
        /\ row' = [row EXCEPT ![Current] = "NEW"]
        /\ stack' = Popped /\ ending' = ending /\ completions' = completions
        /\ instance' = instance /\ held' = held
    BY <1>9 DEF OpenTask, Running
  <2>2. Fitting(status', row')
    BY <1>1, <2>1, TypesOfInv DEF Inv, CallInv, Fitting
  <2>3. NoneSuspended(status, status')
    BY <1>1, <2>1, TypesOfInv DEF NoneSuspended
  <2>4. ASSUME Resuming
        PROVE  Resuming'
    <3>1. Top \in Frames /\ Top.by = Engine /\ Tail(stack) = <<>>
      BY <1>1, <1>9, <2>4, StackType, TypesOfInv DEF OpenTask, Running, Resuming
    <3>2. Min(Top.todo) \in Top.todo
      BY <3>1, MinIsMember DEF Frames
    <3>3. Current = Order[Min(Top.todo)]
      BY <3>1 DEF Current, ListOf
    <3>4. /\ saved[1].instance = "RUNNING" /\ instance = "RUNNING" /\ ending = 0 /\ SameDone /\ SameHeld
          /\ \A i \in Top.todo : Order[i] \in Humans
          /\ \A a \in Activities : status[a] = "SUSPENDED" => \E i \in Top.todo : Order[i] = a
          /\ \A a \in Humans : saved[1].row[a] \in {"NEW", "SUSPENDED"}
                                => row[a] \in {"NEW", "SUSPENDED"}
      BY <1>9, <2>4 DEF Resuming, OpenTask, Running
    <3>5. \A a \in Activities : status'[a] = "SUSPENDED" =>
            \E i \in Top.todo \ {Min(Top.todo)} : Order[i] = a
      BY <1>1, <2>1, <3>3, <3>4, TypesOfInv
    <3>6. \A a \in Humans : saved[1].row[a] \in {"NEW", "SUSPENDED"}
                           => row'[a] \in {"NEW", "SUSPENDED"}
      BY <1>1, <2>1, <3>4, TypesOfInv
    <3>7. CASE Top.todo = {Min(Top.todo)}
      <4>1. stack' = <<>>
        BY <2>1, <3>1, <3>7 DEF Popped
      <4> QED
        BY <2>1, <3>4, <3>5, <3>6, <3>7, <4>1 DEF Resuming, SameDone, SameHeld
    <3>8. CASE Top.todo # {Min(Top.todo)}
      <4> DEFINE top == [Top EXCEPT !.todo = @ \ {Min(@)}]
      <4>1. stack' = <<top>>
        <5>1. stack' = <<top>> \o <<>>
          BY <2>1, <3>1, <3>8 DEF Popped
        <5> HIDE DEF top
        <5> QED
          BY <5>1
      <4>2. top.by = Engine /\ top.todo = Top.todo \ {Min(Top.todo)}
        BY <3>1 DEF Frames
      <4>3. Top' = top /\ Tail(stack') = <<>> /\ stack' # <<>>
        BY <4>1 DEF Top
      <4> HIDE DEF top
      <4> QED
        BY <2>1, <3>4, <3>5, <3>6, <4>2, <4>3 DEF Resuming, SameDone, SameHeld
    <3> QED
      BY <3>7, <3>8
  <2> QED
    BY <2>1, <2>2, <2>3, <2>4, CallGoesOn DEF Inv, CallInv
<1>10. CASE PassThrough
  <2>1. Current \notin Humans
    BY <1>10 DEF PassThrough, Humans
  <2>2. /\ Running /\ saved' = saved /\ held' = held /\ instance' = instance
        /\ Complete(Current, status, row, met, Popped)
    BY <1>10 DEF PassThrough
  <2>3. Fitting(status, row) /\ instance \in {"RUNNING", "STOPPED"}
    BY <2>2 DEF Running, Inv, CallInv
  <2>4. NoneSuspended(status, status)
    BY DEF NoneSuspended
  <2> QED
    BY <1>1, <1>2, <2>1, <2>2, <2>3, <2>4, TypesOfInv
<1>11. CASE PassExclusive
  <2>1. Current \notin Humans
    BY <1>11 DEF PassExclusive, Humans
  <2>2. PICK A : Complete(Current, StatusStopping(A), RowsStopping(A), met, Popped)
    BY <1>11 DEF PassExclusive
  <2>3. Running /\ saved' = saved /\ held' = held /\ instance' = instance
    BY <1>11 DEF PassExclusive
  <2>4. Fitting(status, row) /\ instance \in {"RUNNING", "STOPPED"}
    BY <2>3 DEF Running, Inv, CallInv
  <2>5. StatusStopping(A) \in [Activities -> Statuses]
    BY <1>1, TypesOfInv DEF StatusStopping, Statuses
  <2> QED
    BY <1>1, <1>2, <2>1, <2>2, <2>3, <2>4, <2>5, StoppingFits
<1>12. CASE Terminate
  <2>1. Current \notin Humans
    BY <1>12 DEF Terminate, Humans
  <2>2. Complete(Current, StatusStopping(Stoppable), RowsStopping(Stoppable), met, Popped)
    BY <1>12 DEF Terminate
  <2>3. Running /\ saved' = saved /\ held' = held /\ instance' = "STOPPED"
    BY <1>12 DEF Terminate
  <2>4. Fitting(status, row)
    BY <2>3 DEF Running, Inv, CallInv
  <2>5. StatusStopping(Stoppable) \in [Activities -> Statuses]
    BY <1>1, TypesOfInv DEF StatusStopping, Statuses
  <2> QED
    BY <1>1, <1>2, <2>1, <2>2, <2>3, <2>4, <2>5, StoppingFits
<1>13. CASE AutoFails
  <2>1. ~Idle /\ Sound(saved[1]) /\ saved[1] \in Durables
    BY <1>1, <1>13, TypesOfInv DEF AutoFails, Running, Idle, Inv, CallInv
  <2>2. Snapshot' = saved[1]
    BY <1>13, <2>1 DEF AutoFails, Restored, Snapshot, Durables
  <2>3. Idle' /\ stack' = <<>> /\ ending' = 0
    BY <1>13 DEF AutoFails, Idle
  <2> QED
    BY <2>1, <2>2, <2>3 DEF CallInv
<1>14. CASE Commit
  <2>1. /\ ~Idle /\ Fitting(status, row) /\ instance \in {"RUNNING", "STOPPED"}
        /\ stack = <<>> /\ status' = status
        /\ Idle' /\ stack' = <<>> /\ ending' = 0
    BY <1>14 DEF Commit, Inv, CallInv, Idle
  <2>2. OnlyHeld(status, held) /\ held' = held
    BY <1>14, <2>1 DEF Commit, Inv, CallInv, Starting, Working, Resuming, GoingBack, OnlyHeld
  <2>3. CASE Over
    <3>1. NoneIs("RUNNING", status)
      BY <2>3 DEF Over, NoneIs
    <3>2. Fitting(status', row')
      BY <1>14, <2>1, <2>3, <3>1 DEF Commit, Fitting, NoneIs, Humans
    <3>3. instance' = "COMPLETED" /\ \A a \in Humans : strays'[a] = 0
      BY <1>14, <2>3 DEF Commit
    <3>4. Sound(Snapshot)'
      BY <2>1, <2>2, <3>1, <3>2, <3>3 DEF Sound, Snapshot
    <3> QED
      BY <2>1, <3>4 DEF CallInv
  <2>4. CASE ~Over
    <3>1. row' = row /\ instance' = instance
      <4>1. row' = [a \in Humans |-> row[a]]
        BY <1>14, <2>4 DEF Commit
      <4> QED
        BY <1>1, <1>14, <2>4, <4>1, TypesOfInv DEF Commit
    <3>2. Sound(Snapshot)'
      BY <2>1, <2>2, <3>1 DEF Sound, Snapshot
    <3> QED
      BY <2>1, <3>2 DEF CallInv
  <2> QED
    BY <2>3, <2>4
<1>15. CASE GoBack
  <2>1. PICK a \in Activities : BackToHere(a)
    BY <1>15 DEF GoBack
  <2> DEFINE undone == Begun(a) \cup {a}
  <2>2. /\ Idle /\ Sound(Snapshot) /\ instance # "NONE"
        /\ saved' = <<Snapshot>> /\ ~Idle' /\ instance' = "RUNNING"
        /\ status' = [x \in Activities |->
                        IF x \in undone THEN "COMPENSATED" ELSE status[x]]
        /\ row' = [x \in Humans |-> IF x \in undone THEN "NONE" ELSE row[x]]
        /\ held' = held \cup {x \in Humans \ undone : status[x] = "SUSPENDED"}
        /\ completions' = completions
    BY <2>1 DEF BackToHere, Begin, Idle, Inv, CallInv
  <2> HIDE DEF undone
  <2>3. Fitting(status, row) /\ Humans \subseteq Activities
    BY <2>2 DEF Sound, Snapshot, Humans
  <2>4. Fitting(status', row')
    BY <2>2, <2>3 DEF Fitting
  <2>5. OnlyHeld(status', held')
    BY <2>2, <2>3 DEF Fitting, OnlyHeld
  <2>6. Sound(saved[1])'
    BY <2>2
  <2>7. GoingBack'
    BY <2>2, <2>5 DEF GoingBack, SameDone, Snapshot
  <2> QED
    BY <2>2, <2>4, <2>6, <2>7 DEF CallInv
<1>16. CASE UNCHANGED vars
  <2>1. Idle' = Idle /\ Snapshot' = Snapshot /\ Top' = Top
    BY <1>16 DEF vars, durable, Idle, Snapshot, Top
  <2> QED
    BY <1>16, <2>1 DEF vars, durable, Inv, CallInv, Starting, Resuming, Working,
                       GoingBack, SameDone, SameHeld
<1> QED
  BY <1>3, <1>4, <1>5, <1>6, <1>7, <1>8, <1>9, <1>10, <1>11, <1>12, <1>13, <1>14,
     <1>15, <1>16 DEF Next, EngineStep

\* The inductive invariant holds in every reachable state.
LEMMA InvAlways == Spec => []Inv
<1>1. Init => Inv
  <2> SUFFICES ASSUME Init PROVE Inv
    OBVIOUS
  <2>1. TypeOK
    BY GraphAssumption
       DEF Init, TypeOK, Snapshot, Durables, Lives, Statuses, RowStatuses
  <2>2. Sound(Snapshot) /\ Idle
    BY DEF Init, Sound, Snapshot, Fitting, NoneIs, OnlyHeld, Idle
  <2> QED
    BY <2>1, <2>2 DEF Init, Inv, CallInv
<1>2. Inv /\ [Next]_vars => Inv'
  BY TypeStep, CallStep DEF Inv
<1> QED
  BY <1>1, <1>2, PTL DEF Spec

\* A completed instance is at rest, whatever its graph: the end listeners ask
\* for running activities only, but no suspended one can be left when a call
\* reaches an end, unless it stayed suspended when somebody went back, and the work
\* items that no task id names any more are closed with the instance.
THEOREM CompletedInstancesAreQuiet == Spec => []CompletedIsQuiet
<1>1. Inv => CompletedIsQuiet
  <2> SUFFICES ASSUME Inv, Idle, instance = "COMPLETED"
               PROVE  /\ \A a \in Activities :
                           status[a] # "RUNNING" /\ (status[a] = "SUSPENDED" => a \in held)
                      /\ \A a \in Humans :
                           /\ row[a] # "NEW" /\ (row[a] = "SUSPENDED" => a \in held)
                           /\ strays[a] = 0
    BY DEF CompletedIsQuiet
  <2>1. Sound(Snapshot)
    BY DEF Inv, CallInv
  <2>2. Humans \subseteq Activities
    BY DEF Humans
  <2> QED
    BY <2>1, <2>2 DEF Sound, Snapshot, Fitting, NoneIs, OnlyHeld
<1> QED
  BY <1>1, InvAlways, PTL

\* A completed instance stays as it is, whatever call is made on it, until somebody
\* goes back, whatever its graph.  (A stopped one need not, on every graph: the calls
\* below a terminate end event go on and may open again what it stopped.)
THEOREM CompletedStaysCompleted ==
  Spec => [][Idle /\ instance = "COMPLETED" => UNCHANGED durable \/ backs' > backs]_vars
<1>1. Inv /\ [Next]_vars =>
        [Idle /\ instance = "COMPLETED" => UNCHANGED durable \/ backs' > backs]_vars
  <2> SUFFICES ASSUME Inv, Next, Idle, instance = "COMPLETED"
               PROVE  UNCHANGED durable \/ backs' > backs
    OBVIOUS
  <2>1. NoneIs("RUNNING", status)
    BY DEF Inv, CallInv, Sound, Snapshot
  <2>2. ~Work
    BY <2>1 DEF Work, CompleteTask, NoneIs
  <2>3. ~EngineStep
    BY DEF EngineStep, Hold, OpenTask, PassThrough, PassExclusive, Terminate,
           AutoFails, Commit, Running
  <2>4. ~Start /\ ~Stop /\ ~Suspend /\ ~Resume
    BY DEF Start, Stop, Suspend, Resume
  <2>5. backs \in Nat
    BY GraphAssumption DEF Inv, TypeOK
  <2>6. PICK a \in Activities : BackToHere(a)
    BY <2>2, <2>3, <2>4 DEF Next, GoBack
  <2> QED
    BY <2>5, <2>6 DEF BackToHere
<1> QED
  BY <1>1, InvAlways, PTL DEF Spec

-----------------------------------------------------------------------------
(* The engine implements its contract.                                     *)

\* A commit shows the effect of the whole call.
LEMMA CommitKeepsContract ==
  ASSUME Inv, Inv', Commit
  PROVE  Contract!Next
<1>1. /\ ~Idle /\ Idle' /\ status' = status /\ completions' = completions
      /\ instance \in {"RUNNING", "STOPPED"}
      /\ instance' \in {"RUNNING", "STOPPED", "COMPLETED"}
      /\ held' = held
      /\ Starting \/ Resuming \/ GoingBack \/ \E t \in Humans : Working(t)
  BY DEF Commit, Inv, CallInv, Idle
<1>2. Seen = saved[1] /\ Seen' = Snapshot'
  BY <1>1 DEF Seen
<1>3. /\ SeenLife' = instance'
      /\ SeenOpen' = {a \in Humans : row'[a] \in {"NEW", "SUSPENDED"}}
      /\ SeenDone' = [a \in Humans |-> completions[a]]
      /\ SeenHeld = saved[1].held /\ SeenHeld' = held
  BY <1>1, <1>2 DEF SeenLife, SeenOpen, SeenDone, SeenHeld, Snapshot
<1>4. Contract!Leaves
  <2>1. instance' = "COMPLETED" => SeenOpen' \subseteq SeenHeld'
    <3>1. Sound(Snapshot)'
      BY <1>1 DEF Inv, CallInv
    <3> QED
      BY <1>1, <1>3, <3>1 DEF Sound, Snapshot, Fitting, NoneIs, OnlyHeld, Humans
  <2> QED
    BY <1>1, <1>3, <2>1 DEF Contract!Leaves, SeenOpen
<1>5. CASE Starting
  <2>1. SeenLife = "NONE"
    BY <1>2, <1>5 DEF Starting, SeenLife
  <2>2. SeenDone' = SeenDone /\ SeenHeld' = SeenHeld
    BY <1>2, <1>3, <1>5 DEF Starting, SameDone, SameHeld, SeenDone
  <2> QED
    BY <1>4, <2>1, <2>2 DEF Contract!Next, Contract!Start
<1>6. CASE Resuming
  <2>1. SeenLife = "RUNNING" /\ SeenDone' = SeenDone /\ SeenHeld' = SeenHeld
    BY <1>2, <1>3, <1>6 DEF Resuming, SameDone, SameHeld, SeenLife, SeenDone
  <2>2. row' = row /\ instance' = "RUNNING"
    <3>1. ~Over
      BY <1>6 DEF Resuming, Over
    <3>2. row' = [a \in Humans |-> row[a]]
      BY <3>1 DEF Commit
    <3>3. row \in [Humans -> RowStatuses]
      BY TypesOfInv DEF Inv
    <3> QED
      BY <1>6, <3>1, <3>2, <3>3 DEF Commit, Resuming
  <2>3. SeenOpen \subseteq SeenOpen' /\ SeenOpen' \in SUBSET Humans
    BY <1>2, <1>3, <1>6, <2>2 DEF Resuming, SeenOpen
  <2> QED
    BY <1>3, <2>1, <2>2, <2>3 DEF Contract!Next, Contract!Resume
<1>7. ASSUME NEW t \in Humans, Working(t)
      PROVE  Contract!Next
  <2>1. SeenLife # "COMPLETED" /\ t \in SeenOpen /\ SeenHeld' = SeenHeld
    BY <1>2, <1>3, <1>7 DEF Working, SameHeld, SeenLife, SeenOpen
  <2>2. SeenDone' = [SeenDone EXCEPT ![t] = @ + 1]
    <3>1. saved[1] \in Durables /\ Humans \subseteq Activities
      BY <1>1, TypesOfInv DEF Inv, Idle
    <3>2. saved[1].completions \in [Activities -> Nat]
      BY <3>1 DEF Durables
    <3>3. \A a \in Humans : completions[a] =
            saved[1].completions[a] + (IF a = t THEN 1 ELSE 0)
      BY <1>7 DEF Working
    <3>4. SeenDone = [a \in Humans |-> saved[1].completions[a]]
      BY <1>2 DEF SeenDone
    <3> QED
      BY <1>3, <3>1, <3>2, <3>3, <3>4
  <2>3. Contract!DoTask(t)
    BY <1>4, <2>1, <2>2 DEF Contract!DoTask
  <2> QED
    BY <2>3 DEF Contract!Next
<1>8. CASE GoingBack
  <2>1. SeenLife # "NONE" /\ SeenHeld \subseteq SeenHeld'
    BY <1>2, <1>3, <1>8 DEF GoingBack, SeenLife
  <2>2. SeenDone' = SeenDone
    BY <1>2, <1>3, <1>8 DEF GoingBack, SameDone, SeenDone
  <2>3. SeenHeld' \in SUBSET Humans
    BY <1>3, TypesOfInv DEF Inv
  <2> QED
    BY <1>4, <2>1, <2>2, <2>3 DEF Contract!Next, Contract!GoBack
<1> QED
  BY <1>1, <1>5, <1>6, <1>7, <1>8

\* Every action is a step of the contract or changes nothing that it shows.
LEMMA ContractStep ==
  Inv /\ Inv' /\ [Next]_vars => [Contract!Next]_<<SeenLife, SeenOpen, SeenDone, SeenHeld>>
<1> SUFFICES ASSUME Inv, Inv', [Next]_vars
             PROVE  \/ Contract!Next
                    \/ UNCHANGED <<SeenLife, SeenOpen, SeenDone, SeenHeld>>
  OBVIOUS
<1>1. ASSUME Seen' = Seen
      PROVE  UNCHANGED <<SeenLife, SeenOpen, SeenDone, SeenHeld>>
  BY <1>1 DEF SeenLife, SeenOpen, SeenDone, SeenHeld
<1>2. ASSUME Idle, Begin
      PROVE  Seen' = Seen
  BY <1>2 DEF Begin, Idle, Seen
<1>3. ASSUME ~Idle, saved' = saved
      PROVE  Seen' = Seen
  BY <1>3 DEF Idle, Seen
<1>4. CASE Start \/ Work \/ Resume \/ GoBack
  BY <1>1, <1>2, <1>4 DEF Start, Work, CompleteTask, Resume, GoBack, BackToHere
<1>5. CASE Hold \/ OpenTask \/ PassThrough \/ PassExclusive \/ Terminate
  BY <1>1, <1>3, <1>5 DEF Hold, OpenTask, PassThrough, PassExclusive, Terminate, Running
<1>6. CASE Stop
  <2>1. Idle /\ Idle' /\ instance = "RUNNING" /\ instance' = "STOPPED"
        /\ completions' = completions /\ held' = held
    BY <1>6 DEF Stop, Idle
  <2>2. Seen = Snapshot /\ Seen' = Snapshot'
    BY <2>1 DEF Seen
  <2>3. \A a \in Humans : row'[a] \notin {"NEW", "SUSPENDED"}
    <3>1. Sound(Snapshot) /\ Humans \subseteq Activities
      BY <2>1 DEF Inv, CallInv, Humans
    <3>2. TypeOK /\ row' = RowsStopping(Stoppable)
      BY <1>6 DEF Inv, Stop
    <3>3. \A a \in Humans : row[a] \in {"NEW", "SUSPENDED"} => a \in Stoppable
      BY <3>1 DEF Sound, Snapshot, Fitting, Stoppable
    <3> QED
      BY <3>2, <3>3 DEF RowsStopping
  <2>4. /\ SeenLife = "RUNNING" /\ SeenLife' = "STOPPED" /\ SeenOpen' = {}
        /\ SeenDone' = SeenDone /\ SeenHeld' = SeenHeld
    BY <2>1, <2>2, <2>3 DEF SeenLife, SeenOpen, SeenDone, SeenHeld, Snapshot
  <2> QED
    BY <2>4 DEF Contract!Next, Contract!Stop
<1>7. CASE Suspend
  <2>1. Idle /\ Idle' /\ instance' = instance /\ completions' = completions
        /\ held' = held
    BY <1>7 DEF Suspend, Idle
  <2>2. Seen = Snapshot /\ Seen' = Snapshot'
    BY <2>1 DEF Seen
  <2>3. \A a \in Humans : row'[a] \in {"NEW", "SUSPENDED"} <=> row[a] \in {"NEW", "SUSPENDED"}
    <3>1. Sound(Snapshot)
      BY <2>1 DEF Inv, CallInv
    <3> QED
      BY <1>7, <3>1 DEF Suspend, Sound, Snapshot, Fitting
  <2> QED
    BY <2>1, <2>2, <2>3 DEF SeenLife, SeenOpen, SeenDone, SeenHeld, Snapshot
<1>8. CASE AutoFails
  <2>1. ~Idle /\ Idle' /\ saved[1] \in Durables
    BY <1>8, TypesOfInv DEF AutoFails, Running, Idle, Inv
  <2>2. Snapshot' = saved[1]
    BY <1>8, <2>1 DEF AutoFails, Restored, Snapshot, Durables
  <2> QED
    BY <1>1, <2>1, <2>2 DEF Seen
<1>9. CASE Commit
  BY <1>9, CommitKeepsContract
<1>10. CASE UNCHANGED vars
  <2>1. Seen' = Seen
    BY <1>10 DEF vars, durable, Seen, Idle, Snapshot
  <2> QED
    BY <1>1, <2>1
<1> QED
  BY <1>4, <1>5, <1>6, <1>7, <1>8, <1>9, <1>10 DEF Next, EngineStep

\* The engine implements InstanceContract on every graph: a service call that
\* takes many steps, and may fail at each, is seen from outside as one step of
\* the contract or as none; the tasks the instance offers, how often each was
\* done and whether it is over always change together.
THEOREM EngineKeepsContract == Spec => KeepsContract
<1>1. Init => Contract!Init
  BY DEF Init, Contract!Init, SeenLife, SeenOpen, SeenDone, SeenHeld, Seen, Idle,
         Snapshot, Humans
<1>2. Inv /\ Inv' /\ [Next]_vars => [Contract!Next]_Contract!contract
  BY ContractStep DEF Contract!contract
<1> QED
  BY <1>1, <1>2, InvAlways, PTL DEF Spec, KeepsContract, Contract!Spec
=============================================================================
