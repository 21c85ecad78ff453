------------------------------ MODULE TokenFlow ------------------------------
(***************************************************************************)
(* One process instance as the engine runs it: FlowActivity moves tokens   *)
(* along the sequence flows of a definition, gateways split and join them, *)
(* human activities open work items, end events complete the instance.     *)
(*                                                                         *)
(* The engine runs synchronously: a completed activity calls its parent,   *)
(* which computes the next activities, registers a token for each and      *)
(* executes them one after the other, each with all that follows from it,  *)
(* before its sibling.  `stack' is that call stack.  A service call is one *)
(* transaction around such a run: what it wrote is undone when an activity *)
(* fails, and only when the stack is empty does a listener decide whether  *)
(* the instance is over.  Service calls on one instance come one after the *)
(* other here.                                                             *)
(*                                                                         *)
(* The graph is a parameter.  Its flows are pairs of activities, so two    *)
(* flows between the same activities are not modelled.                     *)
(***************************************************************************)
EXTENDS Integers, Sequences, SequencesExt, FiniteSets, FiniteSetsExt

CONSTANTS
  Activities,     \* the activities of the definition
  Kind,           \* the kind of each activity
  Order,          \* the activities in the order of the definition's children
  Out,            \* the targets of the flows that leave an activity, in order
  In,             \* the sources of the flows that enter it
  Conditional,    \* the flows with a condition on process variables
  Otherwise,      \* the flows whose condition is Otherwise
  Rank,           \* the priority of each flow
  Block,          \* BlockFinder.getBlockMembers of each activity, in order
  Feedback,       \* the flows that lead back
  Depth,          \* getDepthFromStartEvent of each activity, -1 if there is none
  Outcomes,       \* the sets of conditions that the variables can satisfy
  LastOutcomes,   \* those that no longer lead back
  Deciders,       \* the human activities that set the variables
  MaxRuns,        \* bound: how often a decider may lead back
  MaxFaults,      \* bound: how many automatic activities fail
  MaxBacks,       \* bound: how often somebody goes back
  Engine          \* stands for the caller of a start or a resume

Gateways == {"parallel", "inclusive", "exclusive"}
Kinds    == {"start", "human", "auto", "end", "terminate"} \cup Gateways
Flows    == {f \in Activities \X Activities : f[2] \in ToSet(Out[f[1]])}

\* getStartActivities: a start event that no flow enters.
IsStart(a) == Kind[a] = "start" /\ In[a] = <<>>

ASSUME GraphAssumption ==
  /\ Kind \in [Activities -> Kinds]
  /\ Order \in Seq(Activities)
  /\ ToSet(Order) = Activities
  /\ \E a \in Activities : IsStart(a)
  /\ Out \in [Activities -> Seq(Activities)]
  /\ In \in [Activities -> Seq(Activities)]
  /\ Block \in [Activities -> Seq(Activities)]
  /\ Feedback \subseteq Flows
  /\ Depth \in [Activities -> Nat \cup {-1}]
  /\ Engine \notin Activities
  /\ Deciders \subseteq Activities
  /\ Outcomes \subseteq SUBSET Conditional
  /\ LastOutcomes \subseteq Outcomes
  /\ MaxRuns \in Nat /\ MaxFaults \in Nat /\ MaxBacks \in Nat

ASSUME PriorityAssumption == \A f \in Flows : Rank[f] \in 0..9999

VARIABLES
  instance,     \* status of the process instance
  status,       \* status of each activity
  tokens,       \* tokenCount: tokens registered since it last completed
  taken,        \* sequence flows marked as completed
  row,          \* status of the work item the activity's task id names
  strays,       \* open work items of the activity that no task id names
  completions,  \* occurrences in the activity completion history
  met,          \* the conditions that the process variables satisfy
  held,         \* history: tasks that stayed suspended when somebody went back
  stack,        \* activities the running calls have still to execute
  ending,       \* listeners that may complete the instance at commit
  saved,        \* what a rollback restores: empty between transactions
  faults,       \* failures so far
  backs         \* how often somebody went back so far

durable == <<instance, status, tokens, taken, row, strays, completions, met, held>>
vars    == <<durable, stack, ending, saved, faults, backs>>

Humans == {a \in Activities : Kind[a] = "human"}

-----------------------------------------------------------------------------
(* Split: which activities come next.  What the engine holds in lists of    *)
(* flows is here a set of positions in Out.                                *)

\* The activities at the positions `flows' of Out[a].
Targets(a, flows) == {Out[a][i] : i \in flows}

\* The flows of `a' whose condition holds under the conditions `m'.
Allowed(a, m) ==
  {i \in DOMAIN Out[a] : <<a, Out[a][i]>> \in Conditional => <<a, Out[a][i]>> \in m}

\* A gateway takes Otherwise, the last of several, only when no other flow is
\* allowed.
GatewayNext(a, m) ==
  LET fallback == {i \in Allowed(a, m) : <<a, Out[a][i]>> \in Otherwise}
      plain    == Allowed(a, m) \ fallback
  IN  IF plain = {} THEN {i \in fallback : \A j \in fallback : j <= i} ELSE plain

\* An exclusive gateway takes the first flow of the least priority.
Precedes(a, i, j) ==
  \/ Rank[<<a, Out[a][i]>>] < Rank[<<a, Out[a][j]>>]
  \/ Rank[<<a, Out[a][i]>>] = Rank[<<a, Out[a][j]>>] /\ i <= j

FirstOf(a, flows) == {i \in flows : \A j \in flows : Precedes(a, i, j)}

NextOf(a, m) ==
  CASE Kind[a] \in {"parallel", "inclusive"} -> GatewayNext(a, m)
    [] Kind[a] = "exclusive" -> FirstOf(a, GatewayNext(a, m))
    [] OTHER -> Allowed(a, m)

-----------------------------------------------------------------------------
(* Join: whether an activity may be entered.                               *)

\* visitForPossibleNodes: what the last member of the block of `a' leads to
\* inside the block under the conditions `m'.
MembersAhead(a, m) ==
  LET members == ToSet(Block[a])
      reach[n \in 0..Len(Block[a])] ==
        IF n = 0 THEN {Block[a][Len(Block[a])]}
        ELSE UNION {{x} \cup (members \cap Targets(x, NextOf(x, m))) : x \in reach[n - 1]}
  IN  IF Block[a] = <<>> THEN {} ELSE reach[Len(Block[a])]

\* A wrong PossibleMembers: the conditions are not asked.
AllMembers == [a \in Activities |-> [m \in SUBSET Conditional |-> ToSet(Block[a])]]

\* getPossibleBlockMembers: which members of a block conditions still allow.
PossibleMembers ==
  [a \in Activities |-> [m \in SUBSET Conditional |-> MembersAhead(a, m)]]

\* A wrong HasTokenBefore: who works on his task is not waited for.
HasTokenNotBegun(a) ==
  /\ Len(Block[a]) > 1
  /\ \E x \in PossibleMembers[a][met] : status[x] \in {"READY", "SUSPENDED"}

\* hasTokenInPreviousActivities: somebody in the block has not finished.
HasTokenBefore(a) ==
  /\ Len(Block[a]) > 1
  /\ \E x \in PossibleMembers[a][met] :
       status[x] \in {"READY", "RUNNING", "SUSPENDED"}

\* A wrong JoinOpen: one incoming flow is enough.
JoinOpenForOne(a) ==
  Kind[a] = "parallel" => \E x \in ToSet(In[a]) : status[x] = "COMPLETED"

JoinOpen(a) ==
  CASE Kind[a] = "parallel" ->
         /\ \A x \in ToSet(In[a]) : status[x] = "COMPLETED"
         /\ ~HasTokenBefore(a)
    [] Kind[a] = "exclusive" -> TRUE
    [] OTHER -> ~HasTokenBefore(a)

-----------------------------------------------------------------------------
(* The running call.                                                       *)

Idle     == saved = <<>>
Running  == ~Idle /\ stack # <<>>

\* A frame holds the loop over the flows that leave `by', or over the children
\* of the definition when a service call executes some of them.
ListOf(by) == IF by = Engine THEN Order ELSE Out[by]
Top        == Head(stack)
Current    == ListOf(Top.by)[Min(Top.todo)]

\* A wrong Popped: a loop goes on when nothing is left in it.
PoppedNoFrame == <<[Top EXCEPT !.todo = @ \ {Min(@)}]>> \o Tail(stack)

\* The stack without the activity that is being executed.
Popped == IF Top.todo = {Min(Top.todo)} THEN Tail(stack)
          ELSE <<[Top EXCEPT !.todo = @ \ {Min(@)}]>> \o Tail(stack)

\* The start events and resumed activities are executed without a join test,
\* and so is an activity with one incoming flow.  A gateway tests again when it
\* is executed; for one with a single incoming flow that test never fails.
MayEnter(a) == \/ Top.by = Engine
               \/ Len(In[a]) = 1 /\ Kind[a] \notin Gateways
               \/ JoinOpen(a)

Enter(a) == taken' = IF Top.by = Engine THEN taken ELSE taken \cup {<<Top.by, a>>}

Snapshot == [instance |-> instance, status |-> status, tokens |-> tokens,
             taken |-> taken, row |-> row, strays |-> strays,
             completions |-> completions, met |-> met, held |-> held]

Begin == saved' = <<Snapshot>>

\* A wrong StatusStopping: who works on his task goes on.
StatusStoppingRest(A) ==
  [a \in Activities |-> IF a \in A /\ status[a] # "RUNNING" THEN "STOPPED" ELSE status[a]]

\* A wrong RowsStopping: only work items somebody works on are cancelled.
RowsStoppingNew(A) ==
  [a \in Humans |-> IF a \in A /\ row[a] = "NEW" THEN "CANCELLED" ELSE row[a]]

\* Stopping activities cancels the work items their task ids name.
StatusStopping(A) == [a \in Activities |-> IF a \in A THEN "STOPPED" ELSE status[a]]

RowsStopping(A) == [a \in Humans |->
                      IF a \in A /\ row[a] # "NONE" THEN "CANCELLED" ELSE row[a]]

\* A wrong Stoppable: who works on his task is not stopped.
StoppableNotRunning == {a \in Activities : status[a] \in {"SUSPENDED", "STOPPED"}}

\* isStoppable, for the statuses that occur here.
Stoppable == {a \in Activities : status[a] \in {"RUNNING", "SUSPENDED", "STOPPED"}}

\* The call returns from `a' with the statuses `st' and rows `rw': `a' is
\* completed, a token is registered for each next activity, which takes its
\* task id away, and the next activities are to be executed before `rest'.
Complete(a, st, rw, m, rest) ==
  LET flows == NextOf(a, m)
      next  == Targets(a, flows)
  IN  /\ status' = [st EXCEPT ![a] = "COMPLETED"]
      /\ completions' = [completions EXCEPT ![a] = @ + 1]
      /\ tokens' = [x \in Activities |-> (IF x = a THEN 0 ELSE tokens[x])
                                        + (IF x \in next THEN 1 ELSE 0)]
      /\ row' = [x \in Humans |-> IF x \in next THEN "NONE" ELSE rw[x]]
      /\ strays' = [x \in Humans |-> IF x \in next /\ rw[x] = "NEW"
                                    THEN strays[x] + 1 ELSE strays[x]]
      /\ IF flows = {}
         THEN stack' = rest /\ ending' = ending + 1
         ELSE /\ stack' = <<[by |-> a, todo |-> flows]>> \o rest
              /\ UNCHANGED ending

-----------------------------------------------------------------------------
(* Service calls.                                                          *)

\* InstanceServiceImpl.start: a new instance with some values of its variables.
Start ==
  /\ Idle /\ instance = "NONE"
  /\ Begin
  /\ instance' = "RUNNING"
  /\ met' \in Outcomes
  /\ stack' = <<[by   |-> Engine,
                 todo |-> {i \in DOMAIN Order : IsStart(Order[i])}]>>
  /\ UNCHANGED <<status, tokens, taken, row, strays, completions, held, ending, faults,
                 backs>>

\* The values a completed activity may leave in the variables.
Decisions(a) == CASE a \notin Deciders -> {met}
                [] a \in Deciders /\ completions[a] < MaxRuns -> Outcomes
                [] OTHER -> LastOutcomes

\* completeWorkItemInternal: somebody completes an open work item of `a'.  It
\* is the activity that must be running, and the row its task id names that is
\* closed.  Without a task id the call fails and changes nothing.
CompleteTask(a) ==
  /\ Idle
  /\ a \in Humans /\ status[a] = "RUNNING" /\ row[a] # "NONE"
  /\ Begin
  /\ met' \in Decisions(a)
  /\ Complete(a, status, [row EXCEPT ![a] = "COMPLETED"], met', <<>>)
  /\ UNCHANGED <<instance, taken, held, faults, backs>>

\* InstanceServiceImpl.stop.
Stop ==
  /\ Idle /\ instance = "RUNNING"
  /\ instance' = "STOPPED"
  /\ status' = StatusStopping(Stoppable)
  /\ row' = RowsStopping(Stoppable)
  /\ UNCHANGED <<tokens, taken, strays, completions, met, held, stack, ending, saved,
                 faults, backs>>

\* InstanceServiceImpl.suspend: every running activity.
Suspend ==
  /\ Idle /\ instance = "RUNNING"
  /\ \E a \in Activities : status[a] = "RUNNING"
  /\ status' = [a \in Activities |->
                  IF status[a] = "RUNNING" THEN "SUSPENDED" ELSE status[a]]
  /\ row' = [a \in Humans |->
               IF status[a] = "RUNNING" /\ row[a] # "NONE" THEN "SUSPENDED"
               ELSE row[a]]
  /\ UNCHANGED <<instance, tokens, taken, strays, completions, met, held, stack,
                 ending, saved, faults, backs>>

\* InstanceServiceImpl.resume: executes every suspended activity again.
Resume ==
  LET suspended == {i \in DOMAIN Order : status[Order[i]] = "SUSPENDED"}
  IN  /\ Idle /\ instance = "RUNNING"
      /\ suspended # {}
      /\ Begin
      /\ stack' = <<[by |-> Engine, todo |-> suspended]>>
      /\ UNCHANGED <<durable, ending, faults, backs>>

\* gatherPropagatedActivitiesOf: what flows that do not lead back reach from `a'.
Following ==
  [a \in Activities |->
     LET onward(x) == {y \in ToSet(Out[x]) : <<x, y>> \notin Feedback}
         reach[n \in 0..Cardinality(Activities)] ==
           IF n = 0 THEN onward(a)
           ELSE UNION {{x} \cup onward(x) : x \in reach[n - 1]}
     IN  reach[Cardinality(Activities)]]

\* A wrong Begun: who works on his task behind `a' is left alone.
BegunNotRunning(a) == {x \in Following[a] : status[x] \notin {"READY", "RUNNING"}}

\* What has begun behind `a'.
Begun(a) == {x \in Following[a] : status[x] # "READY"}

\* InstanceServiceImpl.backToHere: what has begun behind `a' is compensated, then
\* `a' itself, which is executed again; their task ids and the flows into what is
\* behind are reset, the tokens are not.  It is refused while `a', or what is nearer
\* to the start, is running.  Also an instance that has ended runs again.
BackToHere(a) ==
  LET undone == Begun(a) \cup {a}
  IN  /\ Idle /\ instance # "NONE"
      /\ backs < MaxBacks
      /\ status[a] # "RUNNING"
      /\ \A x \in Activities :
           status[x] = "RUNNING" => Depth[x] = -1 \/ Depth[x] >= Depth[a]
      /\ Begin
      /\ backs' = backs + 1
      /\ instance' = "RUNNING"
      /\ status' = [x \in Activities |-> IF x \in undone THEN "COMPENSATED" ELSE status[x]]
      /\ row' = [x \in Humans |-> IF x \in undone THEN "NONE" ELSE row[x]]
      /\ taken' = {f \in taken : f[2] \notin Begun(a)}
      /\ held' = held \cup {x \in Humans \ undone : status[x] = "SUSPENDED"}
      /\ stack' = <<[by |-> Engine, todo |-> {i \in DOMAIN Order : Order[i] = a}]>>
      /\ UNCHANGED <<tokens, strays, completions, met, ending, faults>>

-----------------------------------------------------------------------------
(* Steps of the running call.                                              *)

\* The join test fails: the token waits.
Hold ==
  /\ Running /\ ~MayEnter(Current)
  /\ stack' = Popped
  /\ UNCHANGED <<durable, ending, saved, faults, backs>>

\* A human activity opens its work item, or opens again the one it has.
OpenTask ==
  /\ Running /\ Current \in Humans /\ MayEnter(Current)
  /\ Enter(Current)
  /\ status' = [status EXCEPT ![Current] = "RUNNING"]
  /\ row' = [row EXCEPT ![Current] = "NEW"]
  /\ stack' = Popped
  /\ UNCHANGED <<instance, tokens, strays, completions, met, held, ending, saved,
                 faults, backs>>

\* A start or end event, an automatic activity or a gateway completes at once.
PassThrough ==
  /\ Running /\ Kind[Current] \in {"start", "end", "auto", "parallel", "inclusive"}
  /\ MayEnter(Current)
  /\ Enter(Current)
  /\ Complete(Current, status, row, met, Popped)
  /\ UNCHANGED <<instance, met, held, saved, faults, backs>>

\* An exclusive gateway stops whatever its block has not completed, also what
\* has not begun yet, and completes.
PassExclusive ==
  LET unfinished == {a \in ToSet(Block[Current]) : status[a] # "COMPLETED"}
  IN  /\ Running /\ Kind[Current] = "exclusive"
      /\ Enter(Current)
      /\ Complete(Current, StatusStopping(unfinished), RowsStopping(unfinished),
                  met, Popped)
      /\ UNCHANGED <<instance, met, held, saved, faults, backs>>

\* A terminate end event stops the instance and then completes; the calls below
\* it go on.
Terminate ==
  /\ Running /\ Kind[Current] = "terminate" /\ MayEnter(Current)
  /\ Enter(Current)
  /\ instance' = "STOPPED"
  /\ Complete(Current, StatusStopping(Stoppable), RowsStopping(Stoppable), met,
              Popped)
  /\ UNCHANGED <<met, held, saved, faults, backs>>

\* A wrong Restored: the work items are not part of the transaction.
RestoredButRows == [saved[1] EXCEPT !.row = row]

\* What a rollback brings back.
Restored == saved[1]

\* An automatic activity throws: the whole transaction is rolled back.
AutoFails ==
  /\ Running /\ Kind[Current] = "auto" /\ MayEnter(Current)
  /\ faults < MaxFaults
  /\ faults' = faults + 1
  /\ instance' = Restored.instance
  /\ status' = Restored.status
  /\ tokens' = Restored.tokens
  /\ taken' = Restored.taken
  /\ row' = Restored.row
  /\ strays' = Restored.strays
  /\ completions' = Restored.completions
  /\ met' = Restored.met
  /\ held' = Restored.held
  /\ stack' = <<>> /\ ending' = 0 /\ saved' = <<>>
  /\ UNCHANGED backs

\* A wrong Over: an end ends the instance, whoever is at work.
OverAtAnyEnd == ending > 0

\* A wrong Over: a single end that was reached is forgotten.
OverAtSecondEnd == ending > 1 /\ \A a \in Activities : status[a] # "RUNNING"

\* Before the commit each end that was reached asks whether an activity is
\* still running.
Over == ending > 0 /\ \A a \in Activities : status[a] # "RUNNING"

\* If none is, the instance is completed and its open work items with it.
Commit ==
  /\ ~Idle /\ stack = <<>>
  /\ instance' = IF Over THEN "COMPLETED" ELSE instance
  /\ row' = [a \in Humans |->
               IF Over /\ row[a] = "NEW" THEN "COMPLETED" ELSE row[a]]
  /\ strays' = [a \in Humans |-> IF Over THEN 0 ELSE strays[a]]
  /\ ending' = 0 /\ saved' = <<>>
  /\ UNCHANGED <<status, tokens, taken, completions, met, held, stack, faults, backs>>

-----------------------------------------------------------------------------
Init ==
  /\ instance = "NONE"
  /\ status = [a \in Activities |-> "READY"]
  /\ tokens = [a \in Activities |-> 0]
  /\ taken = {}
  /\ row = [a \in Humans |-> "NONE"]
  /\ strays = [a \in Humans |-> 0]
  /\ completions = [a \in Activities |-> 0]
  /\ met = {} /\ held = {}
  /\ stack = <<>> /\ ending = 0 /\ saved = <<>> /\ faults = 0 /\ backs = 0

EngineStep == \/ Hold \/ OpenTask \/ PassThrough \/ PassExclusive \/ Terminate
              \/ AutoFails \/ Commit

Work == \E a \in Activities : CompleteTask(a)

\* The menu offers it on a task that was completed when the page was loaded.
GoBack == \E a \in Activities : /\ Kind[a] \in {"human", "auto"} /\ completions[a] > 0
                                /\ BackToHere(a)

Next == Start \/ Work \/ Stop \/ Suspend \/ Resume \/ GoBack \/ EngineStep

Spec == Init /\ [][Next]_vars

\* The engine's own steps run to the end of the call; a suspended instance is
\* resumed; as long as work items are open again and again, between suspensions,
\* some work item is completed.
FairSpec == /\ Spec
            /\ WF_vars(EngineStep)
            /\ WF_vars(Resume)
            /\ SF_vars(Work)

-----------------------------------------------------------------------------
(* Properties.                                                             *)

Statuses    == {"READY", "RUNNING", "SUSPENDED", "STOPPED", "COMPLETED",
                "COMPENSATED"}
RowStatuses == {"NONE", "NEW", "SUSPENDED", "COMPLETED", "CANCELLED"}
Lives       == {"NONE", "RUNNING", "STOPPED", "COMPLETED"}

Durables == [instance : Lives, status : [Activities -> Statuses],
             tokens : [Activities -> Nat], taken : SUBSET (Activities \X Activities),
             row : [Humans -> RowStatuses], strays : [Humans -> Nat],
             completions : [Activities -> Nat], met : SUBSET Conditional,
             held : SUBSET Humans]

Frames == {f \in [by : Activities \cup {Engine}, todo : SUBSET Nat] :
             f.todo # {} /\ f.todo \subseteq DOMAIN ListOf(f.by)}

\* Every variable has its type; a call has never a frame with nothing to do.
TypeOK ==
  /\ Snapshot \in Durables
  /\ stack \in Seq(Frames)
  /\ ending \in Nat
  /\ faults \in 0..MaxFaults /\ backs \in 0..MaxBacks
  /\ saved \in Seq(Durables) /\ Len(saved) <= 1

\* A work item that the engine can name is open exactly as long as its activity
\* is running, and suspended exactly as long as it is suspended: no person works
\* on a task the engine would refuse, and no activity waits for a task nobody sees.
RowsFollowStatus ==
  \A a \in Humans :
    /\ row[a] = "NEW" <=> status[a] = "RUNNING"
    /\ row[a] = "SUSPENDED" <=> status[a] = "SUSPENDED"

\* Only one work item of an activity is open at a time.
NoStrays == \A a \in Humans : strays[a] = 0

\* A completed instance is at rest: nothing in it runs and no work item of it is
\* open.  Nothing is suspended either but what stayed so when somebody went back:
\* an end asks for running activities only.
CompletedIsQuiet ==
  Idle /\ instance = "COMPLETED" =>
    /\ \A a \in Activities :
         status[a] # "RUNNING" /\ (status[a] = "SUSPENDED" => a \in held)
    /\ \A a \in Humans :
         row[a] # "NEW" /\ (row[a] = "SUSPENDED" => a \in held) /\ strays[a] = 0

\* An instance that was completed, not by a terminate end event and without anybody
\* going back, has no token left at an activity that was not stopped: no branch was
\* given up at a join that never opened.
NoTokenLeft ==
  /\ Idle /\ instance = "COMPLETED" /\ backs = 0
  /\ \A a \in Activities : Kind[a] = "terminate" => completions[a] = 0
  =>
    \A a \in Activities : tokens[a] > 0 => status[a] = "STOPPED"

\* What can send a token to `j'.
Behind ==
  [j \in Activities |->
     LET back[n \in 0..Cardinality(Activities)] ==
           IF n = 0 THEN ToSet(In[j])
           ELSE UNION {{x} \cup ToSet(In[x]) : x \in back[n - 1]}
     IN  back[Cardinality(Activities)]]

\* Whether a token is on its way to `a' in the call, or at work there.
UnderWay(a) ==
  \/ \E i \in DOMAIN Popped :
       LET f == Popped[i] IN \E k \in f.todo : ListOf(f.by)[k] = a
  \/ status[a] \in {"RUNNING", "SUSPENDED"}

\* A parallel or inclusive join is passed only when no token is under way to it
\* any more (ParallelGateway.java:29, "no remaining running token"), also when
\* somebody went back behind it.
JoinWaits ==
  [][\A j \in Activities :
       Kind[j] \in {"parallel", "inclusive"} /\ completions'[j] > completions[j]
       => \A a \in Behind[j] \ {j} : ~UnderWay(a)]_vars

\* No activity runs more often than somebody went back.
RunsOnce == \A a \in Activities : completions[a] <= 1 + backs

\* What has ended stays as it is, whatever call is made, until somebody goes back.
EndedStaysEnded ==
  [][Idle /\ instance \in {"STOPPED", "COMPLETED"}
     => UNCHANGED durable \/ backs' > backs]_vars

\* An instance that was started is over some day.
EventuallyOver ==
  [](Idle /\ instance = "RUNNING"
     => <>(Idle /\ instance \in {"STOPPED", "COMPLETED"}))

-----------------------------------------------------------------------------
(* What is seen from outside: the state that is saved.                     *)

Seen == IF Idle THEN Snapshot ELSE saved[1]

SeenLife == Seen.instance
SeenOpen == {a \in Humans : Seen.row[a] \in {"NEW", "SUSPENDED"}}
SeenHeld == Seen.held
SeenDone == [a \in Humans |-> Seen.completions[a]]

Contract == INSTANCE InstanceContract WITH
  Tasks <- Humans, life <- SeenLife, open <- SeenOpen, done <- SeenDone,
  held <- SeenHeld

\* The engine keeps the contract: however many steps a call takes, and wherever
\* it fails, from outside it happens at once or not at all.
KeepsContract == Contract!Spec
=============================================================================
