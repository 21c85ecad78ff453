# uEngine6: TLA+ models, model checking and proofs

uEngine6 is a BPMN process engine. A *process definition* is a graph of
activities and sequence flows; a *process instance* is a run of it, kept in a
database; people work on its *work items*; other systems send *events* that
start instances or complete work items. This directory holds TLA+ models of
the parts that decide what a process does, the TLC runs that check them, and
TLAPS proofs. It also models the editor in which definitions are drawn. Paths in
this file are relative to the root of the repository;
`kernel/` stands for `uengine-core/src/main/java/org/uengine/kernel/`, `five/`
for `process-service/src/main/java/org/uengine/five/`, `api/` for
`uengine-five-api/src/main/java/org/uengine/five/`, `bpmn/` and `designer/`
for the directories of that name in `back-office/src/components/`.

Contents: 1 the system, 2 the modules and the code, 3 the runs, 4 fairness,
5 the proofs, 6 where code and comments differ, 7 what is left out, 8 the plan.

## 1. The system

| Component | State | Operations | Talks to |
|---|---|---|---|
| Process graph analysis: `kernel/bpmn/FlowActivity` (depths, feedback flows), `kernel/bpmn/BlockFinder` | none; tables derived from a definition | depth from the start events, feedback marks, block members of a join | called when a definition is loaded, and by every join test |
| Token engine: `kernel/bpmn/FlowActivity`, `Gateway`, `ParallelGateway`, `ExclusiveGateway`, `EndEvent` | token count and status per activity, flows taken, the call stack | complete, choose the next flows, register tokens, test a join, execute, end | activities, the transaction's listeners |
| Activities: `kernel/Activity`, `HumanActivity`, `AbstractProcessInstance` | status, task ids, completion history | execute, complete, stop, suspend, resume, fail, go back | worklist, token engine |
| Instance service: `five/service/InstanceServiceImpl`, `five/framework/ProcessTransactionContext` | the transaction of a call, its listeners | start, stop, suspend, resume, complete, claim, give back, reassign, delegate, go back, signal | all of the above; the inbox |
| Instance persistence: `five/overriding/JPAProcessInstance`, `CLOBProcessInstance` | the row of an instance: its status and all variables in one column | load, save before commit, complete and reconcile work items; every call writes the whole row | database, concurrent calls |
| Worklist: `five/overriding/JPAWorkList`, `five/service/WorkItemAssignmentStateService` | a row per work item: status, owner, role | add, update, cancel, complete, claim, give back, reassign; row locks | database |
| Event inbox: `api/messaging/EventInbox*`, `five/messaging/**`, `five/service/AsyncEventListener` | a row per request; row locks; the two transactions of a tick | enqueue, poll, dispatch, retry, give up, clean up | instance service |
| Sub-processes and loops over data | execution scopes, child instances | start children, return to the main process | token engine |
| Events: timers, errors, signals, compensation | listeners and jobs of an instance | fire, cancel | token engine, Quartz |
| Definition service | definitions as files; edit locks | save, deploy, lock, release | resource manager |
| Process editor: `bpmn/BpmnVue.vue`, `designer/process/ProcessDesigner.vue`, `bpmn/BpmnPropertyPanel.vue` | the live definition, the recorded ones and the place among them, flags between handlers and the watcher, the open panel, the clipboard | drop, connect, reconnect, throw away, change, undo, redo, rename, copy, paste, delete | the canvas (OpenGraph) |
| Kafka transport, resource manager, business rules, scenarios, audit, customer extension, gateways, portal pages, other editors, vendored libraries | - | - | - |

How they interact. The engine is synchronous: a completed activity calls its
parent, which computes the next activities, registers a token for each and
executes them one after the other, *each with all that follows from it, before
its sibling* (`FlowActivity.onEvent`, 697-796). A service call is one
database transaction around such a run. Listeners registered on the way run
at commit; one of them decides whether the instance is over. Work items are rows
of their own, written in the same transaction. Events from outside are stored
first, and dispatched by a Quartz job on every node.

What is hard:

- *Order within a call.* The first branch of a split may reach the join while
  the token of the second is registered and not yet executed. Whether the join
  sees it depends on statuses, on the block that `BlockFinder` computed, and so
  on the order in which flows were drawn.
- *Stale statuses.* Joins look at statuses and not at tokens; in a loop the
  statuses of the last round are still there.
- *Work items against statuses.* An instance keeps the ids of its work items
  in its variables; stopping, losing a race, going back and finishing all have to
  close the right rows.
- *Two transactions in a tick.* A dispatch commits by itself; what becomes of
  the row commits with the batch. A crash in between repeats the dispatch.
- *Several nodes.* Ticks, requests and claims run at once under READ COMMITTED;
  what keeps them apart is row locks, where there are any.
- *Concurrent calls on one instance.* The row of the work item is locked, the
  instance's is not and has no version.
- *Going back.* What followed an activity is undone while other branches are at
  work, and so is the end of the instance. Statuses and work items are reset,
  tokens, completions and variables are not.
- *Undo by reference.* Undo makes a recorded definition the live one, so what
  follows edits the record; flags tell the watcher afterwards what a change was.

What makes each component correct is stated below as properties; every hazard,
with the line where it bites and the properties that cover it, or the reason why
none does yet, is in `PROJECT.json` under `hazards`.

## 2. The modules and the code

| Module | Models | Extends / uses |
|---|---|---|
| `FlowGraph` | depths, feedback flows, `BlockFinder`; reference definitions | - |
| `FlowDrawing` | a modeller who draws any graph flow by flow; what the analysis promises of it | `FlowGraph` |
| `MCFlowGraph` | what may be drawn, for TLC | `FlowDrawing` |
| `FlowGraphProofs` | theorems about the analysis of every graph | `FlowDrawing`, `Induction` |
| `Induction` | induction over sets of numbers, iterated functions | - |
| `TokenFlow` | one instance: engine, activities, gateways, service calls | implements `InstanceContract` |
| `InstanceContract` | what a service call promises, without a graph | - |
| `MCTokenFlow` | three process definitions for TLC; that one of them is balanced | `TokenFlow`, `FlowGraph`, `BalancedFlow` |
| `TokenFlowProofs` | theorems about `TokenFlow` for every graph | `TokenFlow` |
| `OrderlyFlow` | the graphs on which tokens stay in order, and the invariant that shows it | `TokenFlow` |
| `OrderlyFlowProofs` | theorems about `TokenFlow` for every orderly graph | `OrderlyFlow`, `TokenFlowProofs` |
| `BalancedFlow` | the orderly graphs on which no token is left behind, and the invariant that shows it | `OrderlyFlow` |
| `BalancedFlowProofs` | the theorem that no token is left, for every balanced graph | `BalancedFlow`, `OrderlyFlowProofs` |
| `EventInbox` | rows, ticks, dispatches, crashes, on several nodes | implements `RequestLedger` |
| `RequestLedger` | what the inbox promises of each request | - |
| `MCEventInbox` | id blocks and keys for TLC | `EventInbox` |
| `EventInboxProofs` | theorems about `EventInbox` for any nodes, requests, crashes | `EventInbox` |
| `InstanceStore` | concurrent calls on the rows of one instance | - |
| `MCInstanceStore` | symmetric tasks, users and threads for TLC | `InstanceStore` |
| `InstanceStoreProofs` | theorems about `InstanceStore` for any tasks, users, threads | `InstanceStore` |
| `ProcessEditor` | the definition a modeller draws, and its undo history | - |
| `MCProcessEditor` | a small definition and the gestures for TLC | `ProcessEditor` |
| `ProcessEditorProofs` | theorems about `ProcessEditor` for any definition and number of gestures | `ProcessEditor` |

**FlowGraph.** A graph is a record of sequences, since every walk of the code is
depth first and remembers the first path (depths) or the last (distances in a
block). `Walk` is a recursive method that visits nothing twice, with the calls still
to be made in a list (`Visit` makes the next one and drops from the list what has been
visited). `Depths` are its results from the start events, over the steps that
`calculateDistanceRecursive` takes (`Steps`); `FeedbackFlows` is
`setFeedbackByDepthFromStart`. The three phases of `BlockFinder` are `BackWalk`, which
walks every path back from the join, so that it is given by the set of these paths
and the order in which they are walked (`PathsBack`, `Later`); `LineUp`, a `Walk`; and
`BlockMembers`, which gathers one distance after the other (`AddLevel`). The operators
are recursive functions, never RECURSIVE, so that they can be proved about.
`TokenFlow` takes their results (`In`, `Out`, `Block`, `Feedback`, `Depth`) as
constants, and `MCTokenFlow` computes these with `FlowGraph`. The engine and the
analysis are composed there.

**TokenFlow.** The state is that of `variables`: `status`, `tokens`
(`tokenCount`), `taken` (completed flows), `completions`; `row` and `strays` are
the work items (the one the task id names, and open ones that none names);
`met` stands for the process variables, as the set of conditions they satisfy.
`stack` is the Java call stack: a frame is a loop over the flows that leave an
activity, with those still to do. `ending` counts the listeners that may end the
instance, and `saved` is what a rollback brings back. One action per service
call (`Start`, `CompleteTask`, `Stop`, `Suspend`, `Resume`, `BackToHere`), and one per
kind of step of a running call: `Hold` (a join stays shut), `OpenTask`,
`PassThrough`, `PassExclusive`, `Terminate`, `AutoFails`, `Commit`. `Complete` is
everything `fireComplete` and `onEvent` do until the next activity is executed.
`NextOf` is the split, `JoinOpen` the join, with `PossibleMembers` the block
members that conditions still allow.

*Going back.* `BackToHere(a)` is `Activity.backToHere`: `Begun(a)` is everything
that flows which do not lead back reach from `a` (`Following`) and that is not
READY; it and `a` become COMPENSATED, their work items are closed and their
task ids forgotten, the flows into what was begun are no longer taken, and `a`
is executed again, all in one transaction; the instance is RUNNING afterwards,
also one that had ended. Tokens, completions and variables stay as they
were, since the code does not touch them. The call is refused while `a` is
running, or something that lies nearer to the start than `a`. `GoBack` is the
call as the portal makes it: the menu of `ProcessDesigner.vue` (842-872)
offers it on tasks that were completed when the page was loaded (the service
itself would accept any activity, and so does a button of the property panel for
debugging). `held` is a history variable, not in the code: the tasks on other
branches that were suspended when somebody went back. They stay suspended beside
what runs then, and an end asks for running activities only, so the
instance may be completed while they are. `CompletedIsQuiet` and the contract
say exactly that.

**InstanceStore.** `TokenFlow` lets calls come one after the other; here they run
side by side, and what happens inside the engine is reduced to a process
with one activity per task. `inst` is the row of the instance, status, activity
statuses and role mapping in one; `items` are the rows of the work items;
`call[c]` is what a thread has read and locked. A call goes through `Begin`, `Lock`
(`findByIdForUpdate`, and what is checked under the lock), `Load` (the instance,
and whether the call is accepted), `Fetch` (rows that are read without a lock),
`LockLane` and `LaneLocked` (a reassignment), and `Commit`, which writes
every row it holds a copy of, with all columns. `Abort` is the database's
detection of deadlocks. The locks a commit needs are taken at once, an
abstraction of the flush, which takes them one by one: a call that could only
get some of them waits here before the first.

**ProcessEditor.** A step is a gesture with its handler and the run of the watcher
after it (`Becomes`). `definition` is the live definition as two lists, in which
removing leaves holes; `history` and `historyIndex` are the recorded
ones. After `Undo` or `Redo` (`GoTo`) the live definition *is* the entry:
`Entries` says that further edits change the entry until something is recorded.
`undoing` and `undoed` are the two flags by which the watcher tells an effect of
undo from an edit, `panel` the open property panel, which makes the watcher record
every change. Tags and ids are kept apart (`Activity`), because renaming
changes the one and removal looks for the other.

**EventInbox.** `rows` are the committed rows; `node[n]` is a tick: `work` is
the batch as the outer transaction will write it, `phase`, `todo` and `held`
are the inner transaction. `Poll` is `lockUnprocessed` (FOR UPDATE SKIP LOCKED),
`Dispatch` what `AsyncEventListener` reads and decides, `LockTask` the row lock
on a work item and what is read again under it, `CommitStart` and
`CommitCompletion` the commit of the inner transaction, `CommitBatch` that of
the outer one. `Enqueue` waits for a tick that has locked the row it would use
again. Ids come from a block per node, as the sequence's allocation size of 50
makes them, so that ids do not follow the order of arrival. A request is correlated
by what its payload says in the correlation field, or else by the key of its row, or
else by the name of the field (`Correlation`).

The instances are on their way meanwhile. `Arrive`, `Suspend`, `Resume` and `Finish`
are what `TokenFlow` and `InstanceStore` model in detail, seen from the inbox: whether the activity
that synchronizes with the event is running (`Listening`), lies ahead, is suspended or
past, or the instance is over. A completion that finds nobody listening ends in
`NothingCompleted`: it is refused as a duplicate if some instance with the key has
the work item completed, and otherwise recorded as a success without effect.
`renewed` marks instances that were resumed, and so have a new work item, after a
dispatch had read the old one. `waiting` is a history variable, not in the code: of
each request the instances that have been listening to it ever since it came.

**InstanceContract, RequestLedger.** What is seen from outside. A service call
has all of its effect or none, only a call that leaves no task open completes an
instance, and a completed instance takes no more calls. A request is acted upon
at most once, only while it waits, and changes after it is settled only when
a refused one is sent again. Going back is an action of the contract of its own. The refinement mappings are at the end of
`TokenFlow` and `EventInbox`: from outside an instance shows what is committed
(`saved` while a call runs).

## 3. The runs

| Run | Question | Bounds |
|---|---|---|
| `graphs` | Do forward flows form no cycle (`ForwardAcyclic`)? Is the block of a join complete (`BlockIsClosed`)? | every ordered drawing of up to 7 flows over three tasks and a timer, one flow from a task to itself among them, 8 flows of blocks behind the start event, 11 flows behind a split; 539 939 graphs |
| `feedback` | Does every feedback flow lead back? No (see 6). | first counterexample |
| `review` | Nested parallel blocks with alternatives that merge inside one, an exclusive join, a choice that may terminate, a join without gateway, with failures, stops, suspensions and goings back: `TypeOK`, `NoStrays`, `RowsFollowStatus`, `RunsOnce`, `NoTokenLeft`, `CompletedIsQuiet`, `JoinWaits`, `EndedStaysEnded`, `KeepsContract` | 1 failure, 1 going back; 72 566 states |
| `rounds` | A loop through a parallel and an inclusive block chosen by conditions: `NoStrays`, `JoinWaits`, `EventuallyOver` | 2 rounds that may lead back, all outcomes of three conditions, no going back; 25 679 states |
| `checked` | Does a parallel join wait in the second round of a loop? Not behind an automatic activity (see 6). | 2 rounds |
| `one` | One node, crashes and failures: types, `RowsAreConsistent`, `OneInstancePerKey`, `SuccessHasEffect`, `KeepsLedger`, `EventuallySettled` | 2 requests, with and without a key, payloads without the field or broken, 2 tries, 2 failures, 2 crashes; 259 324 states |
| `two` | Two nodes at once: `TaskDoneOnce`, `SuccessHasEffect`, `KeepsLedger` | 3 requests with one key, given in the payload too, batches of 2, no failures or crashes; 1 524 475 states |
| `race_start` | Two nodes, two starts with one key: one instance? No (see 6). | 2 requests |
| `crash` | Is what succeeded recorded as a success? Not after a crash (see 6). | 1 request, 1 crash |
| `store` | Concurrent calls on one instance: `TypeOK`, `CheckedOwner`, `AloneIsRight`, `CompletionCloses` | 2 threads, 2 tasks, 2 users, any number of calls; 7.7 million states |
| `stale` | Is a work item that was closed refused? No (see 6). | the same |
| `editor` | Every gesture in every order: `TypeOK`, `RedoNeedsUndo`, `UndoChainKept`, `OnlyPasteHidesTags`, `CanvasKeepsFlows` | 5 gestures, 4 activities, 3 flows, tags 1-4 and one name; 2.9 million states |

What the properties mean:

- `ForwardAcyclic`: every cycle that a start event leads to has a feedback flow, but
  for a flow from an activity to itself, whose ends are equally deep. So, but for these, what
  follows an activity along forward flows never holds the activity itself, and going
  back meets it once, where it begins. And `BlockFinder`, which walks along forward flows only, never meets an
  activity that is already on its path; its test for that (`BlockFinder`:55) is
  needed for flows from an activity to itself and for what no start event reaches.
  `BlockIsClosed`: for joins whose branches have one length, whatever may
  still send a token is a member of the block or lies behind its split. The
  precondition is needed: with branches of different lengths the distance of an
  activity is that of its last path, and blocks may be cut short.
- `RowsFollowStatus`: an activity is running exactly if its work item is open,
  suspended exactly if it is suspended.
- `RunsOnce`, `NoTokenLeft`, `JoinWaits`: no activity is run twice in a graph
  without loops, or once more for each time somebody went back; no branch is
  forgotten (if no terminate end was reached and nobody went back, which leaves
  tokens where they were); a join is passed only when nothing is under way to it,
  neither at work nor waiting on the stack, also after going back.
- `NoStrays`, `CompletedIsQuiet`, `EndedStaysEnded`: no second work item beside an
  open one; completed means at rest (but for `held`); what ended stays so until somebody
  goes back.
- `EventuallyOver`: an instance that people keep working on comes to its end:
  no join waits for somebody who was not asked, and no end is forgotten.
- `RowsAreConsistent`: status, processed mark, error and tries of a row agree.
- `OneInstancePerKey`, `TaskDoneOnce`: a key starts one instance, a work item is
  completed once.
- `SuccessHasEffect`: a success did something. A start always did. A completion may
  have done nothing, but only if no instance has been listening to it ever since it
  came: where one has, it is completed, or the request is refused, or it fails, and
  the row says so. The precondition is needed: the code records a success as well if
  the instance is suspended when the dispatch reads it, has not come so far, or was
  not even started (ids do not follow arrival).
- `EventuallySettled`: no request stays pending for ever.
- `CheckedOwner`: what a call checked of the owner of its work item when it
  locked the row still holds when it commits, whatever others saved.
  `AloneIsRight`: a call that nothing disturbed leaves instance and work items
  agreeing and what is closed closed; so whatever goes wrong needs an overlap.
  Undisturbed means that the call would read now what it has read; of a
  reassignment, that no work item has become active since it locked the lane.
  (A claim does not ask whether the work item is at work; such claims are left
  out of it.) `CompletionCloses`: even where calls overwrote each other, the
  completion of the instance closes all that is open.
- `UndoChainKept`: what undo leads back to is never changed by an edit,
  although undo edits entries. `RedoNeedsUndo`: redo is possible after an undo only.
  `OnlyPasteHidesTags`: new tags are derived from the history, which knows all
  tags in use unless something was pasted. `CanvasKeepsFlows`: no flow leads
  nowhere unless the keys or a renaming were used.

Why the bounds are enough. The joins look at one block and one round before, so
two rounds and blocks of two or three branches, nested once, hold every pair of
a stale and a new status. In the inbox, two nodes are all that can hold
conflicting locks on one row, three requests give a start, a completion and a
repetition, and two tries a first and a last one. Two threads are what it
takes to overlap, two tasks a work item and its sibling; the calls
are not bounded. Five gestures are an edit, its undo, another edit and two more to
meet what is left of the first; a rename needs two, since it opens the panel.
Counters are bounded by guards (`MaxRuns`, `MaxFaults`, `MaxBacks`, `MaxRequests`,
`MaxCrashes`, `MaxGestures`), so runs end when the bounds are used up:
`CHECK_DEADLOCK FALSE` (not for `store` and `stale`, where a call can always
begin). Ended instances and an idle inbox may stop as well.

Going back more than once, or in a graph with a loop, is beyond the runs because
properties then fail, by what the code does (seen with TLC in `rounds` with
`MaxBacks = 1`, and `NoStrays` in `review` with `MaxBacks = 2`). The test against going ahead
(`Activity`:900) asks for running activities only and compares depths: while
the nearer activity is suspended, or the running one lies as deep on another
branch, an activity that was completed in an earlier round can be
started ahead of the token. It gets a second work item when the token arrives
(`NoStrays`), and a join may be passed early (`JoinWaits`). And what a stop or an
exclusive join stopped is not started again by going back behind a join, nor is a
branch that only the present conditions allow, so the join waits for ever
(`EventuallyOver`).

Every property of a passing run is paired with a mutant, a wrong version of one
operator that stands before it in the module (its comment begins "A wrong ..."),
under which TLC finds the property violated in that run.

## 4. Fairness

`TokenFlow!FairSpec`: `WF(EngineStep)`, since a thread that runs a call goes on
(the engine waits for nothing within a call); `WF(Resume)` and `SF(Work)` are
assumptions about people, not about the code: a suspended instance is resumed,
and as long as work items are open again and again, some are completed. Strong
fairness is needed because suspending closes and opens them in turn. No failure
is made to stop. `EventInbox!FairSpec`: `WF(Tick(n))` for each node, since the
Quartz trigger of `PollingMessagingConfig` fires for ever and a tick that began
goes on unless the node crashes, after which the node is started again. People
and senders are not fair.

## 5. The proofs

**`TokenFlowProofs`** proves for every graph, with whatever blocks, conditions,
priorities and bounds:

- `TypeCorrect`: `Spec => []TypeOK`. The part that can go wrong is the stack: no
  frame is ever left without something to do (`StackType`).
- `CompletedInstancesAreQuiet`: `Spec => []CompletedIsQuiet`.
- `EngineKeepsContract`: `Spec => KeepsContract`, the refinement of
  `InstanceContract`, going back included.
- `CompletedStaysCompleted`: a completed instance stays as it is until somebody
  goes back. It is one half of `EndedStaysEnded`; the other, about stopped
  instances, is not true on every graph, because the calls below a terminate end
  event go on and may reopen what it stopped (see `OrderlyFlowProofs`).

Assumptions: `GraphAssumption` (the constants have the shape a loaded definition
gives them, there is a start event) and `PriorityAssumption`; every run on
`TokenFlow` evaluates them. Nothing is assumed about `Block`, `Feedback` or `Depth`:
safety of these does not rest on `BlockFinder` being right.

The argument. Neither property is inductive: `Commit` completes an instance
because nothing is RUNNING, and one has to know as well that nothing but `held` is
SUSPENDED and that no other work item is suspended or open. The invariant is
`Inv == TypeOK /\ CallInv`. `Fitting` says how statuses and work items go
together at every step: only human activities wait, and an open work item has
a running activity, a suspended one a suspended activity. `Sound` says what a call
finds and leaves, in particular that running and suspended activities occur
together only if the suspended ones are in `held` (`OnlyHeld`). While a call runs, `CallInv` says that what a rollback
restores is sound, and that the call is a start, a completed task, a resumption or
a going back: `Starting`, `Working`, `Resuming` and `GoingBack` describe by how much `completions`, the
instance and the suspended activities differ from `saved`. `CallStep` proves
it kept by one step per action; `CommitKeepsContract` turns the description of
the call into the one contract step that its commit is, and every other action
is a stutter of the contract or a call of one step.

**`OrderlyFlowProofs`** is about the properties that no graph has by itself. The
engine looks at statuses where it should look at tokens, so whether a join waits
and whether somebody is asked twice depends on how the graph was drawn. The module
`OrderlyFlow` names a class of graphs on which it comes out right. `Orderly` says
that every activity that several flows enter either merges alternatives, of which
one at most gets a token, or waits for all its sources, each of which takes one flow
on; and it waits either because it is a parallel gateway, or because its block shows
under all conditions who is still at work before it (`Covered`), or because it is an
exclusive gateway behind people who were asked at once (`Race`). What excludes each
other, and what comes behind what only, are relations that the graph must be
closed under (`Excluding`, `Dominates`); they are constants, and a graph is orderly
if some relations do. Loops are not orderly: the sources of the activity they lead
back to would have to exclude each other. On every orderly graph, whatever is
stopped, suspended, resumed or fails, *as long as nobody goes back*:

- `NothingRunsTwice` (`RunsOnce`), `NothingGoesAstray` (`NoStrays`) and `RowsFollow`
  (`RowsFollowStatus`), each as `Spec => [](backs = 0 => ...)`.
- `JoinsWait` (`JoinWaits`), with `MaxBacks = 0`, since the property speaks of
  every step.

None of these is inductive, nor are they together. The invariant `InOrder` says of
the statuses and the call stack how a token has come to where it is (`Reached`), that
alternatives are not both touched and nothing is touched ahead of what it comes
behind (`Excludes`), that a loop on the stack belongs to a completed activity, each to
one, and that what it has still to execute has not been entered (`LoopsFit`,
`ItemsFit`). The last part needs that a join is executed as soon as its token is
registered, which is why a source of a join must take one flow only. Who was
stopped in a race gets no token any more (`Spent`), or the exclusive gateway would
run again. What a rollback restores satisfies the same (`RestFits`). For `JoinsWait`
the activities behind a join that opens form a set closed under sources in which
everybody has finished (`Passed`); `Behind` is a recursive function, so that the
closure is an induction over how often it was taken, done with a set of numbers
(`SetInduction`). TLC has checked `InOrder` on the run `review`, and evaluates
`Orderly` on its graph, as part of `Balanced`, whenever a run of `MCTokenFlow` starts
(`ReviewIsBalanced`): with a relation left out the assumption fails.

`WhatHasEndedStays` (`EndedStaysEnded`) holds on any graph, with loops and
however often somebody goes back, whose terminate end events are reached alone
(`TerminatesAlone`): from a person's task on, only activities that take one flow on
lead to them. Then nothing else is on the stack when the instance is
terminated (`Lone`), and an instance that has ended has nothing in it that could
be resumed or completed (`Still`). TLC evaluates this assumption too.

**`BalancedFlowProofs`** proves `NoBranchIsGivenUp` (`NoTokenLeft`): an instance that
was completed, neither by a terminate end event nor after a going back, has no token
left but at activities that were stopped. This is not true of every orderly graph: a
parallel join behind one of two alternatives never opens, and the engine completes
the instance over it, because it asks who is running and not who has a token.
`BalancedFlow` says which graphs are free of that. Whatever sends one of the tokens
that a join needs comes behind an activity (`Finished`) from which, whatever the
conditions, the way leads to each of the others (`Owes`); and the block of a join
shows nobody any more when the last token comes (`Clears`), because everybody in it
has completed or an alternative to him has (`Settled`). An exclusive gateway stops
nobody but the losers of its race and the excluded (`StopsNobody`).

The invariant `Counted` says where the tokens are: each was sent by a completed
activity (`TokensCome`), two alternatives never have one each (`TokensExclude`),
whoever has one has been executed or is about to be, unless it is a join with a
source to come (`TokensEnter`), the tokens of a completed activity have gone where
some condition sends them, the present one if nobody has decided since
(`TokensGoOn`), and who was stopped had lost a race or been excluded (`LosersStop`).
What a rollback restores satisfies the same. `Halted` adds that an instance that
somebody has stopped is at rest for good. Neither is inductive without `InOrder`.
At the end nobody is at work (`CompletedIsQuiet`), so a token that is left waits at
a join. Take the lowest such join: one of its sources has completed, so the
activity that owes the missing token has too, and a debt is passed on along
completed activities until it is paid or lies at a lower activity that waits
(`DebtsArePaid`); there is none. That a join opens
when its last token comes needs the walk through its block by the present conditions
(`MembersAhead`, a recursive function): it finds nothing outside a set that holds
the last member and what its members lead to (`MembersLie`, by `SetInduction`). TLC has
checked `Counted` and `Halted` on the run `review`, and evaluates `Balanced` on its
graph.

**`EventInboxProofs`** proves for any set of nodes and any numbers of requests,
tries, failures and crashes: `TypeCorrect`, `RowsConsistent`
(`RowsAreConsistent`), `TaskOnce` (`TaskDoneOnce`) and `SuccessHasItsEffect`
(`SuccessHasEffect`), from `Inv == RowInv /\ ItemInv /\ HonestInv`. `RowInv`: the row a
tick is to write agrees with the row it has locked. `ItemInv`: a work item is locked by
one dispatch, and nobody else completes, suspends or ends it. `HonestInv` is why a success has had
its effect, also in the rows a tick has yet to write (`Honest`): whoever is waiting for
a request has its key and listens, and while the request is dispatched, whoever waits
for it has a work item that is still to be locked or has been locked (`Passing`); so a
dispatch that ends with neither has passed nobody by. Nobody begins to wait for a request later
(`WaitersLeave`), and effects are not undone (`EffectsGrow`).
For one node (`ASSUME OneNode`), whatever crashes: `OneInstance`
(`OneInstancePerKey`), and `LedgerKept` (`KeepsLedger`) if the mapping has a
correlation field (`FieldKey # NoKey`) and payloads name no other key than their row
(`CorrelatedByRow`). The invariant behind the ledger is that
what a dispatch committed and its batch did not stands in the way of the repeated one: the
instance it started or the work item it completed has the key of the row
(`InTheWay`, `Busy`), so that it is found to be a duplicate. Both assumptions are
needed: without a field a start may have no key at all, and with another key
in the payload a request that had acted, then failed and was sent again acts on
another instance (seen with TLC: four requests, one failure, one crash). For any number of
nodes without crashes: `LedgerKeptByMany`; there a row is in the work of one
tick from its lock to its commit (`Calm`). With several nodes *and* a crash
`KeepsLedger` does not hold: two starts of one key race (`race_start`), a
completion is dispatched to the first instance and its node crashes before the
batch commits, the second instance commits meanwhile, and the repeated dispatch
completes that one too. Assumptions on the constants: `SequenceAssumption` (ids are
given once) and `BoundAssumption`.

**`InstanceStoreProofs`** proves for any tasks, users and threads `TypeCorrect` and
`OwnerStaysChecked` (`CheckedOwner`). A claim saves siblings that it has read
without a lock, and so do stop, suspend and resume. The invariant `OwnRowHeld`
says that a call beyond its lock has the row as it is committed: nobody can
write it, because a commit waits for the locks of the others. Assumption:
`UserAssumption` (and `TaskAssumption` for the library's facts on finite sets).

`CompletionLeavesNothingOpen` (`CompletionCloses`) and `UndisturbedIsRight`
(`AloneIsRight`) are about what a call does with what it has read, and need to know why
it has read it. The invariant `Reading` says so: the instance a call has in hand
accepted it, and of the rows beside its own it has those that were active, of its
lane's owner, or to be stopped, suspended or resumed (`Chosen`), when it read them. It
also says that an instance runs as long as somebody is at work in it (`Lively`),
which concurrent calls do not break although they overwrite each other: a call saves
an instance that it has read whole. The proof of `AloneIsRight` failed for an
earlier definition of `Undisturbed`, which asked nothing of a reassignment: with more
threads than TLC can take, a work item may become active after the lane was locked
while the row of the instance comes back to what it was. The definition now asks that
what is active was locked.

**`ProcessEditorProofs`** proves for every loaded definition and any number of
gestures `TypeCorrect`, `RedoIsUndone`, `ChainIsKept`, `OnlyPasteHides` and
`FlowsStayConnected`. The invariant adds `LiveIsEntry` to the types: after undo
or redo the live definition is the entry at the index, and a recording is left
out only then. Without it an edit of the entry could be an edit of anything.
Assumptions: `NamesAssumption` (typed names are no numbers), `LoadedAssumption`.

**`FlowGraphProofs`** is about the static analysis, for any number of activities,
attached events and flows, added in any order. It proves `ForwardIsAcyclic`
(`ForwardAcyclic`) and `BlocksAreClosed` (`BlockIsClosed`).

For the first, a set of activities that a start event reaches is given. A forward flow
between two of them leads to one that is at least as deep, so from the deepest it
leads to one that is equally deep. `WalkInv` is what a depth-first walk knows of
itself: whatever a visited activity leads to has been met, or stands in the list of
what is to do, and all that stands before it there is farther than the visited
activity (`KidsCome`). So when an activity is visited, those visited before it
and as deep lead only to what has been met already, and the first visited of any equals
leads to no other of them (`NoLevelCircle`, `WalkExplores`). With several start events
the first that reaches something of the set decides (`DepthsEnd`).

For the second, let all paths to the join be of one length (`Balanced`). Then the
activities behind the join lie in disjoint layers (`Layers`), and each flow between
them leads from one layer to the next (`LayerFlow`). A walk from the start event comes
one layer nearer with each step, so of whatever it meets there depth and layer have
one sum, the layer of the start event (`DepthBehind`, by `WalkLies`), and no flow behind the join is feedback (`BehindIsForward`), and
`BlockFinder` sees these layers unchanged (`ForwardLayers`). Every path back
climbs a layer with each flow (`PathsClimb`) and each activity of a layer is the
end of one (`PathsReach`), so that whichever path is walked last (`LastPath`), the
distance it leaves is the number of the layer (`SeenIsLayer`), and the level gathered
at a distance is the layer (`LevelType`, `LineUpHolds`). The block is therefore a
sequence of whole layers up to one of a single activity, or all of them
(`BlockGathers`), and what lies behind the join beyond it lies behind its last
member (`LayersBeyond`, `BlockCloses`). Nothing is proved about the number of
branches at which the gathering stops: the block is closed wherever it stops.
Assumptions: `SheetAssumption` (attached events come in a list).

`Induction` holds what all of this needs instead of an induction rule, which the
provers cannot instantiate: a set of numbers that holds 0 and the successor of each
of its members below a bound holds all up to it (`SetInduction`), and a function that
is defined by recursion over such numbers exists and is the only one
(`IterationExists`, `IterationIsUnique`).

Left to TLC:

- liveness and everything with ENABLED, which the prover does not do
  (`EventuallyOver`, `EventuallySettled`);
- the properties of joins on graphs with loops (`rounds`) and after somebody went
  back (`review`): the code gives no general reason for them, see section 3.

## 6. Where code and comments differ

- `feedback`: a flow is marked as feedback when its target has a lesser depth than
  its source (`FlowActivity`:357), where the depth is that of the first path
  walked. A flow into a short branch that was drawn first is marked although
  nothing returns along it; the comment (340) says one can return along it.
  `BlockFinder` then leaves that branch out of the block.
- `checked`: `ParallelGateway`:29 says the join opens when no running token
  remains. In the second round of a loop the statuses of the first are still
  COMPLETED (the reset in `FlowActivity`:771 is commented out), so a join behind
  an automatic activity opens before the other branch is executed. With
  people in all branches this does not happen (`rounds`): a work item is opened,
  and so seen, before anything can be completed.
- `race_start`: `EventInbox`:15 says that duplicates are recognised when they are
  processed. Two nodes that dispatch two starts with one key read before either
  has committed, and both start an instance.
- `crash`: `InboxPollJob`:32 says that a success sets `processed_at` and clears
  the error. A crash between the commits of a dispatch and of its batch makes
  the next tick see a duplicate, and the row ends as FAILED. The request itself is
  acted upon once (`KeepsLedger`).
- `stale`: `InstanceServiceImpl`:1939 refuses a completion of a work item that is
  "Already closed or illegal status". The test looks at the activity in the
  instance as it was loaded; a stop that commits between the load and the commit
  is overwritten, and the work item it cancelled is completed after it.

Seen in the model of the editor, where the code has a comment at most:

- After copying, pasting and dropping, two activities have one tag: pasted tags
  are not in the history from which the next one is derived (`BpmnVue.vue`:988).
- The first edit after an undo is left out of the history if the undo changed
  nothing the watcher saw: it takes the edit for the undo's effect
  (`BpmnVue.vue`:301).
- Throwing away a renamed activity leaves it in the definition: it is looked for by
  its id under the new tag (`BpmnVue.vue`:1025).
- A rename stops at the first hole in the list of flows, and the flows
  behind it keep the old tag (`BpmnPropertyPanel.vue`:238).

## 7. What is left out

In the graph analysis, the drawings of `FlowDrawing` are of tasks behind one start
event: an end event has a map of depths too (`EndEvent` is a subclass of `StartEvent`,
`FlowActivity`:81), with nothing but itself in it, since no flow leaves it. The
definitions of `MCTokenFlow` have them among `starts`.

In the modelled parts: two flows between the same pair of activities; ad hoc
mode; queued activities (`bpm-in`); event handlers of attached events; several
candidates for one activity; delegation (`delegateWorkItem`), skipping and deletion
of instances; faults caught by an error event; compensation events attached to an
activity (`executeAttachedEvent`, called when going back), and going back into or
out of a sub-process. Stop and suspend roll back on unchecked exceptions only, as
resume does (a hazard without property): the models have no failure in them.
In the inbox: an event with several mappings, and catch
events woken by a message, which a completion without the field in its payload looks
for as well; an instance comes to one activity that listens, once; what a call
such as `suspend` does between its reads and its commit is in `InstanceStore`, here it is one
step that waits for the row lock on the work item; an enqueue that waits for the row lock reads again
when it gets it, so it is one action; the work items of one dispatch are locked
in the order of the instances, and each instance has one; the clean-up job removes
any set of processed rows, since only age decides; a mapping without
correlation field and a request without key are not correlated at all, so a crash
may start such an instance twice (the runs give the mapping a field). The order of
the process transaction inside the database transaction is that of Spring's
default. `JPAProcessInstance` can also keep variables in files; the configured
`CLOBProcessInstance` does not, so these files are not modelled.

Components that are not modelled, with the reason, are in `PROJECT.json`:
transport over Kafka (the broker decides), storage of files, sequential rules and
test tooling, views, login and routing, one customer's extension.

In the editor: roles, lanes, message flows and what lies within sub-processes;
the list of recorded flows beside the canvas; gestures on a shape whose activity
an earlier gesture removed from the definition only. The selection is any set
of activities. An open panel covers the canvas, but not the keyboard.

Timers attached to activities: `TimerEventJob` fires the event outside the
transactional wrapper of the services (it leaves its context in the thread, and
what it changes of the instance is not saved through it), and its jobs are
scheduled and cancelled at once, whatever becomes of the call. A model would
have to take the scheduler's store and threads as given to a large part.

The process engine is Java; most lines of JavaScript in the repository belong to
vendored libraries (OpenGraph, jQuery, jQuery UI, jsTree) and to pages without state
of their own. Of these only what the process editor does, and the handlers of
OpenGraph that call it, are modelled.

## 8. The plan

Written: `FlowGraph`, `TokenFlow` with going back, `InstanceContract`, `EventInbox`,
`RequestLedger`, `InstanceStore` (with what was planned as `Worklist`: claims and
lanes), `ProcessEditor`, `OrderlyFlow`,
`BalancedFlow`, and proofs for the graph analysis, the inbox, the
store, the editor and the engine. Left, in this order:

1. `TokenFlow`, going back combined with loops: which precondition of
   `BackToHere` would keep `NoStrays` and `JoinWaits`.
2. `DefinitionLock` (`DefinitionLockService` 33-64): the edit lock is read and
   then written; anybody may release it.
3. Timers against the completion of their host, with the scheduler's store.
4. `SubProcessScope`: children of a sub-process and the return to the main one; in
   the editor, editing inside one (`BpmnVue.vue` 537-605).
5. Resuming that fails half way with a checked exception.
6. The ledger with several nodes and crashes: what weaker contract holds.
7. Proofs: what `BlockFinder` promises where branches have different lengths; a class
   of graphs with loops on which `JoinWaits` holds.
