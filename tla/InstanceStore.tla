---------------------------- MODULE InstanceStore ----------------------------
(***************************************************************************)
(* What concurrent service calls do to the rows of one process instance.   *)
(* The whole state of the instance is one row of BPM_PROCINST: its status, *)
(* and in one column (VAR_LOB) the status of every activity and the role   *)
(* mapping of every lane.  Each open activity has a row of BPM_WORKLIST.   *)
(* A call is one transaction: it reads rows, works on its copies, and      *)
(* writes every row it changed, with all its columns, when it commits.     *)
(* Nothing is versioned.  Completing and claiming lock the row of their    *)
(* work item before they read it, a reassignment locks the rows of the     *)
(* lane after it has read the instance; nobody locks the instance.         *)
(*                                                                         *)
(* Reads see what is committed (READ COMMITTED); rows are written, and so  *)
(* locked by those who write them, when the transaction commits.           *)
(*                                                                         *)
(* The process has one human activity per task, all of one lane and all at *)
(* work at once; it completes when the last one completes.  What the       *)
(* engine does within a call is the subject of TokenFlow.                  *)
(***************************************************************************)
EXTENDS FiniteSets

CONSTANTS
  Tasks,     \* the human activities; each has one work item
  Users,     \* the people who claim and complete
  NoUser,    \* an empty endpoint
  Clients    \* the threads that serve calls

ASSUME UserAssumption == NoUser \notin Users
ASSUME TaskAssumption == IsFiniteSet(Tasks) /\ Tasks # {}

VARIABLES
  inst,     \* the committed row of the instance: status, act, lane
  items,    \* the committed rows of the work items: status, owner
  call      \* the call that each client is serving

vars == <<inst, items, call>>

Owners == Users \cup {NoUser}

\* Calls about one work item, and calls about the whole instance.
Locking   == {"complete", "claim", "unclaim"}
Lifecycle == {"stop", "suspend", "resume"}
Ops       == Locking \cup Lifecycle \cup {"reassign"}

-----------------------------------------------------------------------------
(* Rows.                                                                   *)

Instance == [status : {"RUNNING", "COMPLETED", "STOPPED"},
             act    : [Tasks -> {"RUNNING", "SUSPENDED", "COMPLETED", "STOPPED"}],
             lane   : Owners]
Item     == [status : {"NEW", "SUSPENDED", "COMPLETED", "CANCELLED"}, owner : Owners]

\* The statuses that the queries for active work ask for; RUNNING is never given.
Active == {t \in Tasks : items[t].status = "NEW"}

-----------------------------------------------------------------------------
(* Calls.                                                                  *)

Unread == [status |-> "unread"]
NoRows == [t \in {} |-> items[t]]
Idle   == [pc |-> "idle", op |-> "none", held |-> {}]

InCall(c) == call[c].pc # "idle"

\* A call about one work item.  inst and rows are what it has read and will save,
\* held the tasks whose rows it has locked.
ItemCall(op, t, u) ==
  [pc |-> IF op \in Locking THEN "lock" ELSE "load", op |-> op, task |-> t,
   user |-> u, held |-> {}, inst |-> Unread, rows |-> NoRows]

InstanceCall(op) ==
  [pc |-> "load", op |-> op, held |-> {}, inst |-> Unread, rows |-> NoRows]

Moves(c, r) == call' = [call EXCEPT ![c] = r] /\ UNCHANGED <<inst, items>>
Ends(c)     == Moves(c, Idle)

HeldByOthers(c) == UNION {call[d].held : d \in Clients \ {c}}

\* A wrong LockOf: the row is read by findById.
LockOfNothing(r) == {}

\* findByIdForUpdate: the row of the call's work item.
LockOf(r) == {r.task}

\* What is asked of the owner of a locked work item: one must be its owner to
\* complete it; nobody else must be to claim it or to give it back.
MayProceed(r, item) == IF r.op = "complete" THEN item.owner = r.user
                       ELSE item.owner \in {NoUser, r.user}

\* The owner's claim only repeats what a claim does to the lane.
Repeats(r) == r.op = "claim" /\ r.rows[r.task].owner = r.user

\* What stop, suspend and resume do to activities: those in From go To.
From(op) == IF op = "stop" THEN {"RUNNING", "SUSPENDED"}
            ELSE IF op = "suspend" THEN {"RUNNING"}
            ELSE IF op = "resume" THEN {"SUSPENDED"} ELSE {}
To(op) == IF op = "stop" THEN "STOPPED" ELSE IF op = "suspend" THEN "SUSPENDED" ELSE "RUNNING"

\* What is asked of the rows that are read next: to complete, that the activity is
\* running, whatever the work item is; to stop, suspend or resume, that the
\* instance is running; to reassign, that the work item is active.  A call that
\* would not change anything ends as well.
Accepts(r) ==
  /\ r.op = "complete" => inst.act[r.task] = "RUNNING"
  /\ r.op = "claim" /\ Repeats(r) => inst.lane # r.user
  /\ r.op \in Lifecycle => inst.status = "RUNNING"
  /\ r.op \in {"suspend", "resume"} => \E t \in Tasks : inst.act[t] \in From(r.op)
  /\ r.op = "reassign" => r.task \in Active

IsLast(r) == \A t \in Tasks \ {r.task} : r.inst.act[t] = "COMPLETED"

\* A wrong Fetched: a completion leaves the other work items alone.
FetchedWithoutReconciling(r) ==
  {t \in Tasks :
    \/ r.op = "claim" /\ ~Repeats(r) /\ t \in Active /\ items[t].owner = NoUser
    \/ r.op = "unclaim" /\ t \in Active /\ items[t].owner = r.user
    \/ r.op \in Lifecycle /\ r.inst.act[t] \in From(r.op)}

\* The rows that a call reads without a lock and saves: what is still active when
\* the instance completes, the siblings of the lane (findSiblingsForClaimState),
\* the work items of the activities it stops, suspends or resumes.
Fetched(r) ==
  {t \in Tasks :
    \/ r.op = "complete" /\ IsLast(r) /\ t \in Active
    \/ r.op = "claim" /\ ~Repeats(r) /\ t \in Active /\ items[t].owner = NoUser
    \/ r.op = "unclaim" /\ t \in Active /\ items[t].owner = r.user
    \/ r.op \in Lifecycle /\ r.inst.act[t] \in From(r.op)}

\* Rows in hand, and these: a row is read only once in a transaction.
AndRead(rows, ts) ==
  [t \in DOMAIN rows \cup ts |-> IF t \in DOMAIN rows THEN rows[t] ELSE items[t]]

\* The row of the instance as the call saves it.
SavedStatus(r) == IF r.op = "complete" /\ IsLast(r) THEN "COMPLETED"
                  ELSE IF r.op = "stop" THEN "STOPPED" ELSE r.inst.status

SavedAct(r, t) == IF r.op = "complete" /\ t = r.task THEN "COMPLETED"
                  ELSE IF r.inst.act[t] \in From(r.op) THEN To(r.op) ELSE r.inst.act[t]

SavedLane(r) == IF r.op \in {"claim", "reassign"} THEN r.user
                ELSE IF r.op = "unclaim" THEN NoUser ELSE r.inst.lane

SavedInst(r) == [status |-> SavedStatus(r), act |-> [t \in Tasks |-> SavedAct(r, t)],
                 lane |-> SavedLane(r)]

\* The row of a work item as the call saves it.  A resumed activity is executed
\* again: its work item is new, and belongs to whom the role mapping names.
SavedItemStatus(r, t) == IF r.op = "complete" THEN "COMPLETED"
                         ELSE IF r.op = "stop" THEN "CANCELLED"
                         ELSE IF r.op = "suspend" THEN "SUSPENDED"
                         ELSE IF r.op = "resume" THEN "NEW" ELSE r.rows[t].status

\* A wrong SavedOwner: a resumed work item has the owner it had.
SavedOwnerKept(r, t) == IF r.op \in {"claim", "unclaim", "reassign"} THEN SavedLane(r)
                        ELSE r.rows[t].owner

SavedOwner(r, t) == IF r.op \in {"claim", "unclaim", "reassign", "resume"} THEN SavedLane(r)
                    ELSE r.rows[t].owner

SavedRow(r, t) == [status |-> SavedItemStatus(r, t), owner |-> SavedOwner(r, t)]

Written(r) == IF Repeats(r) THEN {} ELSE DOMAIN r.rows

-----------------------------------------------------------------------------
(* The steps of a call.                                                    *)

Begin(c) ==
  /\ call[c] = Idle
  /\ \/ \E op \in Locking \cup {"reassign"}, t \in Tasks, u \in Users :
          Moves(c, ItemCall(op, t, u))
     \/ \E op \in Lifecycle : Moves(c, InstanceCall(op))

\* A wrong Lock: two calls lock one row.
LockShared(c) ==
  LET r == call[c] IN
  /\ r.pc = "lock"
  /\ IF MayProceed(r, items[r.task])
     THEN Moves(c, [r EXCEPT !.pc = "load", !.held = LockOf(r),
                             !.rows = AndRead(r.rows, {r.task})])
     ELSE Ends(c)

\* The row of the work item is locked, read and checked.
Lock(c) ==
  LET r == call[c] IN
  /\ r.pc = "lock"
  /\ r.task \notin HeldByOthers(c)
  /\ IF MayProceed(r, items[r.task])
     THEN Moves(c, [r EXCEPT !.pc = "load", !.held = LockOf(r),
                             !.rows = AndRead(r.rows, {r.task})])
     ELSE Ends(c)

\* The row of the instance is read, and VAR_LOB deserialized.
Load(c) ==
  LET r == call[c] IN
  /\ r.pc = "load"
  /\ IF Accepts(r)
     THEN Moves(c, [r EXCEPT !.pc = IF r.op = "reassign" THEN "lane" ELSE "fetch",
                             !.inst = inst])
     ELSE Ends(c)

Fetch(c) ==
  LET r == call[c] IN
  /\ r.pc = "fetch"
  /\ Moves(c, [r EXCEPT !.pc = "commit", !.rows = AndRead(r.rows, Fetched(r))])

\* findActiveLaneForUpdate locks one row after the other.
LockLane(c) ==
  LET r == call[c] IN
  /\ r.pc = "lane"
  /\ \E t \in Active \ (r.held \cup HeldByOthers(c)) :
       Moves(c, [r EXCEPT !.held = @ \cup {t}, !.rows = AndRead(r.rows, {t})])

\* It has locked all that are active; if there are none the call is refused.
LaneLocked(c) ==
  LET r == call[c] IN
  /\ r.pc = "lane"
  /\ Active \subseteq r.held
  /\ IF r.held = {} THEN Ends(c) ELSE Moves(c, [r EXCEPT !.pc = "commit"])

Commit(c) ==
  LET r == call[c] IN
  /\ r.pc = "commit"
  /\ Written(r) \cap HeldByOthers(c) = {}
  /\ inst' = SavedInst(r)
  /\ items' = [t \in Tasks |-> IF t \in Written(r) THEN SavedRow(r, t) ELSE items[t]]
  /\ call' = [call EXCEPT ![c] = Idle]

\* The locks that a call needs for its next step.
Needs(r) ==
  {t \in Tasks :
    \/ r.pc = "lock" /\ t = r.task
    \/ r.pc = "lane" /\ t \in Active \ r.held
    \/ r.pc = "commit" /\ t \in Written(r)}

\* Calls that wait for each other.  The code locks rows in no common order (two
\* claims of one lane lock a work item each and then save both), so there are some,
\* and the database picks one of them as a victim.
Deadlocked(c) ==
  \E S \in SUBSET Clients :
    /\ c \in S
    /\ \A d \in S : \E e \in S \ {d} : Needs(call[d]) \cap call[e].held # {}

Abort(c) == Deadlocked(c) /\ Ends(c)

Step(c) == Lock(c) \/ Load(c) \/ Fetch(c) \/ LockLane(c) \/ LaneLocked(c)
             \/ Commit(c) \/ Abort(c)

Init ==
  /\ inst = [status |-> "RUNNING", act |-> [t \in Tasks |-> "RUNNING"], lane |-> NoUser]
  /\ items = [t \in Tasks |-> [status |-> "NEW", owner |-> NoUser]]
  /\ call = [c \in Clients |-> Idle]

Next == \E c \in Clients : Begin(c) \/ Step(c)

Spec == Init /\ [][Next]_vars

-----------------------------------------------------------------------------
(* Properties.                                                             *)

SomeRows == UNION {[ts -> Item] : ts \in SUBSET Tasks}

ItemCalls ==
  [pc : {"lock", "load", "fetch", "lane", "commit"}, op : Locking \cup {"reassign"},
   task : Tasks, user : Users, held : SUBSET Tasks, inst : Instance \cup {Unread},
   rows : SomeRows]

InstanceCalls ==
  [pc : {"load", "fetch", "commit"}, op : Lifecycle, held : {{}},
   inst : Instance \cup {Unread}, rows : SomeRows]

\* Types, and that no row is locked twice.
TypeOK ==
  /\ inst \in Instance
  /\ items \in [Tasks -> Item]
  /\ call \in [Clients -> {Idle} \cup ItemCalls \cup InstanceCalls]
  /\ \A c, d \in Clients : c # d => call[c].held \cap call[d].held = {}

\* Whoever completes a work item is its owner when the completion is committed,
\* and whoever claims it or gives it back takes it from nobody: what a call has
\* checked when it locked the row is still so, whatever other calls have saved
\* meanwhile (validateCompletionOwner, claimWorkItem).
CheckedOwner ==
  [][\A c \in Clients :
       Commit(c) /\ call[c].op \in Locking => MayProceed(call[c], items[call[c].task])]_vars

\* What a call would read now is what it has read: nothing that matters to it was
\* saved meanwhile.
Undisturbed(c) ==
  LET r == call[c] IN
  /\ r.inst = inst
  /\ \A t \in DOMAIN r.rows : r.rows[t] = items[t]
  /\ (IF r.op = "reassign" THEN Active ELSE Fetched(r)) \subseteq DOMAIN r.rows

RowOf == [RUNNING |-> "NEW", SUSPENDED |-> "SUSPENDED", COMPLETED |-> "COMPLETED",
          STOPPED |-> "CANCELLED"]

\* The rows tell one story: work items are where their activities are, what is
\* open belongs to the lane's owner, and the instance ends with its activities.
Agree(i, w) ==
  /\ \A t \in Tasks : w[t].status = RowOf[i.act[t]]
  /\ \A t \in Tasks : w[t].status = "NEW" => w[t].owner = i.lane
  /\ i.status = "RUNNING" <=> \E t \in Tasks : i.act[t] \in {"RUNNING", "SUSPENDED"}

\* A call alone is right: where the rows agree, a call that nothing disturbed
\* leaves them agreeing and closes what it closes for good.  (A work item that is
\* not at work can be claimed all the same; such a call is left out.)
AloneIsRight ==
  [][\A c \in Clients :
       /\ Commit(c)
       /\ Undisturbed(c)
       /\ Agree(inst, items)
       /\ call[c].op \in {"claim", "unclaim"} => call[c].task \in Active
       => /\ Agree(inst', items')
          /\ \A t \in Tasks : items[t].status \in {"COMPLETED", "CANCELLED"} =>
                                items'[t] = items[t]]_vars

\* Whatever calls have done to each other's rows, a completion that completes the
\* instance and that nothing disturbed leaves no work item at work
\* (ProcessCompletionWorkitemReconciler).
CompletionCloses ==
  [][\A c \in Clients :
       Commit(c) /\ Undisturbed(c) /\ call[c].op = "complete" /\ inst'.status = "COMPLETED"
       => \A t \in Tasks : items'[t].status # "NEW"]_vars

\* completeWorkItemInternal: "Illegal completion for workitem [...]: Already
\* closed or illegal status."  A closed work item is not completed again.
ClosedIsRefused ==
  [][\A c \in Clients :
       Commit(c) /\ call[c].op = "complete"
       => items[call[c].task].status \notin {"COMPLETED", "CANCELLED"}]_vars
=============================================================================
