------------------------------ MODULE EventInbox ------------------------------
(***************************************************************************)
(* The inbox of external events.  A request is a row of BPM_EVENT_INBOX.   *)
(* Every node of the process service accepts requests and polls: a tick    *)
(* locks a batch of unprocessed rows that nobody else has locked, and      *)
(* dispatches them one by one, each in a transaction of its own ("inner"), *)
(* while what it writes on the rows waits for the commit of the batch      *)
(* ("outer").  A "start" event starts a process instance with the key of   *)
(* the request, unless there is one; a "complete" event completes the work *)
(* item of the running instances with that key, if they have one open: an  *)
(* instance may not have come so far, may be past it, suspended or over.   *)
(*                                                                         *)
(* Transactions read what is committed (READ COMMITTED): a dispatch reads, *)
(* and only later writes; a work item is read again under a row lock.  A   *)
(* node that crashes loses both transactions, but not an inner one that it *)
(* had committed before.                                                   *)
(*                                                                         *)
(* An event has one mapping; an instance comes to one activity that        *)
(* listens to the event, once.                                             *)
(***************************************************************************)
EXTENDS Integers, Sequences, SequencesExt, FiniteSets, FiniteSetsExt

CONSTANTS
  Nodes,         \* the nodes of the process service
  Keys,          \* the keys that requests come with; NoKey is none
  Payloads,      \* what a payload says in the correlation field: a key, or NoKey
                 \* if it has no such field; "broken" if it is no JSON
  NoKey,         \* no key
  FieldKey,      \* what a request without any key is correlated by: the name of
                 \* the mapping's correlation field, or NoKey if it has none
  OwnKey,        \* corrKeyFromId: the key made from each row id
  Ids,           \* the row ids of each node's block of the sequence
  BatchSize,     \* uengine.messaging.polling.batch-size
  MaxTry,        \* uengine.messaging.polling.max-try-cnt
  MaxRequests,   \* bound: how many requests are sent
  MaxFaults,     \* bound: how many dispatches fail by an ordinary error
  MaxCrashes     \* bound: how many nodes crash

AllIds  == UNION {Ids[n] : n \in Nodes}
AllKeys == Keys \cup Payloads \cup {NoKey, FieldKey} \cup {OwnKey[id] : id \in AllIds}

ASSUME SequenceAssumption ==
  /\ Ids \in [Nodes -> SUBSET Nat]
  /\ \A m, n \in Nodes : m # n => Ids[m] \cap Ids[n] = {}
  /\ IsFiniteSet(AllIds)

ASSUME BoundAssumption ==
  /\ BatchSize \in Nat \ {0} /\ MaxTry \in Nat \ {0}
  /\ {MaxRequests, MaxFaults, MaxCrashes} \subseteq Nat

VARIABLES
  rows,       \* the committed rows of the inbox, by id
  used,       \* the ids that were given out
  node,       \* the running tick of each node
  instances,  \* the process instances, in the order they were started
  effects,    \* how many dispatches of each row were committed with an effect
  waiting,    \* of each request the instances that have been listening to it ever
              \* since it came
  requests, faults, crashes

vars == <<rows, used, node, instances, effects, waiting, requests, faults, crashes>>

-----------------------------------------------------------------------------
(* Rows.                                                                   *)

NewRow(event, key, payload) ==
  [event |-> event, key |-> key, payload |-> payload, status |-> "PENDING",
   processed |-> FALSE, tries |-> 0, error |-> "none"]

\* A wrong Succeeded: the message of an earlier failure stays.
SucceededAfterError(r) == [r EXCEPT !.processed = TRUE, !.status = "SUCCESS"]

Succeeded(r) == [r EXCEPT !.processed = TRUE, !.error = "none", !.status = "SUCCESS"]

\* A dispatch that must not be repeated: a duplicate, or refused for good.
Rejected(r, error) ==
  [r EXCEPT !.processed = TRUE, !.error = error, !.status = "FAILED"]

\* A wrong Failed: one try too many.
FailedAfterMore(r) == IF r.tries > MaxTry THEN Rejected(r, "failure")
                      ELSE [r EXCEPT !.error = "failure", !.status = "PENDING"]

\* Another wrong Failed: the last try counts as done.
FailedAndDone(r) == IF r.tries >= MaxTry THEN Succeeded(r)
                    ELSE [r EXCEPT !.error = "failure", !.status = "PENDING"]

\* Any other failure, after as many tries as the row has now.
Failed(r) == IF r.tries >= MaxTry THEN Rejected(r, "failure")
             ELSE [r EXCEPT !.error = "failure", !.status = "PENDING"]

\* Rows that a request finds again: the requests with its key and event.
SameRequest(event, key) ==
  {id \in DOMAIN rows : key # NoKey /\ rows[id].key = key /\ rows[id].event = event}

\* A wrong Resubmittable: duplicates are dispatched again.
ResubmittableIfFailed(r) == r.status = "FAILED"

Resubmittable(r) == r.status = "FAILED" /\ r.error # "duplicate"

\* The value of the correlation field in the payload, or the key of the row, or the
\* name of the field.
Correlation(r) == IF r.payload # NoKey THEN r.payload
                  ELSE IF r.key # NoKey THEN r.key ELSE FieldKey

-----------------------------------------------------------------------------
(* A node.                                                                 *)

\* batch: the locked rows still to dispatch, in the order of their ids; work: all
\* locked rows as the tick will write them; phase: what the inner transaction is
\* doing; todo: instances whose work item it has yet to lock; held: those it has
\* locked; renewed: instances that got a new work item since it read them.
IdleNode == [batch |-> {}, work |-> <<>>, phase |-> "none", todo |-> {}, held |-> {},
             renewed |-> {}]

InTick(n)  == node[n].work # <<>>
Turn(n)    == {id \in node[n].batch : \A other \in node[n].batch : id <= other}
RowLocks   == UNION {DOMAIN node[n].work : n \in Nodes}
TaskLocks  == UNION {node[n].held : n \in Nodes}

\* A wrong Lockable: rows that another node has locked are not skipped.
LockableTwice == {id \in DOMAIN rows : ~rows[id].processed}

\* Another wrong Lockable: rows that failed before are not tried again.
LockableFresh ==
  {id \in DOMAIN rows : ~rows[id].processed /\ rows[id].error = "none" /\ id \notin RowLocks}

\* lockUnprocessed: rows a tick may lock.
Lockable == {id \in DOMAIN rows : ~rows[id].processed /\ id \notin RowLocks}

\* The dispatch of the row `id', now `r', has begun to start or complete.
Begun(n, id, r, phase, todo) ==
  node' = [node EXCEPT ![n] =
    [batch |-> @.batch, work |-> [@.work EXCEPT ![id] = r],
     phase |-> phase, todo |-> todo, held |-> {}, renewed |-> {}]]

\* The dispatch of the row `id' ends with the row as `r'.
Dispatched(n, id, r) ==
  node' = [node EXCEPT ![n] =
    [batch |-> @.batch \ {id}, work |-> [@.work EXCEPT ![id] = r],
     phase |-> "none", todo |-> {}, held |-> {}, renewed |-> {}]]

\* A wrong Started: only running instances are asked for.
StartedAndRunning(key) ==
  \E i \in DOMAIN instances : instances[i].key = key /\ instances[i].at # "over"

\* hasStartedMappedDefinition.
Started(key) == key # NoKey /\ \E i \in DOMAIN instances : instances[i].key = key

\* findByCorrKeyAndStatus(.., "Running"): also those with a suspended activity.
Running(key) == {i \in DOMAIN instances :
                   key # NoKey /\ instances[i].key = key /\ instances[i].at # "over"}

\* A wrong Listening: what nobody has claimed is left out.
ListeningClaimed(key) ==
  {i \in Running(key) : instances[i].at = "task" /\ instances[i].claimed}

\* Those of them whose activity that synchronizes with the event is running.
Listening(key) == {i \in Running(key) : instances[i].at = "task"}

\* hasCompletedMappedWork.
Completed(key) == \E i \in DOMAIN instances :
                     key # NoKey /\ instances[i].key = key /\ instances[i].done > 0

-----------------------------------------------------------------------------
(* Requests.                                                               *)

\* The instances that listen to a request when it comes.
Awaiting(row) == IF row.event = "complete" THEN Listening(Correlation(row)) ELSE {}

Insert(n, id, row) ==
  /\ id = Min(Ids[n] \ used)
  /\ rows' = [x \in DOMAIN rows \cup {id} |-> IF x = id THEN row ELSE rows[x]]
  /\ used' = used \cup {id}
  /\ waiting' = [waiting EXCEPT ![id] = Awaiting(row)]

\* enqueue: the latest row of the request is locked, so the call waits for the
\* tick that has locked it.  If that row failed other than as a duplicate it is
\* used again, with the new payload; otherwise the request is a new row.
Enqueue(n, event, key, payload) ==
  LET same   == SameRequest(event, key)
      latest == {id \in same : \A other \in same : other <= id}
      again  == {id \in latest : Resubmittable(rows[id])}
      row    == NewRow(event, key, payload)
  IN  /\ requests < MaxRequests
      /\ latest \cap RowLocks = {}
      /\ \/ \E id \in again : /\ rows' = [rows EXCEPT ![id] = row]
                              /\ waiting' = [waiting EXCEPT ![id] = Awaiting(row)]
                              /\ UNCHANGED used
         \/ again = {} /\ \E id \in Ids[n] \ used : Insert(n, id, row)
      /\ requests' = requests + 1
      /\ UNCHANGED <<node, instances, effects, faults, crashes>>

\* enqueueWithCorrKeyFromId: the row's own id gives its key.
EnqueueWithOwnKey(n, event, payload) ==
  /\ requests < MaxRequests
  /\ \E id \in Ids[n] \ used : Insert(n, id, NewRow(event, OwnKey[id], payload))
  /\ requests' = requests + 1
  /\ UNCHANGED <<node, instances, effects, faults, crashes>>

\* InboxTtlCleanupQuartzJob: deletes rows processed long enough ago.
Cleanup ==
  /\ \E old \in SUBSET {id \in DOMAIN rows : rows[id].processed} :
       /\ old # {}
       /\ rows' = [id \in DOMAIN rows \ old |-> rows[id]]
  /\ UNCHANGED <<used, node, instances, effects, waiting, requests, faults, crashes>>

-----------------------------------------------------------------------------
(* An instance between the events: `at' is ahead of the activity that      *)
(* listens, at it with an open work item ("task"), suspended there, past   *)
(* it, or over.  Whoever writes a work item waits for its row lock.        *)

Goes(i, to) == instances' = [instances EXCEPT ![i].at = to]

\* Instances that no longer listen.
Leave(is) == waiting' = [id \in AllIds |-> waiting[id] \ is]

\* The instance comes to the activity, and a work item is opened.
Arrive(i) ==
  /\ instances[i].at = "ahead"
  /\ Goes(i, "task")
  /\ UNCHANGED <<rows, used, node, effects, waiting, requests, faults, crashes>>

\* claimWorkItem: somebody takes the work item, or gives it back.
Claim(i) ==
  /\ i \notin TaskLocks
  /\ instances[i].at \in {"task", "suspended"}
  /\ instances' = [instances EXCEPT ![i].claimed = ~@]
  /\ UNCHANGED <<rows, used, node, effects, waiting, requests, faults, crashes>>

\* suspend: the instance runs, but nothing in it listens.
Suspend(i) ==
  /\ i \notin TaskLocks
  /\ instances[i].at = "task"
  /\ Goes(i, "suspended")
  /\ Leave({i})
  /\ UNCHANGED <<rows, used, node, effects, requests, faults, crashes>>

\* resume: the activity is executed again and has a new work item, which is not the
\* one that a dispatch has read before.
Resume(i) ==
  /\ instances[i].at = "suspended"
  /\ Goes(i, "task")
  /\ node' = [n \in Nodes |-> [node[n] EXCEPT !.renewed = @ \cup (node[n].todo \cap {i})]]
  /\ UNCHANGED <<rows, used, effects, waiting, requests, faults, crashes>>

\* The instance runs to its end, or is stopped.
Finish(i) ==
  /\ i \notin TaskLocks
  /\ instances[i].at # "over"
  /\ Goes(i, "over")
  /\ Leave({i})
  /\ UNCHANGED <<rows, used, node, effects, requests, faults, crashes>>

-----------------------------------------------------------------------------
(* A tick.                                                                 *)

\* lockUnprocessed: the first rows nobody has locked.
Poll(n) ==
  \E batch \in SUBSET Lockable :
    /\ ~InTick(n) /\ batch # {}
    /\ Cardinality(batch) <= BatchSize
    /\ batch = Lockable \/ Cardinality(batch) = BatchSize
    /\ \A id \in batch, other \in Lockable \ batch : id < other
    /\ node' = [node EXCEPT ![n] = [IdleNode EXCEPT
                  !.batch = batch, !.work = [id \in batch |-> rows[id]]]]
    /\ UNCHANGED <<rows, used, instances, effects, waiting, requests, faults, crashes>>

\* The inner transaction begins and reads.  A payload that is no JSON and a start
\* when there is an instance are refused at once.
Dispatch(n, id) ==
  LET r == [node[n].work[id] EXCEPT !.tries = @ + 1]
      key == Correlation(r)
  IN  /\ node[n].phase = "none"
      /\ \/ r.payload = "broken" /\ Dispatched(n, id, Rejected(r, "failure"))
         \/ /\ r.payload # "broken" /\ r.event = "start"
            /\ \/ Started(key) /\ Dispatched(n, id, Rejected(r, "duplicate"))
               \/ ~Started(key) /\ Begun(n, id, r, "starting", {})
         \/ /\ r.payload # "broken" /\ r.event = "complete"
            /\ Begun(n, id, r, "completing", Listening(key))
      /\ UNCHANGED <<rows, used, instances, effects, waiting, requests, faults, crashes>>

\* A wrong Completable: the work item is not read again under its lock.
CompletableUnlocked(i) == instances[i].claimed \/ instances[i].at # "task"

Completable(i) == instances[i].claimed /\ instances[i].at = "task"

\* The next instance whose work item the dispatch wants.
Wanted(n) == {i \in node[n].todo : \A other \in node[n].todo : i <= other}

\* validateHumanActivityCompletion: locks the work item, waiting for whoever
\* has locked it, and reads it again.
LockTask(n, id) ==
  /\ node[n].phase = "completing"
  /\ \E i \in Wanted(n) \ TaskLocks :
       \/ /\ Completable(i) /\ i \notin node[n].renewed
          /\ node' = [node EXCEPT ![n].todo = @ \ {i}, ![n].held = @ \cup {i}]
       \/ /\ ~Completable(i) \/ i \in node[n].renewed
          /\ Dispatched(n, id, Rejected(node[n].work[id], "failure"))
  /\ UNCHANGED <<rows, used, instances, effects, waiting, requests, faults, crashes>>

Affected(id) == effects' = [effects EXCEPT ![id] = @ + 1]

\* The inner transaction commits a new instance.
CommitStart(n, id) ==
  LET r == node[n].work[id]
  IN  /\ node[n].phase = "starting"
      /\ instances' = Append(instances,
                             [key |-> Correlation(r), at |-> "ahead", claimed |-> FALSE,
                              done |-> 0])
      /\ Affected(id)
      /\ Dispatched(n, id, Succeeded(r))
      /\ UNCHANGED <<rows, used, waiting, requests, faults, crashes>>

\* The inner transaction commits the completion of the work items it has locked.
CommitCompletion(n, id) ==
  /\ node[n].phase = "completing" /\ node[n].todo = {} /\ node[n].held # {}
  /\ instances' = [i \in DOMAIN instances |->
                     IF i \in node[n].held
                     THEN [instances[i] EXCEPT !.at = "past", !.done = @ + 1]
                     ELSE instances[i]]
  /\ Leave(node[n].held)
  /\ Affected(id)
  /\ Dispatched(n, id, Succeeded(node[n].work[id]))
  /\ UNCHANGED <<rows, used, requests, faults, crashes>>

\* No instance listened.  If one had its work item completed before, the request is
\* a duplicate; otherwise it succeeds without any effect.
NothingCompleted(n, id) ==
  LET r == node[n].work[id]
  IN  /\ node[n].phase = "completing" /\ node[n].todo = {} /\ node[n].held = {}
      /\ Dispatched(n, id, IF Completed(Correlation(r)) THEN Rejected(r, "duplicate")
                           ELSE Succeeded(r))
      /\ UNCHANGED <<rows, used, instances, effects, waiting, requests, faults, crashes>>

\* The inner transaction is rolled back by an ordinary error.
Fail(n, id) ==
  /\ node[n].phase \in {"starting", "completing"}
  /\ faults < MaxFaults
  /\ faults' = faults + 1
  /\ Dispatched(n, id, Failed(node[n].work[id]))
  /\ UNCHANGED <<rows, used, instances, effects, waiting, requests, crashes>>

\* The outer transaction commits: the rows are written and unlocked.
CommitBatch(n) ==
  /\ InTick(n) /\ node[n].batch = {}
  /\ rows' = [id \in DOMAIN rows |->
                IF id \in DOMAIN node[n].work THEN node[n].work[id] ELSE rows[id]]
  /\ node' = [node EXCEPT ![n] = IdleNode]
  /\ UNCHANGED <<used, instances, effects, waiting, requests, faults, crashes>>

\* What a crash leaves of a tick: nothing, its locks are gone.
AfterCrash(n) == IdleNode

Crash(n) ==
  /\ InTick(n)
  /\ crashes < MaxCrashes
  /\ crashes' = crashes + 1
  /\ node' = [node EXCEPT ![n] = AfterCrash(n)]
  /\ UNCHANGED <<rows, used, instances, effects, waiting, requests, faults>>

-----------------------------------------------------------------------------
Init ==
  /\ rows = <<>> /\ used = {}
  /\ node = [n \in Nodes |-> IdleNode]
  /\ instances = <<>>
  /\ effects = [id \in AllIds |-> 0]
  /\ waiting = [id \in AllIds |-> {}]
  /\ requests = 0 /\ faults = 0 /\ crashes = 0

Request(n) ==
  \E event \in {"start", "complete"}, payload \in Payloads :
    \/ \E key \in Keys : Enqueue(n, event, key, payload)
    \/ EnqueueWithOwnKey(n, event, payload)

\* What a node goes on to do by itself.
Tick(n) == \/ Poll(n) \/ CommitBatch(n)
           \/ \E id \in Turn(n) : \/ Dispatch(n, id) \/ LockTask(n, id)
                                   \/ CommitStart(n, id) \/ CommitCompletion(n, id)
                                   \/ NothingCompleted(n, id)

Next == \/ \E n \in Nodes : \/ Request(n) \/ Tick(n) \/ Crash(n)
                            \/ \E id \in Turn(n) : Fail(n, id)
        \/ \E i \in DOMAIN instances : \/ Arrive(i) \/ Claim(i) \/ Suspend(i)
                                       \/ Resume(i) \/ Finish(i)
        \/ Cleanup

Spec == Init /\ [][Next]_vars

\* Quartz fires the next tick of each node, and a tick that began goes on.
FairSpec == Spec /\ \A n \in Nodes : WF_vars(Tick(n))

-----------------------------------------------------------------------------
InboxRow ==
  [event : {"start", "complete"}, key : AllKeys, payload : Payloads,
   status : {"PENDING", "SUCCESS", "FAILED"}, processed : BOOLEAN,
   tries : 0 .. MaxTry, error : {"none", "failure", "duplicate"}]

\* The variables have their types; in particular no row is tried more often
\* than max-try-cnt (InboxPollJob.runBatch).
TypeOK ==
  /\ used \subseteq AllIds /\ DOMAIN rows \subseteq used
  /\ \A id \in DOMAIN rows : rows[id] \in InboxRow
  /\ instances \in Seq([key : AllKeys, at : {"ahead", "task", "suspended", "past", "over"},
                        claimed : BOOLEAN, done : Nat])
  /\ effects \in [AllIds -> Nat]
  /\ waiting \in [AllIds -> SUBSET DOMAIN instances]
  /\ DOMAIN node = Nodes
  /\ \A n \in Nodes :
       /\ node[n].batch \subseteq DOMAIN node[n].work
       /\ DOMAIN node[n].work \subseteq DOMAIN rows
       /\ \A id \in DOMAIN node[n].work : node[n].work[id] \in InboxRow
       /\ node[n].phase \in {"none", "starting", "completing"}
       /\ node[n].todo \cup node[n].held \cup node[n].renewed \subseteq DOMAIN instances
  /\ requests \in 0 .. MaxRequests /\ faults \in 0 .. MaxFaults
  /\ crashes \in 0 .. MaxCrashes

\* What an operator reads off a row agrees, whatever a tick, a retry or a
\* resubmission wrote: a row is pending exactly until it is processed, a
\* success shows no error, a failure shows one, a pending row with an error has
\* tries left (InboxPollJob.runBatch, EventInboxEnqueueServiceImpl.enqueue).
RowsAreConsistent ==
  \A id \in DOMAIN rows :
    LET r == rows[id]
    IN  /\ r.status = "PENDING" <=> ~r.processed
        /\ r.status = "SUCCESS" => r.error = "none"
        /\ r.status = "FAILED" => r.error # "none" /\ r.tries > 0
        /\ r.status = "PENDING" /\ r.error # "none" => r.tries < MaxTry

\* Requests with the same key start one instance, whatever crashes and retries
\* come between: AsyncEventListener checks before it starts one.
OneInstancePerKey ==
  \A i, j \in DOMAIN instances :
    instances[i].key = instances[j].key /\ instances[i].key # NoKey => i = j

\* A work item is completed once, however many completions of it are
\* dispatched at once (AsyncEventListener.validateHumanActivityCompletion).
TaskDoneOnce == \A i \in DOMAIN instances : instances[i].done <= 1

\* A request that is reported as a success did something.  Only a completion may
\* succeed without effect, and only if no instance has been listening to it ever
\* since it came: what was there to be completed is completed or the request is
\* refused, whatever dispatches failed, were cut off or ran beside it, and however
\* work items were claimed, suspended and renewed meanwhile
\* (AsyncEventListener.processEventMappings).
SuccessHasEffect ==
  \A id \in DOMAIN rows :
    rows[id].status = "SUCCESS" /\ effects[id] = 0
      => rows[id].event = "complete" /\ waiting[id] = {}

\* Every request is settled: a tick that loses its node gives its rows back,
\* and no row is retried for ever (InboxPollJob, EventInboxRepository).
EventuallySettled ==
  \A id \in AllIds :
    (id \in DOMAIN rows /\ ~rows[id].processed)
      ~> (id \notin DOMAIN rows \/ rows[id].processed)

-----------------------------------------------------------------------------
(* The ledger that the inbox keeps.                                        *)

SeenState ==
  [id \in AllIds |->
     IF id \notin used THEN "none"
     ELSE IF id \notin DOMAIN rows THEN "forgotten"
     ELSE IF ~rows[id].processed THEN "waiting"
     ELSE IF rows[id].status = "SUCCESS" THEN "done"
     ELSE IF rows[id].error = "duplicate" THEN "duplicate" ELSE "refused"]

Ledger == INSTANCE RequestLedger
            WITH Requests <- AllIds, state <- SeenState, acted <- effects

\* Ticks of several nodes, crashes and retries keep the promise of the inbox:
\* each request is acted upon at most once, before it is settled, and what is
\* settled changes only by sending a refused request again.
KeepsLedger == Ledger!Spec

-----------------------------------------------------------------------------
(* What comments of the code say, and the code does not do.                *)

\* InboxPollJob.java:32: a success sets processed_at and clears last_error.
SuccessIsRecorded ==
  \A id \in DOMAIN rows : effects[id] > 0 => rows[id].status # "FAILED"
=============================================================================
