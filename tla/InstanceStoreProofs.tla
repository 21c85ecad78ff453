------------------------- MODULE InstanceStoreProofs -------------------------
(***************************************************************************)
(* Proofs about InstanceStore, for any tasks, users and clients.           *)
(***************************************************************************)
EXTENDS InstanceStore, TLAPS

\* How far a call is tells what kind of call it is, and that it has read the
\* instance.
Stages ==
  \A c \in Clients : InCall(c) =>
    /\ call[c].pc = "lock"  => call[c].op \in Locking /\ DOMAIN call[c].rows = {}
    /\ call[c].pc = "lane"  => call[c].op = "reassign"
    /\ call[c].pc = "fetch" => call[c].op # "reassign"
    /\ call[c].pc \in {"fetch", "lane", "commit"} => call[c].inst \in Instance

\* Beyond its first step a call about a work item has the row in hand as it is
\* committed, locked, and with an owner that it accepts.
Holds(c) ==
  /\ call[c].held = {call[c].task}
  /\ call[c].task \in DOMAIN call[c].rows
  /\ call[c].rows[call[c].task] = items[call[c].task]
  /\ MayProceed(call[c], items[call[c].task])

OwnRowHeld ==
  \A c \in Clients :
    InCall(c) /\ call[c].op \in Locking /\ call[c].pc # "lock" => Holds(c)

IInv == TypeOK /\ Stages /\ OwnRowHeld

Calls == {Idle} \cup ItemCalls \cup InstanceCalls

-----------------------------------------------------------------------------
(* Rows.                                                                   *)

\* Reading rows gives rows.
LEMMA ReadRows ==
  ASSUME items \in [Tasks -> Item], NEW rows \in SomeRows, NEW ts \in SUBSET Tasks
  PROVE  /\ AndRead(rows, ts) \in SomeRows
         /\ DOMAIN AndRead(rows, ts) = DOMAIN rows \cup ts
         /\ \A t \in DOMAIN rows : AndRead(rows, ts)[t] = rows[t]
         /\ \A t \in ts \ DOMAIN rows : AndRead(rows, ts)[t] = items[t]
<1>1. PICK us \in SUBSET Tasks : rows \in [us -> Item]
  BY DEF SomeRows
<1>2. DOMAIN rows = us
  BY <1>1
<1>3. us \cup ts \in SUBSET Tasks
  OBVIOUS
<1>4. AndRead(rows, ts) \in [us \cup ts -> Item]
  BY <1>1, <1>2 DEF AndRead
<1>5. AndRead(rows, ts) \in SomeRows
  BY <1>3, <1>4 DEF SomeRows
<1>6. QED
  BY <1>2, <1>4, <1>5 DEF AndRead

\* What a call saves as the instance is an instance.
LEMMA SavedInstType ==
  ASSUME NEW r \in ItemCalls \cup InstanceCalls, r.inst \in Instance
  PROVE  SavedInst(r) \in Instance
<1>1. SavedStatus(r) \in {"RUNNING", "COMPLETED", "STOPPED"}
  BY DEF SavedStatus, Instance
<1>2. \A t \in Tasks : SavedAct(r, t) \in {"RUNNING", "SUSPENDED", "COMPLETED", "STOPPED"}
  BY DEF SavedAct, Instance, To
<1>3. SavedLane(r) \in Owners
  <2>1. CASE r \in ItemCalls
    BY <2>1 DEF SavedLane, ItemCalls, Owners, Instance
  <2>2. CASE r \in InstanceCalls
    BY <2>2 DEF SavedLane, InstanceCalls, Lifecycle, Instance
  <2>3. QED
    BY <2>1, <2>2
<1>4. QED
  BY <1>1, <1>2, <1>3 DEF SavedInst, Instance

\* What a call saves as a work item is one.
LEMMA SavedRowType ==
  ASSUME NEW r \in ItemCalls \cup InstanceCalls, r.inst \in Instance,
         NEW t \in DOMAIN r.rows
  PROVE  SavedRow(r, t) \in Item
<1>1. r.rows[t] \in Item
  BY DEF ItemCalls, InstanceCalls, SomeRows
<1>2. SavedItemStatus(r, t) \in {"NEW", "SUSPENDED", "COMPLETED", "CANCELLED"}
  BY <1>1 DEF SavedItemStatus, Item
<1>3. SavedOwner(r, t) \in Owners
  BY <1>1, SavedInstType DEF SavedOwner, SavedInst, Item, Instance
<1>4. QED
  BY <1>2, <1>3 DEF SavedRow, Item

\* A call that ends is out of the way.
LEMMA EndsKeeps ==
  ASSUME IInv, NEW c \in Clients, Ends(c)
  PROVE  IInv'
<1>1. inst' = inst /\ items' = items /\ call' = [call EXCEPT ![c] = Idle]
  BY DEF Ends, Moves
<1>2. TypeOK'
  BY <1>1 DEF IInv, TypeOK, Idle
<1>3. Stages'
  BY <1>1 DEF IInv, TypeOK, Stages, InCall, Idle
<1>4. OwnRowHeld'
  BY <1>1 DEF IInv, TypeOK, OwnRowHeld, Holds, InCall, Idle, MayProceed
<1>5. QED
  BY <1>2, <1>3, <1>4 DEF IInv

\* A call that goes on as r, having read more and locked rows that nobody had.
LEMMA MovesKeeps ==
  ASSUME IInv, NEW c \in Clients, NEW r, Moves(c, r),
         r \in ItemCalls \cup InstanceCalls,
         r.held \cap HeldByOthers(c) = {},
         r.pc = "lock"  => r.op \in Locking /\ DOMAIN r.rows = {},
         r.pc = "lane"  => r.op = "reassign",
         r.pc = "fetch" => r.op # "reassign",
         r.pc \in {"fetch", "lane", "commit"} => r.inst \in Instance,
         r.op \in Locking /\ r.pc # "lock" =>
           /\ r.held = {r.task}
           /\ r.task \in DOMAIN r.rows
           /\ r.rows[r.task] = items[r.task]
           /\ MayProceed(r, items[r.task])
  PROVE  IInv'
<1>1. inst' = inst /\ items' = items /\ call' = [call EXCEPT ![c] = r]
  BY DEF Moves
<1>2. call'[c] = r /\ \A d \in Clients \ {c} : call'[d] = call[d]
  BY <1>1 DEF IInv, TypeOK
<1>3. \A d \in Clients \ {c} : r.held \cap call[d].held = {}
  BY DEF HeldByOthers
<1>4. TypeOK'
  <2>1. call' \in [Clients -> {Idle} \cup ItemCalls \cup InstanceCalls]
    BY <1>1 DEF IInv, TypeOK
  <2>2. \A d, e \in Clients : d # e => call'[d].held \cap call'[e].held = {}
    BY <1>2, <1>3 DEF IInv, TypeOK
  <2>3. QED
    BY <1>1, <2>1, <2>2 DEF IInv, TypeOK
<1>5. Stages'
  BY <1>2 DEF IInv, Stages, InCall
<1>6. OwnRowHeld'
  <2>1. SUFFICES ASSUME NEW d \in Clients,
                        (InCall(d) /\ call[d].op \in Locking /\ call[d].pc # "lock")'
                 PROVE  Holds(d)'
    BY DEF OwnRowHeld
  <2>2. CASE d = c
    BY <1>1, <1>2, <2>1, <2>2 DEF Holds, MayProceed, InCall
  <2>3. CASE d # c
    BY <1>1, <1>2, <2>1, <2>3 DEF IInv, OwnRowHeld, Holds, MayProceed, InCall
  <2>4. QED
    BY <2>2, <2>3
<1>7. QED
  BY <1>4, <1>5, <1>6 DEF IInv

-----------------------------------------------------------------------------
(* The steps of a call.                                                    *)

LEMMA BeginKeeps ==
  ASSUME IInv, NEW c \in Clients, Begin(c)
  PROVE  IInv'
<1>1. NoRows \in SomeRows
  <2>1. NoRows \in [{} -> Item]
    BY DEF NoRows
  <2>2. QED
    BY <2>1 DEF SomeRows
<1>2. ASSUME NEW op \in Locking \cup {"reassign"}, NEW t \in Tasks, NEW u \in Users,
             Moves(c, ItemCall(op, t, u))
      PROVE  IInv'
  <2>1. ItemCall(op, t, u) \in ItemCalls
    BY <1>1 DEF ItemCall, ItemCalls
  <2>2. QED
    BY <1>2, <2>1, MovesKeeps DEF ItemCall, Locking, NoRows
<1>3. ASSUME NEW op \in Lifecycle, Moves(c, InstanceCall(op))
      PROVE  IInv'
  <2>1. InstanceCall(op) \in InstanceCalls
    BY <1>1 DEF InstanceCall, InstanceCalls
  <2>2. QED
    BY <1>3, <2>1, MovesKeeps DEF InstanceCall, Locking, Lifecycle
<1>4. QED
  BY <1>2, <1>3 DEF Begin

LEMMA LockKeeps ==
  ASSUME IInv, NEW c \in Clients, Lock(c)
  PROVE  IInv'
<1> DEFINE r == call[c]
           s == [r EXCEPT !.pc = "load", !.held = LockOf(r), !.rows = AndRead(r.rows, {r.task})]
<1>1. CASE Ends(c)
  BY <1>1, EndsKeeps
<1>2. CASE MayProceed(r, items[r.task]) /\ Moves(c, s)
  <2>1. r \in ItemCalls /\ r.op \in Locking
    BY DEF IInv, TypeOK, Stages, InCall, Lock, Idle, InstanceCalls
  <2>2. r.rows \in SomeRows /\ r.task \in Tasks
    BY <2>1 DEF ItemCalls
  <2>3. /\ AndRead(r.rows, {r.task}) \in SomeRows
        /\ r.task \in DOMAIN AndRead(r.rows, {r.task})
    BY <2>2, ReadRows DEF IInv, TypeOK
  <2>4. LockOf(r) = {r.task}
    BY DEF LockOf
  <2>5. s \in ItemCalls
    BY <2>1, <2>2, <2>3, <2>4 DEF ItemCalls
  <2>6. /\ s.pc = "load" /\ s.held = {r.task} /\ s.rows = AndRead(r.rows, {r.task})
        /\ s.task = r.task /\ s.op = r.op /\ s.user = r.user
    BY <2>1, <2>4 DEF ItemCalls
  <2>7. /\ s.rows[s.task] = items[s.task]
        /\ MayProceed(s, items[s.task])
    <3>1. DOMAIN r.rows = {}
      BY <2>1 DEF IInv, Stages, InCall, Lock
    <3>2. AndRead(r.rows, {r.task})[r.task] = items[r.task]
      BY <3>1 DEF AndRead
    <3>3. QED
      BY <1>2, <2>6, <3>2 DEF MayProceed
  <2>8. s.held \cap HeldByOthers(c) = {}
    BY <2>6 DEF Lock
  <2>9. QED
    BY <1>2, <2>1, <2>3, <2>5, <2>6, <2>7, <2>8, MovesKeeps DEF Locking
<1>3. QED
  BY <1>1, <1>2 DEF Lock

LEMMA LoadKeeps ==
  ASSUME IInv, NEW c \in Clients, Load(c)
  PROVE  IInv'
<1> DEFINE r == call[c]
           s == [r EXCEPT !.pc = IF r.op = "reassign" THEN "lane" ELSE "fetch",
                          !.inst = inst]
<1>1. CASE Ends(c)
  BY <1>1, EndsKeeps
<1>2. CASE Moves(c, s)
  <2>1. r \in ItemCalls \cup InstanceCalls /\ InCall(c) /\ r.pc = "load"
    BY DEF IInv, TypeOK, InCall, Load, Idle
  <2>2. inst \in Instance
    BY DEF IInv, TypeOK
  <2>3. s \in ItemCalls \cup InstanceCalls
    <3>1. CASE r \in ItemCalls
      BY <2>2, <3>1 DEF ItemCalls
    <3>2. CASE r \in InstanceCalls
      BY <2>2, <3>2 DEF InstanceCalls, Lifecycle
    <3>3. QED
      BY <2>1, <3>1, <3>2
  <2>4. /\ s.pc = (IF r.op = "reassign" THEN "lane" ELSE "fetch") /\ s.inst = inst
        /\ s.held = r.held /\ s.op = r.op /\ s.rows = r.rows
        /\ r \in ItemCalls => s.task = r.task /\ s.user = r.user
    <3>1. CASE r \in ItemCalls
      BY <3>1 DEF ItemCalls
    <3>2. CASE r \in InstanceCalls
      BY <3>2 DEF InstanceCalls, Lifecycle, ItemCalls, Locking
    <3>3. QED
      BY <2>1, <3>1, <3>2
  <2>5. s.held \cap HeldByOthers(c) = {}
    BY <2>4 DEF IInv, TypeOK, HeldByOthers
  <2>6. ASSUME s.op \in Locking
        PROVE  /\ s.held = {s.task} /\ s.task \in DOMAIN s.rows
               /\ s.rows[s.task] = items[s.task] /\ MayProceed(s, items[s.task])
    <3>1. r \in ItemCalls
      BY <2>1, <2>4, <2>6 DEF InstanceCalls, Lifecycle, Locking
    <3>2. Holds(c)
      BY <2>1, <2>4, <2>6 DEF IInv, OwnRowHeld
    <3>3. QED
      BY <2>4, <3>1, <3>2 DEF Holds, MayProceed
  <2> HIDE DEF s
  <2>7. QED
    BY <1>2, <2>2, <2>3, <2>4, <2>5, <2>6, MovesKeeps
<1>3. QED
  BY <1>1, <1>2 DEF Load

LEMMA FetchKeeps ==
  ASSUME IInv, NEW c \in Clients, Fetch(c)
  PROVE  IInv'
<1> DEFINE r == call[c]
           s == [r EXCEPT !.pc = "commit", !.rows = AndRead(r.rows, Fetched(r))]
<1>1. r \in ItemCalls \cup InstanceCalls /\ InCall(c) /\ r.pc = "fetch"
  BY DEF IInv, TypeOK, InCall, Fetch, Idle
<1>2. r.rows \in SomeRows /\ r.inst \in Instance
  BY <1>1 DEF IInv, Stages, ItemCalls, InstanceCalls
<1>3. Fetched(r) \in SUBSET Tasks
  BY DEF Fetched
<1>4. /\ AndRead(r.rows, Fetched(r)) \in SomeRows
      /\ DOMAIN AndRead(r.rows, Fetched(r)) = DOMAIN r.rows \cup Fetched(r)
      /\ \A t \in DOMAIN r.rows : AndRead(r.rows, Fetched(r))[t] = r.rows[t]
  BY <1>2, <1>3, ReadRows DEF IInv, TypeOK
<1>5. s \in ItemCalls \cup InstanceCalls
  <2>1. CASE r \in ItemCalls
    BY <1>4, <2>1 DEF ItemCalls
  <2>2. CASE r \in InstanceCalls
    BY <1>4, <2>2 DEF InstanceCalls
  <2>3. QED
    BY <1>1, <2>1, <2>2
<1>6. /\ s.pc = "commit" /\ s.inst = r.inst /\ s.held = r.held /\ s.op = r.op
      /\ s.rows = AndRead(r.rows, Fetched(r))
      /\ r \in ItemCalls => s.task = r.task /\ s.user = r.user
  <2>1. CASE r \in ItemCalls
    BY <2>1 DEF ItemCalls
  <2>2. CASE r \in InstanceCalls
    BY <2>2 DEF InstanceCalls, Lifecycle, ItemCalls, Locking
  <2>3. QED
    BY <1>1, <2>1, <2>2
<1>7. s.held \cap HeldByOthers(c) = {}
  BY <1>6 DEF IInv, TypeOK, HeldByOthers
<1>8. ASSUME s.op \in Locking
      PROVE  /\ s.held = {s.task} /\ s.task \in DOMAIN s.rows
             /\ s.rows[s.task] = items[s.task] /\ MayProceed(s, items[s.task])
  <2>1. r \in ItemCalls
    BY <1>1, <1>6, <1>8 DEF InstanceCalls, Lifecycle, Locking
  <2>2. Holds(c)
    BY <1>1, <1>6, <1>8 DEF IInv, OwnRowHeld
  <2>3. QED
    BY <1>4, <1>6, <2>1, <2>2 DEF Holds, MayProceed
<1>9. QED
  BY <1>2, <1>5, <1>6, <1>7, <1>8, MovesKeeps DEF Fetch

\* A row of the lane is locked, and read.
LEMMA LockLaneKeeps ==
  ASSUME IInv, NEW c \in Clients, LockLane(c)
  PROVE  IInv'
<1> DEFINE r == call[c]
<1>1. PICK t \in Active \ (r.held \cup HeldByOthers(c)) :
        Moves(c, [r EXCEPT !.held = @ \cup {t}, !.rows = AndRead(r.rows, {t})])
  BY DEF LockLane
<1> DEFINE s == [r EXCEPT !.held = @ \cup {t}, !.rows = AndRead(r.rows, {t})]
<1>2. r.op = "reassign" /\ r.pc = "lane" /\ r.inst \in Instance
  BY DEF IInv, TypeOK, Stages, InCall, LockLane
<1>3. r \in ItemCalls
  BY <1>2 DEF IInv, TypeOK, Idle, InstanceCalls, Lifecycle
<1>4. t \in Tasks
  BY DEF Active
<1>5. AndRead(r.rows, {t}) \in SomeRows
  BY <1>3, <1>4, ReadRows DEF IInv, TypeOK, ItemCalls
<1>6. s \in ItemCalls
  BY <1>3, <1>4, <1>5 DEF ItemCalls
<1>7. s.pc = "lane" /\ s.op = "reassign" /\ s.inst = r.inst /\ s.held = r.held \cup {t}
  BY <1>2, <1>3 DEF ItemCalls
<1>8. s.held \cap HeldByOthers(c) = {}
  BY <1>1, <1>7 DEF IInv, TypeOK, HeldByOthers
<1>9. Moves(c, s)
  BY <1>1
<1> HIDE DEF s
<1>10. QED
  BY <1>2, <1>6, <1>7, <1>8, <1>9, MovesKeeps DEF Locking

LEMMA LaneLockedKeeps ==
  ASSUME IInv, NEW c \in Clients, LaneLocked(c)
  PROVE  IInv'
<1> DEFINE r == call[c]
           s == [r EXCEPT !.pc = "commit"]
<1>1. CASE Ends(c)
  BY <1>1, EndsKeeps
<1>2. CASE Moves(c, s)
  <2>1. r.op = "reassign" /\ r.pc = "lane" /\ r.inst \in Instance
    BY DEF IInv, TypeOK, Stages, InCall, LaneLocked
  <2>2. r \in ItemCalls
    BY <2>1 DEF IInv, TypeOK, Idle, InstanceCalls, Lifecycle
  <2>3. s \in ItemCalls
    BY <2>2 DEF ItemCalls
  <2>4. s.pc = "commit" /\ s.op = "reassign" /\ s.inst = r.inst /\ s.held = r.held
    BY <2>1, <2>2 DEF ItemCalls
  <2>5. s.held \cap HeldByOthers(c) = {}
    BY <2>4 DEF IInv, TypeOK, HeldByOthers
  <2> HIDE DEF s
  <2>6. QED
    BY <1>2, <2>1, <2>3, <2>4, <2>5, MovesKeeps DEF Locking
<1>3. QED
  BY <1>1, <1>2 DEF LaneLocked

\* What is saved leaves alone the rows that others have locked.
LEMMA CommitKeeps ==
  ASSUME IInv, NEW c \in Clients, Commit(c)
  PROVE  IInv'
<1> DEFINE r == call[c]
<1>1. r \in ItemCalls \cup InstanceCalls /\ r.inst \in Instance
  BY DEF IInv, TypeOK, Stages, InCall, Commit, Idle
<1>2. /\ inst' = SavedInst(r)
      /\ items' = [t \in Tasks |-> IF t \in Written(r) THEN SavedRow(r, t) ELSE items[t]]
      /\ call' = [call EXCEPT ![c] = Idle]
      /\ Written(r) \cap HeldByOthers(c) = {}
  BY DEF Commit
<1>3. call'[c] = Idle /\ \A d \in Clients \ {c} : call'[d] = call[d]
  BY <1>2 DEF IInv, TypeOK
<1>4. TypeOK'
  <2>1. inst' \in Instance
    BY <1>1, <1>2, SavedInstType
  <2>2. \A t \in Written(r) : SavedRow(r, t) \in Item
    BY <1>1, SavedRowType DEF Written
  <2>3. items' \in [Tasks -> Item]
    BY <1>2, <2>2 DEF IInv, TypeOK
  <2>4. call' \in [Clients -> {Idle} \cup ItemCalls \cup InstanceCalls]
    BY <1>2 DEF IInv, TypeOK
  <2>5. \A d, e \in Clients : d # e => call'[d].held \cap call'[e].held = {}
    BY <1>3 DEF IInv, TypeOK, Idle
  <2>6. QED
    BY <2>1, <2>3, <2>4, <2>5 DEF TypeOK
<1>5. Stages'
  BY <1>3 DEF IInv, Stages, InCall, Idle
<1>6. OwnRowHeld'
  <2>1. SUFFICES ASSUME NEW d \in Clients,
                        (InCall(d) /\ call[d].op \in Locking /\ call[d].pc # "lock")'
                 PROVE  Holds(d)'
    BY DEF OwnRowHeld
  <2>2. d # c /\ call'[d] = call[d]
    BY <1>3, <2>1 DEF InCall, Idle
  <2>3. Holds(d)
    BY <2>1, <2>2 DEF IInv, OwnRowHeld, InCall
  <2>4. call[d].task \in Tasks
    BY <2>1, <2>2 DEF IInv, TypeOK, InCall, Idle, ItemCalls, InstanceCalls, Locking, Lifecycle
  <2>5. items'[call[d].task] = items[call[d].task]
    BY <1>2, <2>2, <2>3, <2>4 DEF Holds, HeldByOthers
  <2>6. QED
    BY <2>2, <2>3, <2>5 DEF Holds, MayProceed
<1>7. QED
  BY <1>4, <1>5, <1>6 DEF IInv

-----------------------------------------------------------------------------
(* The theorems.                                                           *)

LEMMA InitInvariant == Init => IInv
<1>1. SUFFICES ASSUME Init PROVE IInv
  OBVIOUS
<1>2. TypeOK
  BY <1>1 DEF Init, TypeOK, Instance, Item, Owners, Idle
<1>3. Stages /\ OwnRowHeld
  BY <1>1 DEF Init, Stages, OwnRowHeld, InCall, Idle
<1>4. QED
  BY <1>2, <1>3 DEF IInv

LEMMA StepInvariant == IInv /\ [Next]_vars => IInv'
<1>1. SUFFICES ASSUME IInv, [Next]_vars PROVE IInv'
  OBVIOUS
<1>2. ASSUME NEW c \in Clients, Step(c) PROVE IInv'
  <2>1. CASE Lock(c)
    BY <2>1, <1>1, LockKeeps
  <2>2. CASE Load(c)
    BY <2>2, <1>1, LoadKeeps
  <2>3. CASE Fetch(c)
    BY <2>3, <1>1, FetchKeeps
  <2>4. CASE LockLane(c)
    BY <2>4, <1>1, LockLaneKeeps
  <2>5. CASE LaneLocked(c)
    BY <2>5, <1>1, LaneLockedKeeps
  <2>6. CASE Commit(c)
    BY <2>6, <1>1, CommitKeeps
  <2>7. CASE Abort(c)
    BY <2>7, <1>1, EndsKeeps DEF Abort
  <2>8. QED
    BY <1>2, <2>1, <2>2, <2>3, <2>4, <2>5, <2>6, <2>7 DEF Step
<1>3. CASE UNCHANGED vars
  BY <1>1, <1>3 DEF vars, IInv, TypeOK, Stages, OwnRowHeld, Holds, InCall, MayProceed
<1>4. QED
  BY <1>1, <1>2, <1>3, BeginKeeps DEF Next

\* Every row and every call has its type, and no row is ever locked by two calls.
THEOREM TypeCorrect == Spec => []TypeOK
<1>1. IInv => TypeOK
  BY DEF IInv
<1>2. QED
  BY <1>1, InitInvariant, StepInvariant, PTL DEF Spec

\* What a call found about the owner of its work item when it locked the row still
\* holds when it saves the row, whatever the calls of any number of clients do.
THEOREM OwnerStaysChecked == Spec => CheckedOwner
<1>1. IInv /\ [Next]_vars =>
        [\A c \in Clients :
           Commit(c) /\ call[c].op \in Locking =>
             MayProceed(call[c], items[call[c].task])]_vars
  BY DEF IInv, OwnRowHeld, Holds, InCall, Commit
<1>2. QED
  BY <1>1, InitInvariant, StepInvariant, PTL DEF Spec, CheckedOwner

-----------------------------------------------------------------------------
(* What a call has read.                                                   *)

\* The instance is running as long as one of its activities is at work, and none of
\* them has been stopped then.
Lively(i) ==
  /\ i.status = "RUNNING" <=> \E t \in Tasks : i.act[t] \in {"RUNNING", "SUSPENDED"}
  /\ i.status = "RUNNING" => \A t \in Tasks : i.act[t] # "STOPPED"

\* Why a call has the row of `t', which is not the one it is about, in hand.
Chosen(r, t) ==
  /\ r.op = "complete"  => IsLast(r) /\ r.rows[t].status = "NEW"
  /\ r.op = "claim"     => /\ ~Repeats(r) /\ r.rows[t].status = "NEW"
                           /\ r.rows[t].owner = NoUser
  /\ r.op = "unclaim"   => r.rows[t].status = "NEW" /\ r.rows[t].owner = r.user
  /\ r.op = "reassign"  => r.rows[t].status = "NEW"
  /\ r.op \in Lifecycle => r.inst.act[t] \in From(r.op)

\* The instance that a call has read was one that accepts it.
HasRead(r) ==
  /\ r.pc \in {"fetch", "lane", "commit"} =>
       /\ Lively(r.inst)
       /\ r.op = "complete" => r.inst.act[r.task] = "RUNNING"
       /\ r.op \in Lifecycle => r.inst.status = "RUNNING"
  /\ \A t \in DOMAIN r.rows :
       \/ r.op \in Locking /\ t = r.task
       \/ r.pc \in {"lane", "commit"} /\ Chosen(r, t)

Reading == Lively(inst) /\ \A c \in Clients : InCall(c) => HasRead(call[c])

\* A call that reads more, by a step that leaves the rows alone.
LEMMA MovesKeepsReading ==
  ASSUME IInv, Reading, NEW c \in Clients, NEW r, Moves(c, r),
         r.pc # "idle" => HasRead(r)
  PROVE  Reading'
<1>1. inst' = inst /\ call'[c] = r /\ \A d \in Clients \ {c} : call'[d] = call[d]
  BY DEF Moves, IInv, TypeOK
<1>2. Lively(inst)'
  BY <1>1 DEF Reading, Lively
<1>3. ASSUME NEW d \in Clients, InCall(d)'
      PROVE  HasRead(call'[d])
  <2>1. CASE d = c
    BY <1>1, <1>3, <2>1 DEF InCall
  <2>2. CASE d # c
    BY <1>1, <1>3, <2>2 DEF InCall, Reading
  <2> QED
    BY <2>1, <2>2
<1> QED
  BY <1>2, <1>3 DEF Reading

\* What a call saves is an instance again that runs as long as somebody is at work.
LEMMA SavedIsLively ==
  ASSUME NEW r \in ItemCalls \cup InstanceCalls, r.inst \in Instance, r.pc = "commit",
         HasRead(r)
  PROVE  Lively(SavedInst(r))
<1>1. /\ SavedInst(r).status = SavedStatus(r)
      /\ \A t \in Tasks : SavedInst(r).act[t] = SavedAct(r, t)
  BY DEF SavedInst
<1>2. Lively(r.inst)
  BY DEF HasRead
<1>3. CASE r.op = "complete"
  <2>1. r \in ItemCalls /\ r.task \in Tasks
    BY <1>3 DEF ItemCalls, InstanceCalls, Lifecycle
  <2>2. r.inst.act[r.task] = "RUNNING" /\ r.inst.status = "RUNNING"
    BY <1>2, <1>3, <2>1 DEF HasRead, Lively
  <2>3. \A t \in Tasks : SavedAct(r, t) = IF t = r.task THEN "COMPLETED" ELSE r.inst.act[t]
    BY <1>3 DEF SavedAct, From
  <2>4. SavedStatus(r) = IF IsLast(r) THEN "COMPLETED" ELSE "RUNNING"
    BY <1>3, <2>2 DEF SavedStatus
  <2> QED
    BY <1>1, <1>2, <2>1, <2>2, <2>3, <2>4 DEF Lively, IsLast, Instance
<1>4. CASE r.op \in Lifecycle
  BY <1>1, <1>2, <1>4 DEF Lively, HasRead, SavedStatus, SavedAct, Lifecycle, From, To
<1>5. CASE r.op \in {"claim", "unclaim", "reassign"}
  BY <1>1, <1>2, <1>5 DEF Lively, SavedStatus, SavedAct, From
<1> QED
  BY <1>3, <1>4, <1>5 DEF ItemCalls, InstanceCalls, Locking

\* Every step keeps what the calls have read as they found it.
LEMMA ReadingStep == IInv /\ Reading /\ [Next]_vars => Reading'
<1> SUFFICES ASSUME IInv, Reading, [Next]_vars
             PROVE  Reading'
  OBVIOUS
<1>1. inst \in Instance /\ items \in [Tasks -> Item]
  BY DEF IInv, TypeOK
<1>2. ASSUME NEW c \in Clients, Ends(c)
      PROVE  Reading'
  BY <1>2, MovesKeepsReading DEF Ends, Idle
<1>3. ASSUME NEW c \in Clients, InCall(c)
      PROVE  /\ call[c] \in ItemCalls \cup InstanceCalls /\ HasRead(call[c])
             /\ call[c].rows \in SomeRows
             /\ call[c] \in ItemCalls \/ call[c].op \in Lifecycle
             /\ call[c] \in ItemCalls => /\ call[c].op \in Locking \cup {"reassign"}
                                         /\ call[c].task \in Tasks
  BY <1>3 DEF IInv, TypeOK, InCall, Idle, Reading, ItemCalls, InstanceCalls
<1>4. ASSUME NEW c \in Clients, Begin(c)
      PROVE  Reading'
  <2>1. ASSUME NEW op, NEW t, NEW u, Moves(c, ItemCall(op, t, u))
        PROVE  Reading'
    BY <2>1, MovesKeepsReading DEF ItemCall, HasRead, NoRows
  <2>2. ASSUME NEW op, Moves(c, InstanceCall(op))
        PROVE  Reading'
    BY <2>2, MovesKeepsReading DEF InstanceCall, HasRead, NoRows
  <2> QED
    BY <1>4, <2>1, <2>2 DEF Begin
<1>5. ASSUME NEW c \in Clients, Lock(c)
      PROVE  Reading'
  <2> DEFINE r == call[c]
             s == [r EXCEPT !.pc = "load", !.held = LockOf(r),
                            !.rows = AndRead(r.rows, {r.task})]
  <2>1. SUFFICES ASSUME Moves(c, s)
                 PROVE  Reading'
    BY <1>2, <1>5 DEF Lock
  <2>2. r \in ItemCalls /\ r.op \in Locking /\ DOMAIN r.rows = {}
    BY <1>5 DEF IInv, TypeOK, Stages, InCall, Lock, Idle, InstanceCalls
  <2>3. DOMAIN AndRead(r.rows, {r.task}) = {r.task}
    BY <2>2 DEF AndRead
  <2>4. s.pc = "load" /\ s.op = r.op /\ s.task = r.task /\ s.rows = AndRead(r.rows, {r.task})
    BY <2>2 DEF ItemCalls
  <2> HIDE DEF s
  <2>5. HasRead(s)
    BY <2>2, <2>3, <2>4 DEF HasRead
  <2> QED
    BY <2>1, <2>5, MovesKeepsReading
<1>6. ASSUME NEW c \in Clients, Load(c)
      PROVE  Reading'
  <2> DEFINE r == call[c]
             s == [r EXCEPT !.pc = IF r.op = "reassign" THEN "lane" ELSE "fetch",
                            !.inst = inst]
  <2>1. CASE Ends(c)
    BY <1>2, <2>1
  <2>2. CASE Accepts(r) /\ Moves(c, s)
    <3>1. r \in ItemCalls \cup InstanceCalls /\ r.pc = "load" /\ HasRead(r)
      BY <1>3, <1>6 DEF Load, InCall
    <3>2. /\ s.op = r.op /\ s.inst = inst /\ s.rows = r.rows
          /\ r.op \in Locking => s.task = r.task
      BY <3>1 DEF ItemCalls, InstanceCalls, Locking, Lifecycle
    <3>3. r.op = "complete" => inst.act[r.task] = "RUNNING"
      BY <2>2 DEF Accepts
    <3>4. r.op \in Lifecycle => inst.status = "RUNNING"
      BY <2>2 DEF Accepts
    <3> HIDE DEF s
    <3>5. \A t \in DOMAIN s.rows : s.op \in Locking /\ t = s.task
      BY <3>1, <3>2 DEF HasRead
    <3>6. HasRead(s)
      BY <3>2, <3>3, <3>4, <3>5 DEF HasRead, Reading, Locking
    <3> QED
      BY <2>2, <3>6, MovesKeepsReading
  <2> QED
    BY <1>6, <2>1, <2>2 DEF Load
<1>7. ASSUME NEW c \in Clients, Fetch(c)
      PROVE  Reading'
  <2> DEFINE r == call[c]
             s == [r EXCEPT !.pc = "commit", !.rows = AndRead(r.rows, Fetched(r))]
  <2>1. /\ r \in ItemCalls \cup InstanceCalls /\ r.pc = "fetch" /\ HasRead(r)
        /\ r.rows \in SomeRows /\ Moves(c, s)
    BY <1>3, <1>7 DEF Fetch, InCall
  <2>2. r.op # "reassign" /\ (r.op \in Locking => r.task \in DOMAIN r.rows)
    BY <1>7, <2>1 DEF IInv, Stages, OwnRowHeld, Holds, InCall
  <2>3. /\ s.pc = "commit" /\ s.op = r.op /\ s.inst = r.inst
        /\ s.rows = AndRead(r.rows, Fetched(r))
        /\ r.op \in Locking => s.task = r.task /\ s.user = r.user
    BY <2>1 DEF ItemCalls, InstanceCalls, Locking, Lifecycle
  <2> HIDE DEF s
  <2>4. Fetched(r) \in SUBSET Tasks
    BY DEF Fetched
  <2>5. /\ DOMAIN s.rows = DOMAIN r.rows \cup Fetched(r)
        /\ \A t \in DOMAIN r.rows : s.rows[t] = r.rows[t]
        /\ \A t \in Fetched(r) \ DOMAIN r.rows : s.rows[t] = items[t]
    <3>1. PICK rows \in SomeRows, ts \in SUBSET Tasks : rows = r.rows /\ ts = Fetched(r)
      BY <2>1, <2>4
    <3>2. s.rows = AndRead(rows, ts)
      BY <2>3, <3>1
    <3>3. /\ DOMAIN AndRead(rows, ts) = DOMAIN rows \cup ts
          /\ \A x \in DOMAIN rows : AndRead(rows, ts)[x] = rows[x]
          /\ \A x \in ts \ DOMAIN rows : AndRead(rows, ts)[x] = items[x]
      BY <1>1, ReadRows
    <3> QED
      BY <3>1, <3>2, <3>3
  <2>6. r.op \in Locking => IsLast(s) = IsLast(r) /\ Repeats(s) = Repeats(r)
    BY <2>2, <2>3, <2>5 DEF IsLast, Repeats
  <2>7. ASSUME NEW t \in DOMAIN s.rows, ~(s.op \in Locking /\ t = s.task)
        PROVE  Chosen(s, t)
    <3>1. t \notin DOMAIN r.rows
      BY <2>1, <2>3, <2>7 DEF HasRead
    <3>2. t \in Fetched(r) /\ s.rows[t] = items[t]
      BY <2>5, <2>7, <3>1
    <3> QED
      BY <2>2, <2>3, <2>6, <3>2
         DEF Chosen, Fetched, Active, Locking, Lifecycle
  <2>8. HasRead(s)
    BY <2>1, <2>3, <2>7 DEF HasRead, Locking
  <2> QED
    BY <2>1, <2>8, MovesKeepsReading
<1>8. ASSUME NEW c \in Clients, LockLane(c)
      PROVE  Reading'
  <2> DEFINE r == call[c]
  <2>1. r \in ItemCalls /\ r.op = "reassign" /\ r.pc = "lane" /\ HasRead(r)
        /\ r.rows \in SomeRows
    BY <1>3, <1>8 DEF IInv, Stages, LockLane, InCall, Lifecycle
  <2>2. PICK t \in Active :
          Moves(c, [r EXCEPT !.held = @ \cup {t}, !.rows = AndRead(r.rows, {t})])
    BY <1>8 DEF LockLane
  <2> DEFINE s == [r EXCEPT !.held = @ \cup {t}, !.rows = AndRead(r.rows, {t})]
  <2>3. /\ s.pc = "lane" /\ s.op = "reassign" /\ s.inst = r.inst
        /\ s.rows = AndRead(r.rows, {t})
    BY <2>1 DEF ItemCalls
  <2>4. Moves(c, s)
    BY <2>2
  <2> HIDE DEF s
  <2>5. t \in Tasks /\ items[t].status = "NEW"
    BY DEF Active
  <2>6. /\ DOMAIN s.rows = DOMAIN r.rows \cup {t}
        /\ \A x \in DOMAIN r.rows : s.rows[x] = r.rows[x]
        /\ \A x \in {t} \ DOMAIN r.rows : s.rows[x] = items[x]
    <3>1. PICK rows \in SomeRows, ts \in SUBSET Tasks : rows = r.rows /\ ts = {t}
      BY <2>1, <2>5
    <3>2. s.rows = AndRead(rows, ts)
      BY <2>3, <3>1
    <3>3. /\ DOMAIN AndRead(rows, ts) = DOMAIN rows \cup ts
          /\ \A x \in DOMAIN rows : AndRead(rows, ts)[x] = rows[x]
          /\ \A x \in ts \ DOMAIN rows : AndRead(rows, ts)[x] = items[x]
      BY <1>1, ReadRows
    <3> QED
      BY <3>1, <3>2, <3>3
  <2>7. \A x \in DOMAIN s.rows : s.rows[x].status = "NEW"
    BY <2>1, <2>5, <2>6 DEF HasRead, Chosen, Locking
  <2>8. HasRead(s)
    BY <2>1, <2>3, <2>7 DEF HasRead, Chosen, Lifecycle
  <2> QED
    BY <2>4, <2>8, MovesKeepsReading
<1>9. ASSUME NEW c \in Clients, LaneLocked(c)
      PROVE  Reading'
  <2> DEFINE r == call[c]
             s == [r EXCEPT !.pc = "commit"]
  <2>1. CASE Ends(c)
    BY <1>2, <2>1
  <2>2. CASE Moves(c, s)
    <3>1. r \in ItemCalls /\ r.op = "reassign" /\ r.pc = "lane" /\ HasRead(r)
      BY <1>3, <1>9 DEF IInv, Stages, LaneLocked, InCall, Lifecycle
    <3>2. s.pc = "commit" /\ s.op = r.op /\ s.inst = r.inst /\ s.rows = r.rows
      BY <3>1 DEF ItemCalls
    <3> HIDE DEF s
    <3>3. HasRead(s)
      BY <3>1, <3>2 DEF HasRead, Chosen, Locking, Lifecycle
    <3> QED
      BY <2>2, <3>3, MovesKeepsReading
  <2> QED
    BY <1>9, <2>1, <2>2 DEF LaneLocked
<1>10. ASSUME NEW c \in Clients, Commit(c)
       PROVE  Reading'
  <2>1. /\ call[c] \in ItemCalls \cup InstanceCalls /\ HasRead(call[c])
        /\ call[c].inst \in Instance /\ call[c].pc = "commit"
    BY <1>3, <1>10 DEF IInv, Stages, Commit, InCall
  <2>2. inst' = SavedInst(call[c]) /\ call' = [call EXCEPT ![c] = Idle]
    BY <1>10 DEF Commit
  <2>3. PICK i : i = SavedInst(call[c])
    OBVIOUS
  <2>4. Lively(i)
    BY <2>1, <2>3, SavedIsLively
  <2>5. Lively(inst)'
    BY <2>2, <2>3, <2>4 DEF Lively
  <2>6. \A d \in Clients : InCall(d)' => d # c /\ call'[d] = call[d]
    BY <2>2 DEF InCall, Idle, IInv, TypeOK
  <2> QED
    BY <2>5, <2>6 DEF Reading, InCall
<1>11. CASE UNCHANGED vars
  BY <1>11 DEF vars, Reading, InCall, Lively
<1> QED
  BY <1>2, <1>4, <1>5, <1>6, <1>7, <1>8, <1>9, <1>10, <1>11 DEF Next, Step, Abort

LEMMA ReadingInit == Init => Reading
BY TaskAssumption DEF Init, Reading, Lively, InCall, Idle

\* What an undisturbed call that commits has in hand, and why.
LEMMA InHand ==
  ASSUME IInv, Reading, NEW c \in Clients, Commit(c), Undisturbed(c),
         NEW r, r = call[c]
  PROVE  /\ r \in ItemCalls \cup InstanceCalls
         /\ r.op \in Lifecycle \/ (r \in ItemCalls /\ r.task \in Tasks)
         /\ inst \in Instance /\ Lively(inst)
         /\ r.inst = inst
         /\ r.op = "complete" => inst.act[r.task] = "RUNNING"
         /\ r.op \in Lifecycle => inst.status = "RUNNING"
         /\ r.op \in Locking => /\ r.task \in DOMAIN r.rows
                                /\ MayProceed(r, items[r.task])
         /\ DOMAIN r.rows \subseteq Tasks
         /\ \A t \in DOMAIN r.rows :
              /\ r.rows[t] = items[t]
              /\ (r.op \in Locking /\ t = r.task) \/ Chosen(r, t)
         /\ IF r.op = "reassign" THEN Active \subseteq DOMAIN r.rows
                                 ELSE Fetched(r) \subseteq DOMAIN r.rows
<1>1. r \in ItemCalls \cup InstanceCalls /\ InCall(c) /\ r.pc = "commit"
  BY DEF IInv, TypeOK, Commit, InCall, Idle
<1>2. r.op \in Lifecycle \/ (r \in ItemCalls /\ r.task \in Tasks)
  BY <1>1 DEF ItemCalls, InstanceCalls
<1>3. HasRead(r) /\ r.inst = inst /\ inst \in Instance
  BY <1>1 DEF Reading, Undisturbed, IInv, TypeOK
<1>4. r.op \in Locking => r.task \in DOMAIN r.rows /\ MayProceed(r, items[r.task])
  BY <1>1 DEF IInv, OwnRowHeld, Holds
<1>5. DOMAIN r.rows \subseteq Tasks
  BY <1>1 DEF ItemCalls, InstanceCalls, SomeRows
<1>6. /\ \A t \in DOMAIN r.rows : r.rows[t] = items[t]
      /\ IF r.op = "reassign" THEN Active \subseteq DOMAIN r.rows
                              ELSE Fetched(r) \subseteq DOMAIN r.rows
  BY DEF Undisturbed
<1> QED
  BY <1>1, <1>2, <1>3, <1>4, <1>5, <1>6 DEF HasRead

\* What a commit writes.
LEMMA Saved ==
  ASSUME IInv, NEW c \in Clients, Commit(c), NEW r, r = call[c], inst \in Instance,
         r.inst = inst
  PROVE  /\ inst'.status = SavedStatus(r) /\ inst'.lane = SavedLane(r)
         /\ \A t \in Tasks :
              /\ inst'.act[t] = SavedAct(r, t)
              /\ IF t \in Written(r)
                 THEN /\ items'[t].status = SavedItemStatus(r, t)
                      /\ items'[t].owner = SavedOwner(r, t)
                 ELSE items'[t] = items[t]
BY DEF Commit, SavedInst, SavedRow

\* A completion that ends the instance finds nobody else at work, whatever the
\* work items say, and closes what is open, whatever calls of any number of clients
\* have done to each other's rows.
THEOREM CompletionLeavesNothingOpen == Spec => CompletionCloses
<1>1. ASSUME IInv, Reading, NEW c \in Clients, Commit(c), Undisturbed(c),
             call[c].op = "complete", inst'.status = "COMPLETED", NEW t \in Tasks
      PROVE  items'[t].status # "NEW"
  <2>1. PICK r : r = call[c]
    OBVIOUS
  <2>2. /\ r.op = "complete" /\ r.task \in Tasks /\ r.inst = inst /\ inst \in Instance
        /\ Lively(inst) /\ inst.act[r.task] = "RUNNING" /\ r.task \in DOMAIN r.rows
        /\ Fetched(r) \subseteq DOMAIN r.rows
    BY <1>1, <2>1, InHand DEF Locking, Lifecycle
  <2>3. IsLast(r)
    BY <1>1, <2>1, <2>2, Saved DEF Lively, SavedStatus
  <2>4. t \in Active => t \in Written(r)
    BY <2>2, <2>3 DEF Fetched, Written, Repeats
  <2>5. t \in Written(r) => items'[t].status = "COMPLETED"
    BY <1>1, <2>1, <2>2, Saved DEF SavedItemStatus
  <2>6. t \notin Written(r) => items'[t] = items[t]
    BY <1>1, <2>1, <2>2, Saved
  <2> QED
    BY <2>4, <2>5, <2>6 DEF Active
<1>2. IInv /\ Reading /\ [Next]_vars =>
        [\A c \in Clients :
           Commit(c) /\ Undisturbed(c) /\ call[c].op = "complete"
             /\ inst'.status = "COMPLETED"
           => \A t \in Tasks : items'[t].status # "NEW"]_vars
  BY <1>1
<1> QED
  BY <1>2, InitInvariant, StepInvariant, ReadingInit, ReadingStep, PTL
     DEF Spec, CompletionCloses

\* Whoever completes, suspends or resumes alone leaves the rows agreeing, ...
LEMMA ActingAlone ==
  ASSUME IInv, Reading, NEW c \in Clients, Commit(c), Undisturbed(c), Agree(inst, items),
         NEW r, r = call[c], r.op \in Lifecycle \cup {"complete"}
  PROVE  /\ Agree(inst', items')
         /\ \A t \in Written(r) : items[t].status \in {"NEW", "SUSPENDED"}
<1>1. /\ inst \in Instance /\ Lively(inst) /\ r.inst = inst /\ DOMAIN r.rows \subseteq Tasks
      /\ r.op = "complete" => /\ inst.act[r.task] = "RUNNING" /\ r.task \in Tasks
                              /\ r.task \in DOMAIN r.rows
      /\ r.op \in Lifecycle => inst.status = "RUNNING"
      /\ \A t \in DOMAIN r.rows :
           r.rows[t] = items[t] /\ ((r.op = "complete" /\ t = r.task) \/ Chosen(r, t))
      /\ Fetched(r) \subseteq DOMAIN r.rows
  BY InHand DEF Locking, Lifecycle
<1>2. Written(r) = DOMAIN r.rows
  BY DEF Written, Repeats, Lifecycle
<1>3. /\ inst'.status = SavedStatus(r) /\ inst'.lane = inst.lane
      /\ \A t \in Tasks :
           /\ inst'.act[t] = SavedAct(r, t)
           /\ IF t \in DOMAIN r.rows
              THEN items'[t].status = SavedItemStatus(r, t) /\ items'[t].owner = SavedOwner(r, t)
              ELSE items'[t] = items[t]
  BY <1>1, <1>2, Saved DEF SavedLane, Lifecycle
<1>4. /\ \A t \in Tasks : inst.act[t] \in {"RUNNING", "SUSPENDED", "COMPLETED", "STOPPED"}
      /\ \A t \in Tasks : items[t].status = RowOf[inst.act[t]]
      /\ \A t \in Tasks : items[t].status = "NEW" => items[t].owner = inst.lane
  BY <1>1 DEF Agree, Instance
<1>5. /\ RowOf["RUNNING"] = "NEW" /\ RowOf["SUSPENDED"] = "SUSPENDED"
      /\ RowOf["COMPLETED"] = "COMPLETED" /\ RowOf["STOPPED"] = "CANCELLED"
  BY DEF RowOf
<1>6. CASE r.op = "complete"
  <2>1. \A t \in DOMAIN r.rows : t = r.task
    BY <1>1, <1>4, <1>5, <1>6 DEF Chosen, IsLast
  <2>2. \A t \in Tasks : SavedAct(r, t) = IF t = r.task THEN "COMPLETED" ELSE inst.act[t]
    BY <1>1, <1>6 DEF SavedAct, From
  <2>3. \A t \in Tasks : items'[t].status = RowOf[inst'.act[t]]
    BY <1>1, <1>3, <1>4, <1>5, <1>6, <2>1, <2>2 DEF SavedItemStatus
  <2>4. \A t \in Tasks : items'[t].status = "NEW" => items'[t].owner = inst'.lane
    BY <1>1, <1>3, <1>4, <1>6, <2>1 DEF SavedItemStatus
  <2>5. inst'.status = IF IsLast(r) THEN "COMPLETED" ELSE "RUNNING"
    BY <1>1, <1>3, <1>6 DEF SavedStatus, Lively
  <2>6. inst'.status = "RUNNING" <=> \E t \in Tasks : inst'.act[t] \in {"RUNNING", "SUSPENDED"}
    BY <1>1, <1>3, <1>4, <2>2, <2>5 DEF IsLast, Lively
  <2>7. \A t \in Written(r) : items[t].status \in {"NEW", "SUSPENDED"}
    BY <1>1, <1>2, <1>4, <1>5, <1>6, <2>1
  <2> QED
    BY <2>3, <2>4, <2>6, <2>7 DEF Agree
<1>7. CASE r.op \in Lifecycle
  <2>1. \A t \in Tasks : t \in DOMAIN r.rows <=> inst.act[t] \in From(r.op)
    BY <1>1, <1>7 DEF Fetched, Chosen, Lifecycle
  <2>2. \A t \in Tasks : SavedAct(r, t) = IF t \in DOMAIN r.rows THEN To(r.op) ELSE inst.act[t]
    BY <1>1, <1>7, <2>1 DEF SavedAct, Lifecycle
  <2>3. \A t \in DOMAIN r.rows : SavedItemStatus(r, t) = RowOf[To(r.op)]
    BY <1>5, <1>7 DEF SavedItemStatus, To, Lifecycle
  <2>4. \A t \in Tasks : items'[t].status = RowOf[inst'.act[t]]
    BY <1>3, <1>4, <2>2, <2>3
  <2>5. \A t \in Tasks : items'[t].status = "NEW" => items'[t].owner = inst'.lane
    BY <1>1, <1>3, <1>4, <1>7 DEF SavedItemStatus, SavedOwner, SavedLane, Lifecycle
  <2>6. inst'.status = "RUNNING" <=> \E t \in Tasks : inst'.act[t] \in {"RUNNING", "SUSPENDED"}
    BY <1>1, <1>3, <1>4, <1>7, <2>1, <2>2 DEF SavedStatus, From, To, Lively, Lifecycle
  <2>7. \A t \in Written(r) : items[t].status \in {"NEW", "SUSPENDED"}
    BY <1>1, <1>2, <1>4, <1>5, <1>7, <2>1 DEF From, Lifecycle
  <2> QED
    BY <2>4, <2>5, <2>6, <2>7 DEF Agree
<1> QED
  BY <1>6, <1>7

\* ... and so does whoever claims, gives back or reassigns an open work item.
LEMMA AssigningAlone ==
  ASSUME IInv, Reading, NEW c \in Clients, Commit(c), Undisturbed(c), Agree(inst, items),
         NEW r, r = call[c], r.op \in {"claim", "unclaim", "reassign"},
         r.op \in {"claim", "unclaim"} => r.task \in Active
  PROVE  /\ Agree(inst', items')
         /\ \A t \in Written(r) : items[t].status \in {"NEW", "SUSPENDED"}
<1>1. /\ inst \in Instance /\ Lively(inst) /\ r.inst = inst /\ DOMAIN r.rows \subseteq Tasks
      /\ r \in ItemCalls
      /\ r.op # "reassign" => r.task \in DOMAIN r.rows /\ MayProceed(r, items[r.task])
      /\ \A t \in DOMAIN r.rows :
           r.rows[t] = items[t] /\ ((r.op # "reassign" /\ t = r.task) \/ Chosen(r, t))
      /\ IF r.op = "reassign" THEN Active \subseteq DOMAIN r.rows
                              ELSE Fetched(r) \subseteq DOMAIN r.rows
  BY InHand DEF Locking, Lifecycle
<1>2. /\ inst'.status = inst.status /\ inst'.lane = SavedLane(r)
      /\ \A t \in Tasks :
           /\ inst'.act[t] = inst.act[t]
           /\ IF t \in Written(r)
              THEN items'[t].status = items[t].status /\ items'[t].owner = SavedLane(r)
              ELSE items'[t] = items[t]
  BY <1>1, Saved DEF SavedStatus, SavedAct, From, SavedItemStatus, SavedOwner, Written
<1>3. \A t \in Written(r) : items[t].status = "NEW"
  BY <1>1 DEF Written, Chosen, Active
<1>4. \A t \in Active : items[t].owner = inst.lane
  BY DEF Agree, Active
<1>5. r.user \in Users /\ r.user # NoUser
  BY <1>1, UserAssumption DEF ItemCalls
<1>6. ASSUME NEW t \in Active, t \notin Written(r)
      PROVE  items[t].owner = SavedLane(r)
  <2>1. CASE r.op = "reassign"
    BY <1>1, <1>6, <2>1 DEF Written, Repeats
  <2>2. CASE r.op = "claim"
    <3>1. r.task \in Active /\ items[r.task].owner = inst.lane /\ SavedLane(r) = r.user
      BY <1>4, <2>2 DEF SavedLane
    <3>2. CASE Repeats(r)
      BY <1>1, <1>4, <2>2, <3>1, <3>2 DEF Repeats
    <3>3. CASE ~Repeats(r)
      <4>1. items[r.task].owner = NoUser
        BY <1>1, <2>2, <3>3 DEF Repeats, MayProceed
      <4>2. t \in Fetched(r)
        BY <1>4, <1>6, <2>2, <3>1, <3>3, <4>1 DEF Fetched, Active
      <4> QED
        BY <1>1, <1>6, <2>2, <3>3, <4>2 DEF Written
    <3> QED
      BY <3>2, <3>3
  <2>3. CASE r.op = "unclaim"
    <3>1. inst.lane \in {NoUser, r.user} /\ SavedLane(r) = NoUser
      BY <1>1, <1>4, <2>3 DEF SavedLane, MayProceed
    <3>2. inst.lane # r.user
      <4>1. SUFFICES ASSUME inst.lane = r.user
                     PROVE  t \in Written(r)
        BY <1>6
      <4>2. t \in Fetched(r)
        BY <1>4, <1>6, <2>3, <4>1 DEF Fetched, Active
      <4> QED
        BY <1>1, <2>3, <4>2 DEF Written, Repeats
    <3> QED
      BY <1>4, <3>1, <3>2
  <2> QED
    BY <2>1, <2>2, <2>3
<1>7. \A t \in Tasks : items'[t].status = "NEW" => items'[t].owner = inst'.lane
  BY <1>2, <1>6 DEF Active
<1>8. \A t \in Tasks : items'[t].status = RowOf[inst'.act[t]]
  BY <1>2 DEF Agree
<1>9. inst'.status = "RUNNING" <=> \E t \in Tasks : inst'.act[t] \in {"RUNNING", "SUSPENDED"}
  BY <1>2 DEF Agree
<1> QED
  BY <1>3, <1>7, <1>8, <1>9 DEF Agree

\* A call that nothing disturbed leaves the rows agreeing where it found them so, and
\* closes what it closes for good: if something goes wrong, calls have overlapped.
THEOREM UndisturbedIsRight == Spec => AloneIsRight
<1>1. ASSUME IInv, Reading, NEW c \in Clients, Commit(c), Undisturbed(c),
             Agree(inst, items), call[c].op \in {"claim", "unclaim"} => call[c].task \in Active
      PROVE  /\ Agree(inst', items')
             /\ \A t \in Tasks : items[t].status \in {"COMPLETED", "CANCELLED"} =>
                                   items'[t] = items[t]
  <2>1. PICK r : r = call[c]
    OBVIOUS
  <2>2. /\ r.op \in Lifecycle \cup {"complete", "claim", "unclaim", "reassign"}
        /\ r.inst = inst /\ inst \in Instance
    BY <1>1, <2>1, InHand DEF ItemCalls, InstanceCalls, Locking
  <2>3. /\ Agree(inst', items')
        /\ \A t \in Written(r) : items[t].status \in {"NEW", "SUSPENDED"}
    BY <1>1, <2>1, <2>2, ActingAlone, AssigningAlone
  <2>4. \A t \in Tasks : t \notin Written(r) => items'[t] = items[t]
    BY <1>1, <2>1, <2>2, Saved
  <2> QED
    BY <2>3, <2>4
<1>2. IInv /\ Reading /\ [Next]_vars =>
        [\A c \in Clients :
           /\ Commit(c)
           /\ Undisturbed(c)
           /\ Agree(inst, items)
           /\ call[c].op \in {"claim", "unclaim"} => call[c].task \in Active
           => /\ Agree(inst', items')
              /\ \A t \in Tasks : items[t].status \in {"COMPLETED", "CANCELLED"} =>
                                    items'[t] = items[t]]_vars
  BY <1>1
<1> QED
  BY <1>2, InitInvariant, StepInvariant, ReadingInit, ReadingStep, PTL
     DEF Spec, AloneIsRight
=============================================================================
