--------------------------- MODULE EventInboxProofs ---------------------------
(***************************************************************************)
(* Proofs about EventInbox, for any nodes, keys, blocks of ids and bounds. *)
(***************************************************************************)
EXTENDS EventInbox, SequenceTheorems, TLAPS

-----------------------------------------------------------------------------
(* The rows and those that work on them.                                   *)

\* What a row says of itself agrees; a pending row has a try left.
Consistent(r) ==
  /\ r.status = "PENDING" <=> ~r.processed
  /\ r.status = "SUCCESS" => r.error = "none"
  /\ r.status = "FAILED" => r.error # "none" /\ r.tries > 0
  /\ r.status = "PENDING" => r.tries < MaxTry

Works == UNION {[ids -> InboxRow] : ids \in SUBSET AllIds}
Ticks == [batch : SUBSET AllIds, work : Works, phase : {"none", "starting", "completing"},
          todo : SUBSET Nat, held : SUBSET Nat, renewed : SUBSET Nat]

Tried(r) == [r EXCEPT !.tries = @ + 1]

RowTypes ==
  /\ used \subseteq AllIds /\ DOMAIN rows \subseteq used
  /\ \A id \in DOMAIN rows : rows[id] \in InboxRow /\ Consistent(rows[id])
  /\ node \in [Nodes -> Ticks]

\* A locked row is pending, and only one tick has locked it.
Locked ==
  /\ \A n \in Nodes : \A id \in DOMAIN node[n].work : id \in DOMAIN rows /\ ~rows[id].processed
  /\ \A m, n \in Nodes : m # n => DOMAIN node[m].work \cap DOMAIN node[n].work = {}

\* A tick has of a row what is committed, and one try more for the row that it is
\* dispatching; what it has dispatched may be written as it is.
Current(n, id) ==
  IF node[n].phase # "none" /\ id \in Turn(n) THEN node[n].work[id] = Tried(rows[id])
  ELSE node[n].work[id] = rows[id]

Working ==
  \A n \in Nodes :
    /\ node[n].batch \subseteq DOMAIN node[n].work
    /\ \A id \in node[n].batch : Current(n, id)
    /\ \A id \in DOMAIN node[n].work \ node[n].batch : Consistent(node[n].work[id])

RowInv == RowTypes /\ Locked /\ Working

LEMMA WorkType ==
  ASSUME NEW w \in Works
  PROVE  /\ DOMAIN w \subseteq AllIds
         /\ w \in [DOMAIN w -> InboxRow]
<1>1. PICK ids \in SUBSET AllIds : w \in [ids -> InboxRow]
  BY DEF Works
<1>2. QED
  BY <1>1

LEMMA WorkUpdate ==
  ASSUME NEW w \in Works, NEW id \in DOMAIN w, NEW r \in InboxRow
  PROVE  [w EXCEPT ![id] = r] \in Works
<1>1. PICK ids \in SUBSET AllIds : w \in [ids -> InboxRow]
  BY DEF Works
<1>2. [w EXCEPT ![id] = r] \in [ids -> InboxRow]
  BY <1>1
<1>3. QED
  BY <1>2 DEF Works

\* A node between ticks.
LEMMA IdleTick == IdleNode \in Ticks /\ DOMAIN IdleNode.work = {}
<1>1. <<>> \in [{} -> InboxRow]
  OBVIOUS
<1>2. <<>> \in Works
  BY <1>1 DEF Works
<1>3. DOMAIN <<>> = {}
  OBVIOUS
<1>4. QED
  BY <1>2, <1>3 DEF IdleNode, Ticks

\* The row a dispatch is about has one value.
LEMMA OneTurn ==
  ASSUME RowInv, NEW n \in Nodes, NEW id \in Turn(n)
  PROVE  /\ id \in node[n].batch /\ id \in DOMAIN node[n].work
         /\ node[n].batch \subseteq Nat
         /\ Turn(n) = {id}
         /\ id \in DOMAIN rows /\ ~rows[id].processed /\ id \in AllIds
         /\ rows[id] \in InboxRow /\ Consistent(rows[id])
         /\ node[n].work[id] \in InboxRow
         /\ node[n].work[id] = IF node[n].phase = "none" THEN rows[id] ELSE Tried(rows[id])
<1>1. node[n] \in Ticks
  BY DEF RowInv, RowTypes
<1>2. id \in node[n].batch /\ id \in DOMAIN node[n].work
  BY DEF Turn, RowInv, Working
<1>3. AllIds \subseteq Nat
  BY SequenceAssumption DEF AllIds
<1>4. node[n].batch \subseteq Nat
  BY <1>1, <1>3 DEF Ticks
<1>5. Turn(n) = {id}
  BY <1>4 DEF Turn
<1>6. id \in DOMAIN rows /\ ~rows[id].processed /\ id \in AllIds
  BY <1>2 DEF RowInv, RowTypes, Locked
<1>7. rows[id] \in InboxRow /\ Consistent(rows[id])
  BY <1>6 DEF RowInv, RowTypes
<1>8. node[n].work \in Works
  BY <1>1 DEF Ticks
<1>9. node[n].work[id] \in InboxRow
  BY <1>2, <1>8, WorkType
<1>10. Current(n, id)
  BY <1>2 DEF RowInv, Working
<1>11. node[n].work[id] = IF node[n].phase = "none" THEN rows[id] ELSE Tried(rows[id])
  BY <1>5, <1>10 DEF Current
<1> QED
  BY <1>2, <1>4, <1>5, <1>6, <1>7, <1>9, <1>11


\* What a tick may make of its rows while it holds them.
LEMMA TickGoesOn ==
  ASSUME RowInv, NEW n \in Nodes, NEW t \in Ticks,
         node' = [node EXCEPT ![n] = t], rows' = rows, used' = used,
         DOMAIN t.work = DOMAIN node[n].work, t.batch \subseteq DOMAIN t.work,
         \A x \in t.batch :
           t.work[x] = IF t.phase # "none" /\ \A y \in t.batch : x <= y
                       THEN Tried(rows[x]) ELSE rows[x],
         \A x \in DOMAIN t.work \ t.batch : Consistent(t.work[x])
  PROVE  RowInv'
<1>1. node \in [Nodes -> Ticks]
  BY DEF RowInv, RowTypes
<1>2. /\ node' \in [Nodes -> Ticks] /\ node'[n] = t
      /\ \A m \in Nodes \ {n} : node'[m] = node[m]
  BY <1>1
<1>3. RowTypes'
  BY <1>2 DEF RowInv, RowTypes, Consistent
<1>4. Locked'
  BY <1>2 DEF RowInv, Locked
<1>5. Working'
  <2> SUFFICES ASSUME NEW m \in Nodes
               PROVE  /\ node'[m].batch \subseteq DOMAIN node'[m].work
                      /\ \A x \in node'[m].batch : Current(m, x)'
                      /\ \A x \in DOMAIN node'[m].work \ node'[m].batch :
                           Consistent(node'[m].work[x])
    BY DEF Working, Consistent
  <2>1. CASE m # n
    BY <1>2, <2>1 DEF RowInv, Working, Current, Turn, Tried
  <2>2. CASE m = n
    BY <1>2, <2>2 DEF Current, Turn, Tried
  <2> QED
    BY <2>1, <2>2
<1> QED
  BY <1>3, <1>4, <1>5 DEF RowInv

\* A dispatch ends: its row may be written as `r'.
LEMMA DispatchEnds ==
  ASSUME RowInv, NEW n \in Nodes, NEW id \in Turn(n),
         NEW r \in InboxRow, Consistent(r),
         Dispatched(n, id, r), rows' = rows, used' = used
  PROVE  RowInv'
<1> DEFINE t == [batch |-> node[n].batch \ {id}, work |-> [node[n].work EXCEPT ![id] = r],
                 phase |-> "none", todo |-> {}, held |-> {}, renewed |-> {}]
<1>1. id \in node[n].batch /\ id \in DOMAIN node[n].work /\ Turn(n) = {id}
  BY OneTurn
<1>2. node[n] \in Ticks
  BY DEF RowInv, RowTypes
<1>3. node[n].work \in Works
  BY <1>2 DEF Ticks
<1>4. [node[n].work EXCEPT ![id] = r] \in Works
  BY <1>1, <1>3, WorkUpdate
<1>5. t \in Ticks
  BY <1>2, <1>4 DEF Ticks
<1>6. node' = [node EXCEPT ![n] = t]
  BY DEF Dispatched
<1>7. /\ DOMAIN t.work = DOMAIN node[n].work /\ t.work[id] = r /\ t.phase = "none"
      /\ \A x \in DOMAIN t.work \ {id} : t.work[x] = node[n].work[x]
      /\ t.batch = node[n].batch \ {id}
  BY <1>1, <1>3, WorkType
<1> HIDE DEF t
<1>8. \A x \in t.batch : t.work[x] = rows[x]
  BY <1>1, <1>7 DEF RowInv, Working, Current
<1>9. \A x \in DOMAIN t.work \ t.batch : Consistent(t.work[x])
  BY <1>7 DEF RowInv, Working
<1>10. t.batch \subseteq DOMAIN t.work
  BY <1>7 DEF RowInv, Working
<1> QED
  BY <1>5, <1>6, <1>7, <1>8, <1>9, <1>10, TickGoesOn

\* A dispatch begins to work: its row has one try more.
LEMMA DispatchBegins ==
  ASSUME RowInv, NEW n \in Nodes, NEW id \in Turn(n), node[n].phase = "none",
         NEW phase \in {"starting", "completing"}, NEW todo \in SUBSET Nat,
         Begun(n, id, Tried(node[n].work[id]), phase, todo),
         rows' = rows, used' = used
  PROVE  RowInv'
<1> DEFINE w == [node[n].work EXCEPT ![id] = Tried(node[n].work[id])]
           t == [batch |-> node[n].batch, work |-> w, phase |-> phase, todo |-> todo,
                 held |-> {}, renewed |-> {}]
<1>1. /\ id \in node[n].batch /\ id \in DOMAIN node[n].work /\ Turn(n) = {id}
      /\ node[n].work[id] = rows[id] /\ rows[id] \in InboxRow /\ Consistent(rows[id])
      /\ ~rows[id].processed
  BY OneTurn
<1>2. node[n] \in Ticks /\ node \in [Nodes -> Ticks]
  BY DEF RowInv, RowTypes
<1>3. node[n].work \in Works
  BY <1>2 DEF Ticks
<1>4. Tried(rows[id]) \in InboxRow
  BY <1>1, BoundAssumption DEF Tried, InboxRow, Consistent
<1>5. w \in Works
  BY <1>1, <1>3, <1>4, WorkUpdate
<1>6. t \in Ticks
  BY <1>2, <1>5 DEF Ticks
<1>7. node' = [node EXCEPT ![n] = t]
  BY DEF Begun
<1>8. /\ DOMAIN w = DOMAIN node[n].work /\ w[id] = Tried(rows[id])
      /\ \A x \in DOMAIN w \ {id} : w[x] = node[n].work[x]
  BY <1>1, <1>3, WorkType
<1>9. t.work = w /\ t.phase # "none" /\ t.batch = node[n].batch
  BY <1>2 DEF Ticks
<1> HIDE DEF t, w
<1>10. \A x \in t.batch \ {id} : w[x] = rows[x]
  BY <1>1, <1>8, <1>9 DEF RowInv, Working, Current
<1>11. \A x \in t.batch : (\A y \in t.batch : x <= y) <=> x = id
  BY <1>1, <1>9 DEF Turn
<1>12. \A x \in DOMAIN w \ t.batch : Consistent(w[x])
  BY <1>1, <1>8, <1>9 DEF RowInv, Working
<1>13. t.batch \subseteq DOMAIN w
  BY <1>8, <1>9 DEF RowInv, Working
<1>14. \A x \in t.batch :
         w[x] = IF t.phase # "none" /\ \A y \in t.batch : x <= y
                THEN Tried(rows[x]) ELSE rows[x]
  BY <1>8, <1>9, <1>10, <1>11
<1> QED
  BY <1>6, <1>7, <1>8, <1>9, <1>12, <1>13, <1>14, TickGoesOn

\* A tick goes on with the same rows in hand.
LEMMA SameWork ==
  ASSUME RowInv, node' \in [Nodes -> Ticks], rows' = rows, used' = used,
         \A m \in Nodes : /\ node'[m].batch = node[m].batch /\ node'[m].work = node[m].work
                          /\ node'[m].phase = node[m].phase
  PROVE  RowInv'
BY DEF RowInv, RowTypes, Locked, Working, Current, Turn, Consistent, Tried

\* Rows come, go and are used again, but not those that are locked.
LEMMA RowsChange ==
  ASSUME RowInv, node' = node, used' \subseteq AllIds, DOMAIN rows' \subseteq used',
         \A id \in DOMAIN rows' : rows'[id] \in InboxRow /\ Consistent(rows'[id]),
         \A id \in RowLocks : id \in DOMAIN rows' /\ rows'[id] = rows[id]
  PROVE  RowInv'
<1>1. \A n \in Nodes : \A id \in DOMAIN node[n].work :
        id \in DOMAIN rows' /\ rows'[id] = rows[id]
  BY DEF RowLocks
<1>2. RowTypes'
  BY DEF RowInv, RowTypes, Consistent
<1>3. Locked'
  BY <1>1 DEF RowInv, Locked
<1>4. Working'
  BY <1>1 DEF RowInv, Working, Current, Turn, Consistent, Tried
<1> QED
  BY <1>2, <1>3, <1>4 DEF RowInv


\* Locking, writing and losing the rows of a tick.
LEMMA PollRows ==
  ASSUME RowInv, NEW n \in Nodes, Poll(n)
  PROVE  RowInv'
<1>1. node \in [Nodes -> Ticks]
  BY DEF RowInv, RowTypes
<1>2. PICK batch \in SUBSET Lockable :
        node' = [node EXCEPT ![n] = [IdleNode EXCEPT
                   !.batch = batch, !.work = [id \in batch |-> rows[id]]]]
  BY DEF Poll
<1> DEFINE w == [id \in batch |-> rows[id]]
           t == [IdleNode EXCEPT !.batch = batch, !.work = w]
<1>3. rows' = rows /\ used' = used
  BY DEF Poll
<1>4. /\ batch \subseteq DOMAIN rows /\ batch \subseteq AllIds
      /\ \A id \in batch : /\ ~rows[id].processed
                           /\ \A m \in Nodes : id \notin DOMAIN node[m].work
  BY DEF Lockable, RowLocks, RowInv, RowTypes
<1>5. w \in Works
  <2>1. w \in [batch -> InboxRow]
    BY <1>4 DEF RowInv, RowTypes
  <2> QED
    BY <1>4, <2>1 DEF Works
<1>6. /\ t.batch = batch /\ t.work = w /\ t.phase = "none"
      /\ DOMAIN w = batch /\ \A id \in batch : w[id] = rows[id]
  BY DEF IdleNode
<1>7. t \in Ticks
  BY <1>4, <1>5, IdleTick DEF Ticks
<1>8. node' = [node EXCEPT ![n] = t]
  BY <1>2
<1> HIDE DEF w, t
<1>9. /\ node'[n].batch = batch /\ node'[n].work = w /\ node'[n].phase = "none"
      /\ \A m \in Nodes \ {n} : node'[m] = node[m]
      /\ node' \in [Nodes -> Ticks]
  BY <1>1, <1>6, <1>7, <1>8
<1>10. RowTypes'
  BY <1>3, <1>9 DEF RowInv, RowTypes, Consistent
<1>11. Locked'
  BY <1>3, <1>4, <1>6, <1>9 DEF RowInv, Locked
<1>12. Working'
  <2> SUFFICES ASSUME NEW m \in Nodes
               PROVE  /\ node'[m].batch \subseteq DOMAIN node'[m].work
                      /\ \A x \in node'[m].batch : Current(m, x)'
                      /\ \A x \in DOMAIN node'[m].work \ node'[m].batch :
                           Consistent(node'[m].work[x])
    BY DEF Working, Consistent
  <2>1. CASE m # n
    BY <1>3, <1>9, <2>1 DEF RowInv, Working, Current, Turn, Tried
  <2>2. CASE m = n
    BY <1>3, <1>6, <1>9, <2>2 DEF Current, Turn, Tried
  <2> QED
    BY <2>1, <2>2
<1> QED
  BY <1>10, <1>11, <1>12 DEF RowInv

\* A tick ends; rows that it had not locked for itself alone stay as they are.
LEMMA TickEnds ==
  ASSUME RowInv, NEW n \in Nodes, node' = [node EXCEPT ![n] = IdleNode], used' = used,
         DOMAIN rows' = DOMAIN rows,
         \A id \in DOMAIN rows : rows'[id] \in InboxRow /\ Consistent(rows'[id]),
         \A m \in Nodes \ {n} : \A id \in DOMAIN node[m].work : rows'[id] = rows[id]
  PROVE  RowInv'
<1>1. /\ node'[n] = IdleNode /\ node' \in [Nodes -> Ticks]
      /\ \A m \in Nodes \ {n} : node'[m] = node[m]
  BY IdleTick DEF RowInv, RowTypes
<1>2. /\ DOMAIN node'[n].work = {} /\ node'[n].batch = {}
      /\ \A m \in Nodes \ {n} : \A id \in DOMAIN node[m].work : id \in DOMAIN rows
  BY <1>1, IdleTick DEF IdleNode, RowInv, Locked
<1>3. RowTypes'
  BY <1>1 DEF RowInv, RowTypes, Consistent
<1>4. Locked'
  BY <1>1, <1>2 DEF RowInv, Locked
<1>5. Working'
  <2> SUFFICES ASSUME NEW m \in Nodes
               PROVE  /\ node'[m].batch \subseteq DOMAIN node'[m].work
                      /\ \A x \in node'[m].batch : Current(m, x)'
                      /\ \A x \in DOMAIN node'[m].work \ node'[m].batch :
                           Consistent(node'[m].work[x])
    BY DEF Working, Consistent
  <2>1. CASE m # n
    BY <1>1, <2>1 DEF RowInv, Working, Current, Turn, Tried
  <2>2. CASE m = n
    BY <1>2, <2>2
  <2> QED
    BY <2>1, <2>2
<1> QED
  BY <1>3, <1>4, <1>5 DEF RowInv

LEMMA CommitBatchRows ==
  ASSUME RowInv, NEW n \in Nodes, CommitBatch(n)
  PROVE  RowInv'
<1>1. \A id \in DOMAIN node[n].work :
        node[n].work[id] \in InboxRow /\ Consistent(node[n].work[id])
  <2>1. node[n].work \in Works /\ node[n].batch = {}
    BY DEF CommitBatch, RowInv, RowTypes, Ticks
  <2> QED
    BY <2>1, WorkType DEF RowInv, Working
<1>2. \A m \in Nodes \ {n} : \A id \in DOMAIN node[m].work : id \notin DOMAIN node[n].work
  BY DEF RowInv, Locked
<1>3. /\ DOMAIN rows' = DOMAIN rows
      /\ \A id \in DOMAIN rows :
           rows'[id] = IF id \in DOMAIN node[n].work THEN node[n].work[id] ELSE rows[id]
  BY DEF CommitBatch
<1>4. \A m \in Nodes \ {n} : \A id \in DOMAIN node[m].work : rows'[id] = rows[id]
  BY <1>2, <1>3 DEF RowInv, Locked
<1>5. \A id \in DOMAIN rows : rows'[id] \in InboxRow /\ Consistent(rows'[id])
  BY <1>1, <1>3 DEF RowInv, RowTypes
<1> QED
  BY <1>3, <1>4, <1>5, TickEnds DEF CommitBatch

LEMMA CrashRows ==
  ASSUME RowInv, NEW n \in Nodes, Crash(n)
  PROVE  RowInv'
BY TickEnds DEF Crash, AfterCrash, RowInv, RowTypes


\* What a dispatch may write on its row.
LEMMA Outcomes ==
  ASSUME NEW q \in InboxRow, Consistent(q), ~q.processed,
         NEW error \in {"failure", "duplicate"}
  PROVE  /\ Tried(q) \in InboxRow
         /\ Rejected(Tried(q), error) \in InboxRow /\ Consistent(Rejected(Tried(q), error))
         /\ Succeeded(Tried(q)) \in InboxRow /\ Consistent(Succeeded(Tried(q)))
         /\ Failed(Tried(q)) \in InboxRow /\ Consistent(Failed(Tried(q)))
<1>1. MaxTry \in Nat /\ q.status = "PENDING" /\ q.tries \in 0 .. MaxTry - 1
  BY BoundAssumption DEF Consistent, InboxRow
<1>2. /\ Tried(q) \in InboxRow
      /\ Tried(q).tries > 0 /\ Tried(q).tries \in 1 .. MaxTry
      /\ Tried(q).status = "PENDING" /\ ~Tried(q).processed
  BY <1>1 DEF Tried, InboxRow
<1> DEFINE r == Tried(q)
<1> HIDE DEF r
<1>3. r \in InboxRow /\ r.tries > 0 /\ r.tries \in 1 .. MaxTry /\ r.status = "PENDING" /\ ~r.processed
  BY <1>2 DEF r
<1>4. Rejected(r, error) \in InboxRow /\ Consistent(Rejected(r, error))
  BY <1>3 DEF Rejected, InboxRow, Consistent
<1>5. Succeeded(r) \in InboxRow /\ Consistent(Succeeded(r))
  BY <1>3 DEF Succeeded, InboxRow, Consistent
<1>6. Failed(r) \in InboxRow /\ Consistent(Failed(r))
  <2>1. CASE r.tries >= MaxTry
    BY <1>3, <2>1 DEF Failed, Rejected, InboxRow, Consistent
  <2>2. CASE ~(r.tries >= MaxTry)
    <3> DEFINE f == [r EXCEPT !.error = "failure", !.status = "PENDING"]
    <3>1. Failed(r) = f
      BY <2>2 DEF Failed
    <3>2. f \in InboxRow
      BY <1>3 DEF InboxRow
    <3>3. f.status = "PENDING" /\ f.tries = r.tries /\ f.processed = r.processed
      BY <1>3 DEF InboxRow
    <3>4. Consistent(f)
      BY <1>1, <1>3, <2>2, <3>3 DEF Consistent
    <3> QED
      BY <3>1, <3>2, <3>4
  <2> QED
    BY <2>1, <2>2
<1> QED
  BY <1>2, <1>4, <1>5, <1>6 DEF r

LEMMA NewRows ==
  ASSUME NEW event \in {"start", "complete"}, NEW key \in AllKeys,
         NEW payload \in Payloads
  PROVE  NewRow(event, key, payload) \in InboxRow /\ Consistent(NewRow(event, key, payload))
BY BoundAssumption DEF NewRow, InboxRow, Consistent

LEMMA InsertRows ==
  ASSUME RowInv, NEW n \in Nodes, NEW id \in Ids[n] \ used, NEW row \in InboxRow,
         Consistent(row), Insert(n, id, row), node' = node
  PROVE  RowInv'
<1>1. id \in AllIds
  BY DEF AllIds
<1>2. /\ DOMAIN rows' = DOMAIN rows \cup {id}
      /\ \A x \in DOMAIN rows' : rows'[x] = IF x = id THEN row ELSE rows[x]
      /\ used' = used \cup {id}
  BY DEF Insert
<1>3. \A x \in RowLocks : x \in DOMAIN rows /\ x # id
  BY DEF RowLocks, RowInv, RowTypes, Locked
<1> QED
  BY <1>1, <1>2, <1>3, RowsChange DEF RowInv, RowTypes

LEMMA EnqueueRows ==
  ASSUME RowInv, NEW n \in Nodes, NEW event \in {"start", "complete"},
         NEW key \in Keys, NEW payload \in Payloads,
         Enqueue(n, event, key, payload)
  PROVE  RowInv'
<1> DEFINE row == NewRow(event, key, payload)
<1>1. row \in InboxRow /\ Consistent(row)
  BY NewRows DEF AllKeys
<1> HIDE DEF row
<1>2. CASE \E id \in Ids[n] \ used : Insert(n, id, row)
  BY <1>1, <1>2, InsertRows DEF Enqueue
<1>3. CASE \E id \in DOMAIN rows \ RowLocks :
             rows' = [rows EXCEPT ![id] = row] /\ UNCHANGED used
  <2>1. PICK id \in DOMAIN rows \ RowLocks : rows' = [rows EXCEPT ![id] = row]
    BY <1>3
  <2>2. /\ DOMAIN rows' = DOMAIN rows /\ rows'[id] = row
        /\ \A x \in DOMAIN rows \ {id} : rows'[x] = rows[x]
    BY <2>1
  <2>3. \A x \in RowLocks : x \in DOMAIN rows /\ x # id
    BY <2>1 DEF RowLocks, RowInv, Locked
  <2>4. used' = used /\ node' = node
    BY <1>3 DEF Enqueue
  <2>5. used' \subseteq AllIds /\ DOMAIN rows' \subseteq used'
    BY <2>2, <2>4 DEF RowInv, RowTypes
  <2>6. \A x \in DOMAIN rows' : rows'[x] \in InboxRow /\ Consistent(rows'[x])
    BY <1>1, <2>2 DEF RowInv, RowTypes
  <2>7. \A x \in RowLocks : x \in DOMAIN rows' /\ rows'[x] = rows[x]
    BY <2>2, <2>3
  <2> QED
    BY <2>4, <2>5, <2>6, <2>7, RowsChange
<1> QED
  BY <1>2, <1>3 DEF Enqueue, SameRequest, row


LEMMA OwnKeyRows ==
  ASSUME RowInv, NEW n \in Nodes, NEW event \in {"start", "complete"},
         NEW payload \in Payloads, EnqueueWithOwnKey(n, event, payload)
  PROVE  RowInv'
<1>1. PICK id \in Ids[n] \ used : Insert(n, id, NewRow(event, OwnKey[id], payload))
  BY DEF EnqueueWithOwnKey
<1>2. OwnKey[id] \in AllKeys
  BY DEF AllKeys, AllIds
<1> DEFINE row == NewRow(event, OwnKey[id], payload)
<1>3. row \in InboxRow /\ Consistent(row)
  BY <1>2, NewRows
<1> HIDE DEF row
<1> QED
  BY <1>1, <1>3, InsertRows DEF EnqueueWithOwnKey, row

LEMMA CleanupRows ==
  ASSUME RowInv, Cleanup
  PROVE  RowInv'
<1>1. PICK old \in SUBSET {id \in DOMAIN rows : rows[id].processed} :
        rows' = [id \in DOMAIN rows \ old |-> rows[id]]
  BY DEF Cleanup
<1>2. \A id \in RowLocks : id \in DOMAIN rows /\ ~rows[id].processed
  BY DEF RowLocks, RowInv, Locked
<1>3. DOMAIN rows' = DOMAIN rows \ old /\ \A id \in DOMAIN rows' : rows'[id] = rows[id]
  BY <1>1
<1>4. \A id \in RowLocks : id \in DOMAIN rows' /\ rows'[id] = rows[id]
  BY <1>2, <1>3
<1>5. DOMAIN rows' \subseteq used' /\ used' \subseteq AllIds /\ node' = node
  BY <1>3 DEF Cleanup, RowInv, RowTypes
<1>6. \A id \in DOMAIN rows' : rows'[id] \in InboxRow /\ Consistent(rows'[id])
  BY <1>3 DEF RowInv, RowTypes
<1> QED
  BY <1>4, <1>5, <1>6, RowsChange

\* A dispatch ends by writing what became of its row.
DispatchOutcomes(q) ==
  {Rejected(Tried(q), "failure"), Rejected(Tried(q), "duplicate"),
   Succeeded(Tried(q)), Failed(Tried(q))}

LEMMA OutcomeTypes ==
  ASSUME NEW q \in InboxRow, Consistent(q), ~q.processed, NEW r \in DispatchOutcomes(q)
  PROVE  r \in InboxRow /\ Consistent(r)
BY Outcomes DEF DispatchOutcomes

\* The outcomes of a dispatch that is under way, and of one that begins.
LEMMA OutcomeOfWork ==
  ASSUME RowInv, NEW n \in Nodes, NEW id \in Turn(n), node[n].phase # "none"
  PROVE  {Rejected(node[n].work[id], "failure"), Rejected(node[n].work[id], "duplicate"),
          Succeeded(node[n].work[id]), Failed(node[n].work[id])} = DispatchOutcomes(rows[id])
BY OneTurn DEF DispatchOutcomes

LEMMA EndRows ==
  ASSUME RowInv, NEW n \in Nodes, NEW id \in Turn(n),
         NEW r \in DispatchOutcomes(rows[id]),
         Dispatched(n, id, r), rows' = rows, used' = used
  PROVE  RowInv'
BY OneTurn, OutcomeTypes, DispatchEnds

\* What a dispatch does first.
LEMMA DispatchCases ==
  ASSUME RowInv, NEW n \in Nodes, NEW id \in Turn(n), Dispatch(n, id)
  PROVE  LET key == Correlation(rows[id])
             r == Tried(rows[id])
         IN  /\ node[n].phase = "none"
             /\ \/ /\ ~Started(key) /\ rows[id].payload # "broken" /\ rows[id].event = "start"
                   /\ Begun(n, id, r, "starting", {})
                \/ /\ rows[id].payload # "broken" /\ rows[id].event = "complete"
                   /\ Begun(n, id, r, "completing", Listening(key))
                \/ Dispatched(n, id, Rejected(r, "failure"))
                \/ Dispatched(n, id, Rejected(r, "duplicate"))
<1> DEFINE r == Tried(rows[id])
           key == Correlation(rows[id])
<1>1. node[n].phase = "none" /\ node[n].work[id] = rows[id] /\ rows[id] \in InboxRow
  BY OneTurn DEF Dispatch
<1>2. /\ [node[n].work[id] EXCEPT !.tries = @ + 1] = r
      /\ Correlation([node[n].work[id] EXCEPT !.tries = @ + 1]) = key
      /\ r.event = rows[id].event /\ r.payload = rows[id].payload
  BY <1>1 DEF Tried, Correlation, InboxRow
<1> HIDE DEF r, key
<1> QED
  BY <1>1, <1>2 DEF Dispatch, r, key


-----------------------------------------------------------------------------
(* Instances, their work items and what was done about a request.          *)

Instance == [key : AllKeys, at : {"ahead", "task", "suspended", "past", "over"},
             claimed : BOOLEAN, done : Nat]

\* A work item is completed once, and then the instance is past it.
Sound(e) == e.done <= 1 /\ (e.at \in {"ahead", "task", "suspended"} => e.done = 0)

\* A work item that a tick has locked stays open, and no other tick has it.
ItemInv ==
  /\ instances \in Seq(Instance)
  /\ \A i \in DOMAIN instances : Sound(instances[i])
  /\ \A n \in Nodes :
       /\ node[n].todo \cup node[n].held \cup node[n].renewed \subseteq DOMAIN instances
       /\ node[n].phase # "completing" => node[n].todo = {} /\ node[n].held = {}
       /\ \A i \in node[n].held : instances[i].at = "task"
  /\ \A m, n \in Nodes : m # n => node[m].held \cap node[n].held = {}

\* A success without effect is one that nobody waits for.
Honest(id, r) ==
  r.status = "SUCCESS" /\ effects[id] = 0 => r.event = "complete" /\ waiting[id] = {}

\* A completion has all instances in hand that wait for it.
Passing(n) ==
  node[n].phase = "completing" =>
    \A id \in Turn(n) : /\ rows[id].event = "complete"
                        /\ waiting[id] \subseteq node[n].todo \cup node[n].held

Faithful(n) ==
  \A id \in DOMAIN node[n].work :
    /\ node[n].work[id].key = rows[id].key /\ node[n].work[id].event = rows[id].event
    /\ node[n].work[id].payload = rows[id].payload
    /\ Honest(id, node[n].work[id])

HonestInv ==
  /\ effects \in [AllIds -> Nat] /\ waiting \in [AllIds -> SUBSET DOMAIN instances]
  /\ \A id \in DOMAIN rows : /\ Honest(id, rows[id])
                             /\ waiting[id] \subseteq Listening(Correlation(rows[id]))
  /\ \A n \in Nodes : Faithful(n) /\ Passing(n)

\* Fewer instances wait, and those that still do are where they were.
WaitersLeave ==
  /\ waiting' \in [AllIds -> SUBSET DOMAIN instances']
  /\ \A id \in AllIds : waiting'[id] \subseteq waiting[id]
  /\ \A id \in DOMAIN rows : \A i \in waiting'[id] :
       instances'[i].key = instances[i].key /\ instances'[i].at = instances[i].at

EffectsGrow ==
  /\ effects' \in [AllIds -> Nat]
  /\ \A id \in AllIds : effects'[id] = 0 => effects[id] = 0

LEMMA SameWaiters ==
  ASSUME HonestInv, UNCHANGED <<instances, effects, waiting>>
  PROVE  WaitersLeave /\ EffectsGrow
BY DEF HonestInv, WaitersLeave, EffectsGrow

LEMMA HonestStays ==
  ASSUME HonestInv, WaitersLeave, EffectsGrow, NEW id \in AllIds, NEW r, Honest(id, r)
  PROVE  Honest(id, r)'
BY DEF Honest, HonestInv, WaitersLeave, EffectsGrow

\* What waited and still waits is listening.
LEMMA WaitersListen ==
  ASSUME HonestInv, WaitersLeave, NEW id \in DOMAIN rows, id \in AllIds, rows'[id] = rows[id]
  PROVE  waiting'[id] \subseteq Listening(Correlation(rows[id]))'
<1>1. PICK key : key = Correlation(rows[id])
  OBVIOUS
<1>2. Correlation(rows[id])' = key
  BY <1>1 DEF Correlation
<1>3. waiting[id] \subseteq Listening(key)
  BY <1>1 DEF HonestInv
<1>4. ASSUME NEW i \in waiting'[id]
      PROVE  i \in Listening(key)'
  <2>1. /\ i \in Listening(key) /\ i \in DOMAIN instances'
        /\ instances'[i].key = instances[i].key /\ instances'[i].at = instances[i].at
    BY <1>3, <1>4 DEF WaitersLeave
  <2> QED
    BY <2>1 DEF Listening, Running
<1> QED
  BY <1>2, <1>4 DEF Listening, Running

\* A step of a tick keeps requests honest, if the tick itself does.
LEMMA HonestTick ==
  ASSUME RowInv, HonestInv, NEW n \in Nodes,
         rows' = rows, used' = used, WaitersLeave, EffectsGrow,
         \A m \in Nodes \ {n} : /\ node'[m].batch = node[m].batch /\ node'[m].work = node[m].work
                                /\ node'[m].phase = node[m].phase
                                /\ node'[m].todo = node[m].todo /\ node'[m].held = node[m].held,
         Faithful(n)', Passing(n)'
  PROVE  HonestInv'
<1>1. /\ effects' \in [AllIds -> Nat] /\ waiting' \in [AllIds -> SUBSET DOMAIN instances']
      /\ DOMAIN rows \subseteq AllIds
  BY DEF WaitersLeave, EffectsGrow, RowInv, RowTypes
<1>2. ASSUME NEW id \in DOMAIN rows
      PROVE  Honest(id, rows[id])' /\ waiting'[id] \subseteq Listening(Correlation(rows[id]))'
  <2>1. PICK r : r = rows[id]
    OBVIOUS
  <2>2. Honest(id, r)'
    BY <1>1, <2>1, HonestStays DEF HonestInv
  <2> QED
    BY <1>1, <2>1, <2>2, WaitersListen DEF Honest
<1>3. ASSUME NEW m \in Nodes \ {n}
      PROVE  Faithful(m)' /\ Passing(m)'
  <2>1. \A id \in DOMAIN node[m].work : id \in AllIds
    BY DEF RowInv, RowTypes, Locked
  <2>2. Faithful(m)
    BY DEF HonestInv
  <2>3. ASSUME NEW id \in DOMAIN node[m].work
        PROVE  Honest(id, node[m].work[id])'
    <3>1. PICK r : r = node[m].work[id]
      OBVIOUS
    <3>2. Honest(id, r)'
      BY <2>1, <2>2, <3>1, HonestStays DEF Faithful
    <3> QED
      BY <3>1, <3>2 DEF Honest
  <2>4. Faithful(m)'
    BY <2>2, <2>3 DEF Faithful
  <2>5. \A id \in Turn(m) : id \in AllIds
    BY OneTurn
  <2>6. Passing(m)'
    BY <2>5 DEF HonestInv, Passing, Turn, WaitersLeave
  <2> QED
    BY <2>4, <2>6
<1> QED
  BY <1>1, <1>2, <1>3 DEF HonestInv, Honest

\* What a node in the middle of nothing, or another node, does to work items.
LEMMA ItemsRest ==
  ASSUME ItemInv, NEW n \in Nodes,
         node'[n].todo = {}, node'[n].held = {}, node'[n].renewed = {},
         \A m \in Nodes \ {n} : node'[m] = node[m],
         instances' \in Seq(Instance), DOMAIN instances \subseteq DOMAIN instances',
         \A i \in DOMAIN instances' : Sound(instances'[i]),
         \A m \in Nodes \ {n} : \A i \in node[m].held : instances'[i].at = "task"
  PROVE  ItemInv'
BY DEF ItemInv, Sound

\* The outcomes of a dispatch are about the same request; only one is a success.
LEMMA OutcomeFields ==
  ASSUME NEW q \in InboxRow
  PROVE  /\ \A r \in DispatchOutcomes(q) :
              r.key = q.key /\ r.event = q.event /\ r.payload = q.payload
         /\ \A error : Rejected(Tried(q), error).status = "FAILED"
         /\ Failed(Tried(q)).status # "SUCCESS"
         /\ Tried(q).key = q.key /\ Tried(q).event = q.event /\ Tried(q).status = q.status
         /\ Tried(q).payload = q.payload
<1> DEFINE t == Tried(q)
<1>1. t.key = q.key /\ t.event = q.event /\ t.status = q.status /\ t.payload = q.payload
  BY DEF Tried, InboxRow
<1>2. DOMAIN t = DOMAIN q /\ {"key", "event", "status", "processed", "error", "tries", "payload"} = DOMAIN t
  BY DEF Tried, InboxRow
<1> HIDE DEF t
<1>3. \A error : /\ Rejected(t, error).key = t.key /\ Rejected(t, error).event = t.event
                 /\ Rejected(t, error).payload = t.payload
                 /\ Rejected(t, error).status = "FAILED"
  BY <1>2 DEF Rejected
<1>4. /\ Succeeded(t).key = t.key /\ Succeeded(t).event = t.event
      /\ Succeeded(t).payload = t.payload
  BY <1>2 DEF Succeeded
<1>5. /\ Failed(t).key = t.key /\ Failed(t).event = t.event /\ Failed(t).payload = t.payload
      /\ Failed(t).status # "SUCCESS"
  BY <1>2, <1>3 DEF Failed
<1> QED
  BY <1>1, <1>3, <1>4, <1>5 DEF DispatchOutcomes, t

\* A node after a dispatch ended.
LEMMA EndedNode ==
  ASSUME RowInv, NEW n \in Nodes, NEW id \in Turn(n), NEW r, Dispatched(n, id, r)
  PROVE  /\ node'[n].todo = {} /\ node'[n].held = {} /\ node'[n].renewed = {}
         /\ node'[n].phase = "none"
         /\ DOMAIN node'[n].work = DOMAIN node[n].work /\ node'[n].work[id] = r
         /\ \A x \in DOMAIN node[n].work \ {id} : node'[n].work[x] = node[n].work[x]
         /\ \A m \in Nodes \ {n} : node'[m] = node[m]
<1>1. node[n].work \in Works /\ node \in [Nodes -> Ticks]
  BY DEF RowInv, RowTypes, Ticks
<1>2. id \in DOMAIN node[n].work /\ DOMAIN node[n].work \subseteq AllIds
  BY <1>1, WorkType, OneTurn
<1>3. node[n].work \in [DOMAIN node[n].work -> InboxRow]
  BY <1>1, WorkType
<1> QED
  BY <1>1, <1>2, <1>3 DEF Dispatched

LEMMA EndKeeps ==
  ASSUME RowInv, ItemInv, HonestInv, NEW n \in Nodes, NEW id \in Turn(n),
         NEW r \in DispatchOutcomes(rows[id]), Dispatched(n, id, r),
         rows' = rows, used' = used, WaitersLeave, EffectsGrow,
         Honest(id, r)', instances' \in Seq(Instance),
         DOMAIN instances \subseteq DOMAIN instances',
         \A i \in DOMAIN instances' : Sound(instances'[i]),
         \A m \in Nodes \ {n} : \A i \in node[m].held : instances'[i].at = "task"
  PROVE  RowInv' /\ ItemInv' /\ HonestInv'
<1>1. /\ node'[n].todo = {} /\ node'[n].held = {} /\ node'[n].renewed = {}
      /\ node'[n].phase = "none"
      /\ DOMAIN node'[n].work = DOMAIN node[n].work /\ node'[n].work[id] = r
      /\ \A x \in DOMAIN node[n].work \ {id} : node'[n].work[x] = node[n].work[x]
      /\ \A m \in Nodes \ {n} : node'[m] = node[m]
  BY EndedNode
<1>2. r.key = rows[id].key /\ r.event = rows[id].event /\ r.payload = rows[id].payload
  BY OneTurn, OutcomeFields
<1>3. RowInv'
  BY EndRows
<1>4. ItemInv'
  BY <1>1, ItemsRest
<1>5. ASSUME NEW x \in DOMAIN node[n].work
      PROVE  /\ node'[n].work[x].key = rows[x].key /\ node'[n].work[x].event = rows[x].event
             /\ node'[n].work[x].payload = rows[x].payload
             /\ Honest(x, node[n].work[x])'
  <2>1. PICK s : s = node'[n].work[x]
    OBVIOUS
  <2>2. CASE x = id
    BY <1>1, <1>2, <2>1, <2>2 DEF Honest
  <2>3. CASE x # id
    <3>1. x \in AllIds
      BY DEF RowInv, RowTypes, Locked
    <3>2. s = node[n].work[x]
      BY <1>1, <2>1, <2>3
    <3>3. /\ s.key = rows[x].key /\ s.event = rows[x].event /\ s.payload = rows[x].payload
          /\ Honest(x, s)
      BY <3>2 DEF HonestInv, Faithful
    <3>4. Honest(x, s)'
      BY <3>1, <3>3, HonestStays
    <3> QED
      BY <2>1, <3>3, <3>4 DEF Honest
  <2> QED
    BY <2>2, <2>3
<1>6. Faithful(n)'
  BY <1>1, <1>5 DEF Faithful
<1>7. Passing(n)'
  BY <1>1 DEF Passing
<1> QED
  BY <1>1, <1>3, <1>4, <1>6, <1>7, HonestTick

\* The other work items, and requests, of a step that ends a dispatch alone.
LEMMA EndOnly ==
  ASSUME RowInv, ItemInv, HonestInv, NEW n \in Nodes, NEW id \in Turn(n),
         NEW r \in DispatchOutcomes(rows[id]), Dispatched(n, id, r),
         UNCHANGED <<rows, used, instances, effects, waiting>>, Honest(id, r)
  PROVE  RowInv' /\ ItemInv' /\ HonestInv'
<1>1. WaitersLeave /\ EffectsGrow
  BY SameWaiters
<1>2. Honest(id, r)'
  BY DEF Honest
<1>3. /\ instances' \in Seq(Instance)
      /\ \A i \in DOMAIN instances' : Sound(instances'[i])
      /\ \A m \in Nodes \ {n} : \A i \in node[m].held : instances'[i].at = "task"
  BY DEF ItemInv
<1> QED
  BY <1>1, <1>2, <1>3, EndKeeps


-----------------------------------------------------------------------------
(* Each action keeps the three parts of the invariant.                     *)

Inv == RowInv /\ ItemInv /\ HonestInv

\* A node after a dispatch began.
LEMMA BegunNode ==
  ASSUME RowInv, NEW n \in Nodes, NEW id \in Turn(n), NEW r, NEW phase, NEW todo,
         Begun(n, id, r, phase, todo)
  PROVE  /\ node'[n].todo = todo /\ node'[n].held = {} /\ node'[n].renewed = {}
         /\ node'[n].phase = phase
         /\ DOMAIN node'[n].work = DOMAIN node[n].work /\ node'[n].work[id] = r
         /\ \A x \in DOMAIN node[n].work \ {id} : node'[n].work[x] = node[n].work[x]
         /\ node'[n].batch = node[n].batch
         /\ \A m \in Nodes \ {n} : node'[m] = node[m]
<1>1. node[n].work \in Works /\ node \in [Nodes -> Ticks]
  BY DEF RowInv, RowTypes, Ticks
<1>2. id \in DOMAIN node[n].work /\ DOMAIN node[n].work \subseteq AllIds
  BY <1>1, WorkType, OneTurn
<1>3. node[n].work \in [DOMAIN node[n].work -> InboxRow]
  BY <1>1, WorkType
<1> QED
  BY <1>1, <1>2, <1>3 DEF Begun

\* A dispatch that begins to complete has all instances in hand that wait for it.
LEMMA BegunKeeps ==
  ASSUME Inv, NEW n \in Nodes, NEW id \in Turn(n), node[n].phase = "none",
         UNCHANGED <<rows, used, instances, effects, waiting>>,
         NEW phase \in {"starting", "completing"}, NEW todo \in SUBSET DOMAIN instances,
         Begun(n, id, Tried(rows[id]), phase, todo),
         IF phase = "starting" THEN todo = {}
         ELSE rows[id].event = "complete" /\ waiting[id] \subseteq todo
  PROVE  Inv'
<1> DEFINE r == Tried(rows[id])
<1>2. /\ node'[n].todo = todo /\ node'[n].held = {} /\ node'[n].renewed = {}
      /\ node'[n].phase = phase
      /\ DOMAIN node'[n].work = DOMAIN node[n].work /\ node'[n].work[id] = r
      /\ \A x \in DOMAIN node[n].work \ {id} : node'[n].work[x] = node[n].work[x]
      /\ node'[n].batch = node[n].batch
      /\ \A m \in Nodes \ {n} : node'[m] = node[m]
  BY BegunNode DEF Inv
<1>3. todo \subseteq Nat
  BY DEF Inv, ItemInv
<1>4. node[n].work[id] = rows[id] /\ Turn(n) = {id} /\ id \in DOMAIN rows /\ rows[id] \in InboxRow
      /\ rows[id].status # "SUCCESS"
  BY OneTurn DEF Inv, Consistent
<1>5. /\ r.key = rows[id].key /\ r.event = rows[id].event /\ r.payload = rows[id].payload
      /\ r.status # "SUCCESS"
  BY <1>4, OutcomeFields
<1> HIDE DEF r
<1>6. RowInv'
  BY <1>3, <1>4, DispatchBegins DEF Inv, r
<1>7. ItemInv'
  BY <1>2 DEF Inv, ItemInv, Sound
<1>8. WaitersLeave /\ EffectsGrow
  BY SameWaiters DEF Inv
<1>9. Faithful(n)'
  BY <1>2, <1>5 DEF Inv, HonestInv, Faithful, Honest
<1>10. Passing(n)'
  <2>1. Turn(n)' = {id}
    BY <1>2, <1>4 DEF Turn
  <2> QED
    BY <1>2, <2>1 DEF Passing
<1> QED
  BY <1>2, <1>6, <1>7, <1>8, <1>9, <1>10, HonestTick DEF Inv

LEMMA DispatchKeeps ==
  ASSUME Inv, NEW n \in Nodes, NEW id \in Turn(n), Dispatch(n, id)
  PROVE  Inv'
<1> DEFINE key == Correlation(rows[id])
           r == Tried(rows[id])
<1>1. UNCHANGED <<rows, used, instances, effects, waiting>>
  BY DEF Dispatch
<1>2. node[n].phase = "none" /\ id \in DOMAIN rows /\ rows[id] \in InboxRow
  BY OneTurn DEF Dispatch, Inv
<1>3. ASSUME NEW error \in {"failure", "duplicate"}, Dispatched(n, id, Rejected(r, error))
      PROVE  Inv'
  <2>1. Rejected(r, error).status = "FAILED" /\ Rejected(r, error) \in DispatchOutcomes(rows[id])
    BY <1>2, OutcomeFields DEF DispatchOutcomes
  <2> QED
    BY <1>1, <1>3, <2>1, EndOnly DEF Honest, Inv
<1>4. CASE Begun(n, id, r, "starting", {})
  BY <1>1, <1>2, <1>4, BegunKeeps
<1>5. CASE rows[id].event = "complete" /\ Begun(n, id, r, "completing", Listening(key))
  <2>1. Listening(key) \in SUBSET DOMAIN instances /\ waiting[id] \subseteq Listening(key)
    BY <1>2 DEF Listening, Running, Inv, HonestInv
  <2> HIDE DEF key
  <2> QED
    BY <1>1, <1>2, <1>5, <2>1, BegunKeeps
<1> QED
  BY <1>3, <1>4, <1>5, DispatchCases DEF Inv

\* A node that has more, or fewer, work items in hand.
LEMMA HandNode ==
  ASSUME node \in [Nodes -> Ticks], NEW n \in Nodes,
         NEW todo \in SUBSET Nat, NEW held \in SUBSET Nat,
         node' = [node EXCEPT ![n].todo = todo, ![n].held = held]
  PROVE  /\ node' \in [Nodes -> Ticks] /\ node'[n].todo = todo /\ node'[n].held = held
         /\ node'[n].batch = node[n].batch /\ node'[n].work = node[n].work
         /\ node'[n].phase = node[n].phase /\ node'[n].renewed = node[n].renewed
         /\ \A m \in Nodes \ {n} : node'[m] = node[m]
<1> DEFINE t == [node[n] EXCEPT !.todo = todo, !.held = held]
<1>1. node[n] \in Ticks
  OBVIOUS
<1>2. /\ t \in Ticks /\ t.todo = todo /\ t.held = held /\ t.batch = node[n].batch
      /\ t.work = node[n].work /\ t.phase = node[n].phase /\ t.renewed = node[n].renewed
  BY <1>1 DEF Ticks
<1>3. node' = [node EXCEPT ![n] = t]
  OBVIOUS
<1> QED
  BY <1>2, <1>3

\* The work item that a dispatch wants next goes from its one hand into the other.
LEMMA LockedItem ==
  ASSUME Inv, NEW n \in Nodes, NEW i \in Wanted(n),
         node' = [node EXCEPT ![n].todo = @ \ {i}, ![n].held = @ \cup {i}]
  PROVE  /\ node' \in [Nodes -> Ticks] /\ i \in node[n].todo
         /\ node'[n].todo = node[n].todo \ {i} /\ node'[n].held = node[n].held \cup {i}
         /\ node'[n].batch = node[n].batch /\ node'[n].work = node[n].work
         /\ node'[n].phase = node[n].phase /\ node'[n].renewed = node[n].renewed
         /\ \A m \in Nodes \ {n} : node'[m] = node[m]
<1>1. i \in node[n].todo
  BY DEF Wanted
<1> DEFINE todo == node[n].todo \ {i}
           held == node[n].held \cup {i}
<1>2. todo \in SUBSET Nat /\ held \in SUBSET Nat
  BY <1>1 DEF Inv, ItemInv
<1>3. node' = [node EXCEPT ![n].todo = todo, ![n].held = held]
  OBVIOUS
<1>4. node \in [Nodes -> Ticks]
  BY DEF Inv, RowInv, RowTypes
<1>5. todo = node[n].todo \ {i} /\ held = node[n].held \cup {i}
  OBVIOUS
<1> HIDE DEF todo, held
<1>6. /\ node' \in [Nodes -> Ticks] /\ node'[n].todo = todo /\ node'[n].held = held
      /\ node'[n].batch = node[n].batch /\ node'[n].work = node[n].work
      /\ node'[n].phase = node[n].phase /\ node'[n].renewed = node[n].renewed
      /\ \A m \in Nodes \ {n} : node'[m] = node[m]
  BY <1>2, <1>3, <1>4, HandNode
<1> QED
  BY <1>1, <1>5, <1>6

LEMMA LockTaskKeeps ==
  ASSUME Inv, NEW n \in Nodes, NEW id \in Turn(n), LockTask(n, id)
  PROVE  Inv'
<1>1. UNCHANGED <<rows, used, instances, effects, waiting>> /\ node[n].phase = "completing"
  BY DEF LockTask
<1>2. CASE \E i \in Wanted(n) \ TaskLocks :
             /\ Completable(i)
             /\ node' = [node EXCEPT ![n].todo = @ \ {i}, ![n].held = @ \cup {i}]
  <2>1. PICK i \in Wanted(n) \ TaskLocks :
               /\ Completable(i)
               /\ node' = [node EXCEPT ![n].todo = @ \ {i}, ![n].held = @ \cup {i}]
    BY <1>2
  <2>2. instances[i].at = "task" /\ \A m \in Nodes : i \notin node[m].held
    BY <2>1 DEF TaskLocks, Completable
  <2>3. /\ node' \in [Nodes -> Ticks] /\ i \in node[n].todo
        /\ node'[n].todo = node[n].todo \ {i} /\ node'[n].held = node[n].held \cup {i}
        /\ node'[n].batch = node[n].batch /\ node'[n].work = node[n].work
        /\ node'[n].phase = node[n].phase /\ node'[n].renewed = node[n].renewed
        /\ \A m \in Nodes \ {n} : node'[m] = node[m]
    BY <2>1, LockedItem
  <2>4. RowInv'
    BY <1>1, <2>3, SameWork DEF Inv
  <2>5. ItemInv'
    BY <1>1, <2>2, <2>3 DEF Inv, ItemInv, Sound
  <2>6. WaitersLeave /\ EffectsGrow
    BY <1>1, SameWaiters DEF Inv
  <2>7. Faithful(n)'
    BY <1>1, <2>3 DEF Inv, HonestInv, Faithful, Honest
  <2>8. Passing(n)'
    BY <1>1, <2>3 DEF Inv, HonestInv, Passing, Turn
  <2> QED
    BY <1>1, <2>3, <2>4, <2>5, <2>6, <2>7, <2>8, HonestTick DEF Inv
<1>3. CASE Dispatched(n, id, Rejected(node[n].work[id], "failure"))
  <2>1. Rejected(node[n].work[id], "failure") \in DispatchOutcomes(rows[id])
    BY <1>1, OutcomeOfWork DEF Inv
  <2>2. Rejected(node[n].work[id], "failure").status = "FAILED"
    BY <1>1, OneTurn, OutcomeFields DEF Inv
  <2> QED
    BY <1>1, <1>3, <2>1, <2>2, EndOnly DEF Honest, Inv
<1> QED
  BY <1>2, <1>3 DEF LockTask


LEMMA AffectedGrow ==
  ASSUME HonestInv, NEW id \in AllIds, Affected(id)
  PROVE  EffectsGrow /\ effects'[id] # 0
BY DEF HonestInv, Affected, EffectsGrow

\* A new instance has no work item yet.
LEMMA StartedInstance ==
  ASSUME Inv, NEW n \in Nodes, NEW id \in Turn(n), CommitStart(n, id)
  PROVE  LET new == [key |-> Correlation(rows[id]), at |-> "ahead", claimed |-> FALSE,
                     done |-> 0]
         IN  /\ instances' \in Seq(Instance) /\ new \in Instance
             /\ DOMAIN instances' = DOMAIN instances \cup {Len(instances) + 1}
             /\ \A i \in DOMAIN instances : instances'[i] = instances[i]
             /\ instances'[Len(instances) + 1] = new
<1> DEFINE r == node[n].work[id]
           new == [key |-> Correlation(rows[id]), at |-> "ahead", claimed |-> FALSE, done |-> 0]
<1>1. node[n].phase # "none"
  BY DEF CommitStart
<1>2. r = Tried(rows[id]) /\ rows[id] \in InboxRow
  BY <1>1, OneTurn DEF Inv
<1>3. Correlation(r) = Correlation(rows[id])
  BY <1>2, OutcomeFields DEF Correlation
<1>4. instances' = Append(instances, new)
  BY <1>3 DEF CommitStart
<1>5. new \in Instance
  BY <1>2 DEF Instance, InboxRow, Correlation, AllKeys
<1> HIDE DEF new
<1>6. instances \in Seq(Instance)
  BY DEF Inv, ItemInv
<1>7. /\ instances' \in Seq(Instance)
      /\ DOMAIN instances' = DOMAIN instances \cup {Len(instances) + 1}
      /\ \A i \in DOMAIN instances : instances'[i] = instances[i]
      /\ instances'[Len(instances) + 1] = new
  BY <1>4, <1>5, <1>6, AppendProperties, LenProperties
<1> QED
  BY <1>5, <1>7 DEF new

LEMMA CommitStartKeeps ==
  ASSUME Inv, NEW n \in Nodes, NEW id \in Turn(n), CommitStart(n, id)
  PROVE  Inv'
<1>1. /\ UNCHANGED <<rows, used, waiting>> /\ node[n].phase # "none"
      /\ Dispatched(n, id, Succeeded(node[n].work[id])) /\ Affected(id)
  BY DEF CommitStart
<1>2. id \in AllIds
  BY OneTurn DEF Inv
<1>3. EffectsGrow /\ effects'[id] # 0
  BY <1>1, <1>2, AffectedGrow DEF Inv
<1>4. PICK q \in DispatchOutcomes(rows[id]) : Dispatched(n, id, q)
  BY <1>1, OutcomeOfWork DEF Inv
<1>5. PICK new \in Instance :
        /\ instances' \in Seq(Instance) /\ new.done = 0
        /\ DOMAIN instances' = DOMAIN instances \cup {Len(instances) + 1}
        /\ \A i \in DOMAIN instances : instances'[i] = instances[i]
        /\ instances'[Len(instances) + 1] = new
  BY StartedInstance
<1>6. /\ DOMAIN instances \subseteq DOMAIN instances'
      /\ \A i \in DOMAIN instances' : Sound(instances'[i])
      /\ \A m \in Nodes \ {n} : \A i \in node[m].held : instances'[i].at = "task"
  BY <1>5 DEF Inv, ItemInv, Sound
<1>7. WaitersLeave
  BY <1>1, <1>5 DEF Inv, HonestInv, WaitersLeave, RowInv, RowTypes
<1>8. Honest(id, q)'
  BY <1>3 DEF Honest
<1> QED
  BY <1>1, <1>3, <1>4, <1>5, <1>6, <1>7, <1>8, EndKeeps DEF Inv

\* Each work item that a dispatch has locked is completed, and nothing else.
LEMMA CompletedInstances ==
  ASSUME Inv, NEW n \in Nodes, NEW id \in Turn(n), CommitCompletion(n, id)
  PROVE  /\ instances' \in Seq(Instance) /\ DOMAIN instances' = DOMAIN instances
         /\ \A i \in DOMAIN instances \ node[n].held : instances'[i] = instances[i]
         /\ \A i \in node[n].held :
              /\ i \in DOMAIN instances /\ instances[i].at = "task" /\ instances[i].done = 0
              /\ instances'[i].key = instances[i].key /\ instances'[i].at = "past"
              /\ instances'[i].done = 1
<1>1. instances' = [i \in DOMAIN instances |->
                      IF i \in node[n].held
                      THEN [instances[i] EXCEPT !.at = "past", !.done = @ + 1]
                      ELSE instances[i]]
  BY DEF CommitCompletion
<1>2. /\ instances \in Seq(Instance) /\ DOMAIN instances = 1 .. Len(instances)
      /\ Len(instances) \in Nat
  BY LenProperties DEF Inv, ItemInv
<1>3. \A i \in DOMAIN instances : instances[i] \in Instance
  BY <1>2
<1>4. ASSUME NEW i \in node[n].held
      PROVE  /\ i \in DOMAIN instances /\ instances[i].at = "task" /\ instances[i].done = 0
             /\ instances'[i].key = instances[i].key /\ instances'[i].at = "past"
             /\ instances'[i].done = 1 /\ instances'[i] \in Instance
  <2>1. i \in DOMAIN instances /\ instances[i].at = "task" /\ Sound(instances[i])
    BY DEF Inv, ItemInv
  <2>2. instances[i].done = 0 /\ instances[i] \in Instance
    BY <1>3, <2>1 DEF Sound
  <2>3. PICK e \in Instance : e = instances[i]
    BY <2>2
  <2>4. instances'[i] = [e EXCEPT !.at = "past", !.done = e.done + 1]
    BY <1>1, <2>1, <2>3
  <2>5. e.done + 1 = 1 /\ 1 \in Nat
    BY <2>2, <2>3
  <2>6. instances'[i] = [[e EXCEPT !.at = "past"] EXCEPT !.done = 1]
    BY <2>4, <2>5
  <2>7. [e EXCEPT !.at = "past"] \in Instance
    BY DEF Instance
  <2>8. /\ instances'[i].key = e.key /\ instances'[i].at = "past"
        /\ instances'[i].done = 1 /\ instances'[i] \in Instance
    BY <2>5, <2>6, <2>7 DEF Instance
  <2> QED
    BY <2>1, <2>2, <2>3, <2>8
<1>5. \A i \in DOMAIN instances \ node[n].held : instances'[i] = instances[i]
  BY <1>1
<1>6. instances' \in Seq(Instance)
  <2>1. \A i \in DOMAIN instances : instances'[i] \in Instance
    BY <1>3, <1>4, <1>5
  <2>2. instances' \in [1 .. Len(instances) -> Instance]
    BY <1>1, <1>2, <2>1
  <2> QED
    BY <1>2, <2>2, SeqDef
<1> QED
  BY <1>1, <1>4, <1>5, <1>6

LEMMA CommitCompletionKeeps ==
  ASSUME Inv, NEW n \in Nodes, NEW id \in Turn(n), CommitCompletion(n, id)
  PROVE  Inv'
<1>1. /\ UNCHANGED <<rows, used>> /\ node[n].phase # "none"
      /\ waiting' = [x \in AllIds |-> waiting[x] \ node[n].held]
      /\ Dispatched(n, id, Succeeded(node[n].work[id])) /\ Affected(id)
  BY DEF CommitCompletion, Leave
<1>2. id \in AllIds
  BY OneTurn DEF Inv
<1>3. EffectsGrow /\ effects'[id] # 0
  BY <1>1, <1>2, AffectedGrow DEF Inv
<1>4. PICK q \in DispatchOutcomes(rows[id]) : Dispatched(n, id, q)
  BY <1>1, OutcomeOfWork DEF Inv
<1>5. /\ instances' \in Seq(Instance) /\ DOMAIN instances' = DOMAIN instances
      /\ \A i \in DOMAIN instances \ node[n].held : instances'[i] = instances[i]
      /\ \A i \in node[n].held : instances'[i].at = "past" /\ instances'[i].done = 1
  BY CompletedInstances
<1>6. \A i \in DOMAIN instances' : Sound(instances'[i])
  BY <1>5 DEF Inv, ItemInv, Sound
<1>7. \A m \in Nodes \ {n} : \A i \in node[m].held : instances'[i].at = "task"
  BY <1>5 DEF Inv, ItemInv
<1>8. WaitersLeave
  <2>1. waiting \in [AllIds -> SUBSET DOMAIN instances] /\ DOMAIN rows \subseteq AllIds
    BY DEF Inv, HonestInv, RowInv, RowTypes
  <2> QED
    BY <1>1, <1>5, <2>1 DEF WaitersLeave
<1>9. Honest(id, q)'
  BY <1>3 DEF Honest
<1> QED
  BY <1>1, <1>3, <1>4, <1>5, <1>6, <1>7, <1>8, <1>9, EndKeeps DEF Inv

\* A completion that found nobody listening has nobody waiting for it.
LEMMA NothingCompletedKeeps ==
  ASSUME Inv, NEW n \in Nodes, NEW id \in Turn(n), NothingCompleted(n, id)
  PROVE  Inv'
<1> DEFINE r == node[n].work[id]
<1>1. /\ UNCHANGED <<rows, used, instances, effects, waiting>>
      /\ node[n].phase = "completing" /\ node[n].todo = {} /\ node[n].held = {}
  BY DEF NothingCompleted
<1>2. r = Tried(rows[id]) /\ rows[id] \in InboxRow /\ id \in AllIds
  BY <1>1, OneTurn DEF Inv
<1>3. CASE Dispatched(n, id, Rejected(r, "duplicate"))
  <2>1. /\ Rejected(r, "duplicate") \in DispatchOutcomes(rows[id])
        /\ Rejected(r, "duplicate").status = "FAILED"
    BY <1>1, <1>2, OutcomeOfWork, OutcomeFields DEF Inv
  <2> QED
    BY <1>1, <1>3, <2>1, EndOnly DEF Inv, Honest
<1>4. CASE Dispatched(n, id, Succeeded(r))
  <2>1. waiting[id] = {}
    BY <1>1 DEF Inv, HonestInv, Passing
  <2>2. Succeeded(r) \in DispatchOutcomes(rows[id]) /\ Succeeded(r).event = rows[id].event
    BY <1>1, <1>2, OutcomeOfWork, OutcomeFields DEF Inv
  <2>3. rows[id].event = "complete"
    BY <1>1 DEF Inv, HonestInv, Passing
  <2> QED
    BY <1>1, <1>4, <2>1, <2>2, <2>3, EndOnly DEF Inv, Honest
<1> QED
  BY <1>3, <1>4 DEF NothingCompleted

LEMMA FailKeeps ==
  ASSUME Inv, NEW n \in Nodes, NEW id \in Turn(n), Fail(n, id)
  PROVE  Inv'
<1> DEFINE r == node[n].work[id]
<1>1. /\ UNCHANGED <<rows, used, instances, effects, waiting>> /\ node[n].phase # "none"
      /\ Dispatched(n, id, Failed(r))
  BY DEF Fail
<1>2. r = Tried(rows[id]) /\ rows[id] \in InboxRow
  BY <1>1, OneTurn DEF Inv
<1>3. Failed(r) \in DispatchOutcomes(rows[id]) /\ Failed(r).status # "SUCCESS"
  BY <1>1, <1>2, OutcomeOfWork, OutcomeFields DEF Inv
<1> QED
  BY <1>1, <1>3, EndOnly DEF Inv, Honest


\* Rows that nobody has locked may change, and those of a tick that ends.
LEMMA HonestRows ==
  ASSUME RowInv, HonestInv, instances' = instances, effects' = effects,
         waiting' \in [AllIds -> SUBSET DOMAIN instances],
         \A id \in DOMAIN rows' :
           /\ Honest(id, rows[id])'
           /\ waiting'[id] \subseteq Listening(Correlation(rows'[id])),
         \A n \in Nodes :
           \/ node'[n] = IdleNode
           \/ /\ node'[n] = node[n]
              /\ \A id \in DOMAIN node[n].work : rows'[id] = rows[id] /\ waiting'[id] = waiting[id]
  PROVE  HonestInv'
<1>1. ASSUME NEW n \in Nodes
      PROVE  Faithful(n)' /\ Passing(n)'
  <2>1. CASE node'[n] = IdleNode
    <3>1. DOMAIN node'[n].work = {} /\ node'[n].phase = "none"
      BY <2>1, IdleTick DEF IdleNode
    <3> QED
      BY <3>1 DEF Faithful, Passing
  <2>2. CASE /\ node'[n] = node[n]
             /\ \A id \in DOMAIN node[n].work : rows'[id] = rows[id] /\ waiting'[id] = waiting[id]
    <3>1. Faithful(n)'
      BY <2>2 DEF HonestInv, Faithful, Honest
    <3>2. \A id \in Turn(n) : id \in DOMAIN node[n].work
      BY DEF Turn, RowInv, Working
    <3>3. Passing(n)'
      BY <2>2, <3>2 DEF HonestInv, Passing, Turn
    <3> QED
      BY <3>1, <3>3
  <2> QED
    BY <2>1, <2>2
<1>2. effects' \in [AllIds -> Nat]
  BY DEF HonestInv
<1>3. ASSUME NEW id \in DOMAIN rows'
      PROVE  waiting'[id] \subseteq Listening(Correlation(rows[id]))'
  BY <1>3 DEF Listening, Running, Correlation
<1> QED
  BY <1>1, <1>2, <1>3 DEF HonestInv

LEMMA PollKeeps ==
  ASSUME Inv, NEW n \in Nodes, Poll(n)
  PROVE  Inv'
<1>1. UNCHANGED <<rows, used, instances, effects, waiting>> /\ node \in [Nodes -> Ticks]
  BY DEF Poll, Inv, RowInv, RowTypes
<1>2. PICK batch \in SUBSET Lockable :
        node' = [node EXCEPT ![n] = [IdleNode EXCEPT
                   !.batch = batch, !.work = [id \in batch |-> rows[id]]]]
  BY DEF Poll
<1> DEFINE t == [IdleNode EXCEPT !.batch = batch, !.work = [id \in batch |-> rows[id]]]
<1>3. /\ t.todo = {} /\ t.held = {} /\ t.renewed = {} /\ t.phase = "none"
      /\ t.work = [id \in batch |-> rows[id]]
  BY DEF IdleNode
<1>4. node' = [node EXCEPT ![n] = t]
  BY <1>2
<1> HIDE DEF t
<1>5. /\ node'[n].todo = {} /\ node'[n].held = {} /\ node'[n].renewed = {}
      /\ node'[n].phase = "none" /\ node'[n].work = [id \in batch |-> rows[id]]
      /\ \A m \in Nodes \ {n} : node'[m] = node[m]
  BY <1>1, <1>3, <1>4
<1>6. ItemInv'
  <2>1. /\ instances' \in Seq(Instance) /\ DOMAIN instances \subseteq DOMAIN instances'
        /\ \A i \in DOMAIN instances' : Sound(instances'[i])
        /\ \A m \in Nodes \ {n} : \A i \in node[m].held : instances'[i].at = "task"
    BY <1>1 DEF Inv, ItemInv
  <2> QED
    BY <1>5, <2>1, ItemsRest DEF Inv
<1>7. WaitersLeave /\ EffectsGrow
  BY <1>1, SameWaiters DEF Inv
<1>8. batch \subseteq DOMAIN rows
  BY DEF Lockable
<1>9. DOMAIN node'[n].work = batch /\ \A id \in batch : node'[n].work[id] = rows[id]
  BY <1>5
<1>10. Faithful(n)'
  BY <1>1, <1>8, <1>9 DEF Inv, HonestInv, Faithful, Honest
<1>11. Passing(n)'
  BY <1>5 DEF Passing
<1> QED
  BY <1>1, <1>5, <1>6, <1>7, <1>10, <1>11, HonestTick, PollRows DEF Inv

\* A tick that is over has no work items.
LEMMA ItemsOver ==
  ASSUME Inv, NEW n \in Nodes, node' = [node EXCEPT ![n] = IdleNode], instances' = instances
  PROVE  /\ ItemInv' /\ node'[n] = IdleNode
         /\ \A m \in Nodes \ {n} : node'[m] = node[m]
<1>1. node'[n] = IdleNode /\ \A m \in Nodes \ {n} : node'[m] = node[m]
  BY DEF Inv, RowInv, RowTypes
<1>2. node'[n].todo = {} /\ node'[n].held = {} /\ node'[n].renewed = {}
  BY <1>1 DEF IdleNode
<1>3. /\ instances' \in Seq(Instance) /\ DOMAIN instances \subseteq DOMAIN instances'
      /\ \A i \in DOMAIN instances' : Sound(instances'[i])
      /\ \A m \in Nodes \ {n} : \A i \in node[m].held : instances'[i].at = "task"
  BY DEF Inv, ItemInv
<1> QED
  BY <1>1, <1>2, <1>3, ItemsRest DEF Inv

LEMMA CommitBatchKeeps ==
  ASSUME Inv, NEW n \in Nodes, CommitBatch(n)
  PROVE  Inv'
<1>1. /\ UNCHANGED <<used, instances, effects, waiting>>
      /\ node' = [node EXCEPT ![n] = IdleNode]
      /\ DOMAIN rows' = DOMAIN rows
      /\ \A id \in DOMAIN rows :
           rows'[id] = IF id \in DOMAIN node[n].work THEN node[n].work[id] ELSE rows[id]
  BY DEF CommitBatch
<1>2. ItemInv' /\ node'[n] = IdleNode /\ \A m \in Nodes \ {n} : node'[m] = node[m]
  BY <1>1, ItemsOver
<1>3. ASSUME NEW id \in DOMAIN rows'
      PROVE  Honest(id, rows[id])' /\ waiting'[id] \subseteq Listening(Correlation(rows'[id]))
  <2>1. /\ rows'[id].key = rows[id].key /\ rows'[id].event = rows[id].event
        /\ rows'[id].payload = rows[id].payload /\ id \in DOMAIN rows
    BY <1>1 DEF Inv, HonestInv, Faithful
  <2>2. Correlation(rows'[id]) = Correlation(rows[id])
    BY <2>1 DEF Correlation
  <2>3. Honest(id, rows[id])'
    BY <1>1, <2>1 DEF Inv, HonestInv, Faithful, Honest
  <2> QED
    BY <1>1, <2>1, <2>2, <2>3 DEF Inv, HonestInv
<1>4. \A m \in Nodes \ {n} : \A id \in DOMAIN node[m].work : rows'[id] = rows[id]
  BY <1>1 DEF Inv, RowInv, Locked
<1>5. waiting' \in [AllIds -> SUBSET DOMAIN instances]
  BY <1>1 DEF Inv, HonestInv
<1>6. HonestInv'
  BY <1>1, <1>2, <1>3, <1>4, <1>5, HonestRows DEF Inv
<1> QED
  BY <1>2, <1>6, CommitBatchRows DEF Inv

LEMMA CrashKeeps ==
  ASSUME Inv, NEW n \in Nodes, Crash(n)
  PROVE  Inv'
<1>1. /\ UNCHANGED <<rows, used, instances, effects, waiting>>
      /\ node' = [node EXCEPT ![n] = IdleNode]
  BY DEF Crash, AfterCrash
<1>2. ItemInv' /\ node'[n] = IdleNode /\ \A m \in Nodes \ {n} : node'[m] = node[m]
  BY <1>1, ItemsOver
<1>3. ASSUME NEW id \in DOMAIN rows'
      PROVE  Honest(id, rows[id])' /\ waiting'[id] \subseteq Listening(Correlation(rows'[id]))
  BY <1>1 DEF Inv, HonestInv, Honest
<1>4. \A m \in Nodes :
        \/ node'[m] = IdleNode
        \/ /\ node'[m] = node[m]
           /\ \A id \in DOMAIN node[m].work : rows'[id] = rows[id] /\ waiting'[id] = waiting[id]
  BY <1>1, <1>2
<1>5. waiting' \in [AllIds -> SUBSET DOMAIN instances] /\ instances' = instances /\ effects' = effects
  BY <1>1 DEF Inv, HonestInv
<1>6. RowInv /\ HonestInv
  BY DEF Inv
<1>7. HonestInv'
  BY <1>3, <1>4, <1>5, <1>6, HonestRows
<1> QED
  BY <1>2, <1>7, CrashRows DEF Inv


\* An instance goes its way, and the tick of no node goes on.
LEMMA InstanceKeeps ==
  ASSUME Inv, NEW i \in DOMAIN instances, NEW e \in Instance, Sound(e),
         instances' = [instances EXCEPT ![i] = e], e.key = instances[i].key,
         i \in TaskLocks => e.at = "task",
         UNCHANGED <<rows, used, effects>>,
         waiting' \in [AllIds -> SUBSET DOMAIN instances],
         \A id \in AllIds : waiting'[id] \subseteq waiting[id],
         e.at = instances[i].at \/ \A id \in DOMAIN rows : i \notin waiting'[id],
         node' \in [Nodes -> Ticks],
         \A n \in Nodes :
           /\ node'[n].batch = node[n].batch /\ node'[n].work = node[n].work
           /\ node'[n].phase = node[n].phase
           /\ node'[n].todo = node[n].todo /\ node'[n].held = node[n].held
           /\ node'[n].renewed \subseteq DOMAIN instances
  PROVE  Inv'
<1>1. instances \in Seq(Instance)
  BY DEF Inv, ItemInv
<1>2. /\ instances' \in Seq(Instance) /\ DOMAIN instances' = DOMAIN instances
      /\ instances'[i] = e /\ \A j \in DOMAIN instances \ {i} : instances'[j] = instances[j]
  BY <1>1, ExceptSeq
<1>3. RowInv'
  BY SameWork DEF Inv
<1>4. ItemInv'
  BY <1>2 DEF Inv, ItemInv, Sound, TaskLocks
<1>5. WaitersLeave
  BY <1>2 DEF WaitersLeave, Inv, RowInv, RowTypes
<1>6. EffectsGrow
  BY DEF EffectsGrow, Inv, HonestInv
<1>7. ASSUME NEW n \in Nodes
      PROVE  HonestInv'
  <2>1. Faithful(n)'
    <3>1. ASSUME NEW id \in DOMAIN node[n].work
          PROVE  Honest(id, node[n].work[id])'
      <4>1. PICK r : r = node[n].work[id]
        OBVIOUS
      <4>2. Honest(id, r) /\ id \in AllIds
        BY <4>1 DEF Inv, HonestInv, Faithful, RowInv, RowTypes, Locked
      <4>3. Honest(id, r)'
        BY <1>5, <1>6, <4>2, HonestStays DEF Inv
      <4> QED
        BY <4>1, <4>3 DEF Honest
    <3> QED
      BY <3>1 DEF Inv, HonestInv, Faithful
  <2>2. Passing(n)'
    <3>1. \A id \in Turn(n) : id \in AllIds
      BY OneTurn DEF Inv
    <3> QED
      BY <3>1 DEF Inv, HonestInv, Passing, Turn
  <2> QED
    BY <1>5, <1>6, <2>1, <2>2, HonestTick DEF Inv
<1>8. CASE Nodes = {}
  <2>1. AllIds = {}
    BY <1>8 DEF AllIds
  <2> QED
    BY <1>2, <1>3, <1>4, <1>5, <1>6, <1>8, <2>1 DEF Inv, HonestInv, WaitersLeave, EffectsGrow, RowInv, RowTypes
<1> QED
  BY <1>3, <1>4, <1>7, <1>8 DEF Inv

\* Those that wait for a request in the inbox are at their work item.
LEMMA WaitersAtTask ==
  ASSUME Inv, NEW id \in DOMAIN rows, NEW i \in waiting[id]
  PROVE  instances[i].at = "task"
BY DEF Inv, HonestInv, Listening

LEMMA AnInstance ==
  ASSUME Inv, NEW i \in DOMAIN instances
  PROVE  instances[i] \in Instance /\ Sound(instances[i])
BY ElementOfSeq, LenProperties DEF Inv, ItemInv

LEMMA ClaimKeeps ==
  ASSUME Inv, NEW i \in DOMAIN instances, Claim(i)
  PROVE  Inv'
<1> DEFINE e == [instances[i] EXCEPT !.claimed = ~instances[i].claimed]
<1>1. instances[i] \in Instance /\ Sound(instances[i])
  BY AnInstance
<1>2. e \in Instance /\ Sound(e) /\ e.key = instances[i].key /\ e.at = instances[i].at
  BY <1>1 DEF Instance, Sound
<1>3. instances' = [instances EXCEPT ![i] = e]
  BY DEF Claim
<1> HIDE DEF e
<1>4. /\ UNCHANGED <<rows, used, node, effects, waiting>> /\ i \notin TaskLocks
      /\ waiting \in [AllIds -> SUBSET DOMAIN instances] /\ node \in [Nodes -> Ticks]
      /\ \A n \in Nodes : node[n].renewed \subseteq DOMAIN instances
  BY DEF Claim, Inv, HonestInv, RowInv, RowTypes, ItemInv
<1> QED
  BY <1>2, <1>3, <1>4, InstanceKeeps

\* The instance is where it was not before, and nobody waits for it there.
LEMMA GoesKeeps ==
  ASSUME Inv, NEW i \in DOMAIN instances,
         NEW to \in {"task", "suspended", "over"}, Goes(i, to),
         to # "over" => instances[i].at \in {"ahead", "task", "suspended"},
         i \notin TaskLocks \/ to = "task",
         UNCHANGED <<rows, used, effects>>,
         \/ waiting' = waiting /\ instances[i].at # "task"
         \/ Leave({i}),
         node' \in [Nodes -> Ticks],
         \A n \in Nodes :
           /\ node'[n].batch = node[n].batch /\ node'[n].work = node[n].work
           /\ node'[n].phase = node[n].phase
           /\ node'[n].todo = node[n].todo /\ node'[n].held = node[n].held
           /\ node'[n].renewed \subseteq DOMAIN instances
  PROVE  Inv'
<1> DEFINE e == [instances[i] EXCEPT !.at = to]
<1>1. instances[i] \in Instance /\ Sound(instances[i])
  BY AnInstance
<1>2. e \in Instance /\ e.key = instances[i].key /\ e.at = to /\ e.done = instances[i].done
  BY <1>1 DEF Instance
<1>3. instances' = [instances EXCEPT ![i] = e]
  BY DEF Goes
<1> HIDE DEF e
<1>4. Sound(e)
  BY <1>1, <1>2 DEF Sound
<1>5. waiting \in [AllIds -> SUBSET DOMAIN instances] /\ DOMAIN rows \subseteq AllIds
  BY DEF Inv, HonestInv, RowInv, RowTypes
<1>6. /\ waiting' \in [AllIds -> SUBSET DOMAIN instances]
      /\ \A id \in AllIds : waiting'[id] \subseteq waiting[id]
      /\ \A id \in DOMAIN rows : i \notin waiting'[id]
  <2>1. CASE waiting' = waiting /\ instances[i].at # "task"
    BY <1>5, <2>1, WaitersAtTask
  <2>2. CASE Leave({i})
    BY <1>5, <2>2 DEF Leave
  <2> QED
    BY <2>1, <2>2
<1> QED
  BY <1>2, <1>3, <1>4, <1>6, InstanceKeeps

LEMMA InstancesKeep ==
  ASSUME Inv, NEW i \in DOMAIN instances, Arrive(i) \/ Suspend(i) \/ Resume(i) \/ Finish(i)
  PROVE  Inv'
<1>1. /\ node \in [Nodes -> Ticks]
      /\ \A n \in Nodes : node[n].todo \cup node[n].renewed \subseteq DOMAIN instances
  BY DEF Inv, RowInv, RowTypes, ItemInv
<1>2. CASE Arrive(i)
  BY <1>1, <1>2, GoesKeeps DEF Arrive
<1>3. CASE Suspend(i)
  BY <1>1, <1>3, GoesKeeps DEF Suspend
<1>4. CASE Finish(i)
  BY <1>1, <1>4, GoesKeeps DEF Finish
<1>5. CASE Resume(i)
  <2>1. ASSUME NEW n \in Nodes
        PROVE  /\ node'[n] \in Ticks
               /\ node'[n].batch = node[n].batch /\ node'[n].work = node[n].work
               /\ node'[n].phase = node[n].phase
               /\ node'[n].todo = node[n].todo /\ node'[n].held = node[n].held
               /\ node'[n].renewed \subseteq DOMAIN instances
    <3>1. PICK t \in Ticks : t = node[n]
      BY <1>1
    <3>2. PICK more : more = node[n].renewed \cup (node[n].todo \cap {i})
      OBVIOUS
    <3>3. node'[n] = [t EXCEPT !.renewed = more]
      BY <1>5, <3>1, <3>2 DEF Resume
    <3>4. more \subseteq DOMAIN instances /\ more \subseteq Nat
      <4>1. DOMAIN instances \subseteq Nat
        BY DEF Inv, ItemInv
      <4> QED
        BY <1>1, <3>2, <4>1
    <3> QED
      BY <3>1, <3>3, <3>4 DEF Ticks
  <2>2. node' \in [Nodes -> Ticks]
    BY <1>5, <2>1 DEF Resume
  <2>3. /\ Goes(i, "task") /\ instances[i].at = "suspended"
        /\ UNCHANGED <<rows, used, effects, waiting>>
    BY <1>5 DEF Resume
  <2> QED
    BY <2>1, <2>2, <2>3, GoesKeeps
<1> QED
  BY <1>2, <1>3, <1>4, <1>5


\* Rows that are inserted, used again or deleted are nobody's.
LEMMA NobodysRows ==
  ASSUME Inv, RowInv', UNCHANGED <<node, instances, effects>>,
         waiting' \in [AllIds -> SUBSET DOMAIN instances],
         \A id \in RowLocks : rows'[id] = rows[id] /\ waiting'[id] = waiting[id],
         \A id \in DOMAIN rows' :
           /\ Honest(id, rows[id])'
           /\ waiting'[id] \subseteq Listening(Correlation(rows'[id]))
  PROVE  Inv'
<1>1. ItemInv'
  BY DEF Inv, ItemInv
<1>2. \A m \in Nodes :
        \/ node'[m] = IdleNode
        \/ /\ node'[m] = node[m]
           /\ \A id \in DOMAIN node[m].work : rows'[id] = rows[id] /\ waiting'[id] = waiting[id]
  BY DEF RowLocks
<1>3. HonestInv'
  BY <1>2, HonestRows DEF Inv
<1> QED
  BY <1>1, <1>3 DEF Inv

LEMMA CleanupKeeps ==
  ASSUME Inv, Cleanup
  PROVE  Inv'
<1>1. UNCHANGED <<used, node, instances, effects, waiting>>
  BY DEF Cleanup
<1>2. PICK old \in SUBSET {id \in DOMAIN rows : rows[id].processed} :
        rows' = [id \in DOMAIN rows \ old |-> rows[id]]
  BY DEF Cleanup
<1>3. DOMAIN rows' = DOMAIN rows \ old /\ \A id \in DOMAIN rows' : rows'[id] = rows[id]
  BY <1>2
<1>4. \A id \in RowLocks : rows'[id] = rows[id]
  BY <1>2, <1>3 DEF RowLocks, Inv, RowInv, Locked
<1>5. \A id \in DOMAIN rows' : /\ Honest(id, rows[id])'
                               /\ waiting'[id] \subseteq Listening(Correlation(rows'[id]))
  BY <1>1, <1>3 DEF Inv, HonestInv, Honest
<1>6. waiting' \in [AllIds -> SUBSET DOMAIN instances]
  BY <1>1 DEF Inv, HonestInv
<1>7. RowInv'
  BY CleanupRows DEF Inv
<1> QED
  BY <1>1, <1>4, <1>5, <1>6, <1>7, NobodysRows

\* A row that a request writes, waited for by those that listen now.
LEMMA NewRowKeeps ==
  ASSUME Inv, RowInv', UNCHANGED <<node, instances, effects>>,
         NEW id \in AllIds \ RowLocks, NEW row, row.status # "SUCCESS",
         waiting' = [waiting EXCEPT ![id] = Awaiting(row)],
         rows'[id] = row, \A x \in DOMAIN rows' \ {id} : x \in DOMAIN rows /\ rows'[x] = rows[x]
  PROVE  Inv'
<1>1. waiting \in [AllIds -> SUBSET DOMAIN instances] /\ DOMAIN rows \subseteq AllIds
  BY DEF Inv, HonestInv, RowInv, RowTypes
<1>2. Awaiting(row) \subseteq Listening(Correlation(row)) /\ Awaiting(row) \subseteq DOMAIN instances
  BY DEF Awaiting, Listening, Running
<1>3. /\ waiting' \in [AllIds -> SUBSET DOMAIN instances] /\ waiting'[id] = Awaiting(row)
      /\ \A x \in AllIds \ {id} : waiting'[x] = waiting[x]
  BY <1>1, <1>2
<1>4. \A x \in RowLocks : x \in DOMAIN rows' /\ x # id
  BY DEF RowLocks, Inv, RowInv, Locked
<1>5. \A x \in RowLocks : rows'[x] = rows[x] /\ waiting'[x] = waiting[x]
  BY <1>1, <1>3, <1>4
<1>6. ASSUME NEW x \in DOMAIN rows'
      PROVE  Honest(x, rows[x])' /\ waiting'[x] \subseteq Listening(Correlation(rows'[x]))
  <2>1. CASE x = id
    BY <1>2, <1>3, <2>1 DEF Honest
  <2>2. CASE x # id
    <3>1. x \in DOMAIN rows /\ rows'[x] = rows[x] /\ waiting'[x] = waiting[x]
      BY <1>1, <1>3, <2>2
    <3> QED
      BY <3>1 DEF Inv, HonestInv, Honest
  <2> QED
    BY <2>1, <2>2
<1> QED
  BY <1>3, <1>5, <1>6, NobodysRows

LEMMA InsertKeeps ==
  ASSUME Inv, RowInv', NEW n \in Nodes, NEW id \in Ids[n] \ used, NEW row,
         row.status # "SUCCESS", Insert(n, id, row), UNCHANGED <<node, instances, effects>>
  PROVE  Inv'
<1>1. /\ waiting' = [waiting EXCEPT ![id] = Awaiting(row)]
      /\ DOMAIN rows' = DOMAIN rows \cup {id}
      /\ \A x \in DOMAIN rows' : rows'[x] = IF x = id THEN row ELSE rows[x]
  BY DEF Insert
<1>2. id \in AllIds \ RowLocks
  BY DEF AllIds, RowLocks, Inv, RowInv, RowTypes, Locked
<1> QED
  BY <1>1, <1>2, NewRowKeeps

LEMMA NewIsPending ==
  ASSUME NEW event, NEW key, NEW payload
  PROVE  NewRow(event, key, payload).status # "SUCCESS"
BY DEF NewRow

LEMMA EnqueueKeeps ==
  ASSUME Inv, NEW n \in Nodes, NEW event \in {"start", "complete"},
         NEW key \in Keys, NEW payload \in Payloads, Enqueue(n, event, key, payload)
  PROVE  Inv'
<1> DEFINE row == NewRow(event, key, payload)
<1>1. RowInv'
  BY EnqueueRows DEF Inv
<1>2. UNCHANGED <<node, instances, effects>>
  BY DEF Enqueue
<1>3. row.status # "SUCCESS"
  BY NewIsPending
<1> HIDE DEF row
<1>4. CASE \E id \in Ids[n] \ used : Insert(n, id, row)
  BY <1>1, <1>2, <1>3, <1>4, InsertKeeps
<1>5. CASE \E id \in DOMAIN rows \ RowLocks :
             /\ rows' = [rows EXCEPT ![id] = row]
             /\ waiting' = [waiting EXCEPT ![id] = Awaiting(row)]
  <2>1. PICK id \in DOMAIN rows \ RowLocks :
             /\ rows' = [rows EXCEPT ![id] = row]
             /\ waiting' = [waiting EXCEPT ![id] = Awaiting(row)]
    BY <1>5
  <2>2. /\ DOMAIN rows' = DOMAIN rows /\ rows'[id] = row
        /\ \A x \in DOMAIN rows \ {id} : rows'[x] = rows[x]
    BY <2>1
  <2>3. id \in AllIds \ RowLocks
    BY DEF Inv, RowInv, RowTypes
  <2> QED
    BY <1>1, <1>2, <1>3, <2>1, <2>2, <2>3, NewRowKeeps
<1> QED
  BY <1>4, <1>5 DEF Enqueue, SameRequest, row

LEMMA OwnKeyKeeps ==
  ASSUME Inv, NEW n \in Nodes, NEW event \in {"start", "complete"},
         NEW payload \in Payloads, EnqueueWithOwnKey(n, event, payload)
  PROVE  Inv'
<1>1. PICK id \in Ids[n] \ used : Insert(n, id, NewRow(event, OwnKey[id], payload))
  BY DEF EnqueueWithOwnKey
<1>2. UNCHANGED <<node, instances, effects>> /\ RowInv'
  BY OwnKeyRows DEF EnqueueWithOwnKey, Inv
<1> QED
  BY <1>1, <1>2, NewIsPending, InsertKeeps


-----------------------------------------------------------------------------
(* The theorems.                                                           *)

Counted == /\ requests \in 0 .. MaxRequests /\ faults \in 0 .. MaxFaults
           /\ crashes \in 0 .. MaxCrashes

LEMMA InitInv == Init => Inv /\ Counted
<1> SUFFICES ASSUME Init PROVE Inv /\ Counted
  OBVIOUS
<1>1. /\ DOMAIN rows = {} /\ used = {}
      /\ \A n \in Nodes : node[n] = IdleNode
      /\ effects \in [AllIds -> Nat] /\ waiting \in [AllIds -> SUBSET DOMAIN instances]
  BY DEF Init
<1>2. node \in [Nodes -> Ticks]
  BY IdleTick DEF Init
<1>3. /\ DOMAIN IdleNode.work = {} /\ IdleNode.batch = {} /\ IdleNode.phase = "none"
      /\ IdleNode.todo = {} /\ IdleNode.held = {} /\ IdleNode.renewed = {}
  BY IdleTick DEF IdleNode
<1>4. RowInv
  BY <1>1, <1>2, <1>3 DEF RowInv, RowTypes, Locked, Working
<1>5. instances \in Seq(Instance) /\ DOMAIN instances = {}
  BY DEF Init
<1>6. ItemInv
  BY <1>1, <1>3, <1>5 DEF ItemInv
<1>7. HonestInv
  BY <1>1, <1>3 DEF HonestInv, Faithful, Passing
<1>8. Counted
  BY BoundAssumption DEF Init, Counted
<1> QED
  BY <1>4, <1>6, <1>7, <1>8 DEF Inv

LEMMA NextInv == Inv /\ [Next]_vars => Inv'
<1> SUFFICES ASSUME Inv, [Next]_vars PROVE Inv'
  OBVIOUS
<1>1. ASSUME NEW n \in Nodes, Request(n) PROVE Inv'
  BY <1>1, EnqueueKeeps, OwnKeyKeeps DEF Request
<1>2. ASSUME NEW n \in Nodes, Tick(n) PROVE Inv'
  BY <1>2, PollKeeps, CommitBatchKeeps, DispatchKeeps, LockTaskKeeps,
     CommitStartKeeps, CommitCompletionKeeps, NothingCompletedKeeps DEF Tick
<1>3. ASSUME NEW n \in Nodes, Crash(n) \/ \E id \in Turn(n) : Fail(n, id) PROVE Inv'
  BY <1>3, CrashKeeps, FailKeeps
<1>4. ASSUME NEW i \in DOMAIN instances,
             Arrive(i) \/ Claim(i) \/ Suspend(i) \/ Resume(i) \/ Finish(i)
      PROVE  Inv'
  BY <1>4, ClaimKeeps, InstancesKeep
<1>5. CASE Cleanup
  BY <1>5, CleanupKeeps
<1>6. CASE UNCHANGED vars
  <2>1. UNCHANGED <<rows, used, node, instances, effects, waiting>>
    BY <1>6 DEF vars
  <2>2. RowInv'
    BY <2>1 DEF Inv, RowInv, RowTypes, Locked, Working, Current, Turn, Consistent, Tried
  <2>3. HonestInv'
    BY <2>1 DEF Inv, HonestInv, Faithful, Passing, Turn, Correlation, Honest, Listening, Running
  <2>4. ItemInv'
    BY <2>1 DEF Inv, ItemInv, Sound
  <2> QED
    BY <2>2, <2>3, <2>4 DEF Inv
<1> QED
  BY <1>1, <1>2, <1>3, <1>4, <1>5, <1>6 DEF Next

LEMMA NextCounted == Counted /\ [Next]_vars => Counted'
<1> USE BoundAssumption DEF Counted
<1> SUFFICES ASSUME Counted, [Next]_vars PROVE Counted'
  OBVIOUS
<1>1. ASSUME NEW n \in Nodes, Request(n) PROVE Counted'
  BY <1>1 DEF Request, Enqueue, EnqueueWithOwnKey
<1>2. ASSUME NEW n \in Nodes, Tick(n) PROVE Counted'
  BY <1>2 DEF Tick, Poll, CommitBatch, Dispatch, LockTask, CommitStart,
              CommitCompletion, NothingCompleted
<1>3. ASSUME NEW n \in Nodes, Crash(n) PROVE Counted'
  BY <1>3 DEF Crash
<1>4. ASSUME NEW n \in Nodes, NEW id \in Turn(n), Fail(n, id) PROVE Counted'
  BY <1>4 DEF Fail
<1>5. ASSUME NEW i \in DOMAIN instances,
             Arrive(i) \/ Claim(i) \/ Suspend(i) \/ Resume(i) \/ Finish(i)
      PROVE  Counted'
  BY <1>5 DEF Arrive, Claim, Suspend, Resume, Finish
<1>6. CASE Cleanup
  BY <1>6 DEF Cleanup
<1>7. CASE UNCHANGED vars
  BY <1>7 DEF vars
<1> QED
  BY <1>1, <1>2, <1>3, <1>4, <1>5, <1>6, <1>7 DEF Next

LEMMA AlwaysInv == Spec => [](Inv /\ Counted)
<1>1. Inv /\ Counted /\ [Next]_vars => (Inv /\ Counted)'
  BY NextInv, NextCounted
<1> QED
  BY <1>1, InitInv, PTL DEF Spec

\* The variables keep their types; no row is tried more often than max-try-cnt
\* (InboxPollJob.runBatch).
THEOREM TypeCorrect == Spec => []TypeOK
<1>1. Inv /\ Counted => TypeOK
  <2> SUFFICES ASSUME Inv, Counted PROVE TypeOK
    OBVIOUS
  <2>1. /\ used \subseteq AllIds /\ DOMAIN rows \subseteq used
        /\ \A id \in DOMAIN rows : rows[id] \in InboxRow
        /\ DOMAIN node = Nodes
    BY DEF Inv, RowInv, RowTypes
  <2>2. instances \in Seq(Instance)
    BY DEF Inv, ItemInv, Instance
  <2>3. effects \in [AllIds -> Nat] /\ waiting \in [AllIds -> SUBSET DOMAIN instances]
    BY DEF Inv, HonestInv
  <2>4. ASSUME NEW n \in Nodes
        PROVE  /\ node[n].batch \subseteq DOMAIN node[n].work
               /\ DOMAIN node[n].work \subseteq DOMAIN rows
               /\ \A id \in DOMAIN node[n].work : node[n].work[id] \in InboxRow
               /\ node[n].phase \in {"none", "starting", "completing"}
               /\ node[n].todo \cup node[n].held \cup node[n].renewed \subseteq DOMAIN instances
    <3>1. node[n].work \in Works /\ node[n].phase \in {"none", "starting", "completing"}
      BY DEF Inv, RowInv, RowTypes, Ticks
    <3>2. \A id \in DOMAIN node[n].work : node[n].work[id] \in InboxRow
      BY <3>1, WorkType
    <3> QED
      BY <3>1, <3>2 DEF Inv, RowInv, Locked, Working, ItemInv
  <2> QED
    BY <2>1, <2>2, <2>3, <2>4 DEF TypeOK, Counted, Instance
<1> QED
  BY <1>1, AlwaysInv, PTL

\* What a row says of itself agrees, whatever nodes poll, crash, try again or
\* send again (InboxPollJob.runBatch, EventInboxEnqueueServiceImpl.enqueue).
THEOREM RowsConsistent == Spec => []RowsAreConsistent
<1>1. Inv => RowsAreConsistent
  BY DEF Inv, RowInv, RowTypes, Consistent, RowsAreConsistent
<1> QED
  BY <1>1, AlwaysInv, PTL

\* However many nodes dispatch completions of a work item, and however often they
\* crash, it is completed once (AsyncEventListener.validateHumanActivityCompletion).
THEOREM TaskOnce == Spec => []TaskDoneOnce
<1>1. Inv => TaskDoneOnce
  BY DEF Inv, ItemInv, Sound, TaskDoneOnce
<1> QED
  BY <1>1, AlwaysInv, PTL

\* No start is reported as a success that started nothing, and no completion as one
\* that completed nothing while an instance has been listening to it ever since it
\* came, whatever crashes, retries, claims, suspensions and completions by other nodes
\* come between (AsyncEventListener.processEventMappings).
THEOREM SuccessHasItsEffect == Spec => []SuccessHasEffect
<1>1. Inv => SuccessHasEffect
  BY DEF Inv, HonestInv, Honest, SuccessHasEffect
<1> QED
  BY <1>1, AlwaysInv, PTL


-----------------------------------------------------------------------------
(* One node that polls starts one instance for each key.                   *)

OneNode == \A m, n \in Nodes : m = n

\* Between the question and the start nobody else starts an instance.
Alone ==
  /\ OneInstancePerKey
  /\ \A n \in Nodes : node[n].phase = "starting" =>
       \A id \in Turn(n) : ~Started(Correlation(rows[id]))

LEMMA AloneRest ==
  ASSUME OneNode, NEW n \in Nodes, node'[n].phase # "starting", OneInstancePerKey'
  PROVE  Alone'
BY DEF OneNode, Alone

\* An instance goes its way: it keeps its key, and what was completed in it, and no
\* dispatch begins or ends.
SameInstances ==
  /\ DOMAIN instances' = DOMAIN instances
  /\ \A i \in DOMAIN instances : /\ instances'[i].key = instances[i].key
                                 /\ instances'[i].done = instances[i].done

SamePhases ==
  \A n \in Nodes :
    /\ node'[n].batch = node[n].batch /\ node'[n].work = node[n].work
    /\ node'[n].phase = node[n].phase
    /\ node'[n].todo = node[n].todo /\ node'[n].held = node[n].held

LEMMA OwnWay ==
  ASSUME Inv, NEW i \in DOMAIN instances,
         Arrive(i) \/ Claim(i) \/ Suspend(i) \/ Resume(i) \/ Finish(i)
  PROVE  SameInstances /\ SamePhases
<1>1. instances[i] \in Instance
  BY AnInstance
<1>2. ASSUME NEW e, e.key = instances[i].key, e.done = instances[i].done,
             instances' = [instances EXCEPT ![i] = e]
      PROVE  SameInstances
  BY <1>2 DEF SameInstances
<1>3. ASSUME NEW to, Goes(i, to)
      PROVE  SameInstances
  <2>1. PICK e : e = [instances[i] EXCEPT !.at = to]
    OBVIOUS
  <2>2. e.key = instances[i].key /\ e.done = instances[i].done
    BY <1>1, <2>1 DEF Instance
  <2> QED
    BY <1>2, <1>3, <2>1, <2>2 DEF Goes
<1>4. CASE Claim(i)
  <2>1. PICK e : e = [instances[i] EXCEPT !.claimed = ~@]
    OBVIOUS
  <2>2. e.key = instances[i].key /\ e.done = instances[i].done
    BY <1>1, <2>1 DEF Instance
  <2> QED
    BY <1>2, <1>4, <2>1, <2>2 DEF Claim, SamePhases
<1>5. CASE Arrive(i) \/ Suspend(i) \/ Finish(i)
  BY <1>3, <1>5 DEF Arrive, Suspend, Finish, SamePhases
<1>6. CASE Resume(i)
  <2>1. ASSUME NEW n \in Nodes
        PROVE  /\ node'[n].batch = node[n].batch /\ node'[n].work = node[n].work
               /\ node'[n].phase = node[n].phase
               /\ node'[n].todo = node[n].todo /\ node'[n].held = node[n].held
    <3>1. PICK t \in Ticks : t = node[n]
      BY DEF Inv, RowInv, RowTypes
    <3>2. PICK more : more = node[n].renewed \cup (node[n].todo \cap {i})
      OBVIOUS
    <3>3. node'[n] = [t EXCEPT !.renewed = more]
      BY <1>6, <3>1, <3>2 DEF Resume
    <3> QED
      BY <3>1, <3>3 DEF Ticks
  <2> QED
    BY <1>3, <1>6, <2>1 DEF Resume, SamePhases
<1> QED
  BY <1>4, <1>5, <1>6

\* Nothing that a start depends on changes.
LEMMA AloneSame ==
  ASSUME Inv, Alone, SamePhases, SameInstances, \A id \in RowLocks : rows'[id] = rows[id]
  PROVE  Alone'
<1>1. OneInstancePerKey'
  BY DEF Alone, OneInstancePerKey, SameInstances
<1>2. ASSUME NEW n \in Nodes, node[n].phase = "starting", NEW id \in Turn(n)
      PROVE  ~Started(Correlation(rows[id]))'
  <2>1. id \in DOMAIN node[n].work
    BY OneTurn DEF Inv
  <2>2. rows'[id] = rows[id]
    BY <2>1 DEF RowLocks
  <2>3. ~Started(Correlation(rows[id]))
    BY <1>2 DEF Alone
  <2> QED
    BY <2>2, <2>3 DEF Started, Correlation, SameInstances
<1> QED
  BY <1>1, <1>2 DEF Alone, Turn, SamePhases

LEMMA AloneRequest ==
  ASSUME Inv, Alone, NEW n \in Nodes, Request(n)
  PROVE  Alone'
<1>1. \A x \in RowLocks : x \in DOMAIN rows /\ x \in used
  BY DEF RowLocks, Inv, RowInv, RowTypes, Locked
<1>2. ASSUME NEW id \in Ids[n] \ used, NEW row, Insert(n, id, row)
      PROVE  \A x \in RowLocks : rows'[x] = rows[x]
  BY <1>1, <1>2 DEF Insert
<1>3. ASSUME NEW event, NEW key, NEW payload, Enqueue(n, event, key, payload)
      PROVE  UNCHANGED <<node, instances>> /\ \A x \in RowLocks : rows'[x] = rows[x]
  <2>1. CASE \E id \in Ids[n] \ used : Insert(n, id, NewRow(event, key, payload))
    BY <1>2, <1>3, <2>1 DEF Enqueue
  <2>2. CASE \E id \in DOMAIN rows \ RowLocks :
               rows' = [rows EXCEPT ![id] = NewRow(event, key, payload)]
    BY <1>1, <1>3, <2>2 DEF Enqueue
  <2> QED
    BY <1>3, <2>1, <2>2 DEF Enqueue, SameRequest
<1>4. ASSUME NEW event, NEW payload, EnqueueWithOwnKey(n, event, payload)
      PROVE  UNCHANGED <<node, instances>> /\ \A x \in RowLocks : rows'[x] = rows[x]
  BY <1>2, <1>4 DEF EnqueueWithOwnKey
<1>5. UNCHANGED <<node, instances>> /\ \A x \in RowLocks : rows'[x] = rows[x]
  BY <1>3, <1>4 DEF Request
<1> QED
  BY <1>5, AloneSame DEF SamePhases, SameInstances

LEMMA AloneDispatch ==
  ASSUME OneNode, Inv, Alone, NEW n \in Nodes, NEW id \in Turn(n), Dispatch(n, id)
  PROVE  Alone'
<1> DEFINE key == Correlation(rows[id])
           r == Tried(rows[id])
<1>1. rows' = rows /\ instances' = instances /\ OneInstancePerKey'
  BY DEF Dispatch, Alone, OneInstancePerKey
<1>2. RowInv
  BY DEF Inv
<1>3. CASE ~Started(key) /\ Begun(n, id, r, "starting", {})
  <2>1. Turn(n)' = Turn(n)
    BY <1>2, <1>3, BegunNode DEF Turn
  <2>2. Turn(n) = {id}
    BY <1>2, OneTurn
  <2>3. ~Started(Correlation(rows[id]))'
    BY <1>1, <1>3 DEF Started, Correlation
  <2> QED
    BY <1>1, <2>1, <2>2, <2>3 DEF Alone, OneNode
<1>4. ASSUME NEW todo, Begun(n, id, r, "completing", todo)
      PROVE  Alone'
  <2>1. node'[n].phase = "completing"
    BY <1>2, <1>4, BegunNode
  <2> QED
    BY <1>1, <2>1, AloneRest
<1>5. ASSUME NEW s, Dispatched(n, id, s)
      PROVE  Alone'
  <2>1. node'[n].phase = "none"
    BY <1>2, <1>5, EndedNode
  <2> QED
    BY <1>1, <2>1, AloneRest
<1> QED
  BY <1>2, <1>3, <1>4, <1>5, DispatchCases

LEMMA AloneCommitStart ==
  ASSUME OneNode, Inv, Alone, NEW n \in Nodes, NEW id \in Turn(n), CommitStart(n, id)
  PROVE  Alone'
<1>1. Dispatched(n, id, Succeeded(node[n].work[id])) /\ node[n].phase = "starting"
  BY DEF CommitStart
<1>2. PICK new \in Instance :
        /\ new.key = Correlation(rows[id])
        /\ DOMAIN instances' = DOMAIN instances \cup {Len(instances) + 1}
        /\ \A i \in DOMAIN instances : instances'[i] = instances[i]
        /\ instances'[Len(instances) + 1] = new
  BY StartedInstance
<1>3. ~Started(new.key)
  BY <1>1, <1>2 DEF Alone
<1>4. OneInstancePerKey'
  BY <1>2, <1>3 DEF Alone, OneInstancePerKey, Started
<1>5. node'[n].phase = "none"
  BY <1>1, EndedNode DEF Inv
<1> QED
  BY <1>4, <1>5, AloneRest


LEMMA AloneEnds ==
  ASSUME OneNode, Inv, Alone, NEW n \in Nodes, NEW id \in Turn(n), NEW r,
         Dispatched(n, id, r), DOMAIN instances' = DOMAIN instances,
         \A i \in DOMAIN instances : instances'[i].key = instances[i].key
  PROVE  Alone'
<1>1. node'[n].phase = "none"
  BY EndedNode DEF Inv
<1>2. OneInstancePerKey'
  BY DEF Alone, OneInstancePerKey
<1> QED
  BY <1>1, <1>2, AloneRest

LEMMA AloneTick ==
  ASSUME OneNode, Inv, Alone, NEW n \in Nodes, Tick(n)
  PROVE  Alone'
<1>1. node \in [Nodes -> Ticks]
  BY DEF Inv, RowInv, RowTypes
<1>2. ASSUME instances' = instances
      PROVE  OneInstancePerKey'
  BY <1>2 DEF Alone, OneInstancePerKey
<1>3. CASE Poll(n)
  <2>1. PICK batch \in SUBSET Lockable :
        node' = [node EXCEPT ![n] = [IdleNode EXCEPT
                   !.batch = batch, !.work = [id \in batch |-> rows[id]]]]
    BY <1>3 DEF Poll
  <2>2. node'[n].phase = "none"
    BY <1>1, <2>1 DEF IdleNode
  <2> QED
    BY <1>2, <1>3, <2>2, AloneRest DEF Poll
<1>5. CASE CommitBatch(n)
  <2>1. node'[n].phase = "none"
    BY <1>1, <1>5 DEF CommitBatch, IdleNode
  <2> QED
    BY <1>2, <1>5, <2>1, AloneRest DEF CommitBatch
<1>6. ASSUME NEW id \in Turn(n), LockTask(n, id)
      PROVE  Alone'
  <2>1. CASE \E i \in Wanted(n) :
               node' = [node EXCEPT ![n].todo = @ \ {i}, ![n].held = @ \cup {i}]
    <3>1. node'[n].phase = node[n].phase
      BY <2>1, LockedItem
    <3> QED
      BY <1>2, <1>6, <3>1, AloneRest DEF LockTask
  <2>2. CASE \E r : Dispatched(n, id, r)
    BY <1>6, <2>2, AloneEnds DEF LockTask
  <2> QED
    BY <1>6, <2>1, <2>2 DEF LockTask
<1>7. ASSUME NEW id \in Turn(n), CommitCompletion(n, id)
      PROVE  Alone'
  <2>1. /\ DOMAIN instances' = DOMAIN instances
        /\ \A i \in DOMAIN instances : instances'[i].key = instances[i].key
    BY <1>7, CompletedInstances
  <2> QED
    BY <1>7, <2>1, AloneEnds DEF CommitCompletion
<1>8. ASSUME NEW id \in Turn(n), NothingCompleted(n, id)
      PROVE  Alone'
  BY <1>8, AloneEnds DEF NothingCompleted
<1> QED
  BY <1>3, <1>5, <1>6, <1>7, <1>8, AloneDispatch, AloneCommitStart DEF Tick

LEMMA NextAlone ==
  ASSUME OneNode
  PROVE  Inv /\ Alone /\ [Next]_vars => Alone'
<1> SUFFICES ASSUME Inv, Alone, [Next]_vars PROVE Alone'
  OBVIOUS
<1>1. ASSUME NEW n \in Nodes, Crash(n) PROVE Alone'
  <2>1. node'[n].phase = "none" /\ instances' = instances
    BY <1>1 DEF Crash, AfterCrash, IdleNode, Inv, RowInv, RowTypes
  <2> QED
    BY <2>1, AloneRest DEF Alone, OneInstancePerKey
<1>2. ASSUME NEW n \in Nodes, NEW id \in Turn(n), Fail(n, id) PROVE Alone'
  BY <1>2, AloneEnds DEF Fail
<1>3. ASSUME NEW i \in DOMAIN instances,
             Arrive(i) \/ Claim(i) \/ Suspend(i) \/ Resume(i) \/ Finish(i)
      PROVE  Alone'
  <2>1. SameInstances /\ SamePhases
    BY <1>3, OwnWay
  <2>2. rows' = rows
    BY <1>3 DEF Arrive, Claim, Suspend, Resume, Finish
  <2> QED
    BY <2>1, <2>2, AloneSame
<1>4. CASE Cleanup
  <2>1. \A id \in RowLocks : id \in DOMAIN rows /\ ~rows[id].processed
    BY DEF RowLocks, Inv, RowInv, Locked
  <2>2. \A id \in RowLocks : rows'[id] = rows[id]
    BY <1>4, <2>1 DEF Cleanup
  <2> QED
    BY <1>4, <2>2, AloneSame DEF Cleanup, SamePhases, SameInstances
<1>5. CASE UNCHANGED vars
  BY <1>5, AloneSame DEF vars, SamePhases, SameInstances
<1> QED
  BY <1>1, <1>2, <1>3, <1>4, <1>5, AloneRequest, AloneTick DEF Next

\* Where one node polls, requests with the same key start one instance, whatever
\* crashes and retries come between (AsyncEventListener.processEventMappings); the
\* run race_start shows that with two nodes they may start two.
THEOREM OneInstance ==
  ASSUME OneNode
  PROVE  Spec => []OneInstancePerKey
<1>1. Init => Alone
  <2> SUFFICES ASSUME Init PROVE Alone
    OBVIOUS
  <2>1. DOMAIN instances = {} /\ \A n \in Nodes : node[n].phase = "none"
    BY DEF Init, IdleNode
  <2> QED
    BY <2>1 DEF Alone, OneInstancePerKey
<1>2. Inv /\ Alone /\ [Next]_vars => Alone'
  BY NextAlone
<1>3. Alone => OneInstancePerKey
  BY DEF Alone
<1> QED
  BY <1>1, <1>2, <1>3, AlwaysInv, PTL DEF Spec


-----------------------------------------------------------------------------
(* The ledger: what a step does to the requests an operator sees.          *)

\* A dispatch that can commit an effect is of a request that nothing was done about.
Unacted ==
  \A n \in Nodes : node[n].phase = "starting" \/ node[n].held # {} =>
    \A id \in Turn(n) : effects[id] = 0

SeenOf(id) ==
  IF id \notin used THEN "none"
  ELSE IF id \notin DOMAIN rows THEN "forgotten"
  ELSE IF ~rows[id].processed THEN "waiting"
  ELSE IF rows[id].status = "SUCCESS" THEN "done"
  ELSE IF rows[id].error = "duplicate" THEN "duplicate" ELSE "refused"

LEMMA SeenFacts ==
  /\ SeenState \in [AllIds -> Ledger!States] /\ SeenState' \in [AllIds -> Ledger!States]
  /\ \A id \in AllIds : SeenState[id] = SeenOf(id) /\ SeenState'[id] = SeenOf(id)'
BY DEF SeenState, SeenOf, Ledger!States

LEMMA SameSeen ==
  ASSUME \A id \in AllIds : SeenOf(id)' = SeenOf(id)
  PROVE  SeenState' = SeenState
BY SeenFacts

\* A step that touches no row changes nothing that is seen.
LEMMA SeenRows ==
  ASSUME rows' = rows, used' = used
  PROVE  SeenState' = SeenState
BY SameSeen DEF SeenOf

LEMMA InsertIsReceive ==
  ASSUME Inv, NEW n \in Nodes, NEW id \in Ids[n] \ used, NEW row, ~row.processed,
         Insert(n, id, row), effects' = effects
  PROVE  Ledger!Next
<1>1. id \in AllIds /\ id \notin DOMAIN rows
  BY DEF AllIds, Inv, RowInv, RowTypes
<1>2. /\ used' = used \cup {id} /\ DOMAIN rows' = DOMAIN rows \cup {id}
      /\ \A x \in DOMAIN rows' : rows'[x] = IF x = id THEN row ELSE rows[x]
  BY DEF Insert
<1>3. SeenOf(id) = "none" /\ SeenOf(id)' = "waiting"
  BY <1>1, <1>2 DEF SeenOf
<1>4. \A x \in AllIds \ {id} : SeenOf(x)' = SeenOf(x)
  BY <1>2 DEF SeenOf
<1>5. SeenState' = [SeenState EXCEPT ![id] = "waiting"]
  BY <1>1, <1>3, <1>4, SeenFacts
<1>6. SeenState[id] = "none"
  BY <1>1, <1>3, SeenFacts
<1>7. Ledger!Receive(id)
  BY <1>5, <1>6 DEF Ledger!Receive
<1> QED
  BY <1>1, <1>7 DEF Ledger!Next

LEMMA EnqueueSeen ==
  ASSUME Inv, NEW n \in Nodes, NEW event, NEW key, NEW payload,
         Enqueue(n, event, key, payload)
  PROVE  Ledger!Next
<1> DEFINE row == NewRow(event, key, payload)
<1>1. ~row.processed /\ effects' = effects
  BY DEF NewRow, Enqueue
<1> HIDE DEF row
<1>2. CASE \E id \in Ids[n] \ used : Insert(n, id, row)
  BY <1>1, <1>2, InsertIsReceive
<1>3. CASE \E id \in DOMAIN rows : /\ Resubmittable(rows[id])
                                  /\ rows' = [rows EXCEPT ![id] = row] /\ UNCHANGED used
  <2>1. PICK id \in DOMAIN rows : /\ Resubmittable(rows[id])
                                  /\ rows' = [rows EXCEPT ![id] = row] /\ used' = used
    BY <1>3
  <2>2. id \in AllIds /\ id \in used /\ Consistent(rows[id])
    BY DEF Inv, RowInv, RowTypes
  <2>3. SeenOf(id) = "refused" /\ SeenOf(id)' = "waiting"
    BY <1>1, <2>1, <2>2 DEF SeenOf, Resubmittable, Consistent
  <2>4. \A x \in AllIds \ {id} : SeenOf(x)' = SeenOf(x)
    BY <2>1 DEF SeenOf
  <2>5. SeenState' = [SeenState EXCEPT ![id] = "waiting"]
    BY <2>2, <2>3, <2>4, SeenFacts
  <2>6. SeenState[id] = "refused"
    BY <2>2, <2>3, SeenFacts
  <2>7. Ledger!SendAgain(id)
    BY <1>1, <2>5, <2>6 DEF Ledger!SendAgain
  <2> QED
    BY <2>2, <2>7 DEF Ledger!Next
<1> QED
  BY <1>2, <1>3 DEF Enqueue, SameRequest, row

LEMMA CleanupSeen ==
  ASSUME Inv, Cleanup
  PROVE  Ledger!Next
<1>1. PICK old \in SUBSET {id \in DOMAIN rows : rows[id].processed} :
        rows' = [id \in DOMAIN rows \ old |-> rows[id]]
  BY DEF Cleanup
<1>2. used' = used /\ effects' = effects
  BY DEF Cleanup
<1>3. /\ DOMAIN rows' = DOMAIN rows \ old
      /\ \A id \in DOMAIN rows' : rows'[id] = rows[id]
  BY <1>1
<1>4. \A id \in old : /\ SeenOf(id) \in {"done", "refused", "duplicate"}
                      /\ SeenOf(id)' = "forgotten"
  BY <1>1, <1>2, <1>3 DEF SeenOf, Inv, RowInv, RowTypes
<1>5. \A id \in AllIds \ old : SeenOf(id)' = SeenOf(id)
  BY <1>2, <1>3 DEF SeenOf
<1>6. Ledger!Forget
  BY <1>2, <1>4, <1>5, SeenFacts DEF Ledger!Forget
<1> QED
  BY <1>6 DEF Ledger!Next

LEMMA CommitBatchSeen ==
  ASSUME Inv, NEW n \in Nodes, CommitBatch(n)
  PROVE  Ledger!Next
<1>1. /\ used' = used /\ effects' = effects /\ DOMAIN rows' = DOMAIN rows
      /\ \A id \in DOMAIN rows :
           rows'[id] = IF id \in DOMAIN node[n].work THEN node[n].work[id] ELSE rows[id]
  BY DEF CommitBatch
<1>2. \A id \in DOMAIN rows : id \notin DOMAIN node[n].work => SeenOf(id)' = SeenOf(id)
  BY <1>1 DEF SeenOf
<1>3. \A id \in AllIds : id \notin DOMAIN rows => SeenOf(id)' = SeenOf(id)
  BY <1>1 DEF SeenOf
<1>4. \A id \in DOMAIN node[n].work :
        /\ SeenOf(id) = "waiting"
        /\ SeenOf(id)' \in {"waiting", "done", "refused", "duplicate"}
  BY <1>1 DEF SeenOf, Inv, RowInv, RowTypes, Locked
<1>5. Ledger!Settle
  BY <1>1, <1>2, <1>3, <1>4, SeenFacts DEF Ledger!Settle
<1> QED
  BY <1>5 DEF Ledger!Next

\* A dispatch that commits acts on its request.
LEMMA AffectedIsAct ==
  ASSUME Inv, Unacted, NEW n \in Nodes, NEW id \in Turn(n),
         node[n].phase = "starting" \/ node[n].held # {},
         Affected(id), rows' = rows, used' = used
  PROVE  Ledger!Next
<1>1. id \in AllIds /\ id \in DOMAIN rows /\ ~rows[id].processed /\ id \in used
  BY OneTurn DEF Inv, RowInv, RowTypes
<1>2. SeenState[id] = "waiting"
  BY <1>1, SeenFacts DEF SeenOf
<1>3. effects[id] = 0 /\ effects \in [AllIds -> Nat]
  BY DEF Unacted, Inv, HonestInv
<1>4. effects' = [effects EXCEPT ![id] = 1]
  BY <1>1, <1>3 DEF Affected
<1>5. Ledger!Act(id)
  BY <1>2, <1>3, <1>4, SeenRows DEF Ledger!Act
<1> QED
  BY <1>1, <1>5 DEF Ledger!Next


LEMMA LedgerStep == Inv /\ Unacted /\ [Next]_vars => [Ledger!Next]_<<SeenState, effects>>
<1> SUFFICES ASSUME Inv, Unacted, [Next]_vars
             PROVE  Ledger!Next \/ UNCHANGED <<SeenState, effects>>
  OBVIOUS
<1>1. ASSUME NEW n \in Nodes, Request(n) PROVE Ledger!Next
  <2>1. ASSUME NEW event, NEW payload, EnqueueWithOwnKey(n, event, payload)
        PROVE  Ledger!Next
    <3>1. PICK id \in Ids[n] \ used : Insert(n, id, NewRow(event, OwnKey[id], payload))
      BY <2>1 DEF EnqueueWithOwnKey
    <3>2. PICK row : row = NewRow(event, OwnKey[id], payload)
      OBVIOUS
    <3>3. ~row.processed /\ effects' = effects
      BY <2>1, <3>2 DEF NewRow, EnqueueWithOwnKey
    <3> QED
      BY <3>1, <3>2, <3>3, InsertIsReceive
  <2> QED
    BY <1>1, <2>1, EnqueueSeen DEF Request
<1>2. ASSUME NEW n \in Nodes, NEW id \in Turn(n),
             CommitStart(n, id) \/ CommitCompletion(n, id)
      PROVE  Ledger!Next
  BY <1>2, AffectedIsAct DEF CommitStart, CommitCompletion
<1>3. ASSUME NEW n \in Nodes, NEW id \in Turn(n),
             Dispatch(n, id) \/ LockTask(n, id) \/ NothingCompleted(n, id) \/ Fail(n, id)
      PROVE  UNCHANGED <<SeenState, effects>>
  BY <1>3, SeenRows DEF Dispatch, LockTask, NothingCompleted, Fail
<1>4. ASSUME NEW n \in Nodes, Poll(n) \/ Crash(n)
      PROVE  UNCHANGED <<SeenState, effects>>
  BY <1>4, SeenRows DEF Poll, Crash
<1>5. ASSUME NEW i \in DOMAIN instances,
             Arrive(i) \/ Claim(i) \/ Suspend(i) \/ Resume(i) \/ Finish(i)
      PROVE  UNCHANGED <<SeenState, effects>>
  BY <1>5, SeenRows DEF Arrive, Claim, Suspend, Resume, Finish
<1>6. CASE UNCHANGED vars
  BY <1>6, SeenRows DEF vars
<1> QED
  BY <1>1, <1>2, <1>3, <1>4, <1>5, <1>6, CleanupSeen, CommitBatchSeen DEF Next, Tick

LEMMA LedgerInit == Init => Ledger!Init
<1> SUFFICES ASSUME Init PROVE Ledger!Init
  OBVIOUS
<1>1. \A id \in AllIds : SeenOf(id) = "none"
  BY DEF Init, SeenOf
<1>2. SeenState = [id \in AllIds |-> "none"]
  BY <1>1 DEF SeenState, SeenOf
<1> QED
  BY <1>2 DEF Init, Ledger!Init

-----------------------------------------------------------------------------
(* One node, whatever it loses in crashes.  What a crash leaves of a       *)
(* dispatch that had committed is in the instances: it is found there when *)
(* the row is dispatched again.                                            *)

\* Payloads that do not say for themselves which instance they are about.
CorrelatedByRow == Payloads \subseteq {NoKey, "broken"}

KeyOf(r) == IF r.key # NoKey THEN r.key ELSE FieldKey

\* What was done about a request stands in the way of doing it again: its instance
\* was started, its work item is completed.
InTheWay(r) == /\ r.event = "start" => Started(KeyOf(r))
               /\ r.event = "complete" => Completed(KeyOf(r))

\* A dispatch that is under way has only instances with the key of its row in hand.
Busy(n) ==
  node[n].phase # "none" =>
    \A id \in Turn(n) :
      /\ rows[id].payload # "broken"
      /\ node[n].phase = "starting" => rows[id].event = "start"
      /\ \A i \in node[n].todo \cup node[n].held :
           KeyOf(rows[id]) # NoKey /\ instances[i].key = KeyOf(rows[id])

Once ==
  /\ \A id \in AllIds : effects[id] > 0 => id \in used
  /\ \A id \in DOMAIN rows : effects[id] > 0 => InTheWay(rows[id])
  /\ \A n \in Nodes : Busy(n)

\* Instances are only added, and what was completed in them stays.
InstancesGrow ==
  /\ DOMAIN instances \subseteq DOMAIN instances'
  /\ \A i \in DOMAIN instances : /\ instances'[i].key = instances[i].key
                                 /\ instances[i].done > 0 => instances'[i].done > 0

LEMMA SameRowCorrelated ==
  ASSUME Inv, CorrelatedByRow, NEW id \in DOMAIN rows, rows[id].payload # "broken"
  PROVE  Correlation(rows[id]) = KeyOf(rows[id])
<1>1. rows[id].payload \in Payloads
  BY DEF Inv, RowInv, RowTypes, InboxRow
<1> QED
  BY <1>1 DEF CorrelatedByRow, Correlation, KeyOf

\* It stays in the way, of the row as it is and of the same request sent again.
LEMMA InTheWayStays ==
  ASSUME InstancesGrow, NEW r, NEW s, InTheWay(r), s.key = r.key, s.event = r.event
  PROVE  InTheWay(s)'
<1>1. ASSUME NEW key
      PROVE  /\ Started(key) => Started(key)'
             /\ Completed(key) => Completed(key)'
  BY DEF InstancesGrow, Started, Completed
<1>2. KeyOf(s)' = KeyOf(r)
  BY DEF KeyOf
<1>3. PICK key : key = KeyOf(r)
  OBVIOUS
<1> QED
  BY <1>1, <1>2, <1>3 DEF InTheWay

\* A node whose rows stay and that takes nothing new in hand.
LEMMA BusyStays ==
  ASSUME Inv, Once, InstancesGrow, NEW n \in Nodes,
         node'[n].batch = node[n].batch, node'[n].phase = node[n].phase,
         node'[n].todo \cup node'[n].held \subseteq node[n].todo \cup node[n].held,
         \A id \in RowLocks : rows'[id] = rows[id]
  PROVE  Busy(n)'
<1>1. ASSUME NEW id \in Turn(n), node[n].phase # "none"
      PROVE  /\ rows'[id].payload # "broken"
             /\ node'[n].phase = "starting" => rows'[id].event = "start"
             /\ \A i \in node'[n].todo \cup node'[n].held :
                  KeyOf(rows'[id]) # NoKey /\ instances'[i].key = KeyOf(rows'[id])
  <2>1. id \in RowLocks
    BY OneTurn DEF Inv, RowLocks
  <2>2. rows'[id] = rows[id]
    BY <2>1
  <2>3. \A i \in node'[n].todo \cup node'[n].held : instances'[i].key = instances[i].key
    BY DEF Inv, ItemInv, InstancesGrow
  <2> QED
    BY <1>1, <2>2, <2>3 DEF Once, Busy
<1>2. Turn(n)' = Turn(n)
  BY DEF Turn
<1> QED
  BY <1>1, <1>2 DEF Busy, KeyOf

\* What nodes have in hand put aside, what stays and what is new.
LEMMA OnceStays ==
  ASSUME Inv, Once, InstancesGrow, used \subseteq used',
         \A id \in AllIds : effects'[id] > 0 => effects[id] > 0 \/ id \in used,
         \A id \in DOMAIN rows' : effects'[id] > 0 =>
           \/ InTheWay(rows[id])'
           \/ /\ effects[id] > 0 /\ id \in DOMAIN rows
              /\ rows'[id].key = rows[id].key /\ rows'[id].event = rows[id].event,
         \A n \in Nodes : Busy(n)'
  PROVE  Once'
<1>1. ASSUME NEW id \in DOMAIN rows', effects'[id] > 0
      PROVE  InTheWay(rows[id])'
  <2>1. CASE /\ effects[id] > 0 /\ id \in DOMAIN rows
             /\ rows'[id].key = rows[id].key /\ rows'[id].event = rows[id].event
    <3>1. PICK r, s : r = rows[id] /\ s = rows'[id]
      OBVIOUS
    <3>2. InTheWay(s)'
      BY <2>1, <3>1, InTheWayStays DEF Once
    <3> QED
      BY <3>1, <3>2 DEF InTheWay, KeyOf, Started, Completed
  <2> QED
    BY <1>1, <2>1
<1>2. \A id \in AllIds : effects'[id] > 0 => id \in used'
  BY DEF Once
<1> QED
  BY <1>1, <1>2 DEF Once

LEMMA SameGrow ==
  ASSUME instances' = instances \/ SameInstances
  PROVE  InstancesGrow
BY DEF InstancesGrow, SameInstances

\* A tick goes on with its rows as they are.
LEMMA OnceTick ==
  ASSUME Inv, Once, NEW n \in Nodes, rows' = rows, used' = used, InstancesGrow,
         \A m \in Nodes \ {n} : node'[m] = node[m], Busy(n)',
         \A id \in AllIds : effects'[id] > 0 => effects[id] > 0 \/ id \in used,
         \A id \in DOMAIN rows : effects'[id] > 0 => effects[id] > 0 \/ InTheWay(rows[id])'
  PROVE  Once'
<1>1. \A m \in Nodes \ {n} : Busy(m)'
  BY BusyStays
<1> QED
  BY <1>1, OnceStays

\* A dispatch that ends without having done anything.
LEMMA OnceEnds ==
  ASSUME Inv, Once, NEW n \in Nodes, NEW id \in Turn(n), NEW r, Dispatched(n, id, r),
         UNCHANGED <<rows, used, instances, effects>>
  PROVE  Once'
<1>1. node'[n].phase = "none" /\ \A m \in Nodes \ {n} : node'[m] = node[m]
  BY EndedNode DEF Inv
<1>2. Busy(n)'
  BY <1>1 DEF Busy
<1> QED
  BY <1>1, <1>2, SameGrow, OnceTick

\* A dispatch that ends with what will be in the way of its request.
LEMMA OnceActs ==
  ASSUME Inv, Once, NEW n \in Nodes, NEW id \in Turn(n), NEW r, Dispatched(n, id, r),
         Affected(id), rows' = rows, used' = used, InstancesGrow, InTheWay(rows[id])'
  PROVE  Once'
<1>1. node'[n].phase = "none" /\ \A m \in Nodes \ {n} : node'[m] = node[m]
  BY EndedNode DEF Inv
<1>2. Busy(n)'
  BY <1>1 DEF Busy
<1>3. id \in used /\ DOMAIN rows \subseteq AllIds /\ effects \in [AllIds -> Nat]
  BY OneTurn DEF Inv, RowInv, RowTypes, HonestInv
<1>4. \A x \in AllIds \ {id} : effects'[x] = effects[x]
  BY <1>3 DEF Affected
<1>5. \A x \in DOMAIN rows : effects'[x] > 0 => effects[x] > 0 \/ InTheWay(rows[x])'
  <2> SUFFICES ASSUME NEW x \in DOMAIN rows, effects'[x] > 0, ~(effects[x] > 0)
               PROVE  x = id
    BY DEF InTheWay, KeyOf, Started, Completed
  <2> QED
    BY <1>3, <1>4
<1> QED
  BY <1>1, <1>2, <1>3, <1>4, <1>5, OnceTick

LEMMA OnceDispatch ==
  ASSUME CorrelatedByRow, Inv, Once, NEW n \in Nodes, NEW id \in Turn(n), Dispatch(n, id)
  PROVE  Once'
<1> DEFINE key == Correlation(rows[id])
           r == Tried(rows[id])
<1>1. UNCHANGED <<rows, used, instances, effects>> /\ RowInv
  BY DEF Dispatch, Inv
<1>2. id \in DOMAIN rows /\ Turn(n) = {id}
  BY <1>1, OneTurn
<1>3. ASSUME NEW phase, NEW todo, Begun(n, id, r, phase, todo), rows[id].payload # "broken",
             phase = "starting" => rows[id].event = "start",
             \A i \in todo : key # NoKey /\ instances[i].key = key
      PROVE  Once'
  <2>1. /\ node'[n].phase = phase /\ node'[n].todo = todo /\ node'[n].held = {}
        /\ node'[n].batch = node[n].batch /\ \A m \in Nodes \ {n} : node'[m] = node[m]
    BY <1>1, <1>3, BegunNode
  <2>2. Turn(n)' = {id} /\ KeyOf(rows[id]) = key
    BY <1>2, <1>3, <2>1, SameRowCorrelated DEF Turn
  <2>3. Busy(n)'
    BY <1>1, <1>3, <2>1, <2>2 DEF Busy, KeyOf
  <2> QED
    BY <1>1, <2>1, <2>3, SameGrow, OnceTick
<1>4. CASE /\ rows[id].payload # "broken" /\ rows[id].event = "start"
           /\ Begun(n, id, r, "starting", {})
  BY <1>3, <1>4
<1>5. CASE rows[id].payload # "broken" /\ Begun(n, id, r, "completing", Listening(key))
  <2>1. \A i \in Listening(key) : key # NoKey /\ instances[i].key = key
    BY DEF Listening, Running
  <2> HIDE DEF key, r
  <2> QED
    BY <1>3, <1>5, <2>1
<1>6. ASSUME NEW s, Dispatched(n, id, s)
      PROVE  Once'
  BY <1>1, <1>6, OnceEnds
<1> QED
  BY <1>1, <1>4, <1>5, <1>6, DispatchCases

LEMMA OnceCommitStart ==
  ASSUME CorrelatedByRow, FieldKey # NoKey, Inv, Once, NEW n \in Nodes, NEW id \in Turn(n),
         CommitStart(n, id)
  PROVE  Once'
<1>1. /\ node[n].phase = "starting" /\ Affected(id) /\ rows' = rows /\ used' = used
      /\ Dispatched(n, id, Succeeded(node[n].work[id]))
  BY DEF CommitStart
<1>2. id \in DOMAIN rows /\ rows[id].payload # "broken" /\ rows[id].event = "start"
  BY <1>1, OneTurn DEF Inv, Once, Busy
<1>3. PICK key : key = KeyOf(rows[id])
  OBVIOUS
<1>4. Correlation(rows[id]) = key /\ key # NoKey
  BY <1>2, <1>3, SameRowCorrelated DEF KeyOf
<1>5. PICK new \in Instance :
        /\ new.key = key
        /\ DOMAIN instances' = DOMAIN instances \cup {Len(instances) + 1}
        /\ \A i \in DOMAIN instances : instances'[i] = instances[i]
        /\ instances'[Len(instances) + 1] = new
  BY <1>4, StartedInstance
<1>6. InstancesGrow
  BY <1>5 DEF InstancesGrow
<1>7. Started(key)'
  BY <1>4, <1>5 DEF Started
<1>8. KeyOf(rows[id])' = key
  BY <1>1, <1>3 DEF KeyOf
<1>9. InTheWay(rows[id])'
  BY <1>1, <1>2, <1>7, <1>8 DEF InTheWay, Started
<1> QED
  BY <1>1, <1>6, <1>9, OnceActs

LEMMA OnceCommitCompletion ==
  ASSUME Inv, Once, NEW n \in Nodes, NEW id \in Turn(n), CommitCompletion(n, id)
  PROVE  Once'
<1>1. /\ node[n].phase = "completing" /\ node[n].held # {} /\ Affected(id)
      /\ rows' = rows /\ used' = used /\ Dispatched(n, id, Succeeded(node[n].work[id]))
  BY DEF CommitCompletion
<1>2. /\ DOMAIN instances' = DOMAIN instances
      /\ \A i \in DOMAIN instances \ node[n].held : instances'[i] = instances[i]
      /\ \A i \in node[n].held :
           /\ i \in DOMAIN instances /\ instances'[i].key = instances[i].key
           /\ instances'[i].done = 1
  BY CompletedInstances
<1>3. InstancesGrow
  BY <1>2 DEF InstancesGrow
<1>4. PICK i \in node[n].held : TRUE
  BY <1>1
<1>5. PICK key : key = KeyOf(rows[id])
  OBVIOUS
<1>6. key # NoKey /\ instances'[i].key = key /\ instances'[i].done > 0 /\ i \in DOMAIN instances'
  BY <1>1, <1>2, <1>4, <1>5 DEF Once, Busy
<1>7. Completed(key)'
  BY <1>6 DEF Completed
<1>8. KeyOf(rows[id])' = key
  BY <1>1, <1>5 DEF KeyOf
<1>9. rows[id].event = "complete"
  BY <1>1 DEF Inv, HonestInv, Passing
<1>10. InTheWay(rows[id])'
  BY <1>1, <1>7, <1>8, <1>9 DEF InTheWay, Completed
<1> QED
  BY <1>1, <1>3, <1>10, OnceActs

LEMMA OnceLockTask ==
  ASSUME Inv, Once, NEW n \in Nodes, NEW id \in Turn(n), LockTask(n, id)
  PROVE  Once'
<1>1. UNCHANGED <<rows, used, instances, effects>>
  BY DEF LockTask
<1>2. CASE \E i \in Wanted(n) :
             node' = [node EXCEPT ![n].todo = @ \ {i}, ![n].held = @ \cup {i}]
  <2>1. /\ node'[n].batch = node[n].batch /\ node'[n].phase = node[n].phase
        /\ node'[n].todo \cup node'[n].held \subseteq node[n].todo \cup node[n].held
        /\ \A m \in Nodes \ {n} : node'[m] = node[m]
    BY <1>2, LockedItem
  <2>2. Busy(n)'
    BY <1>1, <2>1, SameGrow, BusyStays
  <2> QED
    BY <1>1, <2>1, <2>2, SameGrow, OnceTick
<1>3. CASE \E r : Dispatched(n, id, r)
  BY <1>1, <1>3, OnceEnds
<1> QED
  BY <1>2, <1>3 DEF LockTask

\* A tick begins or ends: the node is dispatching nothing.
LEMMA OnceClean ==
  ASSUME Inv, Once, NEW n \in Nodes, Poll(n) \/ CommitBatch(n) \/ Crash(n)
  PROVE  Once'
<1>1. /\ UNCHANGED <<used, instances, effects>> /\ node \in [Nodes -> Ticks]
      /\ DOMAIN rows' = DOMAIN rows
  BY DEF Poll, CommitBatch, Crash, Inv, RowInv, RowTypes
<1>2. PICK t : node' = [node EXCEPT ![n] = t] /\ t.phase = "none"
  <2>1. CASE Poll(n)
    <3>1. PICK batch \in SUBSET Lockable :
            node' = [node EXCEPT ![n] = [IdleNode EXCEPT
                       !.batch = batch, !.work = [id \in batch |-> rows[id]]]]
      BY <2>1 DEF Poll
    <3>2. PICK t : t = [IdleNode EXCEPT !.batch = batch, !.work = [id \in batch |-> rows[id]]]
      OBVIOUS
    <3>3. t.phase = "none"
      BY <3>2 DEF IdleNode
    <3>4. node' = [node EXCEPT ![n] = t]
      BY <3>1, <3>2
    <3> QED
      BY <3>3, <3>4
  <2>2. CASE CommitBatch(n) \/ Crash(n)
    <3>1. IdleNode.phase = "none"
      BY DEF IdleNode
    <3> QED
      BY <2>2, <3>1 DEF CommitBatch, Crash, AfterCrash
  <2> QED
    BY <2>1, <2>2
<1>3. node'[n].phase = "none" /\ \A m \in Nodes \ {n} : node'[m] = node[m]
  BY <1>1, <1>2
<1>4. /\ \A id \in DOMAIN rows :
           rows'[id].key = rows[id].key /\ rows'[id].event = rows[id].event
      /\ \A m \in Nodes \ {n} : \A id \in DOMAIN node[m].work : rows'[id] = rows[id]
  <2>1. CASE rows' = rows
    BY <2>1
  <2>2. CASE CommitBatch(n)
    BY <2>2 DEF CommitBatch, Inv, HonestInv, Faithful, RowInv, Locked
  <2> QED
    BY <2>1, <2>2 DEF Poll, Crash
<1>5. Busy(n)'
  BY <1>3 DEF Busy
<1>6. ASSUME NEW m \in Nodes \ {n}
      PROVE  Busy(m)'
  <2>1. \A id \in Turn(m) : rows'[id] = rows[id]
    BY <1>4, OneTurn DEF Inv
  <2> QED
    BY <1>1, <1>3, <2>1 DEF Once, Busy, Turn, KeyOf
<1> QED
  BY <1>1, <1>4, <1>5, <1>6, SameGrow, OnceStays


\* A request comes, and is the same as before if its row is used again; or rows are
\* deleted, or an instance goes its way.
LEMMA OnceOthers ==
  ASSUME Inv, Once, SamePhases, SameInstances, effects' = effects, used \subseteq used',
         \A id \in RowLocks : rows'[id] = rows[id],
         \A id \in DOMAIN rows' : effects[id] > 0 =>
           /\ id \in DOMAIN rows
           /\ rows'[id].key = rows[id].key /\ rows'[id].event = rows[id].event
  PROVE  Once'
<1>1. \A n \in Nodes : Busy(n)'
  BY SameGrow, BusyStays DEF SamePhases
<1> QED
  BY <1>1, SameGrow, OnceStays

LEMMA OnceInsert ==
  ASSUME Inv, Once, NEW n \in Nodes, NEW id \in Ids[n] \ used, NEW row,
         Insert(n, id, row), UNCHANGED <<node, instances, effects>>
  PROVE  Once'
<1>1. id \in AllIds /\ ~(effects[id] > 0)
  BY DEF AllIds, Once
<1>2. /\ used' = used \cup {id} /\ DOMAIN rows' = DOMAIN rows \cup {id}
      /\ \A x \in DOMAIN rows' : rows'[x] = IF x = id THEN row ELSE rows[x]
  BY DEF Insert
<1>3. \A x \in RowLocks : x \in DOMAIN rows /\ x # id
  BY DEF RowLocks, Inv, RowInv, RowTypes, Locked
<1>4. \A x \in RowLocks : rows'[x] = rows[x]
  BY <1>2, <1>3
<1>5. \A x \in DOMAIN rows' : effects[x] > 0 => x \in DOMAIN rows /\ rows'[x] = rows[x]
  BY <1>1, <1>2
<1> QED
  BY <1>2, <1>4, <1>5, OnceOthers DEF SamePhases, SameInstances

LEMMA OnceRequest ==
  ASSUME Inv, Once, NEW n \in Nodes, Request(n)
  PROVE  Once'
<1>1. ASSUME NEW event, NEW payload, EnqueueWithOwnKey(n, event, payload)
      PROVE  Once'
  BY <1>1, OnceInsert DEF EnqueueWithOwnKey
<1>2. ASSUME NEW event, NEW key, NEW payload, Enqueue(n, event, key, payload)
      PROVE  Once'
  <2>1. UNCHANGED <<node, instances, effects>>
    BY <1>2 DEF Enqueue
  <2>2. PICK row : row = NewRow(event, key, payload)
    OBVIOUS
  <2>3. row.key = key /\ row.event = event
    BY <2>2 DEF NewRow
  <2>4. CASE \E id \in Ids[n] \ used : Insert(n, id, row)
    BY <2>1, <2>4, OnceInsert
  <2>5. CASE \E id \in DOMAIN rows \ RowLocks :
               /\ rows[id].key = key /\ rows[id].event = event
               /\ rows' = [rows EXCEPT ![id] = row] /\ UNCHANGED used
    <3>1. PICK id \in DOMAIN rows \ RowLocks :
               /\ rows[id].key = key /\ rows[id].event = event
               /\ rows' = [rows EXCEPT ![id] = row] /\ used' = used
      BY <2>5
    <3>2. \A x \in RowLocks : rows'[x] = rows[x]
      BY <3>1 DEF RowLocks, Inv, RowInv, Locked
    <3>3. \A x \in DOMAIN rows' : /\ x \in DOMAIN rows /\ rows'[x].key = rows[x].key
                                  /\ rows'[x].event = rows[x].event
      BY <2>3, <3>1
    <3> QED
      BY <2>1, <3>1, <3>2, <3>3, OnceOthers DEF SamePhases, SameInstances
  <2> QED
    BY <1>2, <2>2, <2>4, <2>5 DEF Enqueue, SameRequest
<1> QED
  BY <1>1, <1>2 DEF Request

LEMMA OnceCleanup ==
  ASSUME Inv, Once, Cleanup
  PROVE  Once'
<1>1. UNCHANGED <<used, node, effects, instances>>
  BY DEF Cleanup
<1>2. PICK old \in SUBSET {id \in DOMAIN rows : rows[id].processed} :
        rows' = [id \in DOMAIN rows \ old |-> rows[id]]
  BY DEF Cleanup
<1>3. \A id \in RowLocks : id \in DOMAIN rows \ old
  BY DEF RowLocks, Inv, RowInv, Locked
<1>4. \A id \in RowLocks : rows'[id] = rows[id]
  BY <1>2, <1>3
<1>5. \A id \in DOMAIN rows' : id \in DOMAIN rows /\ rows'[id] = rows[id]
  BY <1>2
<1> QED
  BY <1>1, <1>4, <1>5, OnceOthers DEF SamePhases, SameInstances

LEMMA NextOnce ==
  ASSUME FieldKey # NoKey, CorrelatedByRow
  PROVE  Inv /\ Once /\ [Next]_vars => Once'
<1> SUFFICES ASSUME Inv, Once, [Next]_vars PROVE Once'
  OBVIOUS
<1>1. ASSUME NEW n \in Nodes, NEW id \in Turn(n), NothingCompleted(n, id) \/ Fail(n, id)
      PROVE  Once'
  <2>1. UNCHANGED <<rows, used, instances, effects>> /\ \E r : Dispatched(n, id, r)
    BY <1>1 DEF NothingCompleted, Fail
  <2> QED
    BY <2>1, OnceEnds
<1>2. ASSUME NEW n \in Nodes, Tick(n) PROVE Once'
  BY <1>1, <1>2, OnceClean, OnceDispatch, OnceLockTask, OnceCommitStart,
     OnceCommitCompletion DEF Tick
<1>3. ASSUME NEW i \in DOMAIN instances,
             Arrive(i) \/ Claim(i) \/ Suspend(i) \/ Resume(i) \/ Finish(i)
      PROVE  Once'
  <2>1. SamePhases /\ SameInstances
    BY <1>3, OwnWay
  <2>2. UNCHANGED <<rows, used, effects>>
    BY <1>3 DEF Arrive, Claim, Suspend, Resume, Finish
  <2> QED
    BY <2>1, <2>2, OnceOthers
<1>4. CASE UNCHANGED vars
  BY <1>4, OnceOthers DEF vars, SamePhases, SameInstances
<1> QED
  BY <1>1, <1>2, <1>3, <1>4, OnceRequest, OnceCleanup, OnceClean DEF Next

\* A dispatch that can commit an effect has found nothing in its way.
LEMMA OnceUnacted ==
  ASSUME CorrelatedByRow, Inv, Alone, Once
  PROVE  Unacted
<1> SUFFICES ASSUME NEW n \in Nodes, node[n].phase = "starting" \/ node[n].held # {},
                    NEW id \in Turn(n), effects[id] > 0
             PROVE  FALSE
  <2>1. \A n \in Nodes : \A id \in Turn(n) : effects[id] \in Nat
    BY OneTurn DEF Inv, HonestInv
  <2> QED
    BY <2>1 DEF Unacted
<1>1. id \in DOMAIN rows /\ InTheWay(rows[id])
  BY OneTurn DEF Inv, Once
<1>2. CASE node[n].phase = "starting"
  <2>1. rows[id].event = "start" /\ rows[id].payload # "broken"
    BY <1>2 DEF Once, Busy
  <2>2. ~Started(Correlation(rows[id]))
    BY <1>2 DEF Alone
  <2> QED
    BY <1>1, <2>1, <2>2, SameRowCorrelated DEF InTheWay
<1>3. CASE node[n].held # {}
  <2>1. PICK i : i \in node[n].held
    BY <1>3
  <2>2. node[n].phase = "completing"
    BY <1>3 DEF Inv, ItemInv
  <2>3. i \in DOMAIN instances /\ instances[i].done = 0
    BY <2>1 DEF Inv, ItemInv, Sound
  <2>4. rows[id].event = "complete"
    BY <2>2 DEF Inv, HonestInv, Passing
  <2>5. KeyOf(rows[id]) # NoKey /\ instances[i].key = KeyOf(rows[id])
    BY <2>1, <2>2 DEF Once, Busy
  <2>6. PICK j \in DOMAIN instances : instances[j].key = KeyOf(rows[id]) /\ instances[j].done > 0
    BY <1>1, <2>4 DEF InTheWay, Completed
  <2>7. j = i
    BY <2>3, <2>5, <2>6 DEF Alone, OneInstancePerKey
  <2> QED
    BY <2>3, <2>6, <2>7
<1> QED
  BY <1>2, <1>3

\* Where one node polls, every start has a key and payloads do not name another
\* instance than their row, each request is acted upon at most once, and what is
\* settled stays settled, whatever crashes come between the commit of a dispatch and
\* the commit of its batch (InboxPollJob.dispatchInNewTx,
\* AsyncEventListener.processEventMappings).
THEOREM LedgerKept ==
  ASSUME OneNode, FieldKey # NoKey, CorrelatedByRow
  PROVE  Spec => KeepsLedger
<1>1. Init => Alone /\ Once
  <2> SUFFICES ASSUME Init PROVE Alone /\ Once
    OBVIOUS
  <2>1. /\ DOMAIN instances = {} /\ DOMAIN rows = {}
        /\ \A n \in Nodes : node[n].phase = "none"
    BY DEF Init, IdleNode
  <2>2. \A id \in AllIds : ~(effects[id] > 0)
    BY DEF Init
  <2>3. Alone
    BY <2>1 DEF Alone, OneInstancePerKey
  <2>4. Once
    BY <2>1, <2>2 DEF Once, Busy
  <2> QED
    BY <2>3, <2>4
<1>2. Inv /\ Alone /\ Once /\ [Next]_vars => Alone' /\ Once'
  BY NextAlone, NextOnce
<1>3. Inv /\ Alone /\ Once => Unacted
  BY OnceUnacted
<1>4. Inv /\ Alone /\ Once /\ [Next]_vars => [Ledger!Next]_<<SeenState, effects>>
  BY <1>3, LedgerStep
<1>5. Spec => []Inv
  BY AlwaysInv, PTL
<1> QED
  BY <1>1, <1>2, <1>4, <1>5, LedgerInit, PTL DEF Spec, KeepsLedger, Ledger!Spec


-----------------------------------------------------------------------------
(* Any nodes, none of which crashes.                                       *)

\* A row that is not dispatched again, nor sent again.
Final(r) == r.processed /\ (r.status = "SUCCESS" \/ r.error = "duplicate")

DoneBy(n, id) == id \in DOMAIN node[n].work \ node[n].batch /\ Final(node[n].work[id])

\* What was done about a request shows in its row, or will when a batch commits.
Calm ==
  /\ \A id \in AllIds : effects[id] > 0 => id \in used
  /\ \A id \in DOMAIN rows :
       effects[id] > 0 => Final(rows[id]) \/ \E n \in Nodes : DoneBy(n, id)

LEMMA CalmUnacted ==
  ASSUME Inv, Calm, NEW n \in Nodes, NEW id \in node[n].batch
  PROVE  effects[id] = 0
<1>1. id \in DOMAIN node[n].work /\ id \in DOMAIN rows /\ ~rows[id].processed /\ id \in AllIds
  BY DEF Inv, RowInv, RowTypes, Locked, Working
<1>2. \A m \in Nodes : ~DoneBy(m, id)
  BY <1>1 DEF DoneBy, Inv, RowInv, Locked
<1>3. ~(effects[id] > 0)
  BY <1>1, <1>2 DEF Calm, Final
<1> QED
  BY <1>1, <1>3 DEF Inv, HonestInv

LEMMA CalmTick ==
  ASSUME Inv, Calm, NEW n \in Nodes, rows' = rows, used' = used,
         \A m \in Nodes \ {n} : node'[m] = node[m],
         \A id \in AllIds : DoneBy(n, id) => DoneBy(n, id)',
         \A id \in AllIds :
           effects'[id] > 0 => effects[id] > 0 \/ (id \in DOMAIN rows /\ DoneBy(n, id)')
  PROVE  Calm'
<1>1. DOMAIN rows \subseteq used /\ used \subseteq AllIds
  BY DEF Inv, RowInv, RowTypes
<1>2. \A m \in Nodes, id \in AllIds : DoneBy(m, id) => DoneBy(m, id)'
  BY DEF DoneBy
<1>3. \A id \in AllIds : effects'[id] > 0 => id \in used'
  BY <1>1 DEF Calm
<1>4. ASSUME NEW id \in DOMAIN rows, effects'[id] > 0
      PROVE  Final(rows[id]) \/ \E m \in Nodes : DoneBy(m, id)'
  BY <1>1, <1>2, <1>4 DEF Calm
<1> QED
  BY <1>3, <1>4 DEF Calm, Final

LEMMA CalmEnds ==
  ASSUME Inv, Calm, NEW n \in Nodes, NEW id \in Turn(n), NEW r, Dispatched(n, id, r),
         rows' = rows, used' = used,
         \/ effects' = effects
         \/ Affected(id) /\ Final(r)
  PROVE  Calm'
<1>1. /\ DOMAIN node'[n].work = DOMAIN node[n].work /\ node'[n].work[id] = r
      /\ \A x \in DOMAIN node[n].work \ {id} : node'[n].work[x] = node[n].work[x]
      /\ \A m \in Nodes \ {n} : node'[m] = node[m]
  BY EndedNode DEF Inv
<1>2. node'[n].batch = node[n].batch \ {id}
  BY DEF Dispatched, Inv, RowInv, RowTypes
<1>3. id \in node[n].batch /\ id \in DOMAIN node[n].work /\ id \in DOMAIN rows
  BY OneTurn DEF Inv
<1>4. \A x \in AllIds : DoneBy(n, x) => DoneBy(n, x)'
  BY <1>1, <1>2, <1>3 DEF DoneBy
<1>5. \A x \in AllIds :
        effects'[x] > 0 => effects[x] > 0 \/ (x \in DOMAIN rows /\ DoneBy(n, x)')
  <2>1. CASE effects' = effects
    BY <2>1
  <2>2. CASE Affected(id) /\ Final(r)
    <3>1. DoneBy(n, id)'
      BY <1>1, <1>2, <1>3, <2>2 DEF DoneBy, Final
    <3>2. \A x \in AllIds \ {id} : effects'[x] = effects[x]
      BY <2>2 DEF Affected, Inv, HonestInv
    <3> QED
      BY <1>3, <3>1, <3>2
  <2> QED
    BY <2>1, <2>2
<1> QED
  BY <1>1, <1>4, <1>5, CalmTick

LEMMA CalmDispatch ==
  ASSUME Inv, Calm, NEW n \in Nodes, NEW id \in Turn(n), Dispatch(n, id)
  PROVE  Calm'
<1>1. UNCHANGED <<rows, used, effects>> /\ RowInv
  BY DEF Dispatch, Inv
<1>2. ASSUME NEW r, NEW phase, NEW todo, Begun(n, id, r, phase, todo)
      PROVE  Calm'
  <2>1. /\ DOMAIN node'[n].work = DOMAIN node[n].work
        /\ \A x \in DOMAIN node[n].work \ {id} : node'[n].work[x] = node[n].work[x]
        /\ node'[n].batch = node[n].batch /\ \A m \in Nodes \ {n} : node'[m] = node[m]
    BY <1>1, <1>2, BegunNode
  <2>2. id \in node[n].batch
    BY OneTurn DEF Inv
  <2>3. \A x \in AllIds : DoneBy(n, x) => DoneBy(n, x)'
    BY <2>1, <2>2 DEF DoneBy
  <2> QED
    BY <1>1, <2>1, <2>3, CalmTick
<1>3. ASSUME NEW r, Dispatched(n, id, r)
      PROVE  Calm'
  BY <1>1, <1>3, CalmEnds
<1> QED
  BY <1>1, <1>2, <1>3, DispatchCases

LEMMA CalmLockTask ==
  ASSUME Inv, Calm, NEW n \in Nodes, NEW id \in Turn(n), LockTask(n, id)
  PROVE  Calm'
<1>1. UNCHANGED <<rows, used, effects>>
  BY DEF LockTask
<1>2. CASE \E i \in Wanted(n) :
             node' = [node EXCEPT ![n].todo = @ \ {i}, ![n].held = @ \cup {i}]
  <2>1. /\ node'[n].batch = node[n].batch /\ node'[n].work = node[n].work
        /\ \A m \in Nodes \ {n} : node'[m] = node[m]
    BY <1>2, LockedItem
  <2>2. \A x \in AllIds : DoneBy(n, x) => DoneBy(n, x)'
    BY <2>1 DEF DoneBy
  <2> QED
    BY <1>1, <2>1, <2>2, CalmTick
<1>3. CASE \E r : Dispatched(n, id, r)
  BY <1>1, <1>3, CalmEnds
<1> QED
  BY <1>2, <1>3 DEF LockTask

LEMMA CalmCommit ==
  ASSUME Inv, Calm, NEW n \in Nodes, NEW id \in Turn(n),
         CommitStart(n, id) \/ CommitCompletion(n, id)
  PROVE  Calm'
<1>1. PICK r : r = Succeeded(node[n].work[id])
  OBVIOUS
<1>2. Dispatched(n, id, r) /\ Affected(id) /\ rows' = rows /\ used' = used
  BY <1>1 DEF CommitStart, CommitCompletion
<1>3. Final(r)
  BY <1>1, OneTurn DEF Inv, Final, Succeeded, InboxRow
<1> QED
  BY <1>2, <1>3, CalmEnds

LEMMA CalmPoll ==
  ASSUME Inv, Calm, NEW n \in Nodes, Poll(n)
  PROVE  Calm'
<1>1. \A m \in Nodes \ {n} : node'[m] = node[m]
  BY DEF Poll, Inv, RowInv, RowTypes
<1>2. \A x \in AllIds : ~DoneBy(n, x)
  BY DEF Poll, InTick, DoneBy
<1> QED
  BY <1>1, <1>2, CalmTick DEF Poll

LEMMA CalmCommitBatch ==
  ASSUME Inv, Calm, NEW n \in Nodes, CommitBatch(n)
  PROVE  Calm'
<1>1. /\ used' = used /\ effects' = effects /\ node[n].batch = {}
      /\ DOMAIN rows' = DOMAIN rows
      /\ \A id \in DOMAIN rows :
           rows'[id] = IF id \in DOMAIN node[n].work THEN node[n].work[id] ELSE rows[id]
  BY DEF CommitBatch
<1>2. \A m \in Nodes \ {n} : node'[m] = node[m]
  BY DEF CommitBatch, Inv, RowInv, RowTypes
<1>3. ASSUME NEW id \in DOMAIN rows, effects[id] > 0
      PROVE  Final(rows'[id]) \/ \E m \in Nodes : DoneBy(m, id)'
  <2>1. CASE Final(rows[id])
    <3>1. id \notin DOMAIN node[n].work
      BY <2>1 DEF Final, Inv, RowInv, Locked
    <3> QED
      BY <1>1, <2>1, <3>1
  <2>2. ASSUME NEW m \in Nodes, DoneBy(m, id)
        PROVE  Final(rows'[id]) \/ \E k \in Nodes : DoneBy(k, id)'
    <3>1. CASE m = n
      BY <1>1, <2>2, <3>1 DEF DoneBy
    <3>2. CASE m # n
      BY <1>2, <2>2, <3>2 DEF DoneBy
    <3> QED
      BY <3>1, <3>2
  <2> QED
    BY <1>3, <2>1, <2>2 DEF Calm
<1> QED
  BY <1>1, <1>3 DEF Calm, Final

\* Rows about which something was done stay, or are deleted.
LEMMA CalmRows ==
  ASSUME Inv, Calm, effects' = effects, used \subseteq used',
         \A n \in Nodes : node'[n].batch = node[n].batch /\ node'[n].work = node[n].work,
         \A id \in DOMAIN rows' : effects[id] > 0 => id \in DOMAIN rows /\ rows'[id] = rows[id]
  PROVE  Calm'
BY DEF Calm, DoneBy, Final

LEMMA CalmRequest ==
  ASSUME Inv, Calm, NEW n \in Nodes, Request(n)
  PROVE  Calm'
<1>1. ASSUME NEW id \in Ids[n] \ used, NEW row, Insert(n, id, row), UNCHANGED <<node, effects>>
      PROVE  Calm'
  <2>1. ~(effects[id] > 0) /\ id \in AllIds
    BY DEF AllIds, Calm
  <2>2. \A x \in DOMAIN rows' : effects[x] > 0 => x \in DOMAIN rows /\ rows'[x] = rows[x]
    BY <1>1, <2>1 DEF Insert
  <2> QED
    BY <1>1, <2>2, CalmRows DEF Insert
<1>2. ASSUME NEW event, NEW payload, EnqueueWithOwnKey(n, event, payload)
      PROVE  Calm'
  BY <1>1, <1>2 DEF EnqueueWithOwnKey
<1>3. ASSUME NEW event, NEW key, NEW payload, Enqueue(n, event, key, payload)
      PROVE  Calm'
  <2>1. UNCHANGED <<node, effects>>
    BY <1>3 DEF Enqueue
  <2>2. PICK row : row = NewRow(event, key, payload)
    OBVIOUS
  <2>3. CASE \E id \in Ids[n] \ used : Insert(n, id, row)
    BY <1>1, <2>1, <2>3
  <2>4. CASE \E id \in DOMAIN rows \ RowLocks :
               /\ Resubmittable(rows[id]) /\ rows' = [rows EXCEPT ![id] = row] /\ UNCHANGED used
    <3>1. PICK id \in DOMAIN rows \ RowLocks :
               /\ Resubmittable(rows[id]) /\ rows' = [rows EXCEPT ![id] = row] /\ used' = used
      BY <2>4
    <3>2. \A m \in Nodes : ~DoneBy(m, id)
      BY <3>1 DEF DoneBy, RowLocks
    <3>3. ~(effects[id] > 0)
      BY <3>1, <3>2 DEF Calm, Final, Resubmittable
    <3>4. \A x \in DOMAIN rows' : effects[x] > 0 => x \in DOMAIN rows /\ rows'[x] = rows[x]
      BY <3>1, <3>3
    <3> QED
      BY <2>1, <3>1, <3>4, CalmRows
  <2> QED
    BY <1>3, <2>2, <2>3, <2>4 DEF Enqueue, SameRequest
<1> QED
  BY <1>2, <1>3 DEF Request

LEMMA NextCalm ==
  ASSUME MaxCrashes = 0
  PROVE  Inv /\ Counted /\ Calm /\ [Next]_vars => Calm'
<1> SUFFICES ASSUME Inv, Counted, Calm, [Next]_vars PROVE Calm'
  OBVIOUS
<1>1. ASSUME NEW n \in Nodes, NEW id \in Turn(n), NothingCompleted(n, id) \/ Fail(n, id)
      PROVE  Calm'
  <2>1. UNCHANGED <<rows, used, effects>> /\ \E r : Dispatched(n, id, r)
    BY <1>1 DEF NothingCompleted, Fail
  <2> QED
    BY <2>1, CalmEnds
<1>2. ASSUME NEW n \in Nodes, Tick(n) PROVE Calm'
  BY <1>1, <1>2, CalmPoll, CalmLockTask, CalmCommitBatch, CalmDispatch, CalmCommit DEF Tick
<1>3. \A n \in Nodes : ~Crash(n)
  BY DEF Counted, Crash
<1>4. ASSUME NEW i \in DOMAIN instances,
             Arrive(i) \/ Claim(i) \/ Suspend(i) \/ Resume(i) \/ Finish(i)
      PROVE  Calm'
  <2>1. SamePhases
    BY <1>4, OwnWay
  <2>2. UNCHANGED <<rows, used, effects>>
    BY <1>4 DEF Arrive, Claim, Suspend, Resume, Finish
  <2> QED
    BY <2>1, <2>2, CalmRows DEF SamePhases
<1>5. CASE Cleanup \/ UNCHANGED vars
  <2>1. UNCHANGED <<used, node, effects>>
    BY <1>5 DEF Cleanup, vars
  <2>2. \A id \in DOMAIN rows' : id \in DOMAIN rows /\ rows'[id] = rows[id]
    BY <1>5 DEF Cleanup, vars
  <2> QED
    BY <2>1, <2>2, CalmRows
<1> QED
  BY <1>1, <1>2, <1>3, <1>4, <1>5, CalmRequest DEF Next

\* Where no node crashes, any number of nodes act at most once upon each request,
\* and what is settled stays settled: the batches of two ticks share no row
\* (EventInboxRepository.lockUnprocessed, InboxPollJob.runBatch).
THEOREM LedgerKeptByMany ==
  ASSUME MaxCrashes = 0
  PROVE  Spec => KeepsLedger
<1>1. Init => Calm
  BY DEF Init, Calm
<1>2. Inv /\ Counted /\ Calm /\ [Next]_vars => Calm'
  BY NextCalm
<1>3. Inv /\ Calm => Unacted
  BY CalmUnacted DEF Unacted, Turn
<1>4. Inv /\ Calm /\ [Next]_vars => [Ledger!Next]_<<SeenState, effects>>
  BY <1>3, LedgerStep
<1> QED
  BY <1>1, <1>2, <1>4, AlwaysInv, LedgerInit, PTL DEF Spec, KeepsLedger, Ledger!Spec
=============================================================================
