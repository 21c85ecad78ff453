--------------------------- MODULE OrderlyFlowProofs ---------------------------
(***************************************************************************)
(* On every orderly graph, as long as nobody goes back, no activity runs   *)
(* twice, no work item goes astray, every work item follows its activity,  *)
(* and a join waits for whatever is under way to it.  And, also when       *)
(* somebody goes back, what has ended stays so, where every terminate end  *)
(* event is reached alone.                                                 *)
(***************************************************************************)
EXTENDS OrderlyFlow, TokenFlowProofs, Induction, FunctionTheorems

\* Where no resume is under way.
Ordered(st, stk) == FlowFits(st, stk) /\ ItemsFit(st, stk)

\* No join is about to be tested.
NoJoin(stk) == \A i \in DOMAIN stk : \A k \in stk[i].todo : Merging(Item(stk, i, k))

StatusType == [Activities -> Statuses]

-----------------------------------------------------------------------------
(* The graph.                                                              *)

\* What has sources waits for all of them, or they exclude each other.
LEMMA SourcesAreActivities ==
  ASSUME NEW a \in Activities
  PROVE  Sources(a) \in SUBSET Activities
<1>1. In[a] \in Seq(Activities)
  BY GraphAssumption
<1> QED
  BY <1>1 DEF Sources, ToSet

\* An activity that takes one flow on has one next activity at most.
LEMMA SoleNext ==
  ASSUME NEW a \in Activities, NEW m, Sole(a),
         NEW i \in NextOf(a, m), NEW k \in NextOf(a, m)
  PROVE  i = k
<1>1. i \in DOMAIN Out[a] /\ k \in DOMAIN Out[a] /\ Out[a] \in Seq(Activities)
  BY NextOfType, GraphAssumption
<1>2. CASE Kind[a] = "exclusive"
  <2>1. NextOf(a, m) = FirstOf(a, GatewayNext(a, m))
    BY <1>2, Zenon DEF NextOf
  <2>2. PICK p, q : p = <<a, Out[a][i]>> /\ q = <<a, Out[a][k]>>
    OBVIOUS
  <2>3. p \in Flows /\ q \in Flows
    BY <1>1, <2>2 DEF Flows, ToSet
  <2>4. PICK x, y : x = Rank[p] /\ y = Rank[q]
    OBVIOUS
  <2>5. x \in Int /\ y \in Int
    <3>1. x \in 0..9999
      BY <2>3, <2>4, PriorityAssumption
    <3>2. y \in 0..9999
      BY <2>3, <2>4, PriorityAssumption
    <3> QED
      BY <3>1, <3>2
  <2>6. /\ x < y \/ (x = y /\ i <= k)
        /\ y < x \/ (y = x /\ k <= i)
    BY <2>1, <2>2, <2>4 DEF FirstOf, Precedes
  <2>7. i \in Nat /\ k \in Nat
    BY NextOfType
  <2> QED
    BY <2>5, <2>6, <2>7
<1>3. CASE Len(Out[a]) = 1
  BY <1>1, <1>3
<1> QED
  BY <1>2, <1>3 DEF Sole

\* Those that a join goes on without have one source.
LEMMA WaitedForIsSingle ==
  ASSUME Orderly, NEW a \in WaitedFor
  PROVE  a \in Activities /\ Single(a) /\ Merging(a)
<1>1. PICK j \in Activities : ~Merging(j) /\ Kind[j] # "parallel" /\ a \in Sources(j)
  BY DEF WaitedFor
<1>2. a \in Activities
  BY <1>1, SourcesAreActivities
<1>3. Covered(j) \/ Race(j)
  BY <1>1 DEF Orderly, FlowsAgree
<1>4. Single(a)
  BY <1>1, <1>3 DEF Covered, Race, Single
<1> QED
  BY <1>2, <1>4 DEF Single, Merging

-----------------------------------------------------------------------------
(* The call stack.                                                         *)

\* In an orderly graph each flow is known at both its ends.
LEMMA OrderlyAgrees == Orderly => FlowsAgree
BY DEF Orderly

\* What a loop executes is an activity, and a source of it executes it.
LEMMA ItemType ==
  ASSUME FlowsAgree, NEW stk \in Seq(Frames), NEW i \in DOMAIN stk,
         NEW k \in stk[i].todo
  PROVE  /\ stk[i] \in Frames /\ k \in DOMAIN ListOf(stk[i].by)
         /\ Item(stk, i, k) \in Activities
         /\ stk[i].by # Engine => /\ stk[i].by \in Activities
                                  /\ stk[i].by \in Sources(Item(stk, i, k))
         /\ stk[i].by = Engine => Item(stk, i, k) = Order[k]
<1>1. stk[i] \in Frames
  OBVIOUS
<1>2. /\ stk[i].by \in Activities \cup {Engine} /\ k \in DOMAIN ListOf(stk[i].by)
      /\ ListOf(stk[i].by) \in Seq(Activities)
  BY <1>1, GraphAssumption DEF Frames, ListOf
<1>3. Item(stk, i, k) \in Activities
  BY <1>2 DEF Item
<1>4. ASSUME stk[i].by # Engine
      PROVE  stk[i].by \in Activities /\ stk[i].by \in Sources(Item(stk, i, k))
  <2>1. Item(stk, i, k) \in ToSet(Out[stk[i].by])
    BY <1>2, <1>4 DEF Item, ListOf, ToSet
  <2> QED
    BY <1>2, <1>3, <1>4, <2>1 DEF FlowsAgree
<1> QED
  BY <1>1, <1>2, <1>3, <1>4 DEF Item, ListOf

\* An activity is executed by one loop, once.
LEMMA OneEntry ==
  ASSUME Orderly, NEW stk \in Seq(Frames), NEW st, Ordered(st, stk),
         NEW i \in DOMAIN stk, NEW k \in stk[i].todo,
         NEW j \in DOMAIN stk, NEW l \in stk[j].todo,
         Item(stk, i, k) = Item(stk, j, l)
  PROVE  i = j /\ k = l
<1> DEFINE a == Item(stk, i, k)
<1>1. a \in Activities
  BY ItemType, OrderlyAgrees
<1>2. CASE ~Merging(a)
  BY <1>2 DEF Ordered, ItemsFit
<1>3. CASE Merging(a)
  <2>1. ASSUME stk[i].by = Engine \/ stk[j].by = Engine
        PROVE  stk[i].by = stk[j].by
    <3>1. Sources(a) = {}
      BY <2>1 DEF Ordered, ItemsFit, IsStart, Sources, ToSet
    <3> QED
      BY <3>1, ItemType, OrderlyAgrees
  <2>2. ASSUME stk[i].by # Engine, stk[j].by # Engine
        PROVE  stk[i].by = stk[j].by
    <3>1. stk[i].by \in Sources(a) /\ stk[j].by \in Sources(a)
      BY <2>2, ItemType, OrderlyAgrees
    <3>2. Entered(st, stk[i].by) /\ Entered(st, stk[j].by)
      BY <2>2 DEF Ordered, FlowFits, LoopsFit, Entered
    <3> QED
      BY <1>3, <3>1, <3>2 DEF Merging, Ordered, FlowFits, Excludes, Touched
  <2>3. i = j
    BY <2>1, <2>2 DEF Ordered, FlowFits, LoopsFit
  <2>4. IsInjective(ListOf(stk[i].by))
    BY ItemType, OrderlyAgrees DEF Orderly, ListOf, Frames
  <2>5. k \in DOMAIN ListOf(stk[i].by) /\ l \in DOMAIN ListOf(stk[i].by)
    BY <2>3, ItemType, OrderlyAgrees
  <2> QED
    BY <2>3, <2>4, <2>5 DEF IsInjective, Item
<1> QED
  BY <1>2, <1>3

\* The loop that is on top, or the whole of it, is what is popped.
LEMMA PoppedShape ==
  ASSUME stack \in Seq(Frames), stack # <<>>
  PROVE  /\ 1 \in DOMAIN stack
         /\ Min(Top.todo) \in stack[1].todo /\ Item(stack, 1, Min(Top.todo)) = Current
         /\ Popped \in Seq(Frames)
         /\ \E d \in {0, 1} :
              /\ Len(Popped) = Len(stack) - d
              /\ d = 1 => stack[1].todo = {Min(Top.todo)}
              /\ \A i \in DOMAIN Popped :
                   /\ i + d \in DOMAIN stack /\ i \in Nat
                   /\ Popped[i].by = stack[i + d].by
                   /\ Popped[i].todo \subseteq stack[i + d].todo
                   /\ i + d = 1 => Min(Top.todo) \notin Popped[i].todo
<1>1. Top = stack[1] /\ Top \in Frames /\ 1 \in DOMAIN stack
  BY DEF Top
<1>2. Min(Top.todo) \in Top.todo
  BY <1>1, MinIsMember DEF Frames
<1>3. Item(stack, 1, Min(Top.todo)) = Current
  BY <1>1 DEF Item, Current
<1>4. Popped \in Seq(Frames)
  BY StackType
<1>5. CASE Top.todo = {Min(Top.todo)}
  <2>1. Popped = Tail(stack)
    BY <1>5 DEF Popped
  <2>2. /\ Len(Popped) = Len(stack) - 1
        /\ \A i \in DOMAIN Popped :
             i + 1 \in DOMAIN stack /\ i \in Nat /\ i # 0 /\ Popped[i] = stack[i + 1]
    BY <1>1, <2>1
  <2>3. \A i \in DOMAIN Popped :
          /\ i + 1 \in DOMAIN stack /\ i \in Nat
          /\ Popped[i].by = stack[i + 1].by
          /\ Popped[i].todo \subseteq stack[i + 1].todo
          /\ i + 1 = 1 => Min(Top.todo) \notin Popped[i].todo
    BY <2>2
  <2> QED
    BY <1>1, <1>2, <1>3, <1>4, <1>5, <2>2, <2>3
<1>6. CASE Top.todo # {Min(Top.todo)}
  <2> DEFINE f == [Top EXCEPT !.todo = @ \ {Min(@)}]
  <2>1. Popped = <<f>> \o Tail(stack)
    BY <1>6 DEF Popped
  <2>2. f.by = Top.by /\ f.todo = Top.todo \ {Min(Top.todo)}
    BY <1>1 DEF Frames
  <2>3. f \in Frames
    BY <1>1, <1>2, <1>6, <2>2 DEF Frames
  <2> HIDE DEF f
  <2>4. Len(Popped) = Len(stack) /\ \A i \in 2..Len(stack) : Popped[i] = stack[i]
    BY <2>1, <2>3, <1>1
  <2>5. Popped[1] = f
    BY <2>1, <2>3, <1>1
  <2>6. ASSUME NEW i \in DOMAIN Popped
        PROVE  /\ i + 0 \in DOMAIN stack /\ i \in Nat
               /\ Popped[i].by = stack[i + 0].by
               /\ Popped[i].todo \subseteq stack[i + 0].todo
               /\ i + 0 = 1 => Min(Top.todo) \notin Popped[i].todo
    <3>1. i \in 1..Len(stack)
      BY <2>4, <1>4
    <3>2. CASE i = 1
      BY <1>1, <3>1, <3>2, <2>2, <2>5
    <3>3. CASE i # 1
      BY <3>1, <3>3, <2>4
    <3> QED
      BY <3>2, <3>3
  <2>7. /\ Len(Popped) = Len(stack) - 0
        /\ 0 = 1 => stack[1].todo = {Min(Top.todo)}
    BY <2>4
  <2> QED
    BY <1>1, <1>2, <1>3, <1>4, <2>6, <2>7
<1> QED
  BY <1>5, <1>6

-----------------------------------------------------------------------------
(* What a step does to the order of the tokens.                            *)

\* Taking an activity off the stack keeps the order; it has not been entered, is
\* on the stack no more, and no alternative to it has a token.
LEMMA Popping ==
  ASSUME Orderly, stack \in Seq(Frames), stack # <<>>, NEW st, Ordered(st, stack)
  PROVE  /\ Popped \in Seq(Frames)
         /\ Ordered(st, Popped) /\ NoJoin(Popped)
         /\ Current \in Activities
         /\ ~Pending(Popped, Current) /\ ~Entered(st, Current)
         /\ \A x \in Activities : Touched(st, Popped, x) => Touched(st, stack, x)
         /\ \A x \in Activities : Spent(st, stack, x) => Spent(st, Popped, x)
         /\ Touched(st, stack, Current)
         /\ Current \in WaitedFor => st[Current] # "STOPPED"
<1> DEFINE k0 == Min(Top.todo)
<1>1. /\ 1 \in DOMAIN stack /\ k0 \in stack[1].todo /\ Item(stack, 1, k0) = Current
      /\ Popped \in Seq(Frames)
  BY PoppedShape
<1>2. PICK d \in {0, 1} :
         /\ Len(Popped) = Len(stack) - d
         /\ d = 1 => stack[1].todo = {k0}
         /\ \A i \in DOMAIN Popped :
              /\ i + d \in DOMAIN stack /\ i \in Nat
              /\ Popped[i].by = stack[i + d].by
              /\ Popped[i].todo \subseteq stack[i + d].todo
              /\ i + d = 1 => k0 \notin Popped[i].todo
  BY PoppedShape
<1> HIDE DEF k0
<1>3. \A i \in DOMAIN Popped : \A k \in Popped[i].todo :
        k \in stack[i + d].todo /\ Item(Popped, i, k) = Item(stack, i + d, k)
  BY <1>2 DEF Item
<1>4. \A x : Pending(Popped, x) => Pending(stack, x)
  BY <1>2, <1>3 DEF Pending
<1>5. LoopsFit(st, Popped)
  <2>1. \A i \in DOMAIN Popped : Popped[i].by # Engine => st[Popped[i].by] = "COMPLETED"
    BY <1>2 DEF Ordered, FlowFits, LoopsFit
  <2>2. ASSUME NEW i \in DOMAIN Popped, NEW j \in DOMAIN Popped,
               Popped[i].by = Popped[j].by
        PROVE  i = j
    <3>1. i + d = j + d
      BY <1>2, <2>2 DEF Ordered, FlowFits, LoopsFit
    <3> QED
      BY <1>2, <3>1
  <2>3. ASSUME NEW i \in DOMAIN Popped, Popped[i].by \in Humans
        PROVE  i = Len(Popped)
    <3>1. i + d = Len(stack)
      BY <1>2, <2>3 DEF Ordered, FlowFits, LoopsFit
    <3>2. Len(stack) \in Nat
      OBVIOUS
    <3> QED
      BY <1>2, <3>1, <3>2
  <2> QED
    BY <2>1, <2>2, <2>3 DEF LoopsFit
<1>6. ASSUME NEW i \in DOMAIN Popped, NEW k \in Popped[i].todo
      PROVE  Merging(Item(Popped, i, k))
  <2>1. SUFFICES ASSUME ~Merging(Item(Popped, i, k))
                 PROVE  FALSE
    OBVIOUS
  <2>2. i + d = 1 /\ stack[i + d].todo = {k}
    BY <1>2, <1>3, <2>1 DEF Ordered, ItemsFit
  <2>3. k = k0
    BY <1>1, <2>2
  <2> QED
    BY <1>2, <2>2, <2>3
<1>7. ItemsFit(st, Popped)
  BY <1>2, <1>3, <1>6 DEF Ordered, ItemsFit
<1>8. \A x : Spent(st, stack, x) => Spent(st, Popped, x)
  BY <1>4 DEF Spent
<1>9. \A x : Touched(st, Popped, x) => Touched(st, stack, x)
  BY <1>4 DEF Touched
<1>10. Reaches(st, Popped)
  BY <1>8 DEF Ordered, FlowFits, Reaches, Reached
<1>11. Excludes(st, Popped)
  BY <1>9 DEF Ordered, FlowFits, Excludes
<1>12. ~Entered(st, Current) /\ Pending(stack, Current)
  BY <1>1 DEF Ordered, ItemsFit, Pending
<1>13. ~Pending(Popped, Current)
  <2>1. SUFFICES ASSUME NEW i \in DOMAIN Popped, NEW k \in Popped[i].todo,
                        Item(Popped, i, k) = Current
                 PROVE  FALSE
    BY DEF Pending
  <2>2. /\ i + d \in DOMAIN stack /\ k \in stack[i + d].todo
        /\ Item(stack, i + d, k) = Item(stack, 1, k0)
    BY <1>1, <1>2, <1>3, <2>1
  <2>3. PICK j \in DOMAIN stack : j = i + d
    BY <2>2
  <2>4. j = 1 /\ k = k0
    BY <1>1, <2>2, <2>3, OneEntry
  <2> QED
    BY <1>2, <2>3, <2>4
<1>14. Current \in WaitedFor => st[Current] # "STOPPED"
  BY <1>12 DEF Ordered, FlowFits, Reaches, Spent
<1>15. Ordered(st, Popped)
  BY <1>5, <1>7, <1>10, <1>11 DEF Ordered, FlowFits
<1> QED
  BY <1>1, <1>6, <1>8, <1>9, <1>12, <1>13, <1>14, <1>15, StackType
     DEF NoJoin, Touched

\* Entering an activity that a token has reached keeps the order.
LEMMA Entering ==
  ASSUME Orderly, NEW st \in StatusType, NEW stk \in Seq(Frames), Ordered(st, stk),
         NEW a \in Activities, ~Pending(stk, a), ~Entered(st, a), Reached(st, stk, a),
         a \in WaitedFor => st[a] # "STOPPED",
         \A p \in Alternatives : /\ p[1] = a => ~Touched(st, stk, p[2])
                                 /\ p[2] = a => ~Touched(st, stk, p[1]),
         \A p \in Before : p[2] = a => st[p[1]] = "COMPLETED"
  PROVE  Ordered([st EXCEPT ![a] = "RUNNING"], stk)
<1> DEFINE next == [st EXCEPT ![a] = "RUNNING"]
<1>1. /\ next \in StatusType /\ next[a] = "RUNNING" /\ st[a] # "COMPLETED"
      /\ \A x \in Activities \ {a} : next[x] = st[x]
  BY DEF StatusType, Statuses, Entered
<1> HIDE DEF next
<1>2. \A x \in Activities : next[x] = "COMPLETED" <=> st[x] = "COMPLETED"
  BY <1>1
<1>3. \A x \in Activities \ {a} : Entered(next, x) <=> Entered(st, x)
  BY <1>1 DEF Entered
<1>4. \A x \in Activities : Sources(x) \in SUBSET Activities
  BY SourcesAreActivities
<1>5. \A x \in Activities \ {a} : Spent(st, stk, x) => Spent(next, stk, x)
  BY <1>1, <1>2, <1>4 DEF Spent
<1>6. \A x \in WaitedFor : Spent(st, stk, x) => Spent(next, stk, x)
  BY <1>5, WaitedForIsSingle DEF Spent
<1>7. LoopsFit(next, stk)
  <2>1. ASSUME NEW i \in DOMAIN stk, stk[i].by # Engine
        PROVE  next[stk[i].by] = "COMPLETED"
    <3>1. stk[i] \in Frames
      OBVIOUS
    <3>2. stk[i].by \in Activities
      BY <2>1, <3>1 DEF Frames
    <3> QED
      BY <1>2, <2>1, <3>2 DEF Ordered, FlowFits, LoopsFit
  <2> QED
    BY <2>1 DEF Ordered, FlowFits, LoopsFit
<1>8. ItemsFit(next, stk)
  <2>1. ASSUME NEW i \in DOMAIN stk, NEW k \in stk[i].todo
        PROVE  ~Entered(next, Item(stk, i, k))
    <3>1. Item(stk, i, k) \in Activities \ {a}
      BY ItemType, OrderlyAgrees DEF Pending
    <3> QED
      BY <1>3, <3>1 DEF Ordered, ItemsFit
  <2> QED
    BY <2>1 DEF Ordered, ItemsFit
<1>9. Reaches(next, stk)
  <2>1. ASSUME NEW x \in Activities, Reached(st, stk, x)
        PROVE  Reached(next, stk, x)
    <3>1. ASSUME ~Merging(x), Kind[x] # "parallel", NEW y \in Sources(x),
                 Spent(st, stk, y)
          PROVE  Spent(next, stk, y)
      <4>1. y \in WaitedFor
        BY <3>1 DEF WaitedFor
      <4> QED
        BY <1>6, <3>1, <4>1
    <3> QED
      BY <1>2, <1>4, <2>1, <3>1 DEF Reached
  <2>2. \A x \in Activities : Entered(next, x) => Reached(st, stk, x)
    BY <1>3 DEF Ordered, FlowFits, Reaches
  <2>3. \A x \in WaitedFor : next[x] = "STOPPED" => st[x] = "STOPPED"
    BY <1>1, WaitedForIsSingle
  <2>4. \A x \in Activities : next[x] # "COMPENSATED"
    BY <1>1 DEF Ordered, FlowFits, Reaches
  <2> QED
    BY <1>6, <2>1, <2>2, <2>3, <2>4 DEF Ordered, FlowFits, Reaches
<1>10. Excludes(next, stk)
  <2>1. \A p \in Alternatives : p[1] \in Activities /\ p[2] \in Activities /\ p[1] # p[2]
    BY DEF Orderly, Excluding
  <2>2. \A p \in Before : p[1] \in Activities /\ p[2] \in Activities
    BY DEF Orderly
  <2>3. \A x \in Activities \ {a} : Touched(next, stk, x) => Touched(st, stk, x)
    BY <1>3 DEF Touched
  <2>4. ASSUME NEW p \in Alternatives
        PROVE  ~(Touched(next, stk, p[1]) /\ Touched(next, stk, p[2]))
    BY <2>1, <2>3 DEF Ordered, FlowFits, Excludes
  <2>5. ASSUME NEW p \in Before, Touched(next, stk, p[2])
        PROVE  next[p[1]] = "COMPLETED"
    BY <1>2, <2>2, <2>3, <2>5 DEF Ordered, FlowFits, Excludes
  <2> QED
    BY <2>4, <2>5 DEF Excludes
<1> QED
  BY <1>7, <1>8, <1>9, <1>10 DEF Ordered, FlowFits, next

\* A token has come to what was reached, also when other activities are stopped.
LEMMA StoppingReaches ==
  ASSUME NEW A \in SUBSET Activities, \A x \in A : status[x] # "COMPLETED",
         status \in StatusType, NEW stk, NEW a \in Activities, Reached(status, stk, a)
  PROVE  Reached(StatusStopping(A), stk, a)
<1>1. \A x \in Activities : status[x] \in {"COMPLETED", "STOPPED"}
                           => StatusStopping(A)[x] = status[x]
  BY DEF StatusStopping
<1>2. \A x \in Activities : Sources(x) \in SUBSET Activities
  BY SourcesAreActivities
<1>3. \A x \in Activities : Spent(status, stk, x) => Spent(StatusStopping(A), stk, x)
  BY <1>1, <1>2 DEF Spent
<1> QED
  BY <1>1, <1>2, <1>3 DEF Reached

\* Stopping activities keeps the order, if no token can come any more to those
\* among them that a join goes on without.
LEMMA Stopping ==
  ASSUME Orderly, status \in StatusType, NEW stk \in Seq(Frames), Ordered(status, stk),
         NEW A \in SUBSET Activities, \A x \in A : status[x] # "COMPLETED",
         \A x \in A \cap WaitedFor :
           \/ status[x] \in {"RUNNING", "SUSPENDED", "STOPPED"}
           \/ ~Pending(stk, x) /\ \A z \in Sources(x) : status[z] = "COMPLETED"
  PROVE  Ordered(StatusStopping(A), stk)
<1> DEFINE next == StatusStopping(A)
<1>1. \A x \in Activities : next[x] = IF x \in A THEN "STOPPED" ELSE status[x]
  BY DEF StatusStopping
<1>2. \A x \in Activities : Reached(status, stk, x) => Reached(next, stk, x)
  BY StoppingReaches
<1> HIDE DEF next
<1>3. \A x \in Activities : next[x] = "COMPLETED" <=> status[x] = "COMPLETED"
  BY <1>1
<1>4. \A x \in Activities : Entered(next, x) => Entered(status, x)
  BY <1>1 DEF Entered
<1>5. \A x \in Activities : Sources(x) \in SUBSET Activities
  BY SourcesAreActivities
<1>6. LoopsFit(next, stk)
  <2>1. ASSUME NEW i \in DOMAIN stk, stk[i].by # Engine
        PROVE  next[stk[i].by] = "COMPLETED"
    <3>1. stk[i] \in Frames
      OBVIOUS
    <3>2. stk[i].by \in Activities
      BY <2>1, <3>1 DEF Frames
    <3> QED
      BY <1>3, <2>1, <3>2 DEF Ordered, FlowFits, LoopsFit
  <2> QED
    BY <2>1 DEF Ordered, FlowFits, LoopsFit
<1>7. ItemsFit(next, stk)
  <2>1. ASSUME NEW i \in DOMAIN stk, NEW k \in stk[i].todo
        PROVE  ~Entered(next, Item(stk, i, k))
    <3>1. Item(stk, i, k) \in Activities
      BY ItemType, OrderlyAgrees
    <3> QED
      BY <1>4, <3>1 DEF Ordered, ItemsFit
  <2> QED
    BY <2>1 DEF Ordered, ItemsFit
<1>8. ASSUME NEW x \in WaitedFor, next[x] = "STOPPED"
      PROVE  Spent(next, stk, x)
  <2>1. x \in Activities /\ Single(x) /\ Merging(x)
    BY WaitedForIsSingle
  <2>2. CASE ~Entered(status, x)
    BY <1>1, <1>3, <1>5, <1>8, <2>1, <2>2
       DEF Ordered, FlowFits, Reaches, Spent, Entered
  <2>3. CASE Entered(status, x)
    <3>1. Reached(status, stk, x)
      BY <2>1, <2>3 DEF Ordered, FlowFits, Reaches
    <3>2. \A z \in Sources(x) : status[z] = "COMPLETED"
      BY <2>1, <3>1 DEF Reached, Single
    <3>3. ~Pending(stk, x)
      BY <2>3 DEF Pending, Ordered, ItemsFit
    <3> QED
      BY <1>3, <1>5, <1>8, <2>1, <3>2, <3>3 DEF Spent
  <2> QED
    BY <2>2, <2>3
<1>9. Reaches(next, stk)
  BY <1>1, <1>2, <1>4, <1>8 DEF Ordered, FlowFits, Reaches
<1>10. Excludes(next, stk)
  BY <1>3, <1>4 DEF Ordered, FlowFits, Excludes, Touched, Orderly
<1> QED
  BY <1>6, <1>7, <1>9, <1>10 DEF Ordered, FlowFits, next

\* What follows a running activity has not been entered, and a token at one of it
\* is no alternative to a token anywhere else.
LEMMA NextIsFresh ==
  ASSUME Orderly, NEW st, NEW stk, Ordered(st, stk),
         NEW a \in Activities, st[a] = "RUNNING",
         NEW m, NEW x \in Targets(a, NextOf(a, m))
  PROVE  /\ x \in Activities /\ a \in Sources(x) /\ ~Entered(st, x)
         /\ \A y : <<x, y>> \in Alternatives
                  => ~Touched(st, stk, y) /\ y \notin Targets(a, NextOf(a, m))
<1>1. \A y \in Targets(a, NextOf(a, m)) : y \in Activities /\ a \in Sources(y)
  <2>1. ASSUME NEW y \in Targets(a, NextOf(a, m))
        PROVE  y \in Activities /\ a \in Sources(y)
    <3>1. PICK i \in NextOf(a, m) : y = Out[a][i]
      BY DEF Targets
    <3>2. i \in DOMAIN Out[a] /\ Out[a] \in Seq(Activities)
      BY NextOfType, GraphAssumption
    <3>3. y \in Activities /\ y \in ToSet(Out[a])
      BY <3>1, <3>2 DEF ToSet
    <3> QED
      BY <3>3 DEF Orderly, FlowsAgree
  <2> QED
    BY <2>1
<1>2. Touched(st, stk, a) /\ st[a] # "COMPLETED" /\ st[a] # "STOPPED"
  BY DEF Touched, Entered
<1>3. ~Entered(st, x)
  <2>1. SUFFICES ASSUME Reached(st, stk, x)
                 PROVE  FALSE
    BY <1>1 DEF Ordered, FlowFits, Reaches
  <2>2. PICK z \in Sources(x) : st[z] = "COMPLETED" /\ Merging(x)
    BY <1>1, <1>2, <2>1 DEF Reached, Spent
  <2>3. <<z, a>> \in Alternatives /\ Touched(st, stk, z)
    BY <1>1, <1>2, <2>2 DEF Merging, Touched, Entered
  <2> QED
    BY <1>2, <2>3 DEF Ordered, FlowFits, Excludes
<1>4. ASSUME NEW y, <<x, y>> \in Alternatives
      PROVE  ~Touched(st, stk, y) /\ y \notin Targets(a, NextOf(a, m))
  <2>1. x # y /\ <<y, x>> \in Alternatives
    BY <1>4, Zenon DEF Orderly, Excluding
  <2>2. CASE <<a, y>> \in Alternatives
    <3>1. <<y, a>> \in Alternatives /\ a # y
      BY <2>2 DEF Orderly, Excluding
    <3>2. ~Touched(st, stk, y)
      BY <1>2, <2>2 DEF Ordered, FlowFits, Excludes
    <3>3. a \notin Sources(y)
      BY <3>1 DEF Orderly, Excluding, Dominates
    <3> QED
      BY <1>1, <3>2, <3>3
  <2>3. CASE Kind[a] = "exclusive" /\ <<a, y>> \in Before
    <3>1. ~Touched(st, stk, y)
      BY <1>2, <2>3 DEF Ordered, FlowFits, Excludes
    <3>2. \A z \in Targets(a, NextOf(a, m)) : z = x
      BY <2>3, SoleNext DEF Targets, Sole
    <3> QED
      BY <2>1, <3>1, <3>2
  <2>4. <<a, y>> \in Alternatives \/ (Kind[a] = "exclusive" /\ <<a, y>> \in Before)
    BY <1>1, <1>4 DEF Orderly, Excluding
  <2> QED
    BY <2>2, <2>3, <2>4
<1> QED
  BY <1>1, <1>3, <1>4

\* Completing a running activity and going on with what follows keeps the order.
LEMMA Finishing ==
  ASSUME Orderly, NEW st \in StatusType, NEW stk \in Seq(Frames), Ordered(st, stk),
         NoJoin(stk), NEW a \in Activities, st[a] = "RUNNING",
         a \in Humans => stk = <<>>, NEW m, NEW next,
         next = IF NextOf(a, m) = {} THEN stk
                ELSE <<[by |-> a, todo |-> NextOf(a, m)]>> \o stk
  PROVE  Ordered([st EXCEPT ![a] = "COMPLETED"], next)
<1> DEFINE flows == NextOf(a, m)
           f     == [by |-> a, todo |-> flows]
           st1   == [st EXCEPT ![a] = "COMPLETED"]
<1>1. /\ \A x \in Activities : st1[x] = "COMPLETED" <=> st[x] = "COMPLETED" \/ x = a
      /\ \A x \in Activities \ {a} : st1[x] = st[x]
  BY DEF StatusType
<1>2. \A x \in Activities : Entered(st1, x) <=> Entered(st, x)
  BY <1>1 DEF Entered
<1>3. \A x \in Activities : Sources(x) \in SUBSET Activities
  BY SourcesAreActivities
<1>4. flows \subseteq Nat /\ flows \subseteq DOMAIN Out[a] /\ a # Engine
  BY NextOfType, GraphAssumption
<1>5. \A x \in Targets(a, flows) :
        /\ x \in Activities /\ a \in Sources(x) /\ ~Entered(st, x)
        /\ \A y : <<x, y>> \in Alternatives
                 => ~Touched(st, stk, y) /\ y \notin Targets(a, flows)
  BY NextIsFresh
<1>6. PICK d \in {0, 1} :
        /\ d = 1 <=> flows # {}
        /\ Len(next) = Len(stk) + d
        /\ \A i \in DOMAIN stk : i + d \in DOMAIN next /\ next[i + d] = stk[i]
        /\ \A i \in DOMAIN next : \/ i = 1 /\ d = 1 /\ next[i] = f
                                  \/ i - d \in DOMAIN stk /\ next[i] = stk[i - d]
  <2>1. CASE flows = {}
    <3>1. next = stk
      BY <2>1
    <3>2. /\ 0 = 1 <=> flows # {}
          /\ Len(next) = Len(stk) + 0
          /\ \A i \in DOMAIN stk : i + 0 \in DOMAIN next /\ next[i + 0] = stk[i]
          /\ \A i \in DOMAIN next : i - 0 \in DOMAIN stk /\ next[i] = stk[i - 0]
      BY <2>1, <3>1
    <3> QED
      BY <3>2
  <2>2. CASE flows # {}
    <3>1. next = <<f>> \o stk
      BY <2>2
    <3> HIDE DEF f
    <3>2. /\ Len(next) = Len(stk) + 1
          /\ \A i \in DOMAIN stk : i + 1 \in DOMAIN next /\ next[i + 1] = stk[i]
          /\ \A i \in DOMAIN next : \/ i = 1 /\ next[i] = f
                                    \/ i - 1 \in DOMAIN stk /\ next[i] = stk[i - 1]
      BY <3>1
    <3> QED
      BY <2>2, <3>2
  <2> QED
    BY <2>1, <2>2
<1>7. f.by = a /\ f.todo = flows
  OBVIOUS
<1> HIDE DEF f, st1, flows
<1>8. \A i \in DOMAIN stk : stk[i] \in Frames /\ stk[i].by # a
                          /\ (stk[i].by # Engine => stk[i].by \in Activities)
  <2> TAKE i \in DOMAIN stk
  <2>1. stk[i] \in Frames
    OBVIOUS
  <2>2. stk[i].by # a
    BY <1>4 DEF Ordered, FlowFits, LoopsFit
  <2> QED
    BY <2>1, <2>2 DEF Frames
<1>9. \A i \in DOMAIN next : i \in Nat
  BY <1>6
<1>10. LoopsFit(st1, next)
  <2>1. ASSUME NEW i \in DOMAIN next, next[i].by # Engine
        PROVE  st1[next[i].by] = "COMPLETED"
    BY <1>1, <1>6, <1>7, <1>8, <2>1 DEF Ordered, FlowFits, LoopsFit
  <2>2. ASSUME NEW i \in DOMAIN next, NEW j \in DOMAIN next, next[i].by = next[j].by
        PROVE  i = j
    <3>1. CASE next[i].by = a
      BY <1>6, <1>8, <2>2, <3>1
    <3>2. CASE next[i].by # a
      <4>1. /\ i - d \in DOMAIN stk /\ next[i] = stk[i - d]
            /\ j - d \in DOMAIN stk /\ next[j] = stk[j - d]
        BY <1>6, <1>7, <2>2, <3>2
      <4>2. i - d = j - d
        BY <2>2, <4>1 DEF Ordered, FlowFits, LoopsFit
      <4> QED
        BY <1>9, <4>2
    <3> QED
      BY <3>1, <3>2
  <2>3. ASSUME NEW i \in DOMAIN next, next[i].by \in Humans
        PROVE  i = Len(next)
    <3>1. CASE i = 1 /\ d = 1 /\ next[i] = f
      BY <1>6, <1>7, <2>3, <3>1
    <3>2. CASE i - d \in DOMAIN stk /\ next[i] = stk[i - d]
      <4>1. i - d = Len(stk) /\ Len(stk) \in Nat
        BY <2>3, <3>2 DEF Ordered, FlowFits, LoopsFit
      <4> QED
        BY <1>6, <1>9, <4>1
    <3> QED
      BY <1>6, <3>1, <3>2
  <2> QED
    BY <2>1, <2>2, <2>3 DEF LoopsFit
<1>11. \A i \in DOMAIN next : \A k \in next[i].todo :
         \/ /\ i = 1 /\ next[i] = f /\ k \in flows
            /\ Item(next, i, k) = Out[a][k] /\ Out[a][k] \in Targets(a, flows)
         \/ /\ i - d \in DOMAIN stk /\ next[i] = stk[i - d]
            /\ Item(next, i, k) = Item(stk, i - d, k) /\ k \in stk[i - d].todo
  <2> TAKE i \in DOMAIN next
  <2> TAKE k \in next[i].todo
  <2>1. CASE i = 1 /\ d = 1 /\ next[i] = f
    <3>1. Item(next, i, k) = Out[a][k] /\ k \in flows
      BY <1>4, <1>7, <2>1 DEF Item, ListOf
    <3> QED
      BY <2>1, <3>1 DEF Targets
  <2>2. CASE i - d \in DOMAIN stk /\ next[i] = stk[i - d]
    BY <2>2 DEF Item
  <2> QED
    BY <1>6, <2>1, <2>2
<1>12. ItemsFit(st1, next)
  <2>1. ASSUME NEW i \in DOMAIN next, NEW k \in next[i].todo
        PROVE  /\ ~Entered(st1, Item(next, i, k))
               /\ next[i].by = Engine => IsStart(Item(next, i, k))
               /\ ~Merging(Item(next, i, k)) => i = 1 /\ next[i].todo = {k}
    <3>1. CASE /\ i = 1 /\ next[i] = f /\ k \in flows
               /\ Item(next, i, k) = Out[a][k] /\ Out[a][k] \in Targets(a, flows)
      <4>1. ~Entered(st1, Item(next, i, k))
        BY <1>2, <1>5, <3>1
      <4>2. ASSUME ~Merging(Item(next, i, k))
            PROVE  next[i].todo = {k}
        <5>1. Sole(a)
          BY <1>5, <3>1, <4>2 DEF Orderly
        <5> QED
          BY <1>7, <3>1, <5>1, SoleNext DEF flows
      <4> QED
        BY <1>4, <1>7, <3>1, <4>1, <4>2
    <3>2. CASE /\ i - d \in DOMAIN stk /\ next[i] = stk[i - d]
               /\ Item(next, i, k) = Item(stk, i - d, k) /\ k \in stk[i - d].todo
      <4>1. Item(stk, i - d, k) \in Activities
        BY <3>2, ItemType, OrderlyAgrees
      <4> QED
        BY <1>2, <3>2, <4>1 DEF Ordered, ItemsFit, NoJoin
    <3> QED
      BY <1>11, <3>1, <3>2
  <2> QED
    BY <2>1 DEF ItemsFit
<1>13. \A x : Pending(next, x) => Pending(stk, x) \/ x \in Targets(a, flows)
  BY <1>11 DEF Pending
<1>14. \A x \in Activities : Spent(st, stk, x) => Spent(st1, next, x)
  <2>1. ASSUME NEW x \in Activities, Spent(st, stk, x)
        PROVE  Spent(st1, next, x)
    <3>1. x # a /\ a \notin Sources(x)
      BY <2>1 DEF Spent
    <3>2. ~Pending(next, x)
      BY <1>5, <1>13, <2>1, <3>1 DEF Spent
    <3> QED
      BY <1>1, <1>3, <2>1, <3>1, <3>2 DEF Spent
  <2> QED
    BY <2>1
<1>15. Reaches(st1, next)
  <2>1. \A x \in Activities : Reached(st, stk, x) => Reached(st1, next, x)
    BY <1>1, <1>3, <1>14 DEF Reached
  <2>2. \A x \in Activities : st1[x] # "COMPENSATED" /\ (st1[x] = "STOPPED" => st[x] = "STOPPED")
    BY <1>1 DEF Ordered, FlowFits, Reaches
  <2> QED
    BY <1>2, <1>14, <2>1, <2>2, WaitedForIsSingle DEF Ordered, FlowFits, Reaches
<1>16. Excludes(st1, next)
  <2>1. \A p \in Alternatives :
          /\ p = <<p[1], p[2]>> /\ <<p[2], p[1]>> \in Alternatives
          /\ p[1] \in Activities /\ p[2] \in Activities
    <3> TAKE p \in Alternatives
    <3>1. PICK x \in Activities, y \in Activities : p = <<x, y>>
      BY DEF Orderly
    <3> QED
      BY <3>1 DEF Orderly, Excluding
  <2>2. \A p \in Before : p = <<p[1], p[2]>> /\ p[1] \in Activities /\ p[2] \in Activities
    BY DEF Orderly
  <2>3. \A x \in Activities : Touched(st1, next, x)
                           => Touched(st, stk, x) \/ x \in Targets(a, flows)
    BY <1>2, <1>13 DEF Touched
  <2>4. ASSUME NEW p \in Alternatives
        PROVE  ~(Touched(st1, next, p[1]) /\ Touched(st1, next, p[2]))
    BY <1>5, <2>1, <2>3 DEF Ordered, FlowFits, Excludes
  <2>5. ASSUME NEW p \in Before, Touched(st1, next, p[2])
        PROVE  st1[p[1]] = "COMPLETED"
    <3>1. CASE Touched(st, stk, p[2])
      BY <1>1, <2>2, <3>1 DEF Ordered, FlowFits, Excludes
    <3>2. CASE p[2] \in Targets(a, flows)
      <4>1. a = p[1] \/ <<p[1], a>> \in Before
        BY <1>5, <3>2 DEF Orderly, Dominates
      <4>2. Touched(st, stk, a)
        BY DEF Touched, Entered
      <4> QED
        BY <1>1, <2>2, <4>1, <4>2 DEF Ordered, FlowFits, Excludes
    <3> QED
      BY <2>2, <2>3, <2>5, <3>1, <3>2
  <2> QED
    BY <2>4, <2>5 DEF Excludes
<1> QED
  BY <1>10, <1>12, <1>15, <1>16 DEF Ordered, FlowFits, st1

\* Taking an activity that a token has reached off the stack and entering it keeps
\* the order.
LEMMA Taking ==
  ASSUME Orderly, stack \in Seq(Frames), stack # <<>>,
         NEW st \in StatusType, Ordered(st, stack), Reached(st, Popped, Current)
  PROVE  /\ Ordered([st EXCEPT ![Current] = "RUNNING"], Popped)
         /\ NoJoin(Popped) /\ Popped \in Seq(Frames) /\ Current \in Activities
         /\ ~Entered(st, Current)
<1>1. /\ Popped \in Seq(Frames)
      /\ Ordered(st, Popped) /\ NoJoin(Popped)
      /\ Current \in Activities
      /\ ~Pending(Popped, Current) /\ ~Entered(st, Current)
      /\ \A x \in Activities : Touched(st, Popped, x) => Touched(st, stack, x)
      /\ Touched(st, stack, Current)
      /\ Current \in WaitedFor => st[Current] # "STOPPED"
  BY Popping
<1>2. \A p \in Alternatives : p[1] \in Activities /\ p[2] \in Activities
  BY DEF Orderly
<1>3. \A p \in Alternatives : /\ p[1] = Current => ~Touched(st, Popped, p[2])
                              /\ p[2] = Current => ~Touched(st, Popped, p[1])
  BY <1>1, <1>2 DEF Ordered, FlowFits, Excludes
<1>4. \A p \in Before : p[2] = Current => st[p[1]] = "COMPLETED"
  BY <1>1 DEF Ordered, FlowFits, Excludes
<1>5. PICK stk \in Seq(Frames), a \in Activities : stk = Popped /\ a = Current
  BY <1>1
<1>6. Ordered([st EXCEPT ![a] = "RUNNING"], stk)
  BY <1>1, <1>3, <1>4, <1>5, Entering
<1> QED
  BY <1>1, <1>5, <1>6

\* The other variables follow when an activity completes.
LEMMA CompletingData ==
  ASSUME TypeOK, NEW a \in Activities, NEW st \in StatusType, NEW rw, NEW m, NEW rest,
         Complete(a, st, rw, m, rest), st[a] # "COMPLETED",
         \A x \in Activities : completions[x] = IF st[x] = "COMPLETED" THEN 1 ELSE 0,
         \A x \in Humans :
           /\ x # a => /\ rw[x] = "NEW" <=> st[x] = "RUNNING"
                       /\ rw[x] = "SUSPENDED" <=> st[x] = "SUSPENDED"
           /\ x = a => rw[x] \notin {"NEW", "SUSPENDED"}
           /\ strays[x] = 0,
         \A x \in Targets(a, NextOf(a, m)) : ~Entered(st, x) /\ x # a
  PROVE  DataFits(status', completions', row', strays')
<1> DEFINE next == Targets(a, NextOf(a, m))
<1>1. /\ completions \in [Activities -> Nat] /\ strays \in [Humans -> Nat]
      /\ Humans \subseteq Activities
  BY TypesOfInv
<1>2. /\ status' = [st EXCEPT ![a] = "COMPLETED"]
      /\ completions' = [completions EXCEPT ![a] = @ + 1]
      /\ row' = [x \in Humans |-> IF x \in next THEN "NONE" ELSE rw[x]]
      /\ strays' = [x \in Humans |-> IF x \in next /\ rw[x] = "NEW"
                                    THEN strays[x] + 1 ELSE strays[x]]
  BY DEF Complete
<1> HIDE DEF next
<1>3. /\ status'[a] = "COMPLETED" /\ completions'[a] = 1
      /\ \A x \in Activities \ {a} : status'[x] = st[x] /\ completions'[x] = completions[x]
  BY <1>1, <1>2 DEF StatusType
<1>4. ASSUME NEW x \in Activities
      PROVE  completions'[x] = IF status'[x] = "COMPLETED" THEN 1 ELSE 0
  BY <1>3
<1>5. ASSUME NEW x \in Humans
      PROVE  /\ row'[x] = "NEW" <=> status'[x] = "RUNNING"
             /\ row'[x] = "SUSPENDED" <=> status'[x] = "SUSPENDED"
             /\ strays'[x] = 0
  <2>1. x \in next => ~Entered(st, x) /\ x # a
    BY DEF next
  <2>2. CASE x \in next
    BY <1>1, <1>2, <1>3, <2>1, <2>2 DEF Entered
  <2>3. CASE x \notin next
    BY <1>1, <1>2, <1>3, <2>3
  <2> QED
    BY <2>2, <2>3
<1> QED
  BY <1>4, <1>5 DEF DataFits

\* Everything stays in order when an activity on top of the stack completes, some
\* others being stopped.
LEMMA Passing ==
  ASSUME Orderly, TypeOK, stack # <<>>, NEW st \in StatusType, Ordered(st, stack),
         Reached(st, Popped, Current), Current \notin Humans, NEW rw, NEW m,
         Complete(Current, st, rw, m, Popped), DataFits(st, completions, rw, strays)
  PROVE  /\ Ordered(status', stack')
         /\ DataFits(status', completions', row', strays')
<1>1. stack \in Seq(Frames)
  BY TypesOfInv
<1>2. /\ Ordered([st EXCEPT ![Current] = "RUNNING"], Popped)
      /\ NoJoin(Popped) /\ Popped \in Seq(Frames) /\ Current \in Activities
      /\ ~Entered(st, Current)
  BY <1>1, Taking
<1>3. PICK stk \in Seq(Frames), a \in Activities : stk = Popped /\ a = Current
  BY <1>2
<1>4. PICK on : on = [st EXCEPT ![a] = "RUNNING"]
  OBVIOUS
<1>5. on \in StatusType /\ on[a] = "RUNNING" /\ [on EXCEPT ![a] = "COMPLETED"]
                                             = [st EXCEPT ![a] = "COMPLETED"]
  BY <1>4 DEF StatusType, Statuses
<1>6. PICK next : next = IF NextOf(a, m) = {} THEN stk
                         ELSE <<[by |-> a, todo |-> NextOf(a, m)]>> \o stk
  OBVIOUS
<1>7. Complete(a, st, rw, m, stk)
  BY <1>3
<1>8. status' = [st EXCEPT ![a] = "COMPLETED"] /\ stack' = next
  BY <1>6, <1>7 DEF Complete
<1>9. Ordered([on EXCEPT ![a] = "COMPLETED"], next)
  BY <1>2, <1>3, <1>4, <1>5, <1>6, Finishing
<1>10. \A x \in Targets(a, NextOf(a, m)) : x \in Activities /\ ~Entered(on, x)
  BY <1>2, <1>3, <1>4, <1>5, NextIsFresh
<1>11. \A x \in Targets(a, NextOf(a, m)) : ~Entered(st, x) /\ x # a
  BY <1>2, <1>3, <1>4, <1>5, <1>10 DEF Entered
<1>12. /\ st[a] # "COMPLETED"
       /\ \A x \in Humans : x # a
  BY <1>2, <1>3 DEF Entered
<1>13. DataFits(status', completions', row', strays')
  BY <1>7, <1>11, <1>12, CompletingData DEF DataFits
<1> QED
  BY <1>5, <1>8, <1>9, <1>13

-----------------------------------------------------------------------------
(* The steps of the engine.                                                *)

\* Where the join test lets an activity in, all that it waits for is done.
LEMMA JoinReached ==
  ASSUME Orderly, TypeOK, Running, Ordered(status, stack), MayEnter(Current),
         Kind[Current] # "exclusive" \/ Merging(Current)
  PROVE  Reached(status, Popped, Current)
<1> DEFINE k == Min(Top.todo)
<1>1. /\ stack \in Seq(Frames) /\ 1 \in DOMAIN stack
      /\ k \in stack[1].todo /\ Item(stack, 1, k) = Current /\ Top = stack[1]
  BY TypesOfInv, PoppedShape DEF Running, Top
<1> HIDE DEF k
<1>2. /\ Current \in Activities
      /\ Top.by # Engine => Top.by \in Sources(Current)
      /\ Top.by = Engine => IsStart(Current)
  BY <1>1, ItemType, OrderlyAgrees DEF Ordered, ItemsFit
<1>3. Top.by # Engine => status[Top.by] = "COMPLETED"
  BY <1>1 DEF Ordered, FlowFits, LoopsFit
<1>4. CASE Top.by = Engine
  BY <1>2, <1>4 DEF Reached, IsStart, Sources, ToSet
<1>5. CASE Top.by # Engine /\ Merging(Current)
  BY <1>2, <1>3, <1>5 DEF Reached
<1>6. CASE Top.by # Engine /\ ~Merging(Current)
  <2>1. Len(In[Current]) # 1
    <3>1. SUFFICES ASSUME Len(In[Current]) = 1
                   PROVE  Merging(Current)
      BY <1>6
    <3>2. In[Current] \in Seq(Activities)
      BY <1>2, GraphAssumption
    <3> QED
      BY <3>1, <3>2 DEF Merging, Sources, ToSet
  <2>2. JoinOpen(Current)
    BY <1>6, <2>1 DEF MayEnter
  <2>3. CASE Kind[Current] = "parallel"
    <3>1. \A x \in ToSet(In[Current]) : status[x] = "COMPLETED"
      BY <2>2, <2>3, Zenon DEF JoinOpen
    <3> QED
      BY <1>6, <3>1 DEF Reached, Sources
  <2>4. CASE Kind[Current] # "parallel"
    <3>1. Covered(Current)
      BY <1>2, <1>6, <2>4 DEF Orderly, Race
    <3>2. ~HasTokenBefore(Current)
      BY <2>2, <2>4, <3>1, Zenon DEF JoinOpen, Covered
    <3>3. met \in SUBSET Conditional
      BY DEF TypeOK, Snapshot, Durables
    <3>4. ASSUME NEW x \in Sources(Current)
          PROVE  status[x] = "COMPLETED" \/ Spent(status, Popped, x)
      <4>1. x \in Activities /\ x \in WaitedFor
        BY <1>2, <1>6, <2>4, SourcesAreActivities DEF WaitedFor
      <4>2. status[x] \notin {"READY", "RUNNING", "SUSPENDED"}
        <5>1. x \in PossibleMembers[Current][met]
          BY <3>1, <3>3, Zenon DEF Covered
        <5>2. Len(Block[Current]) > 1
          BY <3>1, Zenon DEF Covered
        <5> QED
          BY <3>2, <5>1, <5>2, Zenon DEF HasTokenBefore
      <4>3. status[x] \in {"STOPPED", "COMPLETED"}
        BY <4>1, <4>2, TypesOfInv DEF Statuses, Ordered, FlowFits, Reaches
      <4>4. status[x] = "STOPPED" => Spent(status, Popped, x)
        <5>1. status[x] = "STOPPED" => Spent(status, stack, x)
          BY <4>1 DEF Ordered, FlowFits, Reaches
        <5> QED
          BY <1>1, <4>1, <5>1, Popping DEF StatusType, Running
      <4> QED
        BY <4>3, <4>4
    <3> QED
      BY <1>6, <2>4, <3>4 DEF Reached
  <2> QED
    BY <2>3, <2>4
<1> QED
  BY <1>4, <1>5, <1>6

\* An exclusive gateway stops those who lost the race, and only those of whom no
\* join takes notice.
LEMMA RaceIsOver ==
  ASSUME Orderly, TypeOK, Running, Ordered(status, stack), Kind[Current] = "exclusive",
         NEW A, A = {a \in ToSet(Block[Current]) : status[a] # "COMPLETED"}
  PROVE  /\ A \in SUBSET Activities
         /\ Ordered(StatusStopping(A), stack)
         /\ Reached(StatusStopping(A), Popped, Current)
<1> DEFINE k == Min(Top.todo)
<1>1. /\ stack \in Seq(Frames) /\ 1 \in DOMAIN stack
      /\ k \in stack[1].todo /\ Item(stack, 1, k) = Current /\ Top = stack[1]
      /\ stack # <<>> /\ Popped \in Seq(Frames)
  BY TypesOfInv, PoppedShape DEF Running, Top
<1> HIDE DEF k
<1>2. /\ Current \in Activities
      /\ Top.by # Engine => Top.by \in Sources(Current)
      /\ Top.by = Engine => IsStart(Current)
  BY <1>1, ItemType, OrderlyAgrees DEF Ordered, ItemsFit
<1>3. Top.by # Engine /\ status[Top.by] = "COMPLETED" /\ Top.by \in Sources(Current)
  BY <1>1, <1>2 DEF Ordered, FlowFits, LoopsFit, IsStart
<1>4. A \in SUBSET Activities /\ (\A x \in A : status[x] # "COMPLETED")
  <2>1. Block[Current] \in Seq(Activities)
    BY <1>2, GraphAssumption
  <2> QED
    BY <2>1 DEF ToSet
<1>5. status \in StatusType
  BY TypesOfInv DEF StatusType
<1>6. CASE Merging(Current)
  <2>1. A \cap WaitedFor = {}
    BY <1>2, <1>6 DEF Orderly
  <2>2. Ordered(StatusStopping(A), stack)
    BY <1>1, <1>4, <1>5, <2>1, Stopping
  <2>3. Reached(status, Popped, Current)
    BY <1>3, <1>6 DEF Reached
  <2> QED
    BY <1>2, <1>4, <1>5, <2>2, <2>3, StoppingReaches
<1>7. CASE ~Merging(Current)
  <2>1. Race(Current)
    BY <1>2, <1>7 DEF Orderly, Covered
  <2>2. PICK s \in Activities : \A x \in Sources(Current) : Sources(x) = {s}
    BY <2>1 DEF Race
  <2>3. Top.by \in Activities /\ Entered(status, Top.by)
    BY <1>2, <1>3, SourcesAreActivities DEF Entered
  <2>4. Reached(status, stack, Top.by) /\ Merging(Top.by)
    BY <1>3, <2>2, <2>3 DEF Ordered, FlowFits, Reaches, Merging
  <2>5. status[s] = "COMPLETED"
    BY <1>3, <2>2, <2>4 DEF Reached
  <2>6. stack[1].todo = {k} /\ Len(stack) = 1
    <3>1. Top.by \in Humans
      BY <1>3, <2>1 DEF Race
    <3> QED
      BY <1>1, <1>7, <3>1 DEF Ordered, FlowFits, LoopsFit, ItemsFit
  <2>7. \A x : Pending(stack, x) => x = Current
    BY <1>1, <2>6 DEF Pending
  <2>8. \A x \in Sources(Current) :
          /\ x \in Activities /\ x # Current /\ x \in ToSet(Block[Current])
          /\ \A z \in Sources(x) : status[z] = "COMPLETED"
    BY <1>2, <2>1, <2>2, <2>5, SourcesAreActivities DEF Race, Humans
  <2>9. A \cap WaitedFor \subseteq Sources(Current)
    BY <1>2, <1>7 DEF Orderly
  <2>10. Ordered(StatusStopping(A), stack)
    BY <1>1, <1>4, <1>5, <2>7, <2>8, <2>9, Stopping
  <2>11. \A x \in Sources(Current) : ~Pending(Popped, x)
    <3>1. Popped = Tail(stack)
      BY <1>1, <2>6 DEF Popped, k
    <3>2. Popped = <<>>
      BY <1>1, <2>6, <3>1
    <3> QED
      BY <3>2 DEF Pending
  <2>12. ASSUME NEW x \in Sources(Current)
         PROVE  \/ StatusStopping(A)[x] = "COMPLETED"
                \/ Spent(StatusStopping(A), Popped, x)
    <3>1. \A z \in Activities : StatusStopping(A)[z] = IF z \in A THEN "STOPPED" ELSE status[z]
      BY DEF StatusStopping
    <3>2. Sources(x) \in SUBSET Activities
      BY <2>8, SourcesAreActivities
    <3>3. CASE status[x] = "COMPLETED"
      BY <1>4, <2>8, <3>1, <3>3
    <3>4. CASE status[x] # "COMPLETED"
      BY <1>4, <2>8, <2>11, <3>1, <3>2, <3>4 DEF Spent
    <3> QED
      BY <3>3, <3>4
  <2>13. Reached(StatusStopping(A), Popped, Current)
    BY <1>7, <2>12 DEF Reached
  <2> QED
    BY <1>4, <2>10, <2>13
<1> QED
  BY <1>6, <1>7

\* Stopping activities withdraws their work items with them.
LEMMA StoppingData ==
  ASSUME TypeOK, DataFits(status, completions, row, strays),
         NEW A \in SUBSET Activities, \A x \in A : status[x] # "COMPLETED"
  PROVE  /\ StatusStopping(A) \in StatusType
         /\ DataFits(StatusStopping(A), completions, RowsStopping(A), strays)
<1>1. status \in StatusType /\ Humans \subseteq Activities
  BY TypesOfInv DEF StatusType
<1> QED
  BY <1>1 DEF DataFits, StatusStopping, RowsStopping, StatusType, Statuses

\* Suspending and resuming make no difference to the order.
LEMMA SameProgress ==
  ASSUME Orderly, NEW st \in StatusType, NEW st1 \in StatusType, NEW stk \in Seq(Frames),
         FlowFits(st, stk),
         \A x \in Activities : \/ st1[x] = st[x]
                              \/ {st[x], st1[x]} \subseteq {"RUNNING", "SUSPENDED"}
  PROVE  FlowFits(st1, stk) /\ (ItemsFit(st, stk) => ItemsFit(st1, stk))
<1>1. \A x \in Activities :
        /\ Entered(st1, x) <=> Entered(st, x)
        /\ st1[x] = "COMPLETED" <=> st[x] = "COMPLETED"
        /\ st1[x] = "STOPPED" <=> st[x] = "STOPPED"
        /\ st1[x] = "COMPENSATED" <=> st[x] = "COMPENSATED"
  BY DEF Entered
<1>2. \A x \in Activities : Sources(x) \in SUBSET Activities
  BY SourcesAreActivities
<1>3. \A x \in Activities : Spent(st, stk, x) => Spent(st1, stk, x)
  BY <1>1, <1>2 DEF Spent
<1>4. LoopsFit(st1, stk)
  <2>1. ASSUME NEW i \in DOMAIN stk, stk[i].by # Engine
        PROVE  st1[stk[i].by] = "COMPLETED"
    <3>1. stk[i] \in Frames
      OBVIOUS
    <3>2. stk[i].by \in Activities
      BY <2>1, <3>1 DEF Frames
    <3> QED
      BY <1>1, <2>1, <3>2 DEF FlowFits, LoopsFit
  <2> QED
    BY <2>1 DEF FlowFits, LoopsFit
<1>5. Reaches(st1, stk)
  <2>1. \A x \in Activities : Reached(st, stk, x) => Reached(st1, stk, x)
    BY <1>1, <1>2, <1>3 DEF Reached
  <2> QED
    BY <1>1, <1>3, <2>1, WaitedForIsSingle DEF FlowFits, Reaches
<1>6. Excludes(st1, stk)
  BY <1>1 DEF FlowFits, Excludes, Touched, Orderly
<1>7. ASSUME ItemsFit(st, stk)
      PROVE  ItemsFit(st1, stk)
  <2>1. ASSUME NEW i \in DOMAIN stk, NEW k \in stk[i].todo
        PROVE  ~Entered(st1, Item(stk, i, k))
    <3>1. Item(stk, i, k) \in Activities
      BY ItemType, OrderlyAgrees
    <3> QED
      BY <1>1, <1>7, <3>1 DEF ItemsFit
  <2> QED
    BY <1>7, <2>1 DEF ItemsFit
<1> QED
  BY <1>4, <1>5, <1>6, <1>7 DEF FlowFits

\* A resume opens one suspended task after the other.
LEMMA ResumingOrder ==
  ASSUME Orderly, TypeOK, Running, Fitting(status, row),
         FlowFits(status, stack), ResumeFits(status, stack)
  PROVE  /\ Top.by = Engine /\ MayEnter(Current)
         /\ Current \in Humans /\ status[Current] = "SUSPENDED"
         /\ FlowFits(status, Popped)
         /\ ResumeFits([status EXCEPT ![Current] = "RUNNING"], Popped) \/ Popped = <<>>
<1> DEFINE k == Min(Top.todo)
<1>1. /\ stack \in Seq(Frames) /\ 1 \in DOMAIN stack
      /\ k \in stack[1].todo /\ Item(stack, 1, k) = Current /\ Top = stack[1]
      /\ stack # <<>> /\ Popped \in Seq(Frames)
  BY TypesOfInv, PoppedShape DEF Running, Top
<1>2. /\ Top.by = Engine /\ Current \in Activities /\ Current = Order[k]
      /\ status[Current] = "SUSPENDED" /\ Len(stack) = 1
  BY <1>1, ItemType, OrderlyAgrees DEF ResumeFits
<1>3. Current \in Humans
  BY <1>2 DEF Fitting
<1>4. Tail(stack) = <<>>
  <2> HIDE DEF k
  <2>1. Tail(stack) \in Seq(Frames) /\ Len(Tail(stack)) = 0
    BY <1>1, <1>2
  <2> QED
    BY <2>1, EmptySeq
<1>5. CASE Top.todo = {k}
  <2>1. Popped = <<>>
    <3>1. Popped = Tail(stack)
      BY <1>5 DEF Popped
    <3> QED
      BY <1>4, <3>1
  <2>2. \A x : ~Pending(<<>>, x)
    BY DEF Pending
  <2>3. \A x : Spent(status, stack, x) => Spent(status, <<>>, x)
    BY <2>2 DEF Spent
  <2>4. FlowFits(status, <<>>)
    BY <2>2, <2>3 DEF FlowFits, LoopsFit, Reaches, Reached, Excludes, Touched
  <2> QED
    BY <1>2, <1>3, <2>1, <2>4 DEF MayEnter
<1>6. CASE Top.todo # {k}
  <2> DEFINE f == [Top EXCEPT !.todo = @ \ {Min(@)}]
  <2>1. Popped = <<f>> \o Tail(stack)
    BY <1>6 DEF Popped
  <2>2. f.by = Engine /\ f.todo = Top.todo \ {k} /\ f \in Frames
    BY <1>1, <1>2, <1>6 DEF Frames
  <2> HIDE DEF f, k
  <2>3. Popped = <<f>>
    <3>1. <<f>> \in Seq(Frames)
      BY <2>2
    <3>2. PICK s \in Seq(Frames) : s = <<f>>
      BY <3>1
    <3>3. s \o <<>> = s
      BY ConcatEmptySeq
    <3> QED
      BY <1>4, <2>1, <3>2, <3>3
  <2>4. \A x : Pending(Popped, x) => Pending(stack, x)
    <3>1. \A j \in f.todo : ListOf(Engine)[j] = ListOf(stack[1].by)[j] /\ j \in stack[1].todo
      BY <1>1, <1>2, <2>2
    <3> QED
      BY <1>1, <2>2, <2>3, <3>1 DEF Pending, Item
  <2>5. \A x : Spent(status, stack, x) => Spent(status, Popped, x)
    BY <2>4 DEF Spent
  <2>6. FlowFits(status, Popped)
    <3>1. LoopsFit(status, Popped)
      <4>1. Engine \notin Humans
        BY GraphAssumption DEF Humans
      <4>2. \A i \in DOMAIN Popped : i = 1 /\ Popped[i].by = Engine
        BY <2>2, <2>3
      <4> QED
        BY <4>1, <4>2 DEF LoopsFit
    <3>2. Reaches(status, Popped)
      BY <2>5 DEF FlowFits, Reaches, Reached
    <3>3. Excludes(status, Popped)
      BY <2>4 DEF FlowFits, Excludes, Touched
    <3> QED
      BY <3>1, <3>2, <3>3 DEF FlowFits
  <2>7. ResumeFits([status EXCEPT ![Current] = "RUNNING"], Popped)
    <3>1. ASSUME NEW j \in f.todo
          PROVE  [status EXCEPT ![Current] = "RUNNING"][Order[j]] = "SUSPENDED"
      <4>1. j \in stack[1].todo /\ j # k
        BY <1>1, <2>2
      <4>2. /\ Order[j] \in Activities /\ status[Order[j]] = "SUSPENDED"
            /\ j \in DOMAIN Order /\ k \in DOMAIN Order
        BY <1>1, <1>2, <4>1, ItemType, OrderlyAgrees DEF ResumeFits, ListOf
      <4>3. Order[j] # Order[k]
        BY <4>1, <4>2 DEF Orderly, IsInjective
      <4> QED
        BY <1>2, <4>2, <4>3, TypesOfInv
    <3> QED
      BY <2>2, <2>3, <3>1 DEF ResumeFits
  <2> QED
    BY <1>2, <1>3, <2>6, <2>7 DEF MayEnter
<1> QED
  BY <1>5, <1>6

\* An empty stack asks for nothing.
LEMMA EmptyStack ==
  /\ <<>> \in Seq(Frames)
  /\ \A st : ItemsFit(st, <<>>) /\ NoJoin(<<>>)
  /\ \A x : ~Pending(<<>>, x)
BY DEF ItemsFit, NoJoin, Pending

\* A loop that the engine begins in an empty stack.
LEMMA Beginning ==
  ASSUME Orderly, status \in StatusType, FlowFits(status, <<>>),
         NEW todo \in SUBSET DOMAIN Order, todo # {},
         NEW stk, stk = <<[by |-> Engine, todo |-> todo]>>,
         \/ \A i \in todo : status[Order[i]] = "SUSPENDED"
         \/ (\A i \in todo : IsStart(Order[i])) /\ \A a \in Activities : status[a] = "READY"
  PROVE  FlowFits(status, stk) /\ (ItemsFit(status, stk) \/ ResumeFits(status, stk))
<1>1. /\ Len(stk) = 1 /\ DOMAIN stk = {1} /\ stk[1].by = Engine /\ stk[1].todo = todo
      /\ \A k \in todo : Item(stk, 1, k) = Order[k]
  BY DEF Item, ListOf
<1>2. Order \in Seq(Activities) /\ Engine \notin Activities
  BY GraphAssumption
<1>3. LoopsFit(status, stk)
  BY <1>1, <1>2 DEF LoopsFit, Humans
<1>4. CASE \A i \in todo : status[Order[i]] = "SUSPENDED"
  <2>1. ResumeFits(status, stk)
    BY <1>1, <1>4 DEF ResumeFits
  <2>2. \A x : Pending(stk, x) => status[x] = "SUSPENDED"
    BY <1>1, <1>4 DEF Pending
  <2>3. \A x : Spent(status, <<>>, x) => Spent(status, stk, x)
    BY <2>2 DEF Spent
  <2>4. \A x : Touched(status, stk, x) => Touched(status, <<>>, x)
    BY <2>2 DEF Touched, Entered
  <2>5. Reaches(status, stk)
    BY <2>3 DEF FlowFits, Reaches, Reached
  <2>6. Excludes(status, stk)
    BY <2>4 DEF FlowFits, Excludes
  <2> QED
    BY <1>3, <2>1, <2>5, <2>6 DEF FlowFits
<1>5. CASE (\A i \in todo : IsStart(Order[i])) /\ \A a \in Activities : status[a] = "READY"
  <2>1. \A a \in Activities : ~Entered(status, a) /\ status[a] = "READY"
    BY <1>5 DEF Entered
  <2>2. \A k \in todo : Order[k] \in Activities /\ Sources(Order[k]) = {}
    BY <1>2, <1>5 DEF IsStart, Sources, ToSet
  <2>3. ItemsFit(status, stk)
    BY <1>1, <1>5, <2>1, <2>2 DEF ItemsFit, Merging
  <2>4. Reaches(status, stk)
    BY <2>1, WaitedForIsSingle DEF Reaches
  <2>5. \A x \in Activities : Touched(status, stk, x) => Sources(x) = {}
    BY <1>1, <2>1, <2>2 DEF Touched, Pending
  <2>6. Excludes(status, stk)
    <3>1. \A p \in Alternatives : ~Touched(status, stk, p[1])
      <4> TAKE p \in Alternatives
      <4>1. PICK x \in Activities, y \in Activities : p = <<x, y>>
        BY DEF Orderly
      <4> QED
        BY <2>5, <4>1 DEF Orderly, Excluding
    <3>2. \A p \in Before : ~Touched(status, stk, p[2])
      <4> TAKE p \in Before
      <4>1. PICK x \in Activities, y \in Activities : p = <<x, y>>
        BY DEF Orderly
      <4> QED
        BY <2>5, <4>1 DEF Orderly, Dominates
    <3> QED
      BY <3>1, <3>2 DEF Excludes
  <2> QED
    BY <1>3, <2>3, <2>4, <2>6 DEF FlowFits
<1> QED
  BY <1>4, <1>5

\* As long as nobody goes back, every action keeps everything in order.
LEMMA InOrderStep ==
  ASSUME Orderly, Inv, InOrder, backs = 0, [Next]_vars, backs' = 0
  PROVE  InOrder'
<1>1. /\ TypeOK /\ TypeOK' /\ CallInv
      /\ status \in StatusType /\ status' \in StatusType /\ Humans \subseteq Activities
      /\ stack \in Seq(Frames)
  BY TypeStep, TypesOfInv DEF Inv, TypeOK, Snapshot, Durables, StatusType
<1>2. Idle => stack = <<>> /\ Ordered(status, <<>>) /\ Fitting(status, row)
  BY EmptyStack DEF Inv, CallInv, InOrder, Ordered, Sound, Snapshot
<1>3. ~Idle => /\ instance # "NONE" /\ Fitting(status, row)
               /\ RestFits(saved[1])
  BY <1>1 DEF CallInv, InOrder
<1>4. ASSUME Idle, saved' = <<Snapshot>>, instance' # "NONE",
             FlowFits(status', stack'), ItemsFit(status', stack') \/ ResumeFits(status', stack'),
             DataFits(status', completions', row', strays')
      PROVE  InOrder'
  <2>1. RestFits(Snapshot)
    BY <1>2, <1>4 DEF InOrder, RestFits, Snapshot
  <2>2. saved'[1] = Snapshot
    BY <1>4
  <2>3. RestFits(saved'[1])
    BY <2>1, <2>2
  <2> QED
    BY <1>4, <2>3 DEF InOrder, NotBegun
<1>5. ASSUME ~Idle, saved' = saved, instance' # "NONE",
             FlowFits(status', stack'), ItemsFit(status', stack') \/ ResumeFits(status', stack'),
             DataFits(status', completions', row', strays')
      PROVE  InOrder'
  BY <1>3, <1>5 DEF InOrder, NotBegun
<1>6. ASSUME Running, Current \notin Humans
      PROVE  Ordered(status, stack) /\ stack # <<>> /\ ~Idle
  BY <1>1, <1>3, <1>6, ResumingOrder DEF InOrder, Ordered, Running
<1>7. CASE Start
  <2>1. /\ Idle /\ instance = "NONE" /\ instance' = "RUNNING" /\ saved' = <<Snapshot>>
        /\ stack' = <<[by |-> Engine, todo |-> {i \in DOMAIN Order : IsStart(Order[i])}]>>
        /\ status' = status /\ completions' = completions /\ row' = row /\ strays' = strays
    BY <1>7 DEF Start, Begin
  <2>2. /\ {i \in DOMAIN Order : IsStart(Order[i])} \in SUBSET DOMAIN Order
        /\ {i \in DOMAIN Order : IsStart(Order[i])} # {}
    BY GraphAssumption DEF ToSet
  <2>3. \A a \in Activities : status[a] = "READY"
    BY <2>1 DEF InOrder, NotBegun
  <2>4. FlowFits(status, stack') /\ (ItemsFit(status, stack') \/ ResumeFits(status, stack'))
    BY <1>1, <1>2, <2>1, <2>2, <2>3, Beginning DEF Ordered
  <2>5. DataFits(status', completions', row', strays')
    BY <2>1 DEF InOrder
  <2> QED
    BY <1>4, <2>1, <2>4, <2>5
<1>8. ASSUME NEW a \in Activities, CompleteTask(a)
      PROVE  InOrder'
  <2>1. /\ Idle /\ a \in Humans /\ status[a] = "RUNNING" /\ saved' = <<Snapshot>>
        /\ instance' = instance
    BY <1>8 DEF CompleteTask, Begin
  <2>2. PICK m : m = met'
    OBVIOUS
  <2>3. PICK rw : rw = [row EXCEPT ![a] = "COMPLETED"]
    OBVIOUS
  <2>4. Complete(a, status, rw, m, <<>>)
    BY <1>8, <2>2, <2>3 DEF CompleteTask
  <2>5. PICK stk \in Seq(Frames) : stk = <<>>
    BY EmptyStack
  <2>6. PICK next : next = IF NextOf(a, m) = {} THEN stk
                           ELSE <<[by |-> a, todo |-> NextOf(a, m)]>> \o stk
    OBVIOUS
  <2>7. Ordered(status', stack')
    <3>1. Complete(a, status, rw, m, stk)
      BY <2>4, <2>5
    <3>2. status' = [status EXCEPT ![a] = "COMPLETED"] /\ stack' = next
      BY <2>6, <3>1 DEF Complete
    <3>3. Ordered(status, stk) /\ NoJoin(stk)
      BY <1>2, <2>1, <2>5, EmptyStack
    <3>4. Ordered([status EXCEPT ![a] = "COMPLETED"], next)
      BY <1>1, <2>1, <2>5, <2>6, <3>3, Finishing
    <3> QED
      BY <3>2, <3>4
  <2>8. \A x \in Targets(a, NextOf(a, m)) : ~Entered(status, x)
    <3>1. Ordered(status, stk) /\ a \in Activities /\ status[a] = "RUNNING"
      BY <1>2, <2>1, <2>5
    <3>2. ASSUME NEW x \in Targets(a, NextOf(a, m))
          PROVE  ~Entered(status, x)
      <4>1. PICK st : st = status
        OBVIOUS
      <4>2. Ordered(st, stk) /\ st[a] = "RUNNING"
        BY <3>1, <4>1
      <4>3. ~Entered(st, x)
        BY <3>1, <3>2, <4>2, NextIsFresh
      <4> QED
        BY <4>1, <4>3
    <3> QED
      BY <3>2
  <2>9. \A x \in Targets(a, NextOf(a, m)) : x # a
    BY <2>1, <2>8 DEF Entered
  <2>10. row \in [Humans -> RowStatuses]
    BY <1>1, TypesOfInv
  <2>11. DataFits(status', completions', row', strays')
    <3>1. PICK st \in StatusType : st = status
      BY <1>1, TypesOfInv
    <3>2. TypeOK /\ a \in Activities /\ st[a] # "COMPLETED"
      BY <1>1, <2>1, <3>1
    <3>3. Complete(a, st, rw, m, <<>>)
      BY <2>4, <3>1
    <3>4. \A x \in Activities : completions[x] = IF st[x] = "COMPLETED" THEN 1 ELSE 0
      BY <3>1 DEF InOrder, DataFits
    <3>5. \A x \in Humans :
            /\ x # a => /\ rw[x] = "NEW" <=> st[x] = "RUNNING"
                        /\ rw[x] = "SUSPENDED" <=> st[x] = "SUSPENDED"
            /\ x = a => rw[x] \notin {"NEW", "SUSPENDED"}
            /\ strays[x] = 0
      BY <2>1, <2>3, <2>10, <3>1 DEF InOrder, DataFits
    <3>6. \A x \in Targets(a, NextOf(a, m)) : ~Entered(st, x) /\ x # a
      BY <2>8, <2>9, <3>1
    <3>7. PICK rest : rest = <<>>
      OBVIOUS
    <3>8. Complete(a, st, rw, m, rest)
      BY <3>3, <3>7
    <3> QED
      BY <3>2, <3>4, <3>5, <3>6, <3>8, CompletingData
  <2>12. instance # "NONE"
    BY <2>1 DEF InOrder, NotBegun
  <2> QED
    BY <1>4, <2>1, <2>7, <2>11, <2>12 DEF Ordered
<1>9. CASE Stop
  <2>1. /\ Idle /\ Idle' /\ instance' = "STOPPED" /\ stack' = stack
        /\ status' = StatusStopping(Stoppable) /\ row' = RowsStopping(Stoppable)
        /\ completions' = completions /\ strays' = strays
    BY <1>9 DEF Stop, Idle
  <2>2. /\ Stoppable \in SUBSET Activities
        /\ \A x \in Stoppable : status[x] \in {"RUNNING", "SUSPENDED", "STOPPED"}
    BY DEF Stoppable
  <2>3. Ordered(StatusStopping(Stoppable), <<>>)
    BY <1>1, <1>2, <2>1, <2>2, EmptyStack, Stopping
  <2>4. DataFits(StatusStopping(Stoppable), completions, RowsStopping(Stoppable), strays)
    BY <1>1, <2>2, StoppingData DEF InOrder
  <2> QED
    BY <1>2, <2>1, <2>3, <2>4 DEF InOrder, NotBegun, Ordered
<1>10. CASE Suspend
  <2>1. /\ Idle /\ Idle' /\ instance' = "RUNNING" /\ stack' = stack
        /\ status' = [a \in Activities |->
                        IF status[a] = "RUNNING" THEN "SUSPENDED" ELSE status[a]]
        /\ row' = [a \in Humans |-> IF status[a] = "RUNNING" /\ row[a] # "NONE"
                                    THEN "SUSPENDED" ELSE row[a]]
        /\ completions' = completions /\ strays' = strays
    BY <1>10 DEF Suspend, Idle
  <2>2. FlowFits(status', <<>>) /\ ItemsFit(status', <<>>)
    BY <1>1, <1>2, <2>1, EmptyStack, SameProgress DEF Ordered
  <2>3. DataFits(status', completions', row', strays')
    BY <1>1, <2>1 DEF InOrder, DataFits
  <2> QED
    BY <1>2, <2>1, <2>2, <2>3 DEF InOrder, NotBegun
<1>11. CASE Resume
  <2> DEFINE suspended == {i \in DOMAIN Order : status[Order[i]] = "SUSPENDED"}
  <2>1. /\ Idle /\ instance = "RUNNING" /\ instance' = instance /\ saved' = <<Snapshot>>
        /\ suspended # {} /\ stack' = <<[by |-> Engine, todo |-> suspended]>>
        /\ status' = status /\ completions' = completions /\ row' = row /\ strays' = strays
    BY <1>11 DEF Resume, Begin, durable
  <2>2. suspended \in SUBSET DOMAIN Order /\ \A i \in suspended : status[Order[i]] = "SUSPENDED"
    OBVIOUS
  <2> HIDE DEF suspended
  <2>3. FlowFits(status, stack') /\ (ItemsFit(status, stack') \/ ResumeFits(status, stack'))
    BY <1>1, <1>2, <2>1, <2>2, Beginning DEF Ordered
  <2>4. DataFits(status', completions', row', strays')
    BY <2>1 DEF InOrder
  <2> QED
    BY <1>4, <2>1, <2>3, <2>4
<1>12. CASE GoBack
  <2>1. backs' = backs + 1
    BY <1>12 DEF GoBack, BackToHere
  <2> QED
    BY <2>1
<1>13. CASE Hold
  <2>1. /\ Running /\ ~MayEnter(Current) /\ stack' = Popped /\ saved' = saved
        /\ instance' = instance /\ status' = status /\ completions' = completions
        /\ row' = row /\ strays' = strays
    BY <1>13 DEF Hold, durable
  <2>2. ~Idle /\ stack # <<>> /\ Ordered(status, stack)
    BY <1>1, <1>3, <2>1, ResumingOrder DEF InOrder, Ordered, Running
  <2>3. Ordered(status, Popped)
    BY <1>1, <2>2, Popping
  <2>4. DataFits(status', completions', row', strays')
    BY <2>1 DEF InOrder
  <2> QED
    BY <1>3, <1>5, <2>1, <2>2, <2>3, <2>4 DEF Ordered
<1>14. CASE OpenTask
  <2>1. /\ Running /\ Current \in Humans /\ MayEnter(Current) /\ stack' = Popped
        /\ status' = [status EXCEPT ![Current] = "RUNNING"]
        /\ row' = [row EXCEPT ![Current] = "NEW"] /\ saved' = saved
        /\ instance' = instance /\ completions' = completions /\ strays' = strays
    BY <1>14 DEF OpenTask
  <2>2. ~Idle /\ stack # <<>> /\ Current \in Activities
    BY <1>1, <2>1 DEF Running
  <2>3. ASSUME status[Current] # "COMPLETED"
        PROVE  DataFits(status', completions', row', strays')
    <3>1. row \in [Humans -> RowStatuses] /\ status \in [Activities -> Statuses]
      BY <1>1, TypesOfInv
    <3> QED
      BY <1>1, <2>1, <2>2, <2>3, <3>1 DEF InOrder, DataFits
  <2>4. CASE Ordered(status, stack)
    <3>1. Kind[Current] # "exclusive"
      BY <2>1 DEF Humans
    <3>2. Reached(status, Popped, Current)
      BY <1>1, <2>1, <2>4, <3>1, JoinReached
    <3>3. Ordered(status', stack') /\ ~Entered(status, Current)
      BY <1>1, <2>1, <2>2, <2>4, <3>2, Taking
    <3> QED
      BY <1>3, <1>5, <2>1, <2>2, <2>3, <3>3 DEF Ordered, Entered
  <2>5. CASE FlowFits(status, stack) /\ ResumeFits(status, stack)
    <3>1. /\ status[Current] = "SUSPENDED" /\ FlowFits(status, Popped)
          /\ ResumeFits(status', Popped) \/ Popped = <<>>
      BY <1>1, <1>3, <2>1, <2>2, <2>5, ResumingOrder
    <3>2. Popped \in Seq(Frames)
      BY <1>1, <2>2, StackType
    <3>3. PICK stk \in Seq(Frames) : stk = Popped
      BY <3>2
    <3>4. FlowFits(status', stk)
      BY <1>1, <2>1, <3>1, <3>3, SameProgress DEF StatusType
    <3>5. ItemsFit(status', Popped) \/ ResumeFits(status', Popped)
      BY <3>1, EmptyStack
    <3> QED
      BY <1>3, <1>5, <2>1, <2>2, <2>3, <3>1, <3>3, <3>4, <3>5
  <2> QED
    BY <2>4, <2>5 DEF InOrder, Ordered
<1>15. CASE PassThrough
  <2>1. /\ Running /\ Kind[Current] \in {"start", "end", "auto", "parallel", "inclusive"}
        /\ MayEnter(Current) /\ Complete(Current, status, row, met, Popped)
        /\ saved' = saved /\ instance' = instance
    BY <1>15 DEF PassThrough
  <2>2. Current \notin Humans /\ Kind[Current] # "exclusive"
    BY <2>1 DEF Humans
  <2>3. Reached(status, Popped, Current)
    BY <1>1, <1>6, <2>1, <2>2, JoinReached
  <2>4. Ordered(status', stack') /\ DataFits(status', completions', row', strays')
    BY <1>1, <1>6, <2>1, <2>2, <2>3, Passing DEF InOrder
  <2> QED
    BY <1>3, <1>5, <1>6, <2>1, <2>2, <2>4 DEF Ordered
<1>16. CASE PassExclusive
  <2>1. PICK A : A = {a \in ToSet(Block[Current]) : status[a] # "COMPLETED"}
    OBVIOUS
  <2>2. /\ Running /\ Kind[Current] = "exclusive" /\ saved' = saved /\ instance' = instance
        /\ Complete(Current, StatusStopping(A), RowsStopping(A), met, Popped)
    BY <1>16, <2>1 DEF PassExclusive
  <2>3. Current \notin Humans
    BY <2>2 DEF Humans
  <2>4. /\ A \in SUBSET Activities /\ Ordered(StatusStopping(A), stack)
        /\ Reached(StatusStopping(A), Popped, Current)
    BY <1>1, <1>6, <2>1, <2>2, <2>3, RaceIsOver
  <2>5. /\ StatusStopping(A) \in StatusType
        /\ DataFits(StatusStopping(A), completions, RowsStopping(A), strays)
    BY <1>1, <2>1, <2>4, StoppingData DEF InOrder
  <2>6. Ordered(status', stack') /\ DataFits(status', completions', row', strays')
    BY <1>1, <1>6, <2>2, <2>3, <2>4, <2>5, Passing
  <2> QED
    BY <1>3, <1>5, <1>6, <2>2, <2>3, <2>6 DEF Ordered
<1>17. CASE Terminate
  <2>1. /\ Running /\ Kind[Current] = "terminate" /\ MayEnter(Current) /\ saved' = saved
        /\ instance' = "STOPPED"
        /\ Complete(Current, StatusStopping(Stoppable), RowsStopping(Stoppable), met, Popped)
    BY <1>17 DEF Terminate
  <2>2. Current \notin Humans /\ Kind[Current] # "exclusive" /\ Current \in Activities
    BY <1>1, <2>1, StackType DEF Humans, Running
  <2>3. Reached(status, Popped, Current)
    BY <1>1, <1>6, <2>1, <2>2, JoinReached
  <2>4. /\ Stoppable \in SUBSET Activities
        /\ \A x \in Stoppable : status[x] \in {"RUNNING", "SUSPENDED", "STOPPED"}
    BY DEF Stoppable
  <2>5. Ordered(StatusStopping(Stoppable), stack)
    BY <1>1, <1>6, <2>1, <2>2, <2>4, Stopping
  <2>6. Reached(StatusStopping(Stoppable), Popped, Current)
    BY <1>1, <2>2, <2>3, <2>4, StoppingReaches
  <2>7. /\ StatusStopping(Stoppable) \in StatusType
        /\ DataFits(StatusStopping(Stoppable), completions, RowsStopping(Stoppable), strays)
    BY <1>1, <2>4, StoppingData DEF InOrder
  <2>8. Ordered(status', stack') /\ DataFits(status', completions', row', strays')
    BY <1>1, <1>6, <2>1, <2>2, <2>5, <2>6, <2>7, Passing
  <2> QED
    BY <1>5, <1>6, <2>1, <2>2, <2>8 DEF Ordered
<1>18. CASE AutoFails
  <2>1. /\ Running /\ stack' = <<>> /\ saved' = <<>>
        /\ instance' = saved[1].instance /\ status' = saved[1].status
        /\ completions' = saved[1].completions /\ row' = saved[1].row
        /\ strays' = saved[1].strays
    BY <1>18 DEF AutoFails, Restored
  <2>2. ~Idle /\ Idle'
    BY <2>1 DEF Running, Idle
  <2> QED
    BY <1>3, <2>1, <2>2, EmptyStack DEF InOrder, RestFits
<1>19. CASE Commit
  <2>1. /\ ~Idle /\ stack = <<>> /\ stack' = <<>> /\ saved' = <<>>
        /\ instance' = IF Over THEN "COMPLETED" ELSE instance
        /\ row' = [a \in Humans |->
                     IF Over /\ row[a] = "NEW" THEN "COMPLETED" ELSE row[a]]
        /\ strays' = [a \in Humans |-> IF Over THEN 0 ELSE strays[a]]
        /\ status' = status /\ completions' = completions
    BY <1>19 DEF Commit
  <2>2. Over => \A a \in Activities : status[a] # "RUNNING"
    BY DEF Over
  <2>3. DataFits(status', completions', row', strays')
    BY <1>1, <2>1, <2>2 DEF InOrder, DataFits
  <2>4. Idle' /\ instance' # "NONE"
    BY <1>3, <2>1 DEF Idle
  <2> QED
    BY <2>1, <2>3, <2>4, EmptyStack DEF InOrder, NotBegun
<1>20. CASE UNCHANGED vars
  BY <1>20 DEF vars, durable, InOrder, Idle
<1> QED
  BY <1>7, <1>8, <1>9, <1>10, <1>11, <1>12, <1>13, <1>14, <1>15, <1>16, <1>17, <1>18,
     <1>19, <1>20 DEF Next, Work, EngineStep

\* Everything is in order in every state that is reached without going back.
LEMMA InOrderAlways ==
  ASSUME Orderly
  PROVE  Spec => [](backs = 0 => InOrder)
<1>1. Init => InOrder
  <2> SUFFICES ASSUME Init PROVE InOrder
    OBVIOUS
  <2>1. /\ \A a \in Activities : status[a] = "READY" /\ completions[a] = 0
        /\ \A a \in Humans : row[a] = "NONE" /\ strays[a] = 0
        /\ stack = <<>> /\ Idle /\ Humans \subseteq Activities
    BY DEF Init, Idle, Humans
  <2>2. \A a \in Activities : ~Touched(status, <<>>, a)
    BY <2>1, EmptyStack DEF Touched, Entered
  <2>3. FlowFits(status, <<>>)
    <3>1. LoopsFit(status, <<>>)
      BY DEF LoopsFit
    <3>2. Reaches(status, <<>>)
      BY <2>1, WaitedForIsSingle DEF Reaches, Entered
    <3>3. Excludes(status, <<>>)
      BY <2>2 DEF Excludes, Orderly
    <3> QED
      BY <3>1, <3>2, <3>3 DEF FlowFits
  <2>4. DataFits(status, completions, row, strays)
    BY <2>1 DEF DataFits
  <2> QED
    BY <2>1, <2>3, <2>4, EmptyStack DEF InOrder, NotBegun
<1>2. Inv /\ (backs = 0 => InOrder) /\ [Next]_vars => (backs = 0 => InOrder)'
  <2> SUFFICES ASSUME Inv, backs = 0 => InOrder, [Next]_vars, backs' = 0
               PROVE  InOrder'
    OBVIOUS
  <2>1. backs \in Nat
    BY GraphAssumption DEF Inv, TypeOK
  <2>2. backs' = backs \/ backs' = backs + 1
    BY DEF Next, GoBack, BackToHere, Start, Work, CompleteTask, Stop, Suspend, Resume,
           EngineStep, Hold, OpenTask, PassThrough, PassExclusive, Terminate, AutoFails,
           Commit, vars
  <2>3. backs = 0
    BY <2>1, <2>2
  <2> QED
    BY <2>3, InOrderStep
<1> QED
  BY <1>1, <1>2, InvAlways, PTL DEF Spec

\* On an orderly graph, as long as nobody goes back, no activity runs twice: a join
\* opens only when the last of those it waits for is done, and whoever it goes on
\* without gets no token any more.
THEOREM NothingRunsTwice ==
  ASSUME Orderly
  PROVE  Spec => [](backs = 0 => RunsOnce)
<1>1. InOrder /\ backs = 0 => RunsOnce
  BY DEF InOrder, DataFits, RunsOnce
<1> QED
  BY <1>1, InOrderAlways, PTL

\* On an orderly graph, as long as nobody goes back, no second work item of an
\* activity is opened while the first one is open.
THEOREM NothingGoesAstray ==
  ASSUME Orderly
  PROVE  Spec => [](backs = 0 => NoStrays)
<1>1. InOrder => NoStrays
  BY DEF InOrder, DataFits, NoStrays
<1> QED
  BY <1>1, InOrderAlways, PTL

\* On an orderly graph, as long as nobody goes back, a work item is open exactly as
\* long as its activity is running, also after a call that failed.
THEOREM RowsFollow ==
  ASSUME Orderly
  PROVE  Spec => [](backs = 0 => RowsFollowStatus)
<1>1. InOrder => RowsFollowStatus
  BY DEF InOrder, DataFits, RowsFollowStatus
<1> QED
  BY <1>1, InOrderAlways, PTL

-----------------------------------------------------------------------------
(* What a join waits for.                                                  *)

\* One step further back from the activities in `S'.
Back(S) == UNION {{x} \cup ToSet(In[x]) : x \in S}

\* The walk back from `j' step by step, as Behind takes it.
BackFrom(f, j, m) ==
  f = [n \in 0..m |-> IF n = 0 THEN ToSet(In[j]) ELSE Back(f[n - 1])]

\* The walk can be made as long as one likes.
LEMMA BackFromExists ==
  ASSUME NEW j, NEW N \in Nat
  PROVE  \E f : BackFrom(f, j, N)
<1> DEFINE T == {m \in Nat : \E f : BackFrom(f, j, m)}
<1>1. 0 \in T
  <2>1. BackFrom([n \in 0..0 |-> ToSet(In[j])], j, 0)
    BY DEF BackFrom
  <2> QED
    BY <2>1
<1>2. ASSUME NEW m \in Nat, m \in T
      PROVE  m + 1 \in T
  <2>1. PICK f : BackFrom(f, j, m)
    BY <1>2
  <2>2. PICK further : further = Back(f[m])
    OBVIOUS
  <2> DEFINE g == [n \in 0..(m + 1) |-> IF n = m + 1 THEN further ELSE f[n]]
  <2>3. ASSUME NEW n \in 0..(m + 1)
        PROVE  g[n] = IF n = 0 THEN ToSet(In[j]) ELSE Back(g[n - 1])
    <3>1. CASE n = m + 1
      BY <2>2, <3>1
    <3>2. CASE n # m + 1
      BY <2>1, <3>2 DEF BackFrom
    <3> QED
      BY <3>1, <3>2
  <2>4. BackFrom(g, j, m + 1)
    BY <2>3 DEF BackFrom
  <2> HIDE DEF g
  <2> QED
    BY <2>4
<1> HIDE DEF T
<1>3. N \in T
  BY <1>1, <1>2, SetInduction
<1> QED
  BY <1>3 DEF T

\* A set that holds the sources of `j', and the sources of all its members, holds
\* everything behind `j'.
LEMMA BehindLies ==
  ASSUME NEW j \in Activities, NEW D, Sources(j) \subseteq D,
         \A x \in D : Sources(x) \subseteq D
  PROVE  Behind[j] \subseteq D
<1> DEFINE N == Cardinality(Activities)
<1>1. N \in Nat
  <2>1. Order \in Seq(Activities) /\ ToSet(Order) = Activities
    BY GraphAssumption
  <2>2. Activities = {Order[i] : i \in 1..Len(Order)}
    BY <2>1 DEF ToSet
  <2>3. IsFiniteSet(Activities)
    <3> DEFINE at == [i \in 1..Len(Order) |-> Order[i]]
    <3>1. at \in Surjection(1..Len(Order), Activities)
      BY <2>1, <2>2 DEF Surjection
    <3>2. IsFiniteSet(1..Len(Order))
      BY <2>1, FS_Interval
    <3> QED
      BY <3>1, <3>2, FS_Surjection
  <2> QED
    BY <2>3, FS_CardinalityType
<1> HIDE DEF N
<1>2. PICK f : BackFrom(f, j, N) /\ Behind[j] = f[N]
  <2>1. \E f : BackFrom(f, j, N)
    BY <1>1, BackFromExists
  <2> QED
    BY <2>1 DEF BackFrom, Back, Behind, N
<1>3. \A n \in 0..N : f[n] \subseteq D
  <2> DEFINE T == {n \in Nat : n \in 0..N => f[n] \subseteq D}
  <2>1. 0 \in T
    BY <1>1, <1>2 DEF BackFrom, Sources
  <2>2. ASSUME NEW n \in Nat, n \in T
        PROVE  n + 1 \in T
    <3>1. SUFFICES ASSUME n + 1 \in 0..N
                   PROVE  f[n + 1] \subseteq D
      OBVIOUS
    <3>2. f[n] \subseteq D
      BY <1>1, <2>2, <3>1
    <3>3. f[n + 1] = Back(f[n])
      BY <1>1, <1>2, <3>1 DEF BackFrom
    <3> QED
      BY <3>2, <3>3 DEF Back, Sources
  <2> HIDE DEF T
  <2>3. Nat \subseteq T
    BY <2>1, <2>2, SetInduction
  <2> QED
    BY <2>3 DEF T
<1> QED
  BY <1>1, <1>2, <1>3

\* Who has taken a token on, has lost it to a stop, or lies behind a flow that was
\* not chosen.  No token comes to them any more.
Passed(st, stk) ==
  {a \in Activities : \/ st[a] = "COMPLETED" \/ Spent(st, stk, a)
                      \/ \E x \in Activities : /\ st[x] = "COMPLETED"
                                                /\ <<x, a>> \in Alternatives}

\* What has been passed has only what has been passed behind it.
LEMMA PassedIsClosed ==
  ASSUME Orderly, NEW st, NEW stk, FlowFits(st, stk), NEW a \in Passed(st, stk)
  PROVE  Sources(a) \subseteq Passed(st, stk)
<1>1. /\ a \in Activities /\ Sources(a) \in SUBSET Activities
      /\ \A x, y \in Activities : <<x, y>> \in Alternatives => <<y, x>> \in Alternatives
  BY SourcesAreActivities DEF Passed, Orderly, Excluding
<1>2. CASE Spent(st, stk, a)
  BY <1>1, <1>2 DEF Spent, Passed
<1>3. CASE st[a] = "COMPLETED"
  <2>1. Reached(st, stk, a)
    BY <1>1, <1>3 DEF FlowFits, Reaches, Entered
  <2>2. CASE Merging(a) /\ \E x \in Sources(a) : st[x] = "COMPLETED"
    BY <1>1, <2>2 DEF Merging, Passed
  <2> QED
    BY <1>1, <2>1, <2>2 DEF Reached, Passed
<1>4. ASSUME NEW x \in Activities, st[x] = "COMPLETED", <<x, a>> \in Alternatives
      PROVE  Sources(a) \subseteq Passed(st, stk)
  <2>1. Touched(st, stk, x)
    BY <1>4 DEF Touched, Entered
  <2>2. ASSUME NEW s \in Sources(a)
        PROVE  s \in Passed(st, stk)
    <3>1. s \in Activities /\ (<<s, x>> \in Alternatives \/ <<s, x>> \in Before)
      BY <1>1, <1>4, <2>2 DEF Orderly, Excluding
    <3>2. CASE <<s, x>> \in Alternatives
      BY <1>1, <1>4, <3>1, <3>2 DEF Passed
    <3>3. CASE <<s, x>> \in Before
      <4>1. PICK p \in Before : p = <<s, x>>
        BY <3>3
      <4>2. p[1] = s /\ p[2] = x
        BY <4>1
      <4>3. st[s] = "COMPLETED"
        BY <2>1, <4>1, <4>2 DEF FlowFits, Excludes
      <4> QED
        BY <3>1, <4>3 DEF Passed
    <3> QED
      BY <3>1, <3>2, <3>3
  <2> QED
    BY <2>2
<1> QED
  BY <1>2, <1>3, <1>4 DEF Passed

\* What has been passed is not under way.
LEMMA PassedIsQuiet ==
  ASSUME NEW st, NEW stk, Ordered(st, stk), NEW a \in Passed(st, stk)
  PROVE  ~Pending(stk, a) /\ st[a] \notin {"RUNNING", "SUSPENDED"}
<1>1. CASE st[a] = "COMPLETED"
  BY <1>1 DEF Ordered, ItemsFit, Pending, Entered
<1>2. CASE Spent(st, stk, a)
  BY <1>2 DEF Spent
<1>3. ASSUME NEW x \in Activities, st[x] = "COMPLETED", <<x, a>> \in Alternatives
      PROVE  ~Pending(stk, a) /\ st[a] \notin {"RUNNING", "SUSPENDED"}
  <2>1. Touched(st, stk, x)
    BY <1>3 DEF Touched, Entered
  <2>2. PICK p \in Alternatives : p = <<x, a>>
    BY <1>3
  <2>3. p[1] = x /\ p[2] = a
    BY <2>2
  <2>4. ~Touched(st, stk, a)
    BY <2>1, <2>2, <2>3 DEF Ordered, FlowFits, Excludes
  <2> QED
    BY <2>4 DEF Touched, Entered
<1> QED
  BY <1>1, <1>2, <1>3 DEF Passed

\* In the call no completion is forgotten, so that a rollback takes some back only.
Growing ==
  ~Idle => \A a \in Activities : saved[1].completions[a] <= completions[a]

\* No action of a call forgets a completion.
LEMMA GrowingStep ==
  ASSUME TypeOK, Growing, [Next]_vars
  PROVE  Growing'
<1>1. completions \in [Activities -> Nat]
  BY TypesOfInv
<1>2. ASSUME NEW a, NEW st, NEW rw, NEW m, NEW rest, Complete(a, st, rw, m, rest)
      PROVE  \A x \in Activities : completions'[x] >= completions[x]
  BY <1>1, <1>2 DEF Complete
<1>3. ASSUME saved' = <<Snapshot>>, \A x \in Activities : completions'[x] >= completions[x]
      PROVE  Growing'
  <2>1. saved'[1].completions = completions
    BY <1>3 DEF Snapshot
  <2> QED
    BY <1>3, <2>1 DEF Growing
<1>4. ASSUME ~Idle, saved' = saved, \A x \in Activities : completions'[x] >= completions[x]
      PROVE  Growing'
  <2>1. ~Idle => saved[1] \in Durables
    BY TypesOfInv DEF Idle
  <2>2. saved[1].completions \in [Activities -> Nat]
    BY <1>4, <2>1 DEF Durables
  <2>3. completions' \in [Activities -> Nat]
    BY TypeStep, TypesOfInv DEF TypeOK, Snapshot, Durables
  <2> QED
    BY <1>1, <1>4, <2>2, <2>3 DEF Growing
<1>5. CASE Start \/ Resume \/ GoBack
  <2>1. saved' = <<Snapshot>> /\ completions' = completions
    BY <1>5 DEF Start, Resume, GoBack, BackToHere, Begin, durable
  <2> QED
    BY <1>1, <1>3, <2>1
<1>6. CASE Work
  <2>1. PICK a \in Activities : CompleteTask(a)
    BY <1>6 DEF Work
  <2>2. PICK m, rw : Complete(a, status, rw, m, <<>>) /\ saved' = <<Snapshot>>
    BY <2>1 DEF CompleteTask, Begin
  <2> QED
    BY <1>2, <1>3, <2>2
<1>7. CASE Stop \/ Suspend
  BY <1>7 DEF Stop, Suspend, Growing, Idle
<1>8. CASE Hold \/ OpenTask
  BY <1>1, <1>4, <1>8 DEF Hold, OpenTask, Running, durable
<1>9. CASE PassThrough \/ PassExclusive \/ Terminate
  <2>1. PICK st, rw : Complete(Current, st, rw, met, Popped)
    BY <1>9 DEF PassThrough, PassExclusive, Terminate
  <2>2. ~Idle /\ saved' = saved
    BY <1>9 DEF PassThrough, PassExclusive, Terminate, Running
  <2> QED
    BY <1>2, <1>4, <2>1, <2>2
<1>10. CASE AutoFails \/ Commit
  BY <1>10 DEF AutoFails, Commit, Growing, Idle
<1>11. CASE UNCHANGED vars
  BY <1>11 DEF vars, durable, Growing, Idle
<1> QED
  BY <1>5, <1>6, <1>7, <1>8, <1>9, <1>10, <1>11 DEF Next, EngineStep

\* A parallel or inclusive join of an orderly graph opens, without anybody having gone
\* back, only when no token is under way to it.
THEOREM JoinsWait ==
  ASSUME Orderly, MaxBacks = 0
  PROVE  Spec => JoinWaits
<1>1. ASSUME Inv, InOrder, Growing, [Next]_vars, backs = 0, backs' = 0,
             NEW j \in Activities, Kind[j] \in {"parallel", "inclusive"},
             completions'[j] > completions[j], NEW a \in Behind[j] \ {j}
      PROVE  ~UnderWay(a)
  <2>1. PassThrough /\ j = Current
    <3>1. completions \in [Activities -> Nat] /\ TypeOK
      BY <1>1, TypesOfInv DEF Inv
    <3>2. ~(completions[j] > completions[j])
      BY <3>1
    <3>3. completions'[j] # completions[j]
      BY <1>1, <3>2
    <3>4. ASSUME NEW b, NEW st, NEW rw, NEW m, NEW rest, Complete(b, st, rw, m, rest)
          PROVE  j = b
      BY <3>1, <3>3, <3>4 DEF Complete
    <3>5. ~Work
      <4>1. SUFFICES ASSUME NEW b \in Activities, CompleteTask(b)
                     PROVE  FALSE
        BY DEF Work
      <4>2. PICK m, rw : Complete(b, status, rw, m, <<>>) /\ Kind[b] = "human"
        BY <4>1 DEF CompleteTask, Humans
      <4> QED
        BY <1>1, <3>4, <4>2
    <3>6. ~PassExclusive /\ ~Terminate
      <4>1. SUFFICES ASSUME PassExclusive \/ Terminate
                     PROVE  FALSE
        OBVIOUS
      <4>2. PICK st, rw : /\ Complete(Current, st, rw, met, Popped)
                          /\ Kind[Current] \in {"exclusive", "terminate"}
        BY <4>1 DEF PassExclusive, Terminate
      <4> QED
        BY <1>1, <3>4, <4>2
    <3>7. ~AutoFails
      <4>1. SUFFICES ASSUME AutoFails
                     PROVE  FALSE
        OBVIOUS
      <4>2. ~Idle /\ completions' = saved[1].completions
        BY <4>1 DEF AutoFails, Restored, Running
      <4>3. saved[1] \in Durables
        BY <3>1, <4>2, TypesOfInv DEF Idle
      <4>4. completions'[j] \in Nat /\ completions'[j] <= completions[j]
        BY <1>1, <4>2, <4>3 DEF Growing, Durables
      <4> QED
        BY <1>1, <3>1, <4>4
    <3>8. PassThrough
      BY <1>1, <3>3, <3>5, <3>6, <3>7
         DEF Next, Start, Stop, Suspend, Resume, GoBack, BackToHere, EngineStep, Hold,
             OpenTask, Commit, vars, durable
    <3> QED
      BY <3>4, <3>8 DEF PassThrough
  <2>2. TypeOK /\ Running /\ MayEnter(Current) /\ Current \notin Humans
    BY <1>1, <2>1 DEF Inv, PassThrough, Humans
  <2>3. stack \in Seq(Frames) /\ stack # <<>> /\ Ordered(status, stack)
    <3>1. stack \in Seq(Frames) /\ stack # <<>> /\ Fitting(status, row)
      BY <1>1, <2>2, TypesOfInv DEF Inv, CallInv, Running
    <3> QED
      BY <1>1, <2>2, <3>1, ResumingOrder DEF InOrder, Ordered
  <2>4. Reached(status, Popped, Current)
    BY <1>1, <2>1, <2>2, <2>3, JoinReached
  <2>5. PICK st, stk : st = status /\ stk = Popped
    OBVIOUS
  <2>6. Ordered(st, stk) /\ Reached(st, stk, j)
    BY <1>1, <2>1, <2>3, <2>4, <2>5, Popping
  <2>7. Sources(j) \subseteq Passed(st, stk)
    BY <2>6, <1>1, SourcesAreActivities DEF Reached, Merging, Passed
  <2>8. \A x \in Passed(st, stk) : Sources(x) \subseteq Passed(st, stk)
    BY <1>1, <2>6, PassedIsClosed DEF Ordered
  <2>9. a \in Passed(st, stk)
    BY <1>1, <2>7, <2>8, BehindLies
  <2>10. ~Pending(stk, a) /\ st[a] \notin {"RUNNING", "SUSPENDED"}
    BY <2>6, <2>9, PassedIsQuiet
  <2> QED
    BY <2>5, <2>10 DEF UnderWay, Pending, Item
<1>2. Inv /\ Inv' /\ (backs = 0 => InOrder) /\ Growing /\ [Next]_vars =>
        [\A j \in Activities :
           Kind[j] \in {"parallel", "inclusive"} /\ completions'[j] > completions[j]
           => \A a \in Behind[j] \ {j} : ~UnderWay(a)]_vars
  <2>1. Inv /\ Inv' => backs = 0 /\ backs' = 0
    BY GraphAssumption DEF Inv, TypeOK
  <2> QED
    BY <1>1, <2>1
<1>3. Init => Growing
  BY DEF Init, Growing, Idle
<1>4. Inv /\ Growing /\ [Next]_vars => Growing'
  BY GrowingStep DEF Inv
<1> QED
  BY <1>2, <1>3, <1>4, InvAlways, InOrderAlways, PTL DEF Spec, JoinWaits

-----------------------------------------------------------------------------
(* Terminate end events.                                                   *)

\* An activity of `solo' is all that its call has still to execute.
Lone(solo, stk) ==
  \A i \in DOMAIN stk : \A k \in stk[i].todo :
    Item(stk, i, k) \in solo => Len(stk) = 1 /\ stk[i].todo = {k}

Quiet(st) == NoneIs("RUNNING", st) /\ NoneIs("SUSPENDED", st)

\* In a stopped instance nothing is at work and nothing left to execute.
Still ==
  /\ instance = "STOPPED" => Quiet(status) /\ stack = <<>>
  /\ ~Idle /\ saved[1].instance = "STOPPED" => Quiet(saved[1].status)

\* When an activity of `solo' is taken off the stack, nothing is left on it.
LEMMA LonePopped ==
  ASSUME NEW solo, Lone(solo, stack), stack \in Seq(Frames), stack # <<>>
  PROVE  /\ Current \in solo => Popped = <<>>
         /\ \A i \in DOMAIN Popped : \A k \in Popped[i].todo : Item(Popped, i, k) \notin solo
         /\ Lone(solo, Popped)
<1>1. /\ 1 \in DOMAIN stack
      /\ Min(Top.todo) \in stack[1].todo /\ Item(stack, 1, Min(Top.todo)) = Current
      /\ Popped \in Seq(Frames) /\ Top = stack[1]
  BY PoppedShape DEF Top
<1>2. PICK d \in {0, 1} :
        /\ Len(Popped) = Len(stack) - d
        /\ d = 1 => stack[1].todo = {Min(Top.todo)}
        /\ \A i \in DOMAIN Popped :
             /\ i + d \in DOMAIN stack /\ i \in Nat
             /\ Popped[i].by = stack[i + d].by
             /\ Popped[i].todo \subseteq stack[i + d].todo
             /\ i + d = 1 => Min(Top.todo) \notin Popped[i].todo
  BY PoppedShape
<1>3. ASSUME NEW i \in DOMAIN Popped, NEW k \in Popped[i].todo
      PROVE  Item(Popped, i, k) \notin solo
  <2>1. SUFFICES ASSUME Item(Popped, i, k) \in solo
                 PROVE  FALSE
    OBVIOUS
  <2>2. /\ i + d \in DOMAIN stack /\ k \in stack[i + d].todo
        /\ Item(stack, i + d, k) \in solo
    BY <1>2, <1>3, <2>1 DEF Item
  <2>3. Len(stack) = 1 /\ stack[i + d].todo = {k}
    BY <2>2 DEF Lone
  <2>4. i + d = 1 /\ Min(Top.todo) \in stack[1].todo
    BY <1>1, <2>2, <2>3
  <2> QED
    BY <1>2, <1>3, <2>3, <2>4
<1>4. CASE Current \in solo
  <2>1. Len(stack) = 1 /\ Top.todo = {Min(Top.todo)}
    BY <1>1, <1>4 DEF Lone
  <2>2. Popped = Tail(stack)
    BY <2>1 DEF Popped
  <2>3. Popped = <<>>
    BY <2>1, <2>2, EmptySeq
  <2> QED
    BY <1>3, <2>3 DEF Lone
<1> QED
  BY <1>3, <1>4 DEF Lone

\* What a completed activity leads to keeps the stack so, if it was alone itself.
LEMMA LoneCompleted ==
  ASSUME NEW solo, TerminatesAlone(solo), TypeOK, NEW a \in Activities,
         NEW rest \in Seq(Frames), NEW next \in Seq(Frames), NEW m,
         next = IF NextOf(a, m) = {} THEN rest
                ELSE <<[by |-> a, todo |-> NextOf(a, m)]>> \o rest,
         \A i \in DOMAIN rest : \A k \in rest[i].todo : Item(rest, i, k) \notin solo,
         a \in Humans \cup solo => rest = <<>>
  PROVE  Lone(solo, next)
<1>1. CASE NextOf(a, m) = {}
  BY <1>1 DEF Lone
<1>2. CASE NextOf(a, m) # {}
  <2>1. PICK flows : flows = NextOf(a, m)
    OBVIOUS
  <2>2. PICK f : f = [by |-> a, todo |-> flows]
    OBVIOUS
  <2>3. /\ Len(next) = Len(rest) + 1 /\ next[1] = f
        /\ \A i \in DOMAIN next : i # 1 => i - 1 \in DOMAIN rest /\ next[i] = rest[i - 1]
    BY <1>2, <2>1, <2>2
  <2>4. ASSUME NEW i \in DOMAIN next, NEW k \in next[i].todo, Item(next, i, k) \in solo
        PROVE  Len(next) = 1 /\ next[i].todo = {k}
    <3>1. i = 1
      BY <2>3, <2>4 DEF Item
    <3>2. next[1].by = a /\ next[1].todo = flows /\ a # Engine
      BY <2>2, <2>3, GraphAssumption
    <3>3. FlowsAgree
      BY Zenon DEF TerminatesAlone
    <3>4. a \in Sources(Item(next, i, k)) /\ Item(next, i, k) \in Activities
      <4>1. next[i].by = a
        BY <3>1, <3>2
      <4>2. /\ Item(next, i, k) \in Activities
            /\ next[i].by # Engine => next[i].by \in Sources(Item(next, i, k))
        BY <3>3, ItemType, Zenon
      <4> QED
        BY <3>2, <4>1, <4>2, Zenon
    <3>5. Sole(a) /\ a \in Humans \cup solo
      BY <2>4, <3>4, Zenon DEF TerminatesAlone
    <3>6. rest = <<>>
      BY <3>5
    <3>7. \A n \in flows : n = k
      BY <2>1, <2>4, <3>1, <3>2, <3>5, SoleNext
    <3> QED
      BY <2>3, <2>4, <3>1, <3>2, <3>6, <3>7
  <2> QED
    BY <2>4 DEF Lone
<1> QED
  BY <1>1, <1>2

\* Where every terminate end event is reached alone, a stopped instance is still.
LEMMA StillStep ==
  ASSUME NEW solo, TerminatesAlone(solo), Inv, Lone(solo, stack), Still, [Next]_vars
  PROVE  Lone(solo, stack)' /\ Still'
<1>1. /\ TypeOK /\ TypeOK' /\ stack \in Seq(Frames) /\ stack' \in Seq(Frames)
      /\ status \in [Activities -> Statuses] /\ solo \cap Humans = {}
      /\ Idle => stack = <<>> /\ Fitting(status, row)
      /\ Lone(solo, <<>>)
  BY TypeStep, TypesOfInv
     DEF Inv, CallInv, TypeOK, Sound, Snapshot, TerminatesAlone, Lone
<1>2. saved' = <<Snapshot>> => saved'[1].instance = instance /\ saved'[1].status = status
  BY DEF Snapshot
<1>3. ASSUME Idle, saved' = <<Snapshot>>, instance' = "RUNNING",
             NEW todo, stack' = <<[by |-> Engine, todo |-> todo]>>,
             \A k \in todo : Order[k] \in solo => todo = {k}
      PROVE  Lone(solo, stack)' /\ Still'
  <2>1. /\ Len(stack') = 1 /\ stack'[1].todo = todo
        /\ \A k : Item(stack', 1, k) = Order[k]
    BY <1>3 DEF Item, ListOf
  <2>2. PICK stk : stk = stack'
    OBVIOUS
  <2>3. Lone(solo, stk)
    BY <1>3, <2>1, <2>2 DEF Lone
  <2> QED
    BY <1>2, <1>3, <2>2, <2>3 DEF Still, Lone
<1>4. CASE Start
  <2>1. PICK todo : todo = {i \in DOMAIN Order : IsStart(Order[i])}
    OBVIOUS
  <2>2. \A k \in todo : Order[k] \notin solo
    BY <2>1 DEF TerminatesAlone, IsStart, Sources, ToSet
  <2> QED
    BY <1>3, <1>4, <2>1, <2>2 DEF Start, Begin
<1>5. CASE Resume
  <2>1. PICK todo : todo = {i \in DOMAIN Order : status[Order[i]] = "SUSPENDED"}
    OBVIOUS
  <2>2. Idle /\ instance = "RUNNING" /\ instance' = instance /\ saved' = <<Snapshot>>
        /\ stack' = <<[by |-> Engine, todo |-> todo]>>
    BY <1>5, <2>1 DEF Resume, Begin, durable
  <2>3. \A k \in todo : Order[k] \notin solo
    BY <1>1, <2>1, <2>2, GraphAssumption DEF Fitting
  <2> QED
    BY <1>3, <2>2, <2>3
<1>6. CASE GoBack
  <2>1. PICK a \in Activities : BackToHere(a)
    BY <1>6 DEF GoBack
  <2>2. PICK todo : todo = {i \in DOMAIN Order : Order[i] = a}
    OBVIOUS
  <2>3. \A k \in todo : todo = {k}
    BY <2>2 DEF TerminatesAlone, IsInjective
  <2> QED
    BY <1>3, <2>1, <2>2, <2>3 DEF BackToHere, Begin
<1>7. CASE Work
  <2>1. PICK a \in Activities : CompleteTask(a)
    BY <1>7 DEF Work
  <2>2. /\ Idle /\ a \in Humans /\ status[a] = "RUNNING" /\ saved' = <<Snapshot>>
        /\ instance' = instance
    BY <2>1 DEF CompleteTask, Begin
  <2>3. PICK m, rw : Complete(a, status, rw, m, <<>>)
    BY <2>1 DEF CompleteTask
  <2>4. PICK rest \in Seq(Frames) : rest = <<>>
    BY <1>1, <2>2
  <2>5. PICK next \in Seq(Frames) : next = stack'
    BY <1>1
  <2>6. next = IF NextOf(a, m) = {} THEN rest
               ELSE <<[by |-> a, todo |-> NextOf(a, m)]>> \o rest
    BY <2>3, <2>4, <2>5 DEF Complete
  <2>7. Lone(solo, next)
    <3>1. \A i \in DOMAIN rest : \A k \in rest[i].todo : Item(rest, i, k) \notin solo
      BY <2>4
    <3>2. PICK n : n = m
      OBVIOUS
    <3>3. next = IF NextOf(a, n) = {} THEN rest
                 ELSE <<[by |-> a, todo |-> NextOf(a, n)]>> \o rest
      BY <2>6, <3>2
    <3> QED
      BY <1>1, <2>4, <3>1, <3>3, LoneCompleted
  <2>8. instance # "STOPPED"
    BY <2>1, <2>2 DEF Still, Quiet, NoneIs
  <2> QED
    BY <1>2, <2>2, <2>5, <2>7, <2>8 DEF Still, Lone
<1>8. CASE Stop
  <2>1. /\ Idle /\ Idle' /\ stack' = stack /\ stack = <<>>
        /\ status' = StatusStopping(Stoppable)
    BY <1>1, <1>8 DEF Stop, Idle
  <2>2. Quiet(status')
    BY <1>1, <2>1 DEF Quiet, NoneIs, StatusStopping, Stoppable
  <2> QED
    BY <2>1, <2>2 DEF Still, Lone
<1>9. CASE Suspend
  BY <1>9 DEF Suspend, Still, Lone, Idle
<1>10. ASSUME Running, saved' = saved, instance' = instance, Lone(solo, stack)'
       PROVE  Lone(solo, stack)' /\ Still'
  BY <1>10 DEF Running, Still, Idle
<1>11. CASE Hold \/ OpenTask
  <2>1. Running /\ saved' = saved /\ instance' = instance /\ stack' = Popped
    BY <1>11 DEF Hold, OpenTask, durable
  <2>2. Lone(solo, Popped)
    BY <1>1, <2>1, LonePopped DEF Running
  <2> QED
    BY <1>10, <2>1, <2>2
<1>12. ASSUME NEW st, NEW rw, NEW m, Running, Current \notin Humans,
              Complete(Current, st, rw, m, Popped)
       PROVE  Lone(solo, stack)'
  <2>1. PICK a : a = Current
    OBVIOUS
  <2>2. PICK rest : rest = Popped
    OBVIOUS
  <2>3. PICK next \in Seq(Frames) : next = stack'
    BY <1>1
  <2>4. next = IF NextOf(a, m) = {} THEN rest
               ELSE <<[by |-> a, todo |-> NextOf(a, m)]>> \o rest
    BY <1>12, <2>1, <2>2, <2>3 DEF Complete
  <2>5. /\ a \in Activities /\ rest \in Seq(Frames)
        /\ a \in Humans \cup solo => rest = <<>>
        /\ \A i \in DOMAIN rest : \A k \in rest[i].todo : Item(rest, i, k) \notin solo
    BY <1>1, <1>12, <2>1, <2>2, StackType, LonePopped DEF Running
  <2>6. Lone(solo, next)
    BY <1>1, <2>4, <2>5, LoneCompleted
  <2> QED
    BY <2>3, <2>6
<1>13. CASE PassThrough
  <2>1. Running /\ Current \notin Humans /\ saved' = saved /\ instance' = instance
        /\ Complete(Current, status, row, met, Popped)
    BY <1>13 DEF PassThrough, Humans
  <2> QED
    BY <1>10, <1>12, <2>1
<1>14. CASE PassExclusive
  <2>1. PICK st, rw : Complete(Current, st, rw, met, Popped)
    BY <1>14 DEF PassExclusive
  <2>2. Running /\ Current \notin Humans /\ saved' = saved /\ instance' = instance
    BY <1>14 DEF PassExclusive, Humans
  <2> QED
    BY <1>10, <1>12, <2>1, <2>2
<1>15. CASE Terminate
  <2>1. /\ Running /\ Kind[Current] = "terminate" /\ saved' = saved
        /\ Complete(Current, StatusStopping(Stoppable), RowsStopping(Stoppable), met, Popped)
    BY <1>15 DEF Terminate
  <2>2. Current \in solo /\ Out[Current] = <<>> /\ Current \in Activities
    BY <1>1, <2>1, StackType DEF TerminatesAlone, Running
  <2>3. NextOf(Current, met) = {}
    BY <2>2, NextOfType
  <2>4. stack' = <<>>
    BY <1>1, <2>1, <2>2, <2>3, LonePopped DEF Complete, Running
  <2>5. Quiet(status')
    BY <1>1, <2>1, <2>2 DEF Complete, Quiet, NoneIs, StatusStopping, Stoppable
  <2> QED
    BY <1>1, <2>1, <2>4, <2>5 DEF Still, Lone, Running, Idle
<1>16. CASE AutoFails
  <2>1. /\ ~Idle /\ Idle' /\ stack' = <<>>
        /\ instance' = saved[1].instance /\ status' = saved[1].status
    BY <1>16 DEF AutoFails, Restored, Running, Idle
  <2> QED
    BY <1>1, <2>1 DEF Still, Lone
<1>17. CASE Commit
  <2>1. /\ Idle' /\ stack' = stack /\ status' = status
        /\ instance' = IF Over THEN "COMPLETED" ELSE instance
    BY <1>17 DEF Commit, Idle
  <2> QED
    BY <2>1 DEF Still, Lone
<1>18. CASE UNCHANGED vars
  BY <1>18 DEF vars, durable, Still, Lone, Idle
<1> QED
  BY <1>4, <1>5, <1>6, <1>7, <1>8, <1>9, <1>11, <1>13, <1>14, <1>15, <1>16, <1>17, <1>18
     DEF Next, EngineStep

\* Where every terminate end event is reached alone, an instance that has ended, by
\* itself or because it was stopped, stays as it is, whatever call is made on it, until
\* somebody goes back.
THEOREM WhatHasEndedStays ==
  ASSUME NEW solo, TerminatesAlone(solo)
  PROVE  Spec => EndedStaysEnded
<1>1. Init => Lone(solo, stack) /\ Still
  BY DEF Init, Lone, Still, Idle
<1>2. Inv /\ (Lone(solo, stack) /\ Still) /\ [Next]_vars => (Lone(solo, stack) /\ Still)'
  BY StillStep
<1>3. Inv /\ (Lone(solo, stack) /\ Still) /\ [Next]_vars =>
        [Idle /\ instance \in {"STOPPED", "COMPLETED"}
         => UNCHANGED durable \/ backs' > backs]_vars
  <2> SUFFICES ASSUME Inv, Still, Next, Idle, instance \in {"STOPPED", "COMPLETED"}
               PROVE  UNCHANGED durable \/ backs' > backs
    OBVIOUS
  <2>1. NoneIs("RUNNING", status)
    BY DEF Inv, CallInv, Sound, Snapshot, Still, Quiet
  <2>2. ~Work
    BY <2>1 DEF Work, CompleteTask, NoneIs
  <2>3. ~EngineStep
    BY DEF EngineStep, Hold, OpenTask, PassThrough, PassExclusive, Terminate,
           AutoFails, Commit, Running
  <2>4. ~Start /\ ~Stop /\ ~Suspend /\ ~Resume
    BY DEF Start, Stop, Suspend, Resume
  <2>5. backs \in Nat
    BY GraphAssumption DEF Inv, TypeOK
  <2>6. PICK a \in Activities : BackToHere(a)
    BY <2>2, <2>3, <2>4 DEF Next, GoBack
  <2> QED
    BY <2>5, <2>6 DEF BackToHere
<1> QED
  BY <1>1, <1>2, <1>3, InvAlways, PTL DEF Spec, EndedStaysEnded
=============================================================================
