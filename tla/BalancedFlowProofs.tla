--------------------------- MODULE BalancedFlowProofs ---------------------------
(***************************************************************************)
(* On every balanced graph a completed instance has no token left.  The    *)
(* invariant Counted says where the tokens are while the instance goes on; *)
(* at its end the lowest token left would wait for a token that a          *)
(* completed activity owes, and what such an activity owes has come.       *)
(***************************************************************************)
EXTENDS BalancedFlow, OrderlyFlowProofs

-----------------------------------------------------------------------------
(* The graph.                                                              *)

\* A balanced graph is one of those that OrderlyFlowProofs is about.
LEMMA BalancedIsOrderly == Balanced => Orderly /\ FlowsAgree
BY DEF Balanced, Orderly

\* Of some activities one is lowest.
LEMMA LowestActivity ==
  ASSUME Layered, NEW S \in SUBSET Activities, S # {}
  PROVE  \E a \in S : \A x \in S : Level[a] <= Level[x]
<1> DEFINE L == {Level[x] : x \in S}
<1>1. L \in SUBSET Nat /\ L # {}
  BY DEF Layered
<1>2. PICK n \in L : \A k \in L : n <= k
  BY <1>1, LeastOfSet
<1> QED
  BY <1>2

\* Of some activities none of which is above another activity one is highest.
LEMMA HighestActivity ==
  ASSUME Layered, NEW S \in SUBSET Activities, S # {},
         NEW b \in Activities, \A x \in S : Level[x] <= Level[b]
  PROVE  \E a \in S : \A x \in S : Level[x] <= Level[a]
<1> DEFINE L == {Level[b] - Level[x] : x \in S}
<1>1. \A x \in S \cup {b} : Level[x] \in Nat
  BY DEF Layered
<1>2. L \in SUBSET Nat /\ L # {}
  BY <1>1
<1>3. PICK n \in L : \A k \in L : n <= k
  BY <1>2, LeastOfSet
<1>4. PICK a \in S : n = Level[b] - Level[a]
  BY <1>3
<1>5. ASSUME NEW x \in S
      PROVE  Level[x] <= Level[a]
  <2>1. Level[b] - Level[x] \in L
    OBVIOUS
  <2>2. Level[b] - Level[a] <= Level[b] - Level[x]
    BY <1>3, <1>4, <2>1
  <2> QED
    BY <1>1, <2>2
<1> QED
  BY <1>5

\* What is next is where a flow goes.
LEMMA NextFollows ==
  ASSUME FlowsAgree, NEW a \in Activities, NEW m, NEW t \in Targets(a, NextOf(a, m))
  PROVE  t \in Activities /\ a \in Sources(t) /\ t \in ToSet(Out[a])
<1>1. PICK i \in NextOf(a, m) : t = Out[a][i]
  BY DEF Targets
<1>2. i \in DOMAIN Out[a] /\ Out[a] \in Seq(Activities)
  BY NextOfType, GraphAssumption
<1>3. t \in Activities /\ t \in ToSet(Out[a])
  BY <1>1, <1>2 DEF ToSet
<1> QED
  BY <1>3 DEF FlowsAgree

\* A person whose task ends a race takes no other flow on.
LEMMA RacersHaveOneWay ==
  ASSUME Orderly, NEW e \in Activities, ~Merging(e), Race(e), NEW y \in Sources(e),
         NEW x \in Activities, y \in Sources(x)
  PROVE  x = e
<1>1. y \in Activities
  BY SourcesAreActivities
<1>2. Kind[y] = "human" /\ Sole(y)
  BY DEF Race, Humans, Orderly
<1>3. Len(Out[y]) = 1 /\ Out[y] \in Seq(Activities)
  BY <1>1, <1>2, GraphAssumption DEF Sole
<1>4. x \in ToSet(Out[y]) /\ e \in ToSet(Out[y])
  BY <1>1 DEF Orderly, FlowsAgree
<1> QED
  BY <1>3, <1>4 DEF ToSet

-----------------------------------------------------------------------------
(* What is settled.                                                        *)

\* `x' has been entered, or whatever comes before it has completed.
Due(st, x) == Entered(st, x) \/ \A z \in Sources(x) : st[z] = "COMPLETED"

\* `y' has completed or will have no token.
Off(st, stk, tk, y) ==
  \/ st[y] = "COMPLETED"
  \/ \E w \in Activities : <<y, w>> \in Alternatives /\ Present(st, stk, tk, w)

\* Who has completed has had a token.
LEMMA DoneIsPresent ==
  ASSUME NEW st, NEW stk, NEW tk, NEW x, st[x] = "COMPLETED"
  PROVE  Present(st, stk, tk, x)
BY DEF Present, Touched, Entered

\* A table of Before says what it promises.
LEMMA BeforeIsDone ==
  ASSUME NEW st, NEW stk, NEW tk, TokensExclude(st, stk, tk),
         NEW y, NEW x, <<y, x>> \in Before, st[x] = "COMPLETED"
  PROVE  st[y] = "COMPLETED"
BY DoneIsPresent DEF TokensExclude

\* What has been resolved is off, if what has been settled is.
LEMMA ResolvedIsOff ==
  ASSUME Orderly, NEW st, NEW stk, NEW tk, TokensExclude(st, stk, tk),
         NEW y \in Activities, NEW z \in Activities, Resolved(y, z), st[z] = "COMPLETED",
         <<y, z>> \in Settled => Off(st, stk, tk, y)
  PROVE  Off(st, stk, tk, y)
<1>1. CASE Finished(y, z)
  BY <1>1, BeforeIsDone DEF Finished, Off
<1>2. CASE <<y, z>> \in Alternatives
  BY <1>2, DoneIsPresent DEF Off
<1> QED
  BY <1>1, <1>2 DEF Resolved

\* A table of Settled says what it promises.
LEMMA SettledIsOff ==
  ASSUME Orderly, Layered, Settling, NEW st, NEW stk, NEW tk,
         FlowFits(st, stk), TokensExclude(st, stk, tk), LosersStop(st),
         NEW y \in Activities, NEW x \in Activities, <<y, x>> \in Settled, Due(st, x)
  PROVE  Off(st, stk, tk, y)
<1> DEFINE S == {v \in Activities : <<y, v>> \in Settled /\ Due(st, v)}
<1> SUFFICES ASSUME ~Off(st, stk, tk, y)
             PROVE  FALSE
  OBVIOUS
<1>1. PICK v \in S : \A u \in S : Level[v] <= Level[u]
  <2>1. S \in SUBSET Activities /\ x \in S
    OBVIOUS
  <2> HIDE DEF S
  <2> QED
    BY <2>1, LowestActivity
<1>2. v \in Activities /\ <<y, v>> \in Settled /\ Due(st, v)
  OBVIOUS
<1>3. \A u \in Activities : <<y, u>> \in Settled /\ Due(st, u) => Level[v] <= Level[u]
  BY <1>1
<1> HIDE DEF S
<1>4. Sources(v) \in SUBSET Activities /\ Sources(v) # {}
  BY <1>2, SourcesAreActivities DEF Settling
<1>5. \A z \in Sources(v) : Level[z] < Level[v] /\ Level[z] \in Nat /\ Level[v] \in Nat
  BY <1>2, <1>4 DEF Layered
<1>6. \A z \in Sources(v) : <<y, z>> \in Settled => ~Due(st, z)
  BY <1>3, <1>4, <1>5
<1>7. \A z \in Sources(v) : st[z] = "COMPLETED" => Due(st, z)
  BY DEF Due, Entered
<1>8. CASE Merging(v)
  <2>1. PICK z \in Sources(v) : st[z] = "COMPLETED"
    BY <1>2, <1>4, <1>8 DEF Due, FlowFits, Reaches, Reached
  <2>2. Resolved(y, z)
    BY <1>2, <1>8 DEF Settling
  <2> QED
    BY <1>4, <1>6, <1>7, <2>1, <2>2, ResolvedIsOff
<1>9. CASE ~Merging(v)
  <2>1. PICK z \in Sources(v) : \/ <<y, z>> \in Settled \cup Before
                                \/ z = y /\ Kind[v] # "exclusive"
    BY <1>2, <1>9 DEF Settling
  <2>2. st[z] = "COMPLETED" \/ Spent(st, stk, z)
    BY <1>2, <1>4, <1>9 DEF Due, FlowFits, Reaches, Reached
  <2>3. CASE st[z] = "COMPLETED"
    BY <1>6, <1>7, <2>1, <2>3, BeforeIsDone DEF Off
  <2>4. CASE Spent(st, stk, z)
    <3>1. /\ st[z] = "STOPPED" /\ \A w \in Sources(z) : st[w] = "COMPLETED"
      BY <2>4 DEF Spent
    <3>2. <<y, z>> \notin Settled
      BY <1>6, <3>1 DEF Due
    <3>3. CASE <<y, z>> \in Before
      <4>1. Sources(z) # {} /\ \A w \in Sources(z) : w = y \/ <<y, w>> \in Before
        BY <1>4, <3>3 DEF Orderly, Dominates
      <4> QED
        BY <3>1, <4>1, BeforeIsDone DEF Off
    <3>4. CASE z = y /\ Kind[v] # "exclusive"
      <4>1. ~LostRace(st, y)
        <5>1. SUFFICES ASSUME NEW e \in Activities, ~Merging(e), Race(e), y \in Sources(e)
                       PROVE  FALSE
          BY DEF LostRace
        <5>2. v = e
          BY <1>2, <3>4, <5>1, RacersHaveOneWay
        <5> QED
          BY <3>4, <5>1, <5>2 DEF Race
      <4>2. PICK w \in Activities : <<y, w>> \in Alternatives /\ st[w] = "COMPLETED"
        BY <3>1, <3>4, <4>1 DEF LosersStop
      <4> QED
        BY <4>2, DoneIsPresent DEF Off
    <3> QED
      BY <2>1, <3>2, <3>3, <3>4
  <2> QED
    BY <2>2, <2>3, <2>4
<1> QED
  BY <1>8, <1>9

-----------------------------------------------------------------------------
(* The join test.                                                          *)

\* The members of the block of `a' that the conditions `m' allow.
Possible(a, m) == PossibleMembers[a][m]

\* Where the walk through the block of `a' begins.
LastOf(a) == Block[a][Len(Block[a])]

\* One step onward in the block of `a' from the activities in `S'.
Onward(a, m, S) == UNION {{x} \cup (ToSet(Block[a]) \cap Targets(x, NextOf(x, m))) : x \in S}

\* The walk through the block of `a' step by step, as MembersAhead takes it.
WalkAhead(f, a, m, N) ==
  f = [n \in 0..N |-> IF n = 0 THEN {LastOf(a)} ELSE Onward(a, m, f[n - 1])]

\* The walk can be made as long as one likes.
LEMMA WalkExists ==
  ASSUME NEW a, NEW m, NEW N \in Nat
  PROVE  \E f : WalkAhead(f, a, m, N)
<1> DEFINE T == {k \in Nat : \E f : WalkAhead(f, a, m, k)}
<1>1. 0 \in T
  <2>1. WalkAhead([n \in 0..0 |-> {LastOf(a)}], a, m, 0)
    BY DEF WalkAhead
  <2> QED
    BY <2>1
<1>2. ASSUME NEW k \in Nat, k \in T
      PROVE  k + 1 \in T
  <2>1. PICK f : WalkAhead(f, a, m, k)
    BY <1>2
  <2>2. PICK further : further = Onward(a, m, f[k])
    OBVIOUS
  <2> DEFINE g == [n \in 0..(k + 1) |-> IF n = k + 1 THEN further ELSE f[n]]
  <2>3. ASSUME NEW n \in 0..(k + 1)
        PROVE  g[n] = IF n = 0 THEN {LastOf(a)} ELSE Onward(a, m, g[n - 1])
    <3>1. CASE n = k + 1
      BY <2>2, <3>1
    <3>2. CASE n # k + 1
      <4>1. n \in 0..k /\ (n # 0 => n - 1 \in 0..k)
        BY <3>2
      <4>2. f[n] = IF n = 0 THEN {LastOf(a)} ELSE Onward(a, m, f[n - 1])
        BY <2>1, <4>1, Zenon DEF WalkAhead
      <4>3. g[n] = f[n] /\ (n # 0 => g[n - 1] = f[n - 1])
        BY <3>2, <4>1
      <4> QED
        BY <4>2, <4>3
    <3> QED
      BY <3>1, <3>2
  <2>4. WalkAhead(g, a, m, k + 1)
    BY <2>3 DEF WalkAhead
  <2> HIDE DEF g
  <2> QED
    BY <2>4
<1> HIDE DEF T
<1>3. N \in T
  BY <1>1, <1>2, SetInduction
<1> QED
  BY <1>3 DEF T

\* A set that holds the last member of a block, and with its members those that
\* they lead to in the block, holds all members that are possible.
LEMMA MembersLie ==
  ASSUME NEW a \in Activities, NEW m \in SUBSET Conditional, Block[a] # <<>>, NEW D,
         LastOf(a) \in D,
         \A x \in D : ToSet(Block[a]) \cap Targets(x, NextOf(x, m)) \subseteq D
  PROVE  Possible(a, m) \subseteq D
<1> DEFINE N == Len(Block[a])
<1>1. N \in Nat
  BY GraphAssumption
<1> HIDE DEF N
<1>2. PICK f : WalkAhead(f, a, m, N) /\ MembersAhead(a, m) = f[N]
  <2>1. \E f : WalkAhead(f, a, m, N)
    BY <1>1, WalkExists
  <2> QED
    BY <2>1, Zenon DEF WalkAhead, Onward, MembersAhead, LastOf, N
<1>3. \A n \in 0..N : f[n] \subseteq D
  <2> DEFINE T == {n \in Nat : n \in 0..N => f[n] \subseteq D}
  <2>1. 0 \in T
    BY <1>1, <1>2 DEF WalkAhead
  <2>2. ASSUME NEW n \in Nat, n \in T
        PROVE  n + 1 \in T
    <3>1. SUFFICES ASSUME n + 1 \in 0..N
                   PROVE  f[n + 1] \subseteq D
      OBVIOUS
    <3>2. f[n] \subseteq D
      BY <1>1, <2>2, <3>1
    <3>3. f[n + 1] = Onward(a, m, f[n])
      <4>1. n + 1 # 0 /\ (n + 1) - 1 = n
        OBVIOUS
      <4>2. f[n + 1] = IF n + 1 = 0 THEN {LastOf(a)} ELSE Onward(a, m, f[(n + 1) - 1])
        BY <1>2, <3>1, Zenon DEF WalkAhead
      <4> QED
        BY <4>1, <4>2
    <3> QED
      BY <3>2, <3>3 DEF Onward
  <2> HIDE DEF T
  <2>3. Nat \subseteq T
    BY <2>1, <2>2, SetInduction
  <2> QED
    BY <2>3 DEF T
<1>4. f[N] \subseteq D
  BY <1>1, <1>3
<1>5. Possible(a, m) = MembersAhead(a, m)
  BY DEF Possible, PossibleMembers
<1> QED
  BY <1>2, <1>4, <1>5

\* When the last token has come to a join its block shows nobody at work.
LEMMA NobodyBefore ==
  ASSUME Balanced, NEW j \in Activities, Kind[j] # "exclusive",
         NEW st \in StatusType, NEW stk, NEW tk, NEW mt \in SUBSET Conditional,
         FlowFits(st, stk), TokensFit(st, stk, tk, mt),
         Present(st, stk, tk, j), st[j] # "COMPLETED",
         \E x \in Sources(j) : st[x] = "COMPLETED",
         Merging(j) \/ \A x \in Sources(j) : st[x] = "COMPLETED",
         Len(Block[j]) > 1
  PROVE  \A x \in Possible(j, mt) : st[x] = "COMPLETED"
<1> DEFINE B == ToSet(Block[j])
           D == {y \in B : st[y] = "COMPLETED"}
           last == LastOf(j)
<1>1. /\ B \in SUBSET Activities /\ last \in B /\ Block[j] # <<>>
      /\ Sources(j) \in SUBSET Activities
  <2>1. Block[j] \in Seq(Activities)
    BY GraphAssumption
  <2> QED
    BY <2>1, SourcesAreActivities DEF ToSet, LastOf
<1>2. /\ Orderly /\ Layered /\ Settling /\ Clears(j)
      /\ TokensExclude(st, stk, tk) /\ LosersStop(st) /\ TokensGoOn(st, tk, mt)
  BY DEF Balanced, TokensFit, TokensMove
<1>3. ASSUME NEW y, FinishedFor(y, j)
      PROVE  st[y] = "COMPLETED"
  <2>1. PICK z \in Sources(j) : Finished(y, z) /\ st[z] = "COMPLETED"
    BY <1>3 DEF FinishedFor
  <2> QED
    BY <1>2, <2>1, BeforeIsDone DEF Finished
<1>4. ASSUME NEW y \in Activities, NEW z \in Activities, Resolved(y, z),
             st[z] = "COMPLETED"
      PROVE  Off(st, stk, tk, y)
  <2>1. Due(st, z)
    BY <1>4 DEF Due, Entered
  <2> QED
    BY <1>2, <1>4, <2>1, SettledIsOff, ResolvedIsOff
<1>5. ASSUME NEW y \in Activities, Present(st, stk, tk, y), Off(st, stk, tk, y)
      PROVE  st[y] = "COMPLETED"
  BY <1>2, <1>5 DEF Off, TokensExclude
<1> HIDE DEF B, last
<1>6. CASE \A y \in B : FinishedFor(y, j)
  <2>1. D = B
    BY <1>3, <1>6
  <2>2. \A x \in D : ToSet(Block[j]) \cap Targets(x, NextOf(x, mt)) \subseteq D
    BY <2>1 DEF B
  <2>3. last \in D
    BY <1>1, <2>1
  <2> HIDE DEF D
  <2>4. Possible(j, mt) \subseteq D
    BY <1>1, <2>2, <2>3, MembersLie DEF last
  <2> QED
    BY <2>4 DEF D
<1>7. CASE /\ FinishedFor(last, j)
           /\ \A y \in B : ResolvedFor(y, j)
           /\ \A d \in Deciders : Resolved(j, d)
  <2>1. last \in D
    BY <1>1, <1>3, <1>7
  <2>2. \A d \in Deciders : st[d] # "COMPLETED"
    BY <1>4, <1>5, <1>7, GraphAssumption
  <2>3. ASSUME NEW x \in D, NEW t \in B, t \in Targets(x, NextOf(x, mt))
        PROVE  t \in D
    <3>1. x \in Activities /\ st[x] = "COMPLETED" /\ t \in Activities
      BY <1>1
    <3>2. SentOn(st, tk, x, mt)
      BY <1>2, <2>2, <3>1 DEF TokensGoOn
    <3>3. tk[t] > 0 \/ st[t] = "COMPLETED"
      BY <2>3, <3>2 DEF SentOn
    <3>4. Present(st, stk, tk, t)
      BY <3>3, DoneIsPresent DEF Present
    <3>5. PICK z \in Sources(j) : Resolved(t, z) /\ st[z] = "COMPLETED"
      BY <1>7 DEF ResolvedFor
    <3>6. st[t] = "COMPLETED"
      BY <1>1, <1>4, <1>5, <3>1, <3>4, <3>5
    <3> QED
      BY <3>6
  <2>4. \A x \in D : ToSet(Block[j]) \cap Targets(x, NextOf(x, mt)) \subseteq D
    BY <2>3 DEF B
  <2> HIDE DEF D
  <2>5. Possible(j, mt) \subseteq D
    BY <1>1, <2>1, <2>4, MembersLie DEF last
  <2> QED
    BY <2>5 DEF D
<1> QED
  BY <1>2, <1>6, <1>7 DEF Clears, B, last, LastOf

\* A token that is not let in at a join waits for another.
LEMMA WhoWaits ==
  ASSUME Balanced, TypeOK, Running, Ordered(status, stack),
         TokensFit(status, stack, tokens, met), ~MayEnter(Current)
  PROVE  /\ ~Merging(Current) /\ Kind[Current] # "exclusive"
         /\ \E x \in Sources(Current) : status[x] # "COMPLETED"
<1> DEFINE k == Min(Top.todo)
<1>1. /\ stack \in Seq(Frames) /\ stack # <<>> /\ 1 \in DOMAIN stack
      /\ k \in stack[1].todo /\ Item(stack, 1, k) = Current /\ Top = stack[1]
  BY TypesOfInv, PoppedShape DEF Running, Top
<1> HIDE DEF k
<1>2. Orderly /\ FlowsAgree
  BY BalancedIsOrderly
<1>3. Current \in Activities /\ (Top.by # Engine => Top.by \in Sources(Current))
  BY <1>1, <1>2, ItemType
<1>4. Top.by # Engine /\ ~JoinOpen(Current)
  BY DEF MayEnter
<1>5. Top.by \in Sources(Current) /\ status[Top.by] = "COMPLETED"
  BY <1>1, <1>3, <1>4 DEF Ordered, FlowFits, LoopsFit
<1>6. Kind[Current] # "exclusive"
  BY <1>4, Zenon DEF JoinOpen
<1>7. Present(status, stack, tokens, Current) /\ status[Current] # "COMPLETED"
  BY <1>1 DEF Present, Touched, Pending, Ordered, ItemsFit, Entered
<1>8. status \in StatusType /\ met \in SUBSET Conditional /\ FlowFits(status, stack)
  BY TypesOfInv DEF TypeOK, Snapshot, Durables, StatusType, Ordered
<1>9. PICK j \in Activities, st \in StatusType, mt \in SUBSET Conditional :
         j = Current /\ st = status /\ mt = met
  BY <1>3, <1>8
<1>10. ASSUME Merging(Current) \/ \A x \in Sources(Current) : status[x] = "COMPLETED"
       PROVE  FALSE
  <2>1. ASSUME Len(Block[j]) > 1
        PROVE  \A x \in Possible(j, mt) : st[x] = "COMPLETED"
    <3>1. /\ Kind[j] # "exclusive" /\ FlowFits(st, stack) /\ TokensFit(st, stack, tokens, mt)
          /\ Present(st, stack, tokens, j) /\ st[j] # "COMPLETED"
          /\ \E x \in Sources(j) : st[x] = "COMPLETED"
          /\ Merging(j) \/ \A x \in Sources(j) : st[x] = "COMPLETED"
      BY <1>5, <1>6, <1>7, <1>8, <1>9, <1>10
    <3> QED
      BY <2>1, <3>1, NobodyBefore
  <2>2. ~HasTokenBefore(j)
    <3>1. Len(Block[j]) > 1 =>
            \A x \in Possible(j, met) :
              status[x] \notin {"READY", "RUNNING", "SUSPENDED"}
      BY <1>9, <2>1
    <3> QED
      BY <3>1, Zenon DEF HasTokenBefore, Possible
  <2>3. CASE Kind[Current] = "parallel"
    <3>1. Merging(Current) => Single(Current)
      BY <1>3, <2>3 DEF Balanced
    <3>2. \A x \in Sources(Current) : status[x] = "COMPLETED"
      BY <1>5, <1>10, <3>1 DEF Single
    <3> QED
      BY <1>4, <1>9, <2>2, <2>3, <3>2, Zenon DEF JoinOpen, Sources
  <2>4. CASE Kind[Current] # "parallel"
    BY <1>4, <1>6, <1>9, <2>2, <2>4, Zenon DEF JoinOpen
  <2> QED
    BY <2>3, <2>4
<1> QED
  BY <1>6, <1>10

-----------------------------------------------------------------------------
(* What a step does to the tokens.                                         *)

\* `a' needs a token from one of its sources that has not completed.
Waits(st, a) ==
  /\ ~Merging(a) /\ Kind[a] # "exclusive"
  /\ \E x \in Sources(a) : st[x] # "COMPLETED"

\* No token moves when nothing completes and only what waits is left alone.
LEMMA Staying ==
  ASSUME Orderly, NEW st, NEW stk, NEW tk, NEW mt, TokensMove(st, stk, tk, mt),
         NEW st1, NEW stk1,
         \A x \in Activities : st1[x] = "COMPLETED" <=> st[x] = "COMPLETED",
         \A x \in Activities : Touched(st1, stk1, x) => Touched(st, stk, x),
         \A x \in Activities : Touched(st, stk, x) \/ st[x] = "STOPPED"
           => Touched(st1, stk1, x) \/ st1[x] = "STOPPED" \/ Waits(st, x)
  PROVE  TokensMove(st1, stk1, tk, mt)
<1>1. \A x \in Activities : Sources(x) \in SUBSET Activities
  BY SourcesAreActivities
<1>2. TokensCome(st1, tk)
  BY <1>1 DEF TokensMove, TokensCome
<1>3. TokensExclude(st1, stk1, tk)
  <2>1. \A x \in Activities : Present(st1, stk1, tk, x) => Present(st, stk, tk, x)
    BY DEF Present
  <2>2. \A p \in Alternatives \cup Before : p[1] \in Activities /\ p[2] \in Activities
    BY DEF Orderly
  <2> QED
    BY <2>1, <2>2 DEF TokensMove, TokensExclude
<1>4. TokensEnter(st1, stk1, tk)
  BY <1>1 DEF TokensMove, TokensEnter, Waits
<1>5. TokensGoOn(st1, tk, mt)
  <2>1. ASSUME NEW x \in Activities, NEW m, SentOn(st, tk, x, m)
        PROVE  SentOn(st1, tk, x, m)
    <3>1. Targets(x, NextOf(x, m)) \subseteq Activities
      BY NextOfType
    <3> QED
      BY <2>1, <3>1 DEF SentOn
  <2>2. Deciders \subseteq Activities
    BY GraphAssumption
  <2> QED
    BY <2>1, <2>2 DEF TokensMove, TokensGoOn
<1> QED
  BY <1>2, <1>3, <1>4, <1>5 DEF TokensMove

\* Losers stay losers when nobody else is stopped.
LEMMA NobodyElseStops ==
  ASSUME NEW st, NEW st1, LosersStop(st),
         \A x \in Activities : st[x] = "COMPLETED" => st1[x] = "COMPLETED",
         \A x \in Activities : st1[x] = "STOPPED" => st[x] = "STOPPED"
  PROVE  LosersStop(st1)
BY DEF LosersStop, LostRace

\* The tokens when `a' has completed.
Registered(tk, a, m) ==
  [x \in Activities |-> (IF x = a THEN 0 ELSE tk[x])
                        + (IF x \in Targets(a, NextOf(a, m)) THEN 1 ELSE 0)]

\* A running activity completes and sends its tokens on.
LEMMA SendingOn ==
  ASSUME Balanced, NEW st \in StatusType, NEW stk \in Seq(Frames), Ordered(st, stk),
         NEW tk \in [Activities -> Nat], NEW m0, TokensMove(st, stk, tk, m0),
         NEW a \in Activities, st[a] = "RUNNING",
         NEW m \in SUBSET Conditional, a \in Deciders \/ m = m0,
         NEW st1, st1 = [st EXCEPT ![a] = "COMPLETED"],
         NEW stk1, stk1 = IF NextOf(a, m) = {} THEN stk
                          ELSE <<[by |-> a, todo |-> NextOf(a, m)]>> \o stk,
         NEW tk1, tk1 = Registered(tk, a, m)
  PROVE  TokensMove(st1, stk1, tk1, m)
<1> DEFINE next == Targets(a, NextOf(a, m))
<1>1. Orderly /\ FlowsAgree /\ \A x \in Activities : Sources(x) \in SUBSET Activities
  BY BalancedIsOrderly, SourcesAreActivities
<1>2. /\ st1[a] = "COMPLETED"
      /\ \A x \in Activities \ {a} : st1[x] = st[x]
      /\ \A x \in Activities : st[x] = "COMPLETED" => st1[x] = "COMPLETED"
  BY DEF StatusType
<1>3. \A x \in next :
        /\ x \in Activities /\ a \in Sources(x) /\ ~Entered(st, x) /\ x # a
        /\ \A y : <<x, y>> \in Alternatives => y \notin next
  <2>1. ASSUME NEW x \in next
        PROVE  /\ x \in Activities /\ a \in Sources(x) /\ ~Entered(st, x) /\ x # a
               /\ \A y : <<x, y>> \in Alternatives => y \notin next
    <3>1. /\ x \in Activities /\ a \in Sources(x) /\ ~Entered(st, x)
          /\ \A y : <<x, y>> \in Alternatives => y \notin next
      BY <1>1, NextIsFresh
    <3> QED
      BY <3>1 DEF Entered
  <2> QED
    BY <2>1
<1>4. /\ \A x \in next : tk1[x] > 0
      /\ \A x \in Activities : tk1[x] > 0 => x \in next \/ (x # a /\ tk[x] > 0)
      /\ \A x \in Activities : x # a /\ tk[x] > 0 => tk1[x] > 0
  <2>1. \A x \in Activities : tk[x] \in Nat
    OBVIOUS
  <2>2. \A x \in Activities :
          tk1[x] = (IF x = a THEN 0 ELSE tk[x]) + (IF x \in next THEN 1 ELSE 0)
    BY DEF Registered
  <2> HIDE DEF next
  <2> QED
    BY <1>3, <2>1, <2>2
<1>5. \A x \in Activities : Pending(stk1, x) <=> Pending(stk, x) \/ x \in next
  <2>1. CASE NextOf(a, m) = {}
    <3>1. stk1 = stk /\ next = {}
      BY <2>1 DEF Targets
    <3> QED
      BY <3>1
  <2>2. CASE NextOf(a, m) # {}
    <3>1. PICK f : f = [by |-> a, todo |-> NextOf(a, m)]
      OBVIOUS
    <3>2. stk1 = <<f>> \o stk /\ f.by = a /\ f.todo = NextOf(a, m)
      BY <2>2, <3>1
    <3>3. /\ DOMAIN stk1 = 1..(Len(stk) + 1) /\ DOMAIN stk = 1..Len(stk)
          /\ Len(stk) \in Nat /\ stk1[1] = f
          /\ \A i \in DOMAIN stk : stk1[i + 1] = stk[i]
          /\ \A i \in DOMAIN stk1 : i = 1 \/ (i - 1 \in DOMAIN stk /\ stk1[i] = stk[i - 1])
      BY <3>2
    <3>4. ListOf(a) = Out[a]
      BY GraphAssumption DEF ListOf
    <3>5. \A k \in f.todo : Item(stk1, 1, k) = Out[a][k]
      BY <3>2, <3>3, <3>4 DEF Item
    <3>6. next = {Out[a][k] : k \in f.todo}
      BY <3>2 DEF Targets
    <3>7. \A i \in DOMAIN stk : \A k \in stk[i].todo : Item(stk1, i + 1, k) = Item(stk, i, k)
      BY <3>3 DEF Item
    <3>8. ASSUME NEW x \in Activities, Pending(stk1, x)
          PROVE  Pending(stk, x) \/ x \in next
      <4>1. PICK i \in DOMAIN stk1 : \E k \in stk1[i].todo : Item(stk1, i, k) = x
        BY <3>8 DEF Pending
      <4>2. CASE i = 1
        BY <3>3, <3>5, <3>6, <4>1, <4>2
      <4>3. CASE i - 1 \in DOMAIN stk /\ stk1[i] = stk[i - 1]
        BY <4>1, <4>3 DEF Pending, Item
      <4> QED
        BY <3>3, <4>2, <4>3
    <3>9. ASSUME NEW x \in Activities, Pending(stk, x)
          PROVE  Pending(stk1, x)
      <4>1. PICK i \in DOMAIN stk : \E k \in stk[i].todo : Item(stk, i, k) = x
        BY <3>9 DEF Pending
      <4>2. i + 1 \in DOMAIN stk1 /\ stk1[i + 1] = stk[i]
        BY <3>3
      <4> QED
        BY <3>7, <4>1, <4>2 DEF Pending
    <3>10. ASSUME NEW x \in next
           PROVE  Pending(stk1, x)
      BY <3>3, <3>5, <3>6 DEF Pending
    <3> QED
      BY <3>8, <3>9, <3>10
  <2> QED
    BY <2>1, <2>2
<1> HIDE DEF next
<1>6. \A x \in Activities : Touched(st1, stk1, x) <=> Touched(st, stk, x) \/ x \in next
  BY <1>2, <1>5 DEF Touched, Entered
<1>7. Present(st, stk, tk, a)
  BY DEF Present, Touched, Entered
<1>8. \A x \in Activities : Present(st1, stk1, tk1, x) => Present(st, stk, tk, x) \/ x \in next
  BY <1>4, <1>6 DEF Present
<1>9. TokensCome(st1, tk1)
  <2>1. ASSUME NEW x \in Activities, tk1[x] > 0
        PROVE  st1[x] # "COMPLETED" /\ \E z \in Sources(x) : st1[z] = "COMPLETED"
    <3>1. CASE x \in next
      BY <1>2, <1>3, <3>1 DEF Entered
    <3>2. CASE x # a /\ tk[x] > 0
      BY <1>1, <1>2, <3>2 DEF TokensMove, TokensCome
    <3> QED
      BY <1>4, <2>1, <3>1, <3>2
  <2> QED
    BY <2>1 DEF TokensCome
<1>10. TokensExclude(st1, stk1, tk1)
  <2>1. ASSUME NEW x \in next, NEW y \in Activities, <<x, y>> \in Alternatives
        PROVE  ~Present(st1, stk1, tk1, y)
    <3>1. <<a, y>> \in Alternatives \/ <<a, y>> \in Before
      BY <1>1, <1>3, <2>1 DEF Orderly, Excluding
    <3>2. ~Present(st, stk, tk, y)
      BY <1>7, <3>1 DEF TokensMove, TokensExclude
    <3> QED
      BY <1>3, <1>8, <2>1, <3>2
  <2>2. ASSUME NEW x \in next, NEW s \in Activities, <<s, x>> \in Before
        PROVE  st1[s] = "COMPLETED"
    <3>1. a = s \/ <<s, a>> \in Before
      BY <1>1, <1>3, <2>2 DEF Orderly, Dominates
    <3> QED
      BY <1>2, <1>7, <3>1 DEF TokensMove, TokensExclude
  <2>3. \A x, y \in Activities : <<x, y>> \in Alternatives => <<y, x>> \in Alternatives
    BY <1>1 DEF Orderly, Excluding
  <2>4. ASSUME NEW x \in Activities, NEW y \in Activities, <<x, y>> \in Alternatives
        PROVE  ~(Present(st1, stk1, tk1, x) /\ Present(st1, stk1, tk1, y))
    <3>1. ~(Present(st, stk, tk, x) /\ Present(st, stk, tk, y))
      BY <2>4 DEF TokensMove, TokensExclude
    <3> QED
      BY <1>8, <2>1, <2>3, <2>4, <3>1
  <2>5. ASSUME NEW s \in Activities, NEW x \in Activities, <<s, x>> \in Before,
               Present(st1, stk1, tk1, x)
        PROVE  st1[s] = "COMPLETED"
    <3>1. Present(st, stk, tk, x) => st[s] = "COMPLETED"
      BY <2>5 DEF TokensMove, TokensExclude
    <3> QED
      BY <1>2, <1>8, <2>2, <2>5, <3>1
  <2>6. \A p \in Alternatives \cup Before :
          p[1] \in Activities /\ p[2] \in Activities /\ p = <<p[1], p[2]>>
    BY <1>1 DEF Orderly
  <2> QED
    BY <2>4, <2>5, <2>6 DEF TokensExclude
<1>11. TokensEnter(st1, stk1, tk1)
  <2>1. ASSUME NEW x \in Activities, tk1[x] > 0, x \notin next,
               \/ Merging(x) \/ Kind[x] = "exclusive"
               \/ \A z \in Sources(x) : st1[z] = "COMPLETED"
        PROVE  Touched(st1, stk1, x) \/ st1[x] = "STOPPED"
    <3>1. x # a /\ tk[x] > 0
      BY <1>4, <2>1
    <3>2. ASSUME ~Merging(x), Kind[x] # "exclusive"
          PROVE  \A z \in Sources(x) : st[z] = "COMPLETED"
      <4>1. Matches(x)
        BY <3>2 DEF Balanced
      <4>2. a \notin Sources(x)
        BY <2>1, <4>1 DEF Matches, next
      <4> QED
        BY <1>1, <1>2, <2>1, <3>2, <4>2
    <3>3. Touched(st, stk, x) \/ st[x] = "STOPPED"
      BY <3>1, <3>2 DEF TokensMove, TokensEnter
    <3> QED
      BY <1>2, <1>6, <3>1, <3>3
  <2> QED
    BY <1>6, <2>1 DEF TokensEnter
<1>12. TokensGoOn(st1, tk1, m)
  <2>1. ASSUME NEW x \in Activities, NEW mm, SentOn(st, tk, x, mm)
        PROVE  SentOn(st1, tk1, x, mm)
    <3>1. Targets(x, NextOf(x, mm)) \subseteq Activities
      BY NextOfType
    <3> QED
      BY <1>2, <1>4, <2>1, <3>1 DEF SentOn
  <2>2. SentOn(st1, tk1, a, m)
    BY <1>4 DEF SentOn, next
  <2>3. ASSUME NEW x \in Activities, st1[x] = "COMPLETED", x # a
        PROVE  /\ \E mm \in SUBSET Conditional : SentOn(st1, tk1, x, mm)
               /\ (\A d \in Deciders : st1[d] # "COMPLETED") => SentOn(st1, tk1, x, m)
    <3>1. st[x] = "COMPLETED"
      BY <1>2, <2>3
    <3>2. \E mm \in SUBSET Conditional : SentOn(st1, tk1, x, mm)
      BY <2>1, <3>1 DEF TokensMove, TokensGoOn
    <3>3. ASSUME \A d \in Deciders : st1[d] # "COMPLETED"
          PROVE  SentOn(st1, tk1, x, m)
      <4>1. m = m0 /\ \A d \in Deciders : st[d] # "COMPLETED"
        BY <1>2, <3>3, GraphAssumption
      <4> QED
        BY <2>1, <3>1, <4>1 DEF TokensMove, TokensGoOn
    <3> QED
      BY <3>2, <3>3
  <2> QED
    BY <2>2, <2>3 DEF TokensGoOn
<1> QED
  BY <1>9, <1>10, <1>11, <1>12 DEF TokensMove

\* What is on the stack stays there when the current activity is taken off.
LEMMA LeftOnStack ==
  ASSUME stack \in Seq(Frames), stack # <<>>, NEW x, Pending(stack, x)
  PROVE  x = Current \/ Pending(Popped, x)
<1> DEFINE k0 == Min(Top.todo)
<1>1. Top = stack[1] /\ Top \in Frames /\ 1 \in DOMAIN stack
  BY DEF Top
<1>2. PICK i \in DOMAIN stack : \E k \in stack[i].todo : Item(stack, i, k) = x
  BY DEF Pending
<1>3. PICK k \in stack[i].todo : Item(stack, i, k) = x
  BY <1>2
<1>4. CASE i = 1 /\ k = k0
  BY <1>1, <1>3, <1>4 DEF Item, Current
<1>5. CASE ~(i = 1 /\ k = k0)
  <2>1. CASE Top.todo = {k0}
    <3>1. Popped = Tail(stack) /\ i # 1
      BY <1>1, <1>3, <1>5, <2>1 DEF Popped
    <3>2. i - 1 \in DOMAIN Popped /\ Popped[i - 1] = stack[i]
      BY <3>1
    <3> QED
      BY <1>3, <3>2 DEF Pending, Item
  <2>2. CASE Top.todo # {k0}
    <3> DEFINE f == [Top EXCEPT !.todo = @ \ {Min(@)}]
    <3>1. Popped = <<f>> \o Tail(stack)
      BY <2>2 DEF Popped
    <3>2. f.by = Top.by /\ f.todo = Top.todo \ {k0}
      BY <1>1 DEF Frames
    <3> HIDE DEF f, k0
    <3>3. i \in DOMAIN Popped /\ Popped[i] = IF i = 1 THEN f ELSE stack[i]
      BY <1>1, <3>1
    <3>4. k \in Popped[i].todo /\ Item(Popped, i, k) = x
      BY <1>1, <1>3, <1>5, <3>2, <3>3 DEF Item
    <3> QED
      BY <3>3, <3>4 DEF Pending
  <2> QED
    BY <2>1, <2>2
<1> QED
  BY <1>4, <1>5

\* The current activity is entered; no token moves.
LEMMA Coming ==
  ASSUME Orderly, TypeOK, Running, NEW st \in StatusType, Ordered(st, stack),
         TokensMove(st, stack, tokens, met)
  PROVE  TokensMove([st EXCEPT ![Current] = "RUNNING"], Popped, tokens, met)
<1>1. stack \in Seq(Frames) /\ stack # <<>>
  BY TypesOfInv DEF Running
<1>2. /\ Current \in Activities /\ ~Entered(st, Current) /\ Touched(st, stack, Current)
      /\ \A x \in Activities : Touched(st, Popped, x) => Touched(st, stack, x)
  BY <1>1, Popping
<1>3. PICK a \in Activities : a = Current
  BY <1>2
<1> DEFINE on == [st EXCEPT ![a] = "RUNNING"]
<1>4. on[a] = "RUNNING" /\ \A x \in Activities \ {a} : on[x] = st[x]
  BY DEF StatusType
<1> HIDE DEF on
<1>5. \A x \in Activities : on[x] = "COMPLETED" <=> st[x] = "COMPLETED"
  BY <1>2, <1>3, <1>4 DEF Entered
<1>6. \A x \in Activities : Touched(on, Popped, x) => Touched(st, stack, x)
  BY <1>2, <1>3, <1>4 DEF Touched, Entered
<1>7. \A x \in Activities : Touched(st, stack, x) \/ st[x] = "STOPPED"
        => Touched(on, Popped, x) \/ on[x] = "STOPPED" \/ Waits(st, x)
  BY <1>1, <1>3, <1>4, LeftOnStack DEF Touched, Entered
<1>8. PICK stk, tk, mt : stk = Popped /\ tk = tokens /\ mt = met
  OBVIOUS
<1>9. TokensMove(on, stk, tk, mt)
  <2>1. PICK stk0 : stk0 = stack
    OBVIOUS
  <2> QED
    BY <1>5, <1>6, <1>7, <1>8, <2>1, Staying
<1> QED
  BY <1>3, <1>8, <1>9 DEF on

\* The current activity completes as soon as it is entered, and sends its tokens on.
LEMMA PassingOn ==
  ASSUME Balanced, TypeOK, Running, NEW st \in StatusType, Ordered(st, stack),
         Reached(st, Popped, Current), TokensMove(st, stack, tokens, met),
         NEW rw, Complete(Current, st, rw, met, Popped)
  PROVE  TokensMove(status', stack', tokens', met)
<1>1. stack \in Seq(Frames) /\ stack # <<>> /\ Orderly
  BY TypesOfInv, BalancedIsOrderly DEF Running
<1>2. /\ Ordered([st EXCEPT ![Current] = "RUNNING"], Popped)
      /\ Popped \in Seq(Frames) /\ Current \in Activities
  BY <1>1, Taking
<1>3. TokensMove([st EXCEPT ![Current] = "RUNNING"], Popped, tokens, met)
  BY <1>1, Coming
<1>4. tokens \in [Activities -> Nat] /\ met \in SUBSET Conditional
  BY DEF TypeOK, Snapshot, Durables
<1>5. PICK a \in Activities, stk \in Seq(Frames), tk \in [Activities -> Nat],
           m \in SUBSET Conditional :
         a = Current /\ stk = Popped /\ tk = tokens /\ m = met
  BY <1>2, <1>4
<1> DEFINE on == [st EXCEPT ![a] = "RUNNING"]
<1>6. /\ on \in StatusType /\ on[a] = "RUNNING"
      /\ [on EXCEPT ![a] = "COMPLETED"] = [st EXCEPT ![a] = "COMPLETED"]
  BY DEF StatusType, Statuses
<1>7. PICK st1, stk1, tk1 :
         /\ st1 = [on EXCEPT ![a] = "COMPLETED"]
         /\ stk1 = IF NextOf(a, m) = {} THEN stk
                   ELSE <<[by |-> a, todo |-> NextOf(a, m)]>> \o stk
         /\ tk1 = Registered(tk, a, m)
  OBVIOUS
<1> HIDE DEF on
<1>8. Ordered(on, stk) /\ TokensMove(on, stk, tk, m)
  BY <1>2, <1>3, <1>5 DEF on
<1>9. TokensMove(st1, stk1, tk1, m)
  <2>1. PICK st0 \in StatusType : st0 = on
    BY <1>6
  <2>2. Ordered(st0, stk) /\ TokensMove(st0, stk, tk, m) /\ st0[a] = "RUNNING"
    BY <1>6, <1>8, <2>1
  <2>3. st1 = [st0 EXCEPT ![a] = "COMPLETED"]
    BY <1>7, <2>1
  <2> QED
    BY <1>7, <2>2, <2>3, SendingOn
<1>10. Complete(a, st, rw, m, stk)
  BY <1>5
<1>11. status' = st1 /\ stack' = stk1 /\ tokens' = tk1
  BY <1>5, <1>6, <1>7, <1>10 DEF Complete, Registered
<1> QED
  BY <1>5, <1>9, <1>11

\* What is counted as completed stays so.
LEMMA CompletionsGrow ==
  ASSUME TypeOK, NEW a \in Activities, NEW st, NEW rw, NEW m, NEW rest,
         Complete(a, st, rw, m, rest), NoneTerminated(completions')
  PROVE  NoneTerminated(completions) /\ Kind[a] # "terminate"
<1>1. /\ completions \in [Activities -> Nat]
      /\ completions' = [completions EXCEPT ![a] = @ + 1]
  BY TypesOfInv DEF Complete
<1>2. PICK old, new : old = completions /\ new = completions'
  OBVIOUS
<1>3. \A x \in Activities : new[x] = 0 => old[x] = 0 /\ x # a
  BY <1>1, <1>2
<1>4. NoneTerminated(new)
  BY <1>2
<1>5. NoneTerminated(old) /\ Kind[a] # "terminate"
  BY <1>3, <1>4 DEF NoneTerminated
<1> QED
  BY <1>2, <1>5

\* Those whom an exclusive gateway stops have lost a race or been excluded.
LEMMA StoppedAreLosers ==
  ASSUME Balanced, TypeOK, Running, Ordered(status, stack), Kind[Current] = "exclusive",
         TokensFit(status, stack, tokens, met),
         NEW A, A = {a \in ToSet(Block[Current]) : status[a] # "COMPLETED"},
         NEW st1, st1 = [StatusStopping(A) EXCEPT ![Current] = "COMPLETED"]
  PROVE  LosersStop(st1)
<1> DEFINE k == Min(Top.todo)
<1>1. /\ stack \in Seq(Frames) /\ stack # <<>> /\ 1 \in DOMAIN stack
      /\ k \in stack[1].todo /\ Item(stack, 1, k) = Current /\ Top = stack[1]
  BY TypesOfInv, PoppedShape DEF Running, Top
<1> HIDE DEF k
<1>2. Orderly /\ FlowsAgree
  BY BalancedIsOrderly
<1>3. /\ Current \in Activities
      /\ Top.by # Engine => Top.by \in Sources(Current)
      /\ Top.by = Engine => IsStart(Current)
  BY <1>1, <1>2, ItemType DEF Ordered, ItemsFit
<1>4. PICK x \in Sources(Current) : status[x] = "COMPLETED"
  BY <1>1, <1>3 DEF IsStart, Ordered, FlowFits, LoopsFit
<1>5. x \in Activities /\ StopsNobody(Current)
  BY <1>3, SourcesAreActivities DEF Balanced
<1>6. /\ \A a \in Activities : a # Current =>
           st1[a] = IF a \in A THEN "STOPPED" ELSE status[a]
      /\ st1[Current] = "COMPLETED"
  BY <1>3 DEF StatusStopping
<1>7. \A a \in Activities : status[a] = "COMPLETED" => st1[a] = "COMPLETED"
  BY <1>6
<1>8. ASSUME NEW a \in Activities, st1[a] = "STOPPED"
      PROVE  \/ LostRace(st1, a)
             \/ \E z \in Activities : <<a, z>> \in Alternatives /\ st1[z] = "COMPLETED"
  <2>1. CASE status[a] = "STOPPED"
    BY <1>7, <2>1 DEF TokensFit, LosersStop, LostRace
  <2>2. CASE status[a] # "STOPPED"
    <3>1. a \in ToSet(Block[Current]) /\ status[a] # "COMPLETED"
      BY <1>6, <1>8, <2>2
    <3>2. CASE ~Merging(Current) /\ a \in Sources(Current)
      <4>1. Race(Current)
        BY <1>2, <1>3, <3>2 DEF Orderly, Covered
      <4> QED
        BY <1>3, <1>6, <3>2, <4>1 DEF LostRace
    <3>3. CASE Finished(a, x) \/ <<a, x>> \in Alternatives
      <4>1. TokensExclude(status, stack, tokens)
        BY DEF TokensFit, TokensMove
      <4>2. PICK st, stk, tk : st = status /\ stk = stack /\ tk = tokens
        OBVIOUS
      <4>3. ~Finished(a, x)
        BY <1>4, <3>1, <4>1, <4>2, BeforeIsDone DEF Finished
      <4> QED
        BY <1>4, <1>5, <1>7, <3>3, <4>3
    <3> QED
      BY <1>5, <3>1, <3>2, <3>3 DEF StopsNobody
  <2> QED
    BY <2>1, <2>2
<1> QED
  BY <1>8 DEF LosersStop

\* As long as nobody goes back, every action leaves the tokens where they can go on.
LEMMA CountedStep ==
  ASSUME Balanced, Inv, InOrder, Counted, Halted, backs = 0, [Next]_vars, backs' = 0
  PROVE  Counted' /\ Halted'
<1>1. /\ TypeOK /\ TypeOK' /\ CallInv /\ Orderly
      /\ status \in StatusType /\ status' \in StatusType
      /\ stack \in Seq(Frames)
  BY TypeStep, TypesOfInv, BalancedIsOrderly
     DEF Inv, TypeOK, Snapshot, Durables, StatusType
<1>2. Idle => stack = <<>> /\ Ordered(status, stack)
  BY EmptyStack DEF CallInv, InOrder, Ordered, Inv
<1>3. ~Idle => Fitting(status, row)
  BY <1>1 DEF CallInv
<1>4. ASSUME Idle, saved' = <<Snapshot>>, held' = held,
             NoneTerminated(completions) => instance # "STOPPED",
             NoneTerminated(completions') => instance' # "STOPPED",
             Unended(instance', completions') => TokensFit(status', stack', tokens', met')
      PROVE  Counted' /\ Halted'
  <2>1. saved'[1] = Snapshot /\ ~Idle'
    BY <1>4 DEF Idle
  <2>2. Unended(instance, completions) => TokensFit(status, <<>>, tokens, met)
    BY <1>2, <1>4 DEF Counted
  <2>3. Snapshot.instance = instance /\ Snapshot.completions = completions
        /\ Snapshot.status = status /\ Snapshot.tokens = tokens /\ Snapshot.met = met
        /\ Snapshot.held = held
    BY DEF Snapshot
  <2>4. Counted'
    BY <1>4, <2>1, <2>2, <2>3 DEF Counted
  <2>5. Halted'
    BY <1>4, <2>1, <2>3 DEF Halted
  <2> QED
    BY <2>4, <2>5
<1>5. ASSUME ~Idle, saved' = saved, held' = held,
             NoneTerminated(completions') => instance' # "STOPPED",
             Unended(instance', completions') => TokensFit(status', stack', tokens', met')
      PROVE  Counted' /\ Halted'
  <2>1. ~Idle'
    BY <1>5 DEF Idle
  <2>2. Counted'
    BY <1>5, <2>1 DEF Counted
  <2>3. Halted'
    BY <1>5, <2>1 DEF Halted
  <2> QED
    BY <2>2, <2>3
<1>6. ASSUME Running, Current \notin Humans \/ ~MayEnter(Current)
      PROVE  Ordered(status, stack) /\ stack # <<>> /\ ~Idle
  BY <1>1, <1>3, <1>6, ResumingOrder DEF InOrder, Ordered, Running
<1>7. CASE Start
  <2>1. /\ Idle /\ instance = "NONE" /\ instance' = "RUNNING" /\ saved' = <<Snapshot>>
        /\ stack' = <<[by |-> Engine, todo |-> {i \in DOMAIN Order : IsStart(Order[i])}]>>
        /\ status' = status /\ completions' = completions /\ tokens' = tokens
        /\ held' = held
    BY <1>7 DEF Start, Begin
  <2>2. \A a \in Activities : status[a] = "READY"
    BY <2>1 DEF InOrder, NotBegun
  <2>3. \A x \in Activities : Pending(stack', x) => Sources(x) = {}
    <3>1. PICK f : f = [by |-> Engine, todo |-> {i \in DOMAIN Order : IsStart(Order[i])}]
      OBVIOUS
    <3>2. stack' = <<f>> /\ f.by = Engine /\ \A i \in f.todo : IsStart(Order[i])
      BY <2>1, <3>1
    <3> QED
      BY <3>2 DEF Pending, Item, ListOf, IsStart, Sources, ToSet
  <2>4. ASSUME Unended(instance', completions')
        PROVE  TokensFit(status', stack', tokens', met')
    <3>1. TokensFit(status, stack, tokens, met)
      BY <2>1, <2>4 DEF Counted, Unended
    <3>2. \A a \in Activities : Sources(a) \in SUBSET Activities
      BY SourcesAreActivities
    <3>3. \A a \in Activities : ~(tokens[a] > 0)
      BY <2>2, <3>1, <3>2 DEF TokensFit, TokensMove, TokensCome
    <3>4. TokensCome(status, tokens) /\ TokensEnter(status, stack', tokens)
      BY <3>3 DEF TokensCome, TokensEnter
    <3>5. \A x \in Activities : Present(status, stack', tokens, x) => Sources(x) = {}
      BY <2>2, <2>3, <3>3 DEF Present, Touched, Entered
    <3>6. \A p \in Alternatives \cup Before :
            p[2] \in Activities /\ p = <<p[1], p[2]>> /\ p[1] \in Activities
      BY <1>1 DEF Orderly
    <3>7. \A p \in Alternatives : Sources(p[1]) # {}
      BY <1>1, <3>6 DEF Orderly, Excluding
    <3>8. \A p \in Before : Sources(p[2]) # {}
      BY <1>1, <3>6 DEF Orderly, Dominates
    <3>9. TokensExclude(status, stack', tokens)
      BY <3>5, <3>6, <3>7, <3>8 DEF TokensExclude
    <3>10. TokensGoOn(status, tokens, met') /\ LosersStop(status)
      BY <2>2 DEF TokensGoOn, LosersStop
    <3> QED
      BY <2>1, <3>4, <3>9, <3>10 DEF TokensFit, TokensMove
  <2> QED
    BY <1>4, <2>1, <2>4
<1>8. ASSUME NEW a \in Activities, CompleteTask(a)
      PROVE  Counted' /\ Halted'
  <2>1. /\ Idle /\ a \in Humans /\ status[a] = "RUNNING" /\ saved' = <<Snapshot>>
        /\ instance' = instance /\ held' = held
    BY <1>8 DEF CompleteTask, Begin
  <2>2. PICK m, rw : m = met' /\ rw = [row EXCEPT ![a] = "COMPLETED"]
    OBVIOUS
  <2>3. PICK stk \in Seq(Frames), st \in StatusType, tk \in [Activities -> Nat],
             m0 \in SUBSET Conditional :
           stk = stack /\ st = status /\ tk = tokens /\ m0 = met
    BY <1>1 DEF TypeOK, Snapshot, Durables
  <2>4. Complete(a, st, rw, m, stk)
    BY <1>2, <1>8, <2>1, <2>2, <2>3 DEF CompleteTask
  <2>5. NoneTerminated(completions') => NoneTerminated(completions)
    BY <1>1, <2>4, CompletionsGrow
  <2>6. NoneTerminated(completions) => instance # "STOPPED"
    BY <2>1 DEF Halted
  <2>7. m \in SUBSET Conditional
    BY <1>1, <2>2 DEF TypeOK, Snapshot, Durables
  <2>8. a \in Deciders \/ m = m0
    <3>1. met' \in Decisions(a)
      BY <1>8 DEF CompleteTask
    <3>2. a \notin Deciders => Decisions(a) = {met}
      BY Zenon DEF Decisions
    <3> QED
      BY <2>2, <2>3, <3>1, <3>2
  <2>9. ASSUME Unended(instance', completions')
        PROVE  TokensFit(status', stack', tokens', met')
    <3>1. TokensFit(status, stack, tokens, met)
      BY <2>1, <2>5, <2>9 DEF Counted, Unended
    <3>2. Ordered(st, stk) /\ TokensMove(st, stk, tk, m0) /\ st[a] = "RUNNING"
      BY <1>2, <2>1, <2>3, <3>1 DEF TokensFit
    <3>3. PICK st1, stk1, tk1 :
             /\ st1 = [st EXCEPT ![a] = "COMPLETED"]
             /\ stk1 = IF NextOf(a, m) = {} THEN stk
                       ELSE <<[by |-> a, todo |-> NextOf(a, m)]>> \o stk
             /\ tk1 = Registered(tk, a, m)
      OBVIOUS
    <3>4. TokensMove(st1, stk1, tk1, m)
      BY <2>7, <2>8, <3>2, <3>3, SendingOn
    <3>5. status' = st1 /\ stack' = stk1 /\ tokens' = tk1
      BY <2>3, <2>4, <3>3 DEF Complete, Registered
    <3>6. LosersStop(st1)
      <4>1. LosersStop(st)
        BY <2>3, <3>1 DEF TokensFit
      <4>2. /\ \A x \in Activities : st[x] = "COMPLETED" => st1[x] = "COMPLETED"
            /\ \A x \in Activities : st1[x] = "STOPPED" => st[x] = "STOPPED"
        BY <3>3 DEF StatusType
      <4> QED
        BY <4>1, <4>2, NobodyElseStops
    <3> QED
      BY <2>2, <3>4, <3>5, <3>6 DEF TokensFit
  <2> QED
    BY <1>4, <2>1, <2>5, <2>6, <2>9
<1>9. CASE Stop
  <2>1. /\ Idle /\ Idle' /\ instance' = "STOPPED" /\ held' = held
        /\ status' = StatusStopping(Stoppable)
    BY <1>9 DEF Stop, Idle
  <2>2. \A a \in Activities : status'[a] # "RUNNING"
    BY <2>1 DEF StatusStopping, Stoppable
  <2>3. ~Unended(instance', completions')
    BY <2>1 DEF Unended
  <2> QED
    BY <2>1, <2>2, <2>3 DEF Counted, Halted
<1>10. CASE Suspend
  <2>1. /\ Idle /\ Idle' /\ instance = "RUNNING" /\ instance' = "RUNNING" /\ stack' = stack
        /\ status' = [a \in Activities |->
                        IF status[a] = "RUNNING" THEN "SUSPENDED" ELSE status[a]]
        /\ completions' = completions /\ tokens' = tokens /\ met' = met /\ held' = held
    BY <1>10 DEF Suspend, Idle
  <2>2. PICK st, st1, stk, tk, mt :
           st = status /\ st1 = status' /\ stk = stack /\ tk = tokens /\ mt = met
    OBVIOUS
  <2>3. /\ \A x \in Activities : st1[x] = "COMPLETED" <=> st[x] = "COMPLETED"
        /\ \A x \in Activities : st1[x] = "STOPPED" <=> st[x] = "STOPPED"
        /\ \A x \in Activities : Entered(st1, x) <=> Entered(st, x)
    BY <2>1, <2>2 DEF Entered
  <2>4. \A x \in Activities : Touched(st1, stk, x) <=> Touched(st, stk, x)
    BY <2>3 DEF Touched
  <2>5. ASSUME TokensFit(st, stk, tk, mt)
        PROVE  TokensFit(st1, stk, tk, mt)
    BY <1>1, <2>3, <2>4, <2>5, Staying, NobodyElseStops DEF TokensFit
  <2> QED
    BY <2>1, <2>2, <2>5 DEF Counted, Halted, Unended
<1>11. CASE Resume
  <2> DEFINE suspended == {i \in DOMAIN Order : status[Order[i]] = "SUSPENDED"}
  <2>1. /\ Idle /\ instance = "RUNNING" /\ instance' = instance /\ saved' = <<Snapshot>>
        /\ stack' = <<[by |-> Engine, todo |-> suspended]>> /\ held' = held
        /\ status' = status /\ completions' = completions /\ tokens' = tokens /\ met' = met
    BY <1>11 DEF Resume, Begin, durable
  <2>2. PICK f, st, stk, stk1, tk, mt :
           /\ f = [by |-> Engine, todo |-> suspended] /\ st = status
           /\ stk = stack /\ stk1 = stack' /\ tk = tokens /\ mt = met
    OBVIOUS
  <2>3. stk1 = <<f>> /\ f.by = Engine /\ \A i \in f.todo : st[Order[i]] = "SUSPENDED"
    BY <2>1, <2>2
  <2>4. \A x \in Activities : Pending(stk1, x) => Entered(st, x)
    BY <2>3 DEF Pending, Item, ListOf, Entered
  <2>5. \A x \in Activities : ~Pending(stk, x)
    BY <1>2, <2>1, <2>2, EmptyStack
  <2>6. \A x \in Activities : Touched(st, stk1, x) <=> Touched(st, stk, x)
    BY <2>4, <2>5 DEF Touched
  <2>7. ASSUME TokensFit(st, stk, tk, mt)
        PROVE  TokensFit(st, stk1, tk, mt)
    BY <1>1, <2>6, <2>7, Staying DEF TokensFit
  <2>8. Unended(instance', completions') => TokensFit(status', stack', tokens', met')
    BY <2>1, <2>2, <2>7 DEF Counted
  <2> HIDE DEF suspended
  <2> QED
    BY <1>4, <2>1, <2>8
<1>12. CASE GoBack
  <2>1. backs' = backs + 1
    BY <1>12 DEF GoBack, BackToHere
  <2> QED
    BY <2>1
<1>13. CASE Hold
  <2>1. /\ Running /\ ~MayEnter(Current) /\ stack' = Popped /\ saved' = saved
        /\ instance' = instance /\ status' = status /\ completions' = completions
        /\ tokens' = tokens /\ met' = met /\ held' = held
    BY <1>13 DEF Hold, durable
  <2>2. ~Idle /\ stack # <<>> /\ Ordered(status, stack)
    BY <1>6, <2>1
  <2>3. ASSUME TokensFit(status, stack, tokens, met)
        PROVE  TokensFit(status, Popped, tokens, met)
    <3>1. Waits(status, Current)
      BY <1>1, <2>1, <2>2, <2>3, WhoWaits DEF Waits
    <3>2. \A x \in Activities : Touched(status, Popped, x) => Touched(status, stack, x)
      BY <1>1, <2>2, Popping
    <3>3. \A x \in Activities : Touched(status, stack, x)
            => Touched(status, Popped, x) \/ Waits(status, x)
      BY <1>1, <2>2, <3>1, LeftOnStack DEF Touched
    <3>4. PICK st, stk, stk1, tk, mt :
             st = status /\ stk = stack /\ stk1 = Popped /\ tk = tokens /\ mt = met
      OBVIOUS
    <3>5. TokensMove(st, stk1, tk, mt)
      BY <1>1, <2>3, <3>2, <3>3, <3>4, Staying DEF TokensFit
    <3> QED
      BY <2>3, <3>4, <3>5 DEF TokensFit
  <2> QED
    BY <1>5, <2>1, <2>2, <2>3 DEF Counted, Halted
<1>14. CASE OpenTask
  <2>1. /\ Running /\ Current \in Humans /\ MayEnter(Current) /\ stack' = Popped
        /\ status' = [status EXCEPT ![Current] = "RUNNING"] /\ saved' = saved
        /\ instance' = instance /\ completions' = completions
        /\ tokens' = tokens /\ met' = met /\ held' = held
    BY <1>14 DEF OpenTask
  <2>2. ~Idle /\ stack # <<>> /\ Current \in Activities
    BY <1>1, <2>1, StackType DEF Running
  <2>3. /\ status'[Current] = "RUNNING"
        /\ \A x \in Activities \ {Current} : status'[x] = status[x]
    BY <1>1, <2>1, <2>2 DEF StatusType
  <2>4. ASSUME TokensFit(status, stack, tokens, met)
        PROVE  TokensFit(status', Popped, tokens, met)
    <3>1. CASE Ordered(status, stack)
      <4>1. TokensMove(status', Popped, tokens, met)
        BY <1>1, <2>1, <2>4, <3>1, Coming DEF TokensFit
      <4>2. status[Current] # "COMPLETED"
        BY <1>1, <2>2, <3>1, Popping DEF Entered
      <4> QED
        BY <2>3, <2>4, <4>1, <4>2, NobodyElseStops DEF TokensFit
    <3>2. CASE FlowFits(status, stack) /\ ResumeFits(status, stack)
      <4>1. status[Current] = "SUSPENDED"
        BY <1>1, <1>3, <2>1, <2>2, <3>2, ResumingOrder
      <4>2. \A x \in Activities : Pending(Popped, x) => Pending(stack, x)
        <5>1. PICK d \in {0, 1} :
                 \A i \in DOMAIN Popped :
                   /\ i + d \in DOMAIN stack
                   /\ Popped[i].by = stack[i + d].by
                   /\ Popped[i].todo \subseteq stack[i + d].todo
          BY <1>1, <2>2, PoppedShape
        <5> QED
          BY <5>1 DEF Pending, Item
      <4>3. PICK st, st1, stk, stk1, tk, mt :
               /\ st = status /\ st1 = status' /\ stk = stack /\ stk1 = Popped
               /\ tk = tokens /\ mt = met
        OBVIOUS
      <4>4. /\ \A x \in Activities : st1[x] = "COMPLETED" <=> st[x] = "COMPLETED"
            /\ \A x \in Activities : st1[x] = "STOPPED" <=> st[x] = "STOPPED"
            /\ \A x \in Activities : Entered(st1, x) <=> Entered(st, x)
        BY <2>3, <4>1, <4>3 DEF Entered
      <4>5. /\ \A x \in Activities : Touched(st1, stk1, x) => Touched(st, stk, x)
            /\ \A x \in Activities : Touched(st, stk, x) => Touched(st1, stk1, x)
        <5>1. Entered(st, Current)
          BY <4>1, <4>3 DEF Entered
        <5> QED
          BY <1>1, <2>2, <4>2, <4>3, <4>4, <5>1, LeftOnStack DEF Touched
      <4>6. TokensMove(st1, stk1, tk, mt)
        BY <1>1, <2>4, <4>3, <4>4, <4>5, Staying DEF TokensFit
      <4>7. LosersStop(st1)
        BY <2>4, <4>3, <4>4, NobodyElseStops DEF TokensFit
      <4> QED
        BY <4>3, <4>6, <4>7 DEF TokensFit
    <3> QED
      BY <3>1, <3>2 DEF InOrder, Ordered
  <2> QED
    BY <1>5, <2>1, <2>2, <2>4 DEF Counted, Halted
<1>15. CASE PassThrough
  <2>1. /\ Running /\ Kind[Current] \in {"start", "end", "auto", "parallel", "inclusive"}
        /\ MayEnter(Current) /\ Complete(Current, status, row, met, Popped)
        /\ saved' = saved /\ instance' = instance /\ met' = met /\ held' = held
    BY <1>15 DEF PassThrough
  <2>2. Current \notin Humans /\ Kind[Current] # "exclusive"
    BY <2>1 DEF Humans
  <2>3. Ordered(status, stack) /\ stack # <<>> /\ ~Idle /\ Current \in Activities
    BY <1>1, <1>6, <2>1, <2>2, StackType
  <2>4. Reached(status, Popped, Current)
    BY <1>1, <2>1, <2>2, <2>3, JoinReached
  <2>5. NoneTerminated(completions') => NoneTerminated(completions)
    <3>1. PICK a \in Activities : a = Current
      BY <2>3
    <3>2. PICK st, rw, m, rest : st = status /\ rw = row /\ m = met /\ rest = Popped
      OBVIOUS
    <3> QED
      BY <1>1, <2>1, <3>1, <3>2, CompletionsGrow
  <2>6. ASSUME Unended(instance', completions')
        PROVE  TokensFit(status', stack', tokens', met')
    <3>1. TokensFit(status, stack, tokens, met)
      BY <2>1, <2>5, <2>6 DEF Counted, Unended
    <3>2. TokensMove(status', stack', tokens', met)
      <4>1. PICK rw : rw = row
        OBVIOUS
      <4>2. Complete(Current, status, rw, met, Popped)
        BY <2>1, <4>1
      <4> QED
        BY <1>1, <2>1, <2>3, <2>4, <3>1, <4>2, PassingOn DEF TokensFit
    <3>3. LosersStop(status')
      <4>1. status' = [status EXCEPT ![Current] = "COMPLETED"]
        BY <2>1 DEF Complete
      <4> QED
        BY <1>1, <2>3, <3>1, <4>1, NobodyElseStops DEF TokensFit, StatusType
    <3> QED
      BY <2>1, <3>2, <3>3 DEF TokensFit
  <2> QED
    BY <1>5, <2>1, <2>3, <2>5, <2>6 DEF Halted
<1>16. CASE PassExclusive
  <2>1. PICK A : A = {a \in ToSet(Block[Current]) : status[a] # "COMPLETED"}
    OBVIOUS
  <2>2. /\ Running /\ Kind[Current] = "exclusive" /\ saved' = saved /\ instance' = instance
        /\ Complete(Current, StatusStopping(A), RowsStopping(A), met, Popped)
        /\ met' = met /\ held' = held
    BY <1>16, <2>1 DEF PassExclusive
  <2>3. Current \notin Humans
    BY <2>2 DEF Humans
  <2>4. Ordered(status, stack) /\ stack # <<>> /\ ~Idle /\ Current \in Activities
    BY <1>1, <1>6, <2>2, <2>3, StackType
  <2>5. /\ A \in SUBSET Activities /\ Ordered(StatusStopping(A), stack)
        /\ Reached(StatusStopping(A), Popped, Current)
    BY <1>1, <2>1, <2>2, <2>4, RaceIsOver
  <2>6. PICK st, rw : st = StatusStopping(A) /\ rw = RowsStopping(A)
    OBVIOUS
  <2>7. st \in StatusType /\ Complete(Current, st, rw, met, Popped)
    BY <1>1, <2>2, <2>6 DEF StatusStopping, StatusType, Statuses
  <2>8. NoneTerminated(completions') => NoneTerminated(completions)
    <3>1. PICK a \in Activities : a = Current
      BY <2>4
    <3>2. PICK m, rest : m = met /\ rest = Popped
      OBVIOUS
    <3> QED
      BY <1>1, <2>7, <3>1, <3>2, CompletionsGrow
  <2>9. ASSUME Unended(instance', completions')
        PROVE  TokensFit(status', stack', tokens', met')
    <3>1. TokensFit(status, stack, tokens, met)
      BY <2>2, <2>8, <2>9 DEF Counted, Unended
    <3>2. \A x \in Activities : st[x] = IF x \in A THEN "STOPPED" ELSE status[x]
      BY <2>6 DEF StatusStopping
    <3>3. \A x \in A : status[x] # "COMPLETED"
      BY <2>1
    <3>4. TokensMove(st, stack, tokens, met)
      <4>1. PICK st0, stk, tk, mt :
               st0 = status /\ stk = stack /\ tk = tokens /\ mt = met
        OBVIOUS
      <4>2. /\ \A x \in Activities : st[x] = "COMPLETED" <=> st0[x] = "COMPLETED"
            /\ \A x \in Activities : Touched(st, stk, x) => Touched(st0, stk, x)
            /\ \A x \in Activities : Touched(st0, stk, x) \/ st0[x] = "STOPPED"
                 => Touched(st, stk, x) \/ st[x] = "STOPPED"
        BY <3>2, <3>3, <4>1 DEF Touched, Entered
      <4>3. TokensMove(st, stk, tk, mt)
        BY <1>1, <3>1, <4>1, <4>2, Staying DEF TokensFit
      <4> QED
        BY <4>1, <4>3
    <3>5. TokensMove(status', stack', tokens', met)
      BY <1>1, <2>2, <2>5, <2>6, <2>7, <3>4, PassingOn
    <3>6. LosersStop(status')
      <4>1. status' = [StatusStopping(A) EXCEPT ![Current] = "COMPLETED"]
        BY <2>2 DEF Complete
      <4>2. PICK st1 : st1 = [StatusStopping(A) EXCEPT ![Current] = "COMPLETED"]
        OBVIOUS
      <4>3. LosersStop(st1)
        BY <1>1, <2>1, <2>2, <2>4, <3>1, <4>2, StoppedAreLosers
      <4> QED
        BY <4>1, <4>2, <4>3
    <3> QED
      BY <2>2, <3>5, <3>6 DEF TokensFit
  <2> QED
    BY <1>5, <2>2, <2>4, <2>8, <2>9 DEF Halted
<1>17. CASE Terminate
  <2>1. /\ Running /\ Kind[Current] = "terminate" /\ saved' = saved /\ held' = held
        /\ Complete(Current, StatusStopping(Stoppable), RowsStopping(Stoppable), met, Popped)
    BY <1>17 DEF Terminate
  <2>2. ~Idle /\ Current \in Activities
    BY <1>1, <2>1, StackType DEF Running
  <2>3. ~NoneTerminated(completions')
    <3>1. PICK a \in Activities : a = Current
      BY <2>2
    <3>2. PICK st, rw, m, rest :
             /\ st = StatusStopping(Stoppable) /\ rw = RowsStopping(Stoppable)
             /\ m = met /\ rest = Popped
      OBVIOUS
    <3> QED
      BY <1>1, <2>1, <3>1, <3>2, CompletionsGrow
  <2> QED
    BY <1>5, <2>1, <2>2, <2>3 DEF Unended
<1>18. CASE AutoFails
  <2>1. /\ Running /\ stack' = <<>> /\ saved' = <<>>
        /\ instance' = saved[1].instance /\ status' = saved[1].status
        /\ completions' = saved[1].completions /\ tokens' = saved[1].tokens
        /\ met' = saved[1].met /\ held' = saved[1].held
    BY <1>18 DEF AutoFails, Restored
  <2>2. ~Idle /\ Idle'
    BY <2>1 DEF Running, Idle
  <2> QED
    BY <2>1, <2>2 DEF Counted, Halted
<1>19. CASE Commit
  <2>1. /\ ~Idle /\ Idle' /\ stack = <<>> /\ stack' = <<>>
        /\ instance' = "STOPPED" => instance = "STOPPED"
        /\ status' = status /\ completions' = completions /\ tokens' = tokens
        /\ met' = met /\ held' = held
    BY <1>19 DEF Commit, Idle
  <2>2. NoneTerminated(completions) => instance # "STOPPED"
    BY <2>1 DEF Halted
  <2>3. Counted'
    BY <2>1, <2>2 DEF Counted, Unended
  <2>4. Halted'
    BY <2>1, <2>2 DEF Halted
  <2> QED
    BY <2>3, <2>4
<1>20. CASE UNCHANGED vars
  BY <1>20 DEF vars, durable, Counted, Halted, Idle
<1> QED
  BY <1>7, <1>8, <1>9, <1>10, <1>11, <1>12, <1>13, <1>14, <1>15, <1>16, <1>17, <1>18,
     <1>19, <1>20 DEF Next, Work, EngineStep

\* The tokens can go on in every state that is reached without going back.
LEMMA CountedAlways ==
  ASSUME Balanced
  PROVE  Spec => [](backs = 0 => InOrder /\ Counted /\ Halted)
<1>1. Init => Counted /\ Halted
  <2> SUFFICES ASSUME Init PROVE Counted /\ Halted
    OBVIOUS
  <2>1. /\ \A a \in Activities : status[a] = "READY" /\ ~(tokens[a] > 0)
        /\ stack = <<>> /\ Idle /\ held = {} /\ instance = "NONE"
    BY DEF Init, Idle
  <2>2. \A a \in Activities : ~Present(status, stack, tokens, a)
    BY <2>1, EmptyStack DEF Present, Touched, Entered
  <2>3. TokensExclude(status, stack, tokens)
    BY <2>2, BalancedIsOrderly DEF TokensExclude, Orderly
  <2>4. TokensFit(status, stack, tokens, met)
    BY <2>1, <2>3 DEF TokensFit, TokensMove, TokensCome, TokensEnter, TokensGoOn, LosersStop
  <2> QED
    BY <2>1, <2>4 DEF Counted, Halted
<1>2. /\ Inv /\ (backs = 0 => InOrder) /\ (backs = 0 => Counted /\ Halted) /\ [Next]_vars
      => (backs = 0 => Counted /\ Halted)'
  <2> SUFFICES ASSUME Inv, backs = 0 => InOrder, backs = 0 => Counted /\ Halted,
                      [Next]_vars, backs' = 0
               PROVE  Counted' /\ Halted'
    OBVIOUS
  <2>1. backs \in Nat
    BY GraphAssumption DEF Inv, TypeOK
  <2>2. backs' = backs \/ backs' = backs + 1
    BY DEF Next, GoBack, BackToHere, Start, Work, CompleteTask, Stop, Suspend, Resume,
           EngineStep, Hold, OpenTask, PassThrough, PassExclusive, Terminate, AutoFails,
           Commit, vars
  <2>3. backs = 0
    BY <2>1, <2>2
  <2> QED
    BY <2>3, CountedStep
<1>3. Orderly
  BY BalancedIsOrderly
<1>4. Spec => [](backs = 0 => InOrder)
  BY <1>3, InOrderAlways
<1> QED
  BY <1>1, <1>2, <1>4, InvAlways, PTL DEF Spec

-----------------------------------------------------------------------------
(* No token is left.                                                       *)

\* At rest a token that nothing waits below goes where it is owed.
LEMMA DebtsArePaid ==
  ASSUME Balanced, NEW st \in StatusType, NEW tk \in [Activities -> Nat], NEW mt,
         TokensFit(st, <<>>, tk, mt),
         NEW j \in Activities, Kind[j] # "exclusive", NEW x \in Sources(j),
         \A a \in Activities : tk[a] > 0 /\ Level[a] < Level[j] => st[a] = "STOPPED",
         NEW s \in Activities, st[s] = "COMPLETED", <<s, x>> \in Owes
  PROVE  st[x] = "COMPLETED"
<1> SUFFICES ASSUME st[x] # "COMPLETED"
             PROVE  FALSE
  OBVIOUS
<1>1. /\ Orderly /\ FlowsAgree /\ Layered /\ Owing /\ x \in Activities
      /\ TokensExclude(st, <<>>, tk) /\ TokensGoOn(st, tk, mt) /\ TokensCome(st, tk)
      /\ LosersStop(st)
  BY BalancedIsOrderly, SourcesAreActivities DEF Balanced, TokensFit, TokensMove
<1>2. /\ \A a \in Activities : Level[a] \in Nat
      /\ \A a \in Activities : \A z \in Sources(a) : Level[z] < Level[a]
  BY <1>1 DEF Layered
<1> DEFINE S == {a \in Activities : st[a] = "COMPLETED" /\ <<a, x>> \in Owes}
<1>3. PICK a \in S : \A z \in S : Level[z] <= Level[a]
  <2>1. S \in SUBSET Activities /\ s \in S
    OBVIOUS
  <2>2. \A z \in S : Level[z] <= Level[x]
    BY <1>1 DEF Owing
  <2> HIDE DEF S
  <2> QED
    BY <1>1, <2>1, <2>2, HighestActivity
<1>4. a \in Activities /\ st[a] = "COMPLETED" /\ <<a, x>> \in Owes /\ a # x
  OBVIOUS
<1>5. \A z \in Activities : st[z] = "COMPLETED" /\ <<z, x>> \in Owes => Level[z] <= Level[a]
  BY <1>3
<1> HIDE DEF S
<1>6. PICK m \in SUBSET Conditional : SentOn(st, tk, a, m)
  BY <1>1, <1>4 DEF TokensGoOn
<1>7. PICK t \in Targets(a, NextOf(a, m)) : <<t, x>> \in Owes
  BY <1>1, <1>4 DEF Owing
<1>8. t \in Activities /\ a \in Sources(t)
  BY <1>1, <1>4, NextFollows
<1>9. st[t] # "COMPLETED"
  BY <1>2, <1>4, <1>5, <1>7, <1>8
<1>10. tk[t] > 0
  BY <1>6, <1>9 DEF SentOn
<1>11. st[t] = "STOPPED"
  <2>1. Level[t] <= Level[x]
    BY <1>1, <1>7, <1>8 DEF Owing
  <2>2. Level[x] < Level[j]
    BY <1>2
  <2> QED
    BY <1>1, <1>2, <1>8, <1>10, <2>1, <2>2
<1>12. PICK e \in Activities :
         ~Merging(e) /\ Race(e) /\ t \in Sources(e) /\ st[e] = "COMPLETED"
  <2>1. ASSUME NEW w \in Activities, <<t, w>> \in Alternatives, st[w] = "COMPLETED"
        PROVE  FALSE
    <3>1. Present(st, <<>>, tk, t) /\ Present(st, <<>>, tk, w)
      BY <1>10, <2>1 DEF Present, Touched, Entered
    <3> QED
      BY <1>1, <2>1, <3>1 DEF TokensExclude
  <2> QED
    BY <1>1, <1>8, <1>11, <2>1 DEF LosersStop, LostRace
<1>13. CASE t = x
  <2>1. j = e
    BY <1>1, <1>12, <1>13, RacersHaveOneWay
  <2> QED
    BY <1>12, <2>1 DEF Race
<1>14. CASE t # x
  <2>1. PICK u \in Targets(t, NextOf(t, m)) : <<u, x>> \in Owes
    BY <1>1, <1>7, <1>8, <1>14 DEF Owing
  <2>2. u \in Activities /\ t \in Sources(u)
    BY <1>1, <1>8, <2>1, NextFollows
  <2>3. u = e
    BY <1>1, <1>12, <2>2, RacersHaveOneWay
  <2>4. Level[e] <= Level[a]
    BY <1>5, <1>12, <2>1, <2>3
  <2> QED
    BY <1>2, <1>4, <1>8, <1>12, <2>4
<1> QED
  BY <1>13, <1>14

\* On a balanced graph an instance that was completed, not by a terminate end event
\* and without anybody going back, has no token left at an activity that was not
\* stopped: of the tokens a join needs, none comes without the others.
THEOREM NoBranchIsGivenUp ==
  ASSUME Balanced
  PROVE  Spec => []NoTokenLeft
<1>1. Inv /\ CompletedIsQuiet /\ (backs = 0 => InOrder /\ Counted /\ Halted) => NoTokenLeft
  <2> SUFFICES ASSUME Inv, CompletedIsQuiet, InOrder, Counted, Halted,
                      Idle, instance = "COMPLETED", NoneTerminated(completions),
                      NEW b \in Activities, tokens[b] > 0, status[b] # "STOPPED"
               PROVE  FALSE
    BY DEF NoTokenLeft, NoneTerminated
  <2>1. PICK st \in StatusType, tk \in [Activities -> Nat], mt \in SUBSET Conditional :
           st = status /\ tk = tokens /\ mt = met
    BY DEF Inv, TypeOK, Snapshot, Durables, StatusType
  <2>2. stack = <<>>
    BY DEF Inv, CallInv
  <2>3. TokensFit(st, <<>>, tk, mt)
    BY <2>1, <2>2 DEF Counted, Unended
  <2>4. /\ Orderly /\ Layered
        /\ TokensCome(st, tk) /\ TokensEnter(st, <<>>, tk) /\ TokensExclude(st, <<>>, tk)
    BY <2>3, BalancedIsOrderly DEF Balanced, TokensFit, TokensMove
  <2>5. \A a \in Activities : st[a] \in {"READY", "STOPPED", "COMPLETED"}
    BY <2>1 DEF CompletedIsQuiet, Halted, InOrder, FlowFits, Reaches, StatusType, Statuses
  <2> DEFINE S == {a \in Activities : tk[a] > 0 /\ st[a] # "STOPPED"}
  <2>6. PICK j \in S : \A a \in S : Level[j] <= Level[a]
    <3>1. S \in SUBSET Activities /\ b \in S
      BY <2>1
    <3> HIDE DEF S
    <3> QED
      BY <2>4, <3>1, LowestActivity
  <2>7. j \in Activities /\ tk[j] > 0 /\ st[j] # "STOPPED"
    OBVIOUS
  <2>8. \A a \in Activities : tk[a] > 0 /\ Level[a] < Level[j] => st[a] = "STOPPED"
    <3>1. \A a \in Activities : Level[a] \in Nat
      BY <2>4 DEF Layered
    <3>2. \A a \in Activities : tk[a] > 0 /\ st[a] # "STOPPED" => Level[j] <= Level[a]
      BY <2>6
    <3> QED
      BY <2>7, <3>1, <3>2
  <2> HIDE DEF S
  <2>9. st[j] = "READY"
    BY <2>4, <2>5, <2>7 DEF TokensCome
  <2>10. ~Touched(st, <<>>, j)
    BY <2>9, EmptyStack DEF Touched, Entered
  <2>11. ~Merging(j) /\ Kind[j] # "exclusive"
    BY <2>4, <2>7, <2>10 DEF TokensEnter
  <2>12. PICK x \in Sources(j) : st[x] # "COMPLETED"
    BY <2>4, <2>7, <2>10 DEF TokensEnter
  <2>13. PICK z \in Sources(j) : st[z] = "COMPLETED"
    BY <2>4, <2>7 DEF TokensCome
  <2>14. Matches(j)
    BY <2>7, <2>11 DEF Balanced
  <2>15. PICK s \in Activities : Finished(s, z) /\ <<s, x>> \in Owes
    BY <2>12, <2>13, <2>14 DEF Matches
  <2>16. st[s] = "COMPLETED"
    <3>1. PICK stk : stk = <<>>
      OBVIOUS
    <3> QED
      BY <2>4, <2>13, <2>15, <3>1, BeforeIsDone DEF Finished
  <2> QED
    BY <2>3, <2>7, <2>8, <2>11, <2>12, <2>15, <2>16, DebtsArePaid
<1>2. Spec => [](backs = 0 => InOrder /\ Counted /\ Halted)
  BY CountedAlways
<1> QED
  BY <1>1, <1>2, InvAlways, CompletedInstancesAreQuiet, PTL
=============================================================================
