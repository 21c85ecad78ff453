----------------------------- MODULE OrderlyFlow -----------------------------
(***************************************************************************)
(* The process graphs on which TokenFlow keeps its tokens in order as long *)
(* as nobody goes back, and the invariant that shows it.                   *)
(*                                                                         *)
(* A graph is orderly when every activity that several flows enter merges  *)
(* alternatives, of which one is taken, or is a join of one of three kinds:*)
(* a parallel gateway; an activity whose block shows under all conditions  *)
(* who is still at work before it; or an exclusive gateway behind people   *)
(* who compete for one answer.  Loops are not orderly.                     *)
(***************************************************************************)
EXTENDS TokenFlow

CONSTANTS
  Alternatives,   \* pairs of activities of which at most one gets a token
  Before          \* <<s, x>>: `x' gets no token before `s' is completed

Sources(a) == ToSet(In[a])

\* What takes one flow on only when it is completed.
Sole(a) == Kind[a] = "exclusive" \/ Len(Out[a]) = 1

\* At most one of the sources of `j' gets a token.
Merging(j) ==
  \A x, y \in Sources(j) : x # y => <<x, y>> \in Alternatives

Single(a) == \A x, y \in Sources(a) : x = y

\* No parallel gateway, but its join test sees everybody who works before it.
Covered(j) ==
  /\ Kind[j] \notin {"parallel", "exclusive"}
  /\ Len(Block[j]) > 1
  /\ \A m \in SUBSET Conditional : Sources(j) \subseteq PossibleMembers[j][m]
  /\ \A x \in Sources(j) : Single(x)

\* Some people are asked at once; the first answer stops the others.
Race(j) ==
  /\ Kind[j] = "exclusive"
  /\ Sources(j) \subseteq Humans \cap ToSet(Block[j])
  /\ \E s \in Activities : \A x \in Sources(j) : Sources(x) = {s}

\* What a join waits for that goes on once it is stopped.
WaitedFor ==
  UNION {Sources(j) : j \in {x \in Activities :
                               ~Merging(x) /\ Kind[x] # "parallel"}}

\* What comes behind `s' only: it has no token before `s' is completed.
Dominates ==
  \A s, x \in Activities : <<s, x>> \in Before =>
    /\ s # x /\ Sources(x) # {}
    /\ \A z \in Sources(x) : z = s \/ <<s, z>> \in Before

\* Two activities behind different flows of an exclusive gateway.
Excluding ==
  \A x, y \in Activities : <<x, y>> \in Alternatives =>
    /\ x # y /\ <<y, x>> \in Alternatives /\ Sources(x) # {}
    /\ \A s \in Sources(x) :
         \/ <<s, y>> \in Alternatives
         \/ Kind[s] = "exclusive" /\ <<s, y>> \in Before

\* A flow leaves its source and enters its target.
FlowsAgree == \A x, a \in Activities : x \in Sources(a) <=> a \in ToSet(Out[x])

Orderly ==
  /\ Alternatives \subseteq Activities \X Activities
  /\ Before \subseteq Activities \X Activities
  /\ Excluding /\ Dominates
  /\ FlowsAgree
  /\ \A a \in Activities : IsInjective(Out[a])
  /\ IsInjective(Order)
  /\ \A j \in Activities :
       \/ Merging(j)
       \/ /\ \A x \in Sources(j) : Sole(x)
          /\ Kind[j] = "parallel" \/ Covered(j) \/ Race(j)
  /\ \A e \in Activities : Kind[e] = "exclusive" =>
       ToSet(Block[e]) \cap WaitedFor
         \subseteq IF Merging(e) THEN {} ELSE Sources(e)

\* A call that reaches a terminate end event has nothing else left to execute: only
\* such activities lead to it, from a person's task on, as take one flow on.
TerminatesAlone(solo) ==
  /\ solo \subseteq Activities \ Humans
  /\ FlowsAgree
  /\ IsInjective(Order)
  /\ \A a \in solo : /\ Sources(a) # {}
                     /\ \A x \in Sources(a) : Sole(x) /\ x \in Humans \cup solo
  /\ \A a \in Activities : Kind[a] = "terminate" => a \in solo /\ Out[a] = <<>>

-----------------------------------------------------------------------------
(* The invariant, of the statuses `st' and the call stack `stk'.           *)

Entered(st, a) == st[a] \in {"RUNNING", "SUSPENDED", "COMPLETED"}

Item(stk, i, k) == ListOf(stk[i].by)[k]

Pending(stk, a) == \E i \in DOMAIN stk : \E k \in stk[i].todo : Item(stk, i, k) = a

Touched(st, stk, a) == Pending(stk, a) \/ Entered(st, a)

\* Its token is gone and no other can come.
Spent(st, stk, a) ==
  /\ st[a] = "STOPPED" /\ ~Pending(stk, a)
  /\ \A x \in Sources(a) : st[x] = "COMPLETED"

\* Why a token has come to `a'.
Reached(st, stk, a) ==
  \/ Sources(a) = {}
  \/ Merging(a) /\ \E x \in Sources(a) : st[x] = "COMPLETED"
  \/ /\ ~Merging(a)
     /\ \A x \in Sources(a) :
          st[x] = "COMPLETED" \/ (Kind[a] # "parallel" /\ Spent(st, stk, x))

\* One loop for a completed activity; a person's completion began the call.
LoopsFit(st, stk) ==
  /\ \A i \in DOMAIN stk : stk[i].by # Engine => st[stk[i].by] = "COMPLETED"
  /\ \A i, j \in DOMAIN stk : stk[i].by = stk[j].by => i = j
  /\ \A i \in DOMAIN stk : stk[i].by \in Humans => i = Len(stk)

\* What a loop has still to execute has not been entered; a join is next.
ItemsFit(st, stk) ==
  \A i \in DOMAIN stk : \A k \in stk[i].todo :
    LET a == Item(stk, i, k)
    IN  /\ ~Entered(st, a)
        /\ stk[i].by = Engine => IsStart(a)
        /\ ~Merging(a) => i = 1 /\ stk[i].todo = {k}

\* A resume executes what is suspended.
ResumeFits(st, stk) ==
  /\ Len(stk) = 1 /\ stk[1].by = Engine
  /\ \A k \in stk[1].todo : st[Order[k]] = "SUSPENDED"

Reaches(st, stk) ==
  /\ \A a \in Activities : Entered(st, a) => Reached(st, stk, a)
  /\ \A a \in WaitedFor : st[a] = "STOPPED" => Spent(st, stk, a)
  /\ \A a \in Activities : st[a] # "COMPENSATED"

Excludes(st, stk) ==
  /\ \A p \in Alternatives : ~(Touched(st, stk, p[1]) /\ Touched(st, stk, p[2]))
  /\ \A p \in Before : Touched(st, stk, p[2]) => st[p[1]] = "COMPLETED"

FlowFits(st, stk) ==
  /\ LoopsFit(st, stk)
  /\ Reaches(st, stk)
  /\ Excludes(st, stk)

\* What the other variables say of an activity agrees with its status.
DataFits(st, done, rw, sy) ==
  /\ \A a \in Activities : done[a] = IF st[a] = "COMPLETED" THEN 1 ELSE 0
  /\ \A a \in Humans : /\ rw[a] = "NEW" <=> st[a] = "RUNNING"
                       /\ rw[a] = "SUSPENDED" <=> st[a] = "SUSPENDED"
                       /\ sy[a] = 0

NotBegun(life, st) == life = "NONE" => \A a \in Activities : st[a] = "READY"

\* What a call finds and leaves.
RestFits(d) ==
  /\ FlowFits(d.status, <<>>)
  /\ DataFits(d.status, d.completions, d.row, d.strays)
  /\ NotBegun(d.instance, d.status)

InOrder ==
  /\ FlowFits(status, stack)
  /\ ItemsFit(status, stack) \/ ResumeFits(status, stack)
  /\ DataFits(status, completions, row, strays)
  /\ NotBegun(instance, status)
  /\ ~Idle => RestFits(saved[1])
=============================================================================
