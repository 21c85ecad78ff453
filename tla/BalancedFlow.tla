---------------------------- MODULE BalancedFlow ----------------------------
(***************************************************************************)
(* The orderly graphs on which TokenFlow leaves no token behind, and the   *)
(* invariant that shows it.                                                *)
(*                                                                         *)
(* A graph is balanced when its splits and joins match: whatever sends one *)
(* of the tokens that a join needs comes behind an activity from which the *)
(* others come as well, whatever the conditions say; the block of a join   *)
(* shows nobody who has no token any more when the last one comes; and the *)
(* block of an exclusive gateway nobody who still has one, the losers of a *)
(* race excepted.                                                          *)
(***************************************************************************)
EXTENDS OrderlyFlow

CONSTANTS
  Level,     \* a number for each activity that grows along the flows
  Owes,      \* <<s, x>>: once `s' has completed, `x' gets a token
  Settled    \* <<y, x>>: once `x' has completed, `y' has too or gets no token

Layered ==
  /\ Level \in [Activities -> Nat]
  /\ \A a \in Activities : \A x \in Sources(a) : Level[x] < Level[a]

\* Whatever holds, the way from `s' leads to `x'.
Owing ==
  /\ Owes \subseteq Activities \X Activities
  /\ \A s, x \in Activities : <<s, x>> \in Owes =>
       /\ Level[s] <= Level[x]
       /\ \/ s = x
          \/ \A m \in SUBSET Conditional :
               \E t \in Targets(s, NextOf(s, m)) : <<t, x>> \in Owes

\* Once `x' has completed `y' has.
Finished(y, x) == y = x \/ <<y, x>> \in Before

\* Once `x' has completed `y' has, or an alternative to it has got its token.
Resolved(y, x) == Finished(y, x) \/ <<y, x>> \in Settled \cup Alternatives

\* A join settles what all that lead to it settle, every other activity what one of
\* them settles.
Settling ==
  /\ Settled \subseteq Activities \X Activities
  /\ \A y, x \in Activities : <<y, x>> \in Settled =>
       /\ Sources(x) # {}
       /\ IF Merging(x) THEN \A z \in Sources(x) : Resolved(y, z)
          ELSE \E z \in Sources(x) : \/ <<y, z>> \in Settled \cup Before
                                     \/ z = y /\ Kind[x] # "exclusive"

\* When the (last) token comes to `j', `y' has completed, or is at least settled.
FinishedFor(y, j) ==
  IF Merging(j) THEN \A x \in Sources(j) : Finished(y, x)
  ELSE \E x \in Sources(j) : Finished(y, x)

ResolvedFor(y, j) ==
  IF Merging(j) THEN \A x \in Sources(j) : Resolved(y, x)
  ELSE \E x \in Sources(j) : Resolved(y, x)

\* Nobody in the block of `j' is at work or waited for when the last token comes:
\* all have completed, or nobody has changed the conditions since the instance
\* began, so that those they still allow have.
Clears(j) ==
  Len(Block[j]) > 1 =>
    \/ \A y \in ToSet(Block[j]) : FinishedFor(y, j)
    \/ /\ FinishedFor(Block[j][Len(Block[j])], j)
       /\ \A y \in ToSet(Block[j]) : ResolvedFor(y, j)
       /\ \A d \in Deciders : Resolved(j, d)

\* Those whom the exclusive gateway `e' stops have lost a race, or get no token.
StopsNobody(e) ==
  \A y \in ToSet(Block[e]) :
    \/ ~Merging(e) /\ y \in Sources(e)
    \/ \A x \in Sources(e) : Finished(y, x) \/ <<y, x>> \in Alternatives

\* What `j' waits for comes, whoever of its sources was first.
Matches(j) ==
  \A x \in Sources(j) :
    /\ \A m \in SUBSET Conditional : j \in Targets(x, NextOf(x, m))
    /\ \A z \in Sources(j) :
         \E s \in Activities : Finished(s, x) /\ <<s, z>> \in Owes

\* Nobody is stopped who is still needed, and what a join needs comes together.
Balanced ==
  /\ Orderly /\ Layered /\ Owing /\ Settling
  /\ \A j \in Activities :
       IF Kind[j] = "exclusive" THEN StopsNobody(j)
       ELSE /\ Clears(j)
            /\ ~Merging(j) => Matches(j)
            /\ Merging(j) /\ Kind[j] = "parallel" => Single(j)

-----------------------------------------------------------------------------
(* The invariant, of the statuses `st', the stack `stk', the tokens `tk' and *)
(* the conditions `mt'.                                                      *)

\* Has a token, or had one.
Present(st, stk, tk, a) == Touched(st, stk, a) \/ tk[a] > 0

\* A token has been sent by somebody, and its activity has not used it up.
TokensCome(st, tk) ==
  \A a \in Activities : tk[a] > 0 =>
    st[a] # "COMPLETED" /\ \E x \in Sources(a) : st[x] = "COMPLETED"

\* Of two alternatives one has a token at most; the later activity has one only when
\* the earlier has completed.
TokensExclude(st, stk, tk) ==
  /\ \A p \in Alternatives : ~(Present(st, stk, tk, p[1]) /\ Present(st, stk, tk, p[2]))
  /\ \A p \in Before : Present(st, stk, tk, p[2]) => st[p[1]] = "COMPLETED"

\* Only joins wait, and only as long as a source of theirs is not completed.
TokensEnter(st, stk, tk) ==
  \A a \in Activities :
    /\ tk[a] > 0
    /\ \/ Merging(a) \/ Kind[a] = "exclusive"
       \/ \A x \in Sources(a) : st[x] = "COMPLETED"
    => Touched(st, stk, a) \/ st[a] = "STOPPED"

\* Who is stopped has lost a race or been excluded.
LostRace(st, a) ==
  \E e \in Activities : /\ ~Merging(e) /\ Race(e) /\ a \in Sources(e)
                        /\ st[e] = "COMPLETED"

LosersStop(st) ==
  \A a \in Activities : st[a] = "STOPPED" =>
    \/ LostRace(st, a)
    \/ \E z \in Activities : <<a, z>> \in Alternatives /\ st[z] = "COMPLETED"

\* The tokens of a completed activity are where it sent them, under the present
\* conditions if nobody has changed any.
SentOn(st, tk, x, m) ==
  \A t \in Targets(x, NextOf(x, m)) : tk[t] > 0 \/ st[t] = "COMPLETED"

TokensGoOn(st, tk, mt) ==
  \A x \in Activities : st[x] = "COMPLETED" =>
    /\ \E m \in SUBSET Conditional : SentOn(st, tk, x, m)
    /\ (\A d \in Deciders : st[d] # "COMPLETED") => SentOn(st, tk, x, mt)

TokensMove(st, stk, tk, mt) ==
  /\ TokensCome(st, tk)
  /\ TokensExclude(st, stk, tk)
  /\ TokensEnter(st, stk, tk)
  /\ TokensGoOn(st, tk, mt)

TokensFit(st, stk, tk, mt) == TokensMove(st, stk, tk, mt) /\ LosersStop(st)

\* Nobody has ended the instance before its time.
NoneTerminated(done) == \A a \in Activities : Kind[a] = "terminate" => done[a] = 0

\* The instance has not been ended from outside, or by a terminate end event.
Unended(life, done) == life # "STOPPED" /\ NoneTerminated(done)

\* An instance that somebody has stopped is at rest for good.
Halted ==
  /\ held = {} /\ (~Idle => saved[1].held = {})
  /\ NoneTerminated(completions) /\ instance = "STOPPED" =>
       Idle /\ \A a \in Activities : status[a] # "RUNNING"
  /\ ~Idle /\ NoneTerminated(saved[1].completions) => saved[1].instance # "STOPPED"

\* Until the instance is ended the tokens can go on, and those that a failing call
\* would bring back can.
Counted ==
  /\ Unended(instance, completions) => TokensFit(status, stack, tokens, met)
  /\ ~Idle => LET d == saved[1] IN
       Unended(d.instance, d.completions) => TokensFit(d.status, <<>>, d.tokens, d.met)
=============================================================================
