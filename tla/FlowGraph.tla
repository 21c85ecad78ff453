------------------------------ MODULE FlowGraph ------------------------------
(***************************************************************************)
(* The static analysis the engine makes of a process graph.  Nothing here  *)
(* has a state: FlowActivity computes a depth per activity when a          *)
(* definition is loaded, ProcessDefinition.afterDeserialization marks the  *)
(* "feedback" sequence flows from these depths, and BlockFinder works out, *)
(* for a join, which activities may still send it a token.                 *)
(*                                                                         *)
(* A graph is a record: `flows' is the sequence of <<source, target>>      *)
(* pairs in the order of the definition's sequenceFlows list, `starts' the *)
(* sequence of its start events (EndEvent is a subclass of StartEvent, so  *)
(* end events are among them) in the order of its children, `boundaries'   *)
(* the sequence of <<event, host>> pairs of the events attached to an      *)
(* activity.  The order matters: the walks are depth first, and what they  *)
(* remember of an activity is the first, or the last, path that met it.    *)
(***************************************************************************)
EXTENDS Integers, Sequences, SequencesExt, FiniteSets

Source(flow) == flow[1]
Target(flow) == flow[2]

\* The activities that occur in a graph.
NodesOf(g) == {Source(g.flows[i]) : i \in DOMAIN g.flows}
              \cup {Target(g.flows[i]) : i \in DOMAIN g.flows}
              \cup {g.boundaries[i][1] : i \in DOMAIN g.boundaries}
              \cup ToSet(g.starts)

\* The elements of `s' that are in `S', in their order.  (SelectSeq, as a recursive
\* function that the provers can unfold.)
Only(s, S) ==
  LET only[n \in 0..Len(s)] ==
        IF n = 0 THEN <<>>
        ELSE IF s[n] \in S THEN Append(only[n - 1], s[n]) ELSE only[n - 1]
  IN  only[Len(s)]

\* The ends number `there' of those pairs whose end number `here' is `a', in order.
Ends(pairs, here, a, there) ==
  LET matching == Only(pairs, {p \in ToSet(pairs) : p[here] = a})
  IN  [i \in DOMAIN matching |-> matching[i][there]]

\* Targets and sources of an activity, in the order the flows were added.
Successors(g, a)   == Ends(g.flows, 1, a, 2)
Predecessors(g, a) == Ends(g.flows, 2, a, 1)

\* The events attached to an activity.
Attached(g, a) == Ends(g.boundaries, 2, a, 1)

-----------------------------------------------------------------------------
(* Walks that visit no activity twice.  They deal in pairs of an activity  *)
(* and how far it is.                                                      *)

\* The activities of some pairs.
Met(pairs) == {v[1] : v \in pairs}

\* The activities of a sequence, each `distance' away.
Away(activities, distance) ==
  [i \in DOMAIN activities |-> <<activities[i], distance>>]

\* The next pair to do is visited, if there is one, and what `steps' leads to from
\* there comes before the rest.
Visit(steps, walk) ==
  LET v    == Head(walk.todo)
      line == Append(walk.line, v)
      next == [i \in DOMAIN steps[v[1]] |->
                 <<steps[v[1]][i][1], v[2] + steps[v[1]][i][2]>>]
      rest == next \o Tail(walk.todo)
  IN  IF walk.todo = <<>> THEN walk
      ELSE [line |-> line,
            todo |-> Only(rest, {w \in ToSet(rest) : w[1] \notin Met(ToSet(line))})]

\* A depth-first walk from `a': the activities in the order they are visited, each
\* with the length of the path by which it is met first.
Walk(steps, a) ==
  LET walk[n \in 0..Cardinality(DOMAIN steps)] ==
        IF n = 0 THEN [line |-> <<>>, todo |-> <<<<a, 0>>>>]
        ELSE Visit(steps, walk[n - 1])
  IN  walk[Cardinality(DOMAIN steps)].line

-----------------------------------------------------------------------------
(* Depth from a start event.                                               *)

\* calculateDistanceRecursive: an event attached to an activity counts as two steps
\* behind it.  What was visited is not visited again, so the branch of the code that
\* would replace a smaller depth is never taken.
Steps(g) ==
  [a \in NodesOf(g) |-> Away(Successors(g, a), 1) \o Away(Attached(g, a), 2)]

\* setStartEvent: each activity with its depth; the first of g.starts that reaches an
\* activity decides, and what none of them reaches has no depth.  An end event is one
\* of them: it reaches only itself, and if it is listed before the start event it has
\* depth 0, so that flows into it count as feedback.
Depths(g) ==
  LET depths == [i \in DOMAIN g.starts |-> ToSet(Walk(Steps(g), g.starts[i]))]
  IN  UNION {{v \in depths[i] : \A j \in 1..(i - 1) : v[1] \notin Met(depths[j])} :
               i \in DOMAIN depths}

\* getDepthFromStartEvent.
DepthIn(depths, a) ==
  IF a \in Met(depths) THEN (CHOOSE v \in depths : v[1] = a)[2] ELSE -1

\* A wrong LeadsBack: a flow that returns by one step only is missed.
LeadsBackFurther(depths, flow) ==
  /\ DepthIn(depths, Target(flow)) >= 0
  /\ DepthIn(depths, Target(flow)) + 1 < DepthIn(depths, Source(flow))

\* setFeedbackByDepthFromStart: a flow is feedback when its target is nearer
\* to the start than its source.
LeadsBack(depths, flow) ==
  /\ DepthIn(depths, Target(flow)) >= 0
  /\ DepthIn(depths, Target(flow)) < DepthIn(depths, Source(flow))

FeedbackFlows(g) ==
  LET depths == Depths(g)
  IN  {f \in ToSet(g.flows) : LeadsBack(depths, f)}

\* The graph that BlockFinder and the visitor of gatherPropagatedActivities see.
WithoutFeedback(g) ==
  LET feedback == FeedbackFlows(g)
  IN  [g EXCEPT !.flows = Only(g.flows, ToSet(g.flows) \ feedback)]

-----------------------------------------------------------------------------
(* BlockFinder.  `f' is a graph without feedback flows.                    *)

\* A path back from `join' is the sequence of the positions of its flows; it meets
\* no activity twice.
End(f, join, path) ==
  IF path = <<>> THEN join ELSE Source(f.flows[Last(path)])

Longer(f, join, path) ==
  {Append(path, i) : i \in
     {k \in DOMAIN f.flows :
        /\ Target(f.flows[k]) = End(f, join, path)
        /\ Source(f.flows[k]) # join
        /\ \A j \in ToSet(path) : Source(f.flows[k]) # Source(f.flows[j])}}

PathsBack(f, join) ==
  LET paths[n \in 0..Len(f.flows)] ==
        IF n = 0 THEN {<<>>} ELSE UNION {Longer(f, join, p) : p \in paths[n - 1]}
  IN  UNION {paths[n] : n \in 1..Len(f.flows)}

\* The walk comes to `p' later than to `q'.
Later(p, q) ==
  \E k \in DOMAIN p \cap DOMAIN q : p[k] > q[k] /\ \A j \in 1..(k - 1) : p[j] = q[j]

\* visitForDepthAndVisitCountSetting: walks all paths backwards from the join.  The
\* distance of an activity is overwritten by each path that meets it, so the last
\* path decides; `visits' counts the paths.
BackWalk(f, join) ==
  LET paths == PathsBack(f, join)
      to(a) == {p \in paths : End(f, join, p) = a}
  IN  {[activity |-> a,
        distance |-> Len(CHOOSE p \in to(a) : \A q \in to(a) : ~Later(q, p)),
        visits   |-> Cardinality(to(a))] : a \in {End(f, join, p) : p \in paths}}

\* visitToLineUp: the activities behind the join, each once, in the order a
\* backward walk that visits no activity twice meets them.
LineUp(f, join) ==
  LET walk == Walk([a \in NodesOf(f) |-> Away(Predecessors(f, a), 1)], join)
  IN  Tail([i \in DOMAIN walk |-> walk[i][1]])

\* A wrong Level: the distances are counted from two.
LevelBeyond(line, seen, i) ==
  Only(line, {x.activity : x \in {y \in seen : y.distance = i + 1}})

\* activitiesByDistanceMap: the activities at a distance.
Level(line, seen, i) ==
  Only(line, {x.activity : x \in {y \in seen : y.distance = i}})

\* findBlockMembers: adds the activities at the next distance and stops behind the
\* first distance with one activity that as many paths cross as the join has
\* branches, or where there is none.  A level of several activities adds their merges
\* to the branches (and a start event, with no flow entering, takes one off); feedback
\* flows count among both.
AddLevel(g, seen, level, block) ==
  LET entering == {k \in DOMAIN g.flows : Target(g.flows[k]) \in ToSet(level)}
      single   == Len(level) = 1
  IN  IF ~block.open THEN block
      ELSE [members |-> block.members \o level,
            branch  |-> IF single THEN block.branch
                        ELSE block.branch + Cardinality(entering) - Len(level),
            open    |-> /\ level # <<>>
                        /\ single => \A x \in seen :
                             x.activity = Head(level) => x.visits # block.branch]

\* getBlockMembers: the block of a join, nearest activities first.
BlockMembers(g, join) ==
  LET f    == WithoutFeedback(g)
      seen == BackWalk(f, join)
      line == LineUp(f, join)
      block[i \in 0..Cardinality(NodesOf(g))] ==
        IF i = 0
        THEN [members |-> <<>>, branch |-> Len(Predecessors(g, join)), open |-> TRUE]
        ELSE AddLevel(g, seen, Level(line, seen, i), block[i - 1])
  IN  block[Cardinality(NodesOf(g))].members

-----------------------------------------------------------------------------
(* Reference definitions, against which the algorithms are checked.        *)

\* The activities from which a path of no flow leads to `a', of one flow, of two and
\* so on.
Layers(g, a) ==
  LET layers[n \in 0..Cardinality(NodesOf(g))] ==
        IF n = 0 THEN <<{a}>>
        ELSE LET nearer == layers[n - 1]
             IN  Append(nearer, UNION {ToSet(Predecessors(g, b)) : b \in Last(nearer)})
  IN  layers[Cardinality(NodesOf(g))]

\* Activities that can send a token to `a'.
Behind(g, a) == UNION ToSet(Tail(Layers(g, a)))

\* All paths from an activity behind `join' to it have one length.
Balanced(g, join) ==
  LET layers == Layers(g, join)
  IN  \A m, n \in DOMAIN layers : m # n => layers[m] \cap layers[n] = {}
=============================================================================
