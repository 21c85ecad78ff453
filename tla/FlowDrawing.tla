----------------------------- MODULE FlowDrawing -----------------------------
(***************************************************************************)
(* A modeller draws a process graph flow by flow, so that every ordered    *)
(* list of flows is a state, and the static analysis of FlowGraph is asked *)
(* of each.  The order counts: it is the order in which sequence flows     *)
(* were added to the definition.                                           *)
(***************************************************************************)
EXTENDS FlowGraph

CONSTANTS
  Sheets,  \* what the modeller may draw, and how much
  Start,   \* the start event
  Join     \* the activity whose block is asked for

ASSUME SheetAssumption ==
  \A s \in Sheets : s.boundaries \in Seq(ToSet(s.boundaries))

VARIABLES
  sheet,   \* the sheet the modeller draws on
  flows    \* the flows drawn so far, in order

Graph == [flows |-> flows, starts |-> <<Start>>, boundaries |-> sheet.boundaries]

Nodes == NodesOf(Graph)

Init == sheet \in Sheets /\ flows = <<>>

\* A flow leaves the start event or an activity that is already connected.
Draw(flow) ==
  /\ Len(flows) < sheet.most
  /\ flow \in sheet.drawable \ ToSet(flows)
  /\ Source(flow) \in Nodes
  /\ flows' = Append(flows, flow)
  /\ UNCHANGED sheet

Next == \E flow \in sheet.drawable : Draw(flow)

Spec == Init /\ [][Next]_<<sheet, flows>>

-----------------------------------------------------------------------------
\* Every cycle that a start event leads to, also through an attached event, has a flow
\* that setFeedbackByDepthFromStart marks as feedback, unless it is one flow from an
\* activity to itself: from any set of such activities one is left, or only stayed at,
\* by all its forward flows.  So the visitor of gatherPropagatedActivities never comes
\* back to where going back began, and BlockFinder meets no activity that it already
\* has on its path.
ForwardAcyclic ==
  LET forward == ToSet(WithoutFeedback(Graph).flows)
  IN  \A S \in (SUBSET Met(Depths(Graph))) \ {{}} :
        \E a \in S : \A b \in S \ {a} : <<a, b>> \notin forward

\* A feedback flow really leads back: its source can be reached again from its
\* target (FlowActivity.java:340, "by this line the flow can return to a previous
\* task").
FeedbackReturns ==
  \A f \in FeedbackFlows(Graph) : Target(f) \in Behind(Graph, Source(f))

\* Where paths of one length join, the block of the join is closed: its last
\* member is the split, and whatever may still send a token to the join is a
\* member or lies behind the split, so the join misses no running branch.  (What
\* comes from an attached event is not waited for: its flow is a feedback flow.)
BlockIsClosed ==
  (Join \in Nodes /\ sheet.boundaries = <<>> /\ Balanced(Graph, Join)) =>
     LET block == BlockMembers(Graph, Join)
     IN  block # <<>> =>
           Behind(Graph, Join) = ToSet(block) \cup Behind(Graph, Last(block))
=============================================================================
