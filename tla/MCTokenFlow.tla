----------------------------- MODULE MCTokenFlow -----------------------------
(* Instances of TokenFlow for TLC.  Each case is a process definition; the  *)
(* parameters of TokenFlow that the engine computes from a definition are   *)
(* computed here by FlowGraph.                                              *)
EXTENDS TokenFlow, TLC

CONSTANT Case

G == INSTANCE FlowGraph

CaseActivities == DOMAIN Case.kind
CaseGraph ==
  [flows      |-> Case.flows,
   starts     |-> SelectSeq(Case.order,
                            LAMBDA a : Case.kind[a] \in {"start", "end", "terminate"}),
   boundaries |-> <<>>]
CaseKind  == Case.kind
CaseOrder == Case.order
\* What the engine computes when it loads the definition.  TLC makes each table once,
\* and takes it as the value of the parameter.
OutTable   == [a \in CaseActivities |-> G!Successors(CaseGraph, a)]
InTable    == [a \in CaseActivities |-> G!Predecessors(CaseGraph, a)]
BlockTable == [a \in CaseActivities |-> G!BlockMembers(CaseGraph, a)]
LeadBack   == G!FeedbackFlows(CaseGraph)
DepthTable == LET depths == G!Depths(CaseGraph)
              IN  [a \in CaseActivities |-> G!DepthIn(depths, a)]
CaseOut      == LET table == OutTable IN table
CaseIn       == LET table == InTable IN table
CaseBlock    == LET table == BlockTable IN table
CaseFeedback == LET flows == LeadBack IN flows
CaseDepth    == LET table == DepthTable IN table
CaseConditional  == UNION Case.outcomes
CaseOtherwise    == Case.otherwise
CaseRank         == [f \in ToSet(Case.flows) |-> 0]
CaseOutcomes     == Case.outcomes
CaseLastOutcomes == Case.last
CaseDeciders     == Case.deciders

\* A request is reviewed by a person and a service, on two branches that join, and
\* beside them is rated by another person or, if it is small, noted by a service; the
\* alternatives merge and join with the rest.  Then the first of two answers wins,
\* and the other task is taken back.  By the winner's answer the request is filed, or
\* all work on it is terminated.  Beside all that two people work on branches that
\* merge at an activity, no gateway.
Review ==
  LET drop  == <<"choice", "stop">>
      small == <<"value", "note">>
  IN [kind  |-> "start" :> "start" @@ "split" :> "parallel" @@ "fork" :> "parallel"
             @@ "legal" :> "human" @@ "credit" :> "auto" @@ "meet" :> "parallel"
             @@ "value" :> "exclusive" @@ "rate" :> "human" @@ "note" :> "auto"
             @@ "sum" :> "auto" @@ "join" :> "parallel" @@ "a" :> "human"
             @@ "b" :> "human" @@ "first" :> "exclusive" @@ "choice" :> "exclusive"
             @@ "file" :> "auto" @@ "end" :> "end" @@ "stop" :> "terminate"
             @@ "p" :> "human" @@ "q" :> "human" @@ "r" :> "auto" @@ "rEnd" :> "end",
   order |-> <<"start", "split", "fork", "legal", "credit", "meet", "value",
               "rate", "note", "sum", "join", "a", "b", "first", "choice", "file",
               "end", "stop", "p", "q", "r", "rEnd">>,
   flows |-> <<<<"start", "split">>, <<"split", "fork">>, <<"fork", "legal">>,
               <<"fork", "credit">>, <<"legal", "meet">>, <<"credit", "meet">>,
               <<"meet", "join">>, <<"split", "value">>, <<"value", "rate">>, small,
               <<"rate", "sum">>, <<"note", "sum">>, <<"sum", "join">>,
               <<"join", "a">>, <<"join", "b">>, <<"a", "first">>, <<"b", "first">>,
               <<"first", "choice">>, drop, <<"choice", "file">>,
               <<"file", "end">>, <<"split", "p">>, <<"split", "q">>, <<"p", "r">>,
               <<"q", "r">>, <<"r", "rEnd">>>>,
   otherwise |-> {<<"choice", "file">>, <<"value", "rate">>},
   outcomes |-> {{}, {drop, small}}, last |-> {{}, {drop, small}},
   deciders |-> {"a", "b"}]

\* The review is one of the graphs that the theorems of OrderlyFlowProofs and
\* BalancedFlowProofs are about.
ReviewBefore ==
  ({"split"} \X {"fork", "legal", "credit", "meet", "value", "rate", "note", "sum", "p", "q"})
    \cup ({"fork"} \X {"legal", "credit"}) \cup ({"value"} \X {"rate", "note"})
    \cup ({"join"} \X {"a", "b"})
ReviewOwes ==
  ({"split", "fork", "legal", "meet"} \X {"meet"})
    \cup ({"split", "value", "rate", "note", "sum"} \X {"sum"})
    \cup ({"fork", "legal"} \X {"legal"}) \cup ({"fork", "credit"} \X {"credit"})
    \cup ({"split", "p"} \X {"p"}) \cup ({"split", "q"} \X {"q"})
ReviewSettled ==
  ({"fork", "legal", "credit"} \X {"meet"}) \cup ({"value", "rate", "note"} \X {"sum"})
    \cup ({"sum"} \X {"join", "a", "b"})

Flow == INSTANCE BalancedFlow WITH
  Alternatives <- {<<"rate", "note">>, <<"note", "rate">>},
  Before       <- ReviewBefore,
  Level        <- [a \in Activities |-> CHOOSE i \in DOMAIN Order : Order[i] = a],
  Owes         <- ReviewOwes,
  Settled      <- ReviewSettled

ASSUME ReviewIsBalanced ==
  Case = Review => Flow!Balanced /\ Flow!TerminatesAlone({"first", "choice", "stop"})

\* A file is checked by two people and then, depending on conditions, by some of
\* three others; an approver may send it back to the first.
Rounds ==
  LET back == <<"choice", "file">>
      pick == {<<"pick", "c">>, <<"pick", "d">>, back}
  IN [kind  |-> "start" :> "start" @@ "file" :> "human" @@ "split" :> "parallel"
             @@ "a" :> "human" @@ "b" :> "human" @@ "join" :> "parallel"
             @@ "pick" :> "inclusive" @@ "c" :> "human" @@ "d" :> "human"
             @@ "e" :> "human" @@ "merge" :> "inclusive" @@ "approve" :> "human"
             @@ "choice" :> "exclusive" @@ "end" :> "end",
   order |-> <<"start", "file", "split", "a", "b", "join", "pick", "c", "d", "e",
               "merge", "approve", "choice", "end">>,
   flows |-> <<<<"start", "file">>, <<"file", "split">>, <<"split", "a">>,
               <<"split", "b">>, <<"a", "join">>, <<"b", "join">>,
               <<"join", "pick">>, <<"pick", "c">>, <<"pick", "d">>,
               <<"pick", "e">>, <<"c", "merge">>, <<"d", "merge">>,
               <<"e", "merge">>, <<"merge", "approve">>,
               <<"approve", "choice">>, back, <<"choice", "end">>>>,
   otherwise |-> {<<"pick", "e">>, <<"choice", "end">>}, outcomes |-> SUBSET pick,
   last |-> SUBSET (pick \ {back}), deciders |-> {"file", "approve"}]

\* The two people examine the claim behind an automatic check, in a loop.
CheckedRework ==
  LET back == <<"choice", "file">>
  IN [kind  |-> "start" :> "start" @@ "file" :> "auto" @@ "split" :> "parallel"
             @@ "check" :> "auto" @@ "b" :> "human" @@ "join" :> "parallel"
             @@ "approve" :> "human" @@ "choice" :> "exclusive" @@ "end" :> "end",
   order |-> <<"start", "file", "split", "check", "b", "join", "approve", "choice", "end">>,
   flows |-> <<<<"start", "file">>, <<"file", "split">>, <<"split", "check">>,
               <<"split", "b">>, <<"check", "join">>, <<"b", "join">>,
               <<"join", "approve">>,
               <<"approve", "choice">>, back, <<"choice", "end">>>>,
   otherwise |-> {<<"choice", "end">>}, outcomes |-> {{}, {back}}, last |-> {{}},
   deciders |-> {"approve"}]
=============================================================================
