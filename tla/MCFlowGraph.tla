----------------------------- MODULE MCFlowGraph -----------------------------
(* Sheets for TLC: what a modeller may draw.                                *)
EXTENDS FlowDrawing

\* Cycles of up to three tasks and through an event on one of them.
Loops ==
  [drawable |-> {<<"start", "a">>, <<"start", "b">>, <<"start", "c">>,
                 <<"a", "b">>, <<"b", "a">>, <<"a", "c">>, <<"c", "a">>,
                 <<"b", "c">>, <<"c", "b">>, <<"timer", "c">>, <<"a", "a">>},
   boundaries |-> <<<<"timer", "a">>>>, most |-> 7]

\* Blocks behind the start event, up to three activities wide or deep.
FlatBlocks ==
  [drawable |-> {<<"start", "a">>, <<"start", "b">>, <<"start", "c">>,
                 <<"start", "join">>, <<"a", "b">>, <<"a", "c">>, <<"b", "c">>,
                 <<"a", "join">>, <<"b", "join">>, <<"c", "join">>},
   boundaries |-> <<>>, most |-> 8]

\* Blocks behind a split, with branches that merge inside the block.
MergingBlocks ==
  [drawable |-> {<<"start", "split">>, <<"split", "a">>, <<"split", "b">>,
                 <<"split", "c">>, <<"a", "p">>, <<"b", "p">>, <<"b", "q">>,
                 <<"c", "q">>, <<"a", "join">>, <<"p", "join">>, <<"q", "join">>},
   boundaries |-> <<>>, most |-> 11]

AllSheets == {Loops, FlatBlocks, MergingBlocks}
Blocks    == {FlatBlocks}
=============================================================================
