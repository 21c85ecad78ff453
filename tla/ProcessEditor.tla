---------------------------- MODULE ProcessEditor ----------------------------
(***************************************************************************)
(* The process editor of the back office: the process definition that a    *)
(* modeller draws, and its undo history.                                   *)
(*                                                                         *)
(* The drawing component (BpmnVue) keeps the definition, the designer      *)
(* around it (ProcessDesigner) edits the same object on Ctrl-C, Ctrl-V and *)
(* Delete.  A watcher of the definition runs once after each gesture.  It  *)
(* records the definition in the history only when the handler asked for   *)
(* it (enableHistoryAdd) or the property panel is open, and not when it    *)
(* believes that undo or redo caused the change.  Undo and redo make the   *)
(* recorded object itself the live definition, not a copy of it: what      *)
(* follows is an edit of the record.                                       *)
(*                                                                         *)
(* A step is a gesture: its handler and the run of the watcher after it.   *)
(* Roles, message flows and what lies within subprocesses are left out, as *)
(* are places and styles.                                                  *)
(***************************************************************************)
EXTENDS Naturals, SequencesExt

CONSTANTS
  Names,         \* tags that a modeller may type which are no numbers
  MaxTag,        \* bound: the largest number given as a tag
  MaxActivities, \* bound: entries of the list of activities
  MaxFlows,      \* bound: entries of the list of flows
  MaxGestures,   \* bound: gestures in one behaviour
  Gestures,      \* the gestures the modeller uses
  Null,          \* the hole that a removal leaves in a list
  NoTag,         \* an undefined tag
  Loaded         \* the definition that was loaded

Numbers == 1..MaxTag
Tags    == Numbers \cup Names

\* An activity is drawn under its tracingTag, but removed by the id of its
\* elementView; the two part when it is renamed.
Activity   == [tracingTag : Tags, id : Tags]
Flow       == [sourceRef : Tags \cup {NoTag}, targetRef : Tags \cup {NoTag}]
Definition == [activities : Seq(Activity \cup {Null}), flows : Seq(Flow \cup {Null})]

ASSUME NamesAssumption ==
  /\ MaxTag \in Nat /\ MaxGestures \in Nat
  /\ Names \cap Numbers = {} /\ NoTag \notin Tags
  /\ Null \notin Activity \cup Flow
ASSUME LoadedAssumption == Loaded \in Definition

VARIABLES
  definition,    \* the live definition
  history,       \* the recorded definitions
  historyIndex,  \* of the entry that was last recorded or gone back to, from 0
  undoing,       \* the next recording is taken for the effect of undo or redo
  undoed,        \* undo or redo was used since the last recording
  panel,         \* the activity whose property panel is open, by place; 0 if none
  clipboard,     \* how many activities were copied, and the tags they had
  gestures       \* counts gestures, for MaxGestures

vars == <<definition, history, historyIndex, undoing, undoed, panel, clipboard, gestures>>

-----------------------------------------------------------------------------
(* Definitions.                                                            *)

Places(d)       == {p \in DOMAIN d.activities : d.activities[p] # Null}
FlowPlaces(d)   == {p \in DOMAIN d.flows : d.flows[p] # Null}
TagsOf(d)       == {d.activities[p].tracingTag : p \in Places(d)}
Dangles(d, f)   == ~({f.sourceRef, f.targetRef} \subseteq TagsOf(d))
IsConnected(d)  == \A p \in FlowPlaces(d) : ~Dangles(d, d.flows[p])

HistoryTags == UNION {TagsOf(history[i]) : i \in DOMAIN history}

\* The next number is one more than the greatest in use (createNewTracingTag).
IsGreatest(k, used) == /\ k = 0 \/ k \in used
                       /\ \A t \in used \cap Numbers : t <= k

WithActivity(d, tag) ==
  [d EXCEPT !.activities = Append(@, [tracingTag |-> tag, id |-> tag])]
WithFlow(d, from, to) ==
  [d EXCEPT !.flows = Append(@, [sourceRef |-> from, targetRef |-> to])]

\* Removing leaves holes: undefined or null, which the copies of the history keep.
WithHoles(list, places) == [p \in DOMAIN list |-> IF p \in places THEN Null ELSE list[p]]

\* removeComponentByOpenGraphComponentId, for an activity and for flows.
WithoutActivity(d, id) ==
  [d EXCEPT !.activities = WithHoles(@, {p \in Places(d) : d.activities[p].id = id})]
WithoutFlows(d, places) == [d EXCEPT !.flows = WithHoles(@, places)]

-----------------------------------------------------------------------------
(* The watcher, and how a gesture ends.                                    *)

\* A wrong Entries: undo and redo copy the entry.
EntriesOfCopy(d) == history

\* An edit of the live definition is an edit of the entry it is.
Entries(d) == IF undoed THEN [history EXCEPT ![historyIndex + 1] = d] ELSE history

\* A wrong Kept: the entries that were undone stay.
KeptAll == history

\* What stays of the history when an edit is recorded.
Kept == IF undoed THEN SubSeq(history, 1, historyIndex) ELSE history

Unrecorded(d) ==
  /\ history' = Entries(d)
  /\ UNCHANGED <<historyIndex, undoing, undoed>>

Recorded(d) ==
  \/ /\ undoing
     /\ undoing' = FALSE
     /\ history' = Entries(d)
     /\ UNCHANGED <<historyIndex, undoed>>
  \/ /\ ~undoing
     /\ history' = Append(Kept, d)
     /\ historyIndex' = Len(Kept)
     /\ undoed' = FALSE
     /\ UNCHANGED undoing

\* The definition becomes d; asked when the handler set enableHistoryAdd.
Becomes(d, asked) ==
  /\ Len(d.activities) <= MaxActivities /\ Len(d.flows) <= MaxFlows
  /\ definition' = d
  /\ IF asked \/ panel # 0 THEN Recorded(d) ELSE Unrecorded(d)

Gesture(name) == /\ name \in Gestures
                 /\ gestures < MaxGestures
                 /\ gestures' = gestures + 1

\* A gesture on the canvas: the open panel covers it.
OnCanvas(name) == Gesture(name) /\ panel = 0 /\ UNCHANGED <<panel, clipboard>>

-----------------------------------------------------------------------------
(* Gestures on the canvas.                                                 *)

\* An activity is dragged from the palette; its tag is new to the history.
Drop == /\ OnCanvas("drop")
        /\ \E k \in 0..MaxTag - 1 : /\ IsGreatest(k, HistoryTags)
                                    /\ Becomes(WithActivity(definition, k + 1), TRUE)

\* The controller beside an activity draws a new one with a flow to it.
Extend == /\ OnCanvas("extend")
          /\ \E from \in TagsOf(definition), k \in 0..MaxTag - 1 :
               /\ IsGreatest(k, HistoryTags)
               /\ Becomes(WithFlow(WithActivity(definition, k + 1), from, k + 1), TRUE)

\* A new flow is drawn.
Connect == /\ OnCanvas("connect")
           /\ \E from, to \in TagsOf(definition) :
                /\ from # to
                /\ Becomes(WithFlow(definition, from, to), TRUE)

\* The places of the flows that share the id of the one at p: its two ends.
SameId(p) == {q \in FlowPlaces(definition) : definition.flows[q] = definition.flows[p]}

\* An end of a flow is dragged to another activity.
Reconnect ==
  /\ OnCanvas("reconnect")
  /\ \E p \in FlowPlaces(definition), from, to \in TagsOf(definition) :
       /\ from # to
       /\ (from = definition.flows[p].sourceRef) # (to = definition.flows[p].targetRef)
       /\ Becomes(WithFlow(WithoutFlows(definition, SameId(p)), from, to), TRUE)

FlowsAt(tag) ==
  {q \in FlowPlaces(definition) :
     tag \in {definition.flows[q].sourceRef, definition.flows[q].targetRef}}

\* A wrong TrashActivity: the flows stay.
TrashActivityAlone ==
  /\ OnCanvas("trash")
  /\ \E tag \in TagsOf(definition) : Becomes(WithoutActivity(definition, tag), TRUE)

\* An activity is thrown away: the canvas removes the flows at it first.
TrashActivity ==
  /\ OnCanvas("trash")
  /\ \E tag \in TagsOf(definition) :
       Becomes(WithoutActivity(WithoutFlows(definition, FlowsAt(tag)), tag), TRUE)

TrashFlow ==
  /\ OnCanvas("trash")
  /\ \E p \in FlowPlaces(definition) :
       Becomes(WithoutFlows(definition, SameId(p)), TRUE)

\* The type of an activity is changed: a new one takes its tag.
Change == /\ OnCanvas("change")
          /\ \E tag \in TagsOf(definition) :
               Becomes(WithActivity(WithoutActivity(definition, tag), tag), TRUE)

\* A shape is moved or resized, or its label edited.
Touch == OnCanvas("touch") /\ Becomes(definition, TRUE)

\* A wrong GoTo: it does not note that the end of the history was left.
GoToUnnoted(index) ==
  /\ historyIndex' = index
  /\ undoing' = TRUE
  /\ definition' = history[index + 1]
  /\ UNCHANGED <<history, undoed>>

GoTo(index) ==
  /\ historyIndex' = index
  /\ undoing' = TRUE /\ undoed' = TRUE
  /\ definition' = history[index + 1]
  /\ UNCHANGED history

\* The watcher runs after undo, too, but nobody asked it to record: it returns
\* before it looks at undoing.
Undo == OnCanvas("undo") /\ historyIndex > 0 /\ GoTo(historyIndex - 1)
Redo == OnCanvas("redo") /\ historyIndex < Len(history) - 1 /\ GoTo(historyIndex + 1)

-----------------------------------------------------------------------------
(* The property panel.                                                     *)

OpenPanel ==
  /\ Gesture("panel") /\ panel = 0
  /\ panel' \in Places(definition)
  /\ UNCHANGED <<definition, history, historyIndex, undoing, undoed, clipboard>>

ClosePanel ==
  /\ Gesture("panel") /\ panel # 0
  /\ panel' = 0
  /\ UNCHANGED <<definition, history, historyIndex, undoing, undoed, clipboard>>

\* A flow with the renamed end or ends.
Renamed(f, old, new) ==
  [sourceRef |-> IF f.sourceRef = old THEN new ELSE f.sourceRef,
   targetRef |-> IF f.targetRef = old THEN new ELSE f.targetRef]

\* The loop over the flows fails at the first hole.
Reached(list) == {p \in DOMAIN list : \A q \in 1..p : list[q] # Null}

\* The tag is typed over in the panel.
Rename ==
  /\ Gesture("rename") /\ panel # 0 /\ UNCHANGED <<panel, clipboard>>
  /\ \E new \in Tags \ TagsOf(definition) :
       LET old == definition.activities[panel].tracingTag
       IN Becomes([activities |-> [definition.activities EXCEPT ![panel].tracingTag = new],
                   flows |-> [p \in DOMAIN definition.flows |->
                      IF p \in Reached(definition.flows)
                      THEN Renamed(definition.flows[p], old, new)
                      ELSE definition.flows[p]]], FALSE)

-----------------------------------------------------------------------------
(* The keyboard.                                                           *)

\* The members of a set of places in their order.
Listings(places) ==
  {s \in [1..Cardinality(places) -> places] : \A i, j \in DOMAIN s : i < j => s[i] < s[j]}

\* Ctrl-C copies the selected activities.  With none selected there is nothing to
\* paste, but the tags of the last copy are kept.
Copy ==
  /\ Gesture("copy")
  /\ \E selected \in SUBSET Places(definition) : \E s \in Listings(selected) :
       clipboard' = [count |-> Len(s),
                     tags  |-> IF selected = {} THEN clipboard.tags
                               ELSE [i \in DOMAIN s |-> definition.activities[s[i]].tracingTag]]
  /\ UNCHANGED <<definition, history, historyIndex, undoing, undoed, panel>>

\* Where each copied tag comes first.
Firsts(tags) == {at \in [ToSet(tags) -> DOMAIN tags] :
                   \A n \in DOMAIN tags : at[tags[n]] <= n /\ tags[at[tags[n]]] = tags[n]}

\* The tag that stands for a copied one, the nth, in what is pasted.
Pasted(n, k) == IF n <= clipboard.count THEN k + n ELSE NoTag

\* Ctrl-V adds the copies and the flows between them.  Their tags are new to the
\* history and to the live definition, but nobody asks for a recording.
Paste ==
  /\ OnCanvas("paste")
  /\ \E k \in 0..MaxTag - clipboard.count :
       LET copied == ToSet(clipboard.tags)
           inner  == {p \in FlowPlaces(definition) :
                        /\ definition.flows[p].sourceRef \in copied
                        /\ definition.flows[p].targetRef \in copied}
       IN /\ IsGreatest(k, HistoryTags \cup TagsOf(definition))
          /\ \E s \in Listings(inner), at \in Firsts(clipboard.tags) : Becomes(
               [activities |-> definition.activities \o
                  [i \in 1..clipboard.count |-> [tracingTag |-> k + i, id |-> k + i]],
                flows |-> definition.flows \o
                  [i \in DOMAIN s |->
                     [sourceRef |-> Pasted(at[definition.flows[s[i]].sourceRef], k),
                      targetRef |-> Pasted(at[definition.flows[s[i]].targetRef], k)]]], FALSE)

\* Delete removes the selected activities and flows, and no flow that leaves or
\* enters the selection.  Having removed the first flow within it the loop fails:
\* later flows stay, and so do the selected ones.
DeleteSelected ==
  /\ \E selected \in SUBSET Places(definition), flows \in SUBSET FlowPlaces(definition) :
       LET gone  == {definition.activities[p].tracingTag : p \in selected}
           inner == {p \in FlowPlaces(definition) :
                       /\ definition.flows[p].sourceRef \in gone
                       /\ definition.flows[p].targetRef \in gone}
           first == {p \in inner : \A q \in inner : p <= q}
       IN Becomes(WithoutFlows([definition EXCEPT !.activities = WithHoles(@, selected)],
                               IF inner = {} THEN flows ELSE first), FALSE)

\* A wrong Delete: it does not look for an open panel.
DeleteUnchecked == Gesture("delete") /\ UNCHANGED <<panel, clipboard>> /\ DeleteSelected

Delete == Gesture("delete") /\ panel = 0 /\ UNCHANGED <<panel, clipboard>> /\ DeleteSelected

\* With the panel open the activities are spared, and the panel has the rest recorded.
DeleteFlows ==
  /\ Gesture("delete") /\ panel # 0 /\ UNCHANGED <<panel, clipboard>>
  /\ \E flows \in SUBSET FlowPlaces(definition) :
       Becomes(WithoutFlows(definition, flows), FALSE)

-----------------------------------------------------------------------------
Init ==
  /\ definition = Loaded
  /\ history = <<Loaded>> /\ historyIndex = 0
  /\ undoing = FALSE /\ undoed = FALSE
  /\ panel = 0
  /\ clipboard = [count |-> 0, tags |-> <<>>]
  /\ gestures = 0

Next ==
  \/ Drop \/ Extend \/ Connect \/ Reconnect \/ TrashActivity \/ TrashFlow
  \/ Change \/ Touch \/ Undo \/ Redo
  \/ OpenPanel \/ ClosePanel \/ Rename
  \/ Copy \/ Paste \/ Delete \/ DeleteFlows

Spec == Init /\ [][Next]_vars

-----------------------------------------------------------------------------
(* Properties.                                                             *)

\* What the variables hold.  The index is that of an entry, and an open panel shows an
\* activity that is there.
TypeOK ==
  /\ definition \in Definition
  /\ history \in Seq(Definition) /\ historyIndex \in 0..Len(history) - 1
  /\ undoing \in BOOLEAN /\ undoed \in BOOLEAN
  /\ panel \in {0} \cup Places(definition)
  /\ clipboard \in [count : Nat, tags : Seq(Tags)]
  /\ gestures \in 0..MaxGestures

\* Only undo makes a redo possible: whatever is recorded is the end of the history
\* and is where the editor stands.
RedoNeedsUndo == ~undoed => historyIndex = Len(history) - 1

\* After an edit undo leads back to what it led back to before the edit, and to no
\* definition that had been undone: the editor stands at most one entry further, and
\* the entries before the one it stood at are as they were.
UndoChainKept ==
  [][/\ historyIndex' <= historyIndex + 1
     /\ \A i \in 1..historyIndex : i \in DOMAIN history' /\ history'[i] = history[i]]_vars

\* createNewTracingTag relies on the history to know every tag in use.  Only Paste
\* puts a tag into the live definition that no entry of the history has: each other
\* gesture is recorded, or edits an entry.
KnowsTags == TagsOf(definition) \subseteq HistoryTags
OnlyPasteHidesTags == [][KnowsTags /\ ~KnowsTags' => Paste]_vars

\* Only the keys and renaming leave a flow that leads nowhere.  The gestures on the
\* canvas, undo and redo never do, unless an activity was renamed: the tag it had may
\* then be another's, and that one is thrown away in place of it.
AllConnected == IsConnected(definition) /\ \A i \in DOMAIN history : IsConnected(history[i])
IdsAgree == \A p \in Places(definition) :
              definition.activities[p].id = definition.activities[p].tracingTag
CanvasKeepsFlows ==
  [][AllConnected /\ IdsAgree /\ ~AllConnected' => Rename \/ Paste \/ Delete]_vars
=============================================================================
