------------------------- MODULE ProcessEditorProofs -------------------------
(***************************************************************************)
(* What holds of the process editor for every definition that is loaded,   *)
(* every bound and any number of gestures.                                 *)
(***************************************************************************)
EXTENDS ProcessEditor, FiniteSetTheorems, SequenceTheorems, TLAPS

\* After undo or redo the live definition is the entry of the history, until the next
\* recording; and only then is a recording left out.
LiveIsEntry == /\ undoed => definition = history[historyIndex + 1]
               /\ undoing => undoed

IInv == TypeOK /\ RedoNeedsUndo /\ LiveIsEntry

-----------------------------------------------------------------------------
(* Lists and definitions.                                                  *)

\* A hole can be anywhere in a list.
LEMMA HolesType ==
  ASSUME NEW T, NEW list \in Seq(T \cup {Null}), NEW places
  PROVE  WithHoles(list, places) \in Seq(T \cup {Null})
<1>1. list \in [1..Len(list) -> T \cup {Null}] /\ Len(list) \in Nat
  OBVIOUS
<1>2. DOMAIN list = 1..Len(list)
  OBVIOUS
<1>3. \A p \in 1..Len(list) : WithHoles(list, places)[p] \in T \cup {Null}
  BY <1>1, <1>2 DEF WithHoles
<1>4. WithHoles(list, places) \in [1..Len(list) -> T \cup {Null}]
  BY <1>2, <1>3 DEF WithHoles
<1> QED BY <1>1, <1>4

\* The parts of a definition.
LEMMA Parts ==
  ASSUME NEW d \in Definition
  PROVE  /\ d.activities \in Seq(Activity \cup {Null})
         /\ d.flows \in Seq(Flow \cup {Null})
         /\ \A p \in Places(d) : d.activities[p] \in Activity
         /\ \A p \in FlowPlaces(d) : d.flows[p] \in Flow
         /\ TagsOf(d) \subseteq Tags
<1>1. d.activities \in Seq(Activity \cup {Null}) /\ d.flows \in Seq(Flow \cup {Null})
  BY DEF Definition
<1>2. \A p \in Places(d) : d.activities[p] \in Activity
  BY <1>1 DEF Places
<1>3. \A p \in FlowPlaces(d) : d.flows[p] \in Flow
  BY <1>1 DEF FlowPlaces
<1>4. TagsOf(d) \subseteq Tags
  BY <1>2 DEF TagsOf, Activity
<1> QED BY <1>1, <1>2, <1>3, <1>4

\* Adding an activity adds its tag and leaves the flows.
LEMMA AddActivity ==
  ASSUME NEW d \in Definition, NEW tag \in Tags
  PROVE  /\ WithActivity(d, tag) \in Definition
         /\ TagsOf(WithActivity(d, tag)) = TagsOf(d) \cup {tag}
         /\ WithActivity(d, tag).flows = d.flows
<1> DEFINE a == [tracingTag |-> tag, id |-> tag]
           e == WithActivity(d, tag)
           n == Len(d.activities)
<1>1. a \in Activity /\ a # Null
  BY NamesAssumption DEF Activity
<1>2. d.activities \in Seq(Activity \cup {Null}) /\ d.flows \in Seq(Flow \cup {Null})
  BY Parts
<1>3. e.activities = Append(d.activities, a) /\ e.flows = d.flows /\ e \in Definition
  BY <1>1, <1>2 DEF WithActivity, Definition
<1>4. /\ DOMAIN e.activities = 1..n + 1 /\ DOMAIN d.activities = 1..n /\ n \in Nat
      /\ \A p \in 1..n : e.activities[p] = d.activities[p]
      /\ e.activities[n + 1] = a
  BY <1>1, <1>2, <1>3
<1> HIDE DEF e, n
<1>5. Places(e) = Places(d) \cup {n + 1}
  BY <1>1, <1>4 DEF Places
<1>6. n + 1 \notin Places(d) /\ Places(d) \subseteq 1..n
  BY <1>4 DEF Places
<1>7. TagsOf(e) = TagsOf(d) \cup {tag}
  BY <1>4, <1>5, <1>6 DEF TagsOf
<1> QED BY <1>3, <1>7 DEF e

\* Adding a flow leaves the activities; it is connected when its ends are there.
LEMMA AddFlow ==
  ASSUME NEW d \in Definition, NEW from \in Tags, NEW to \in Tags
  PROVE  /\ WithFlow(d, from, to) \in Definition
         /\ TagsOf(WithFlow(d, from, to)) = TagsOf(d)
         /\ IsConnected(d) /\ from \in TagsOf(d) /\ to \in TagsOf(d)
              => IsConnected(WithFlow(d, from, to))
<1> DEFINE f == [sourceRef |-> from, targetRef |-> to]
           e == WithFlow(d, from, to)
           n == Len(d.flows)
<1>1. f \in Flow /\ f # Null
  BY NamesAssumption DEF Flow
<1>2. d.activities \in Seq(Activity \cup {Null}) /\ d.flows \in Seq(Flow \cup {Null})
  BY Parts
<1>3. e.flows = Append(d.flows, f) /\ e.activities = d.activities /\ e \in Definition
  BY <1>1, <1>2 DEF WithFlow, Definition
<1>4. /\ DOMAIN e.flows = 1..n + 1 /\ DOMAIN d.flows = 1..n /\ n \in Nat
      /\ \A p \in 1..n : e.flows[p] = d.flows[p]
      /\ e.flows[n + 1] = f
  BY <1>1, <1>2, <1>3
<1> HIDE DEF e, n
<1>5. TagsOf(e) = TagsOf(d)
  BY <1>3 DEF TagsOf, Places
<1>6. ASSUME IsConnected(d), from \in TagsOf(d), to \in TagsOf(d),
             NEW p \in FlowPlaces(e)
      PROVE  ~Dangles(e, e.flows[p])
  <2>1. CASE p = n + 1
    BY <1>4, <1>5, <1>6, <2>1 DEF Dangles
  <2>2. CASE p \in 1..n
    <3>1. p \in FlowPlaces(d)
      BY <1>4, <2>2 DEF FlowPlaces
    <3> QED BY <1>4, <1>5, <1>6, <2>2, <3>1 DEF Dangles, IsConnected
  <2> QED BY <1>4, <2>1, <2>2 DEF FlowPlaces
<1> QED BY <1>3, <1>5, <1>6 DEF e, IsConnected

\* Removing flows leaves the activities and dangles no flow.
LEMMA RemoveFlows ==
  ASSUME NEW d \in Definition, NEW places
  PROVE  /\ WithoutFlows(d, places) \in Definition
         /\ WithoutFlows(d, places).activities = d.activities
         /\ TagsOf(WithoutFlows(d, places)) = TagsOf(d)
         /\ IsConnected(d) => IsConnected(WithoutFlows(d, places))
         /\ \A p \in FlowPlaces(WithoutFlows(d, places)) :
               /\ p \in FlowPlaces(d) \ places
               /\ WithoutFlows(d, places).flows[p] = d.flows[p]
<1> DEFINE e == WithoutFlows(d, places)
<1>1. d.activities \in Seq(Activity \cup {Null}) /\ d.flows \in Seq(Flow \cup {Null})
  BY Parts
<1>2. WithHoles(d.flows, places) \in Seq(Flow \cup {Null})
  BY <1>1, HolesType
<1>3. /\ e \in Definition
      /\ e.activities = d.activities
      /\ e.flows = WithHoles(d.flows, places)
  BY <1>1, <1>2 DEF WithoutFlows, Definition
<1> HIDE DEF e
<1>4. TagsOf(e) = TagsOf(d)
  BY <1>3 DEF TagsOf, Places
<1>5. \A p \in FlowPlaces(e) : p \in FlowPlaces(d) \ places /\ e.flows[p] = d.flows[p]
  BY <1>3 DEF FlowPlaces, WithHoles
<1>6. IsConnected(d) => IsConnected(e)
  BY <1>4, <1>5 DEF IsConnected, Dangles
<1> QED BY <1>3, <1>4, <1>5, <1>6 DEF e

\* Emptying places of the list of activities leaves the flows and the other activities.
LEMMA RemoveActivities ==
  ASSUME NEW d \in Definition, NEW places
  PROVE  LET e == [d EXCEPT !.activities = WithHoles(@, places)]
         IN /\ e \in Definition
            /\ e.flows = d.flows
            /\ DOMAIN e.activities = DOMAIN d.activities
            /\ Places(e) = Places(d) \ places
            /\ \A p \in Places(e) : e.activities[p] = d.activities[p]
            /\ TagsOf(e) \subseteq TagsOf(d)
<1> DEFINE e == [d EXCEPT !.activities = WithHoles(@, places)]
<1>1. d.activities \in Seq(Activity \cup {Null}) /\ d.flows \in Seq(Flow \cup {Null})
  BY Parts
<1>2. WithHoles(d.activities, places) \in Seq(Activity \cup {Null})
  BY <1>1, HolesType
<1>3. /\ e \in Definition
      /\ e.flows = d.flows
      /\ e.activities = WithHoles(d.activities, places)
  BY <1>1, <1>2 DEF Definition
<1> HIDE DEF e
<1>4. /\ DOMAIN e.activities = DOMAIN d.activities
      /\ Places(e) = Places(d) \ places
      /\ \A p \in Places(e) : e.activities[p] = d.activities[p]
  BY <1>3 DEF Places, WithHoles
<1>5. TagsOf(e) \subseteq TagsOf(d)
  BY <1>4 DEF TagsOf
<1> QED BY <1>3, <1>4, <1>5 DEF e

-----------------------------------------------------------------------------
(* The watcher.                                                            *)

\* What an edit does to the definition and its history, whoever made it.
EditKeeps(d) ==
  /\ definition' = d
  /\ history' \in Seq(Definition) /\ historyIndex' \in 0..Len(history') - 1
  /\ undoing' \in BOOLEAN /\ undoed' \in BOOLEAN
  /\ RedoNeedsUndo' /\ LiveIsEntry'

\* What undo leads back to stays, and is at most what the editor stood at.
ChainStep ==
  /\ historyIndex' <= historyIndex + 1
  /\ \A i \in 1..historyIndex : i \in DOMAIN history' /\ history'[i] = history[i]

IsEntry(d) == \E i \in DOMAIN history' : history'[i] = d
OldOrNew(d) == \A i \in DOMAIN history' :
                 history'[i] = d \/ \E j \in DOMAIN history : history'[i] = history[j]

\* The entry the editor stands at is replaced when it is the live definition itself.
LEMMA EntriesType ==
  ASSUME IInv, NEW d \in Definition
  PROVE  /\ Entries(d) \in Seq(Definition)
         /\ Len(Entries(d)) = Len(history)
         /\ \A i \in 1..historyIndex : Entries(d)[i] = history[i]
         /\ \A i \in DOMAIN Entries(d) :
              Entries(d)[i] = d \/ Entries(d)[i] = history[i]
         /\ undoed => Entries(d)[historyIndex + 1] = d
         /\ ~undoed => Entries(d) = history
<1>1. /\ history \in Seq(Definition) /\ historyIndex \in 0..Len(history) - 1
      /\ Len(history) \in Nat /\ DOMAIN history = 1..Len(history)
  BY DEF IInv, TypeOK
<1>2. CASE undoed
  <2>1. Entries(d) = [history EXCEPT ![historyIndex + 1] = d]
    BY <1>2 DEF Entries
  <2> QED BY <1>1, <1>2, <2>1
<1>3. CASE ~undoed
  <2>1. Entries(d) = history
    BY <1>3 DEF Entries
  <2> QED BY <1>1, <1>3, <2>1
<1> QED BY <1>2, <1>3

\* What stays when an edit is recorded ends before the editor or is all there is.
LEMMA KeptType ==
  ASSUME IInv
  PROVE  /\ Kept \in Seq(Definition)
         /\ Len(Kept) \in Nat /\ historyIndex <= Len(Kept) /\ Len(Kept) <= historyIndex + 1
         /\ DOMAIN Kept = 1..Len(Kept) /\ Len(Kept) <= Len(history)
         /\ \A i \in 1..Len(Kept) : Kept[i] = history[i]
<1>1. /\ history \in Seq(Definition) /\ historyIndex \in 0..Len(history) - 1
      /\ Len(history) \in Nat
  BY DEF IInv, TypeOK
<1>2. CASE undoed
  <2>1. Kept = SubSeq(history, 1, historyIndex)
    BY <1>2 DEF Kept
  <2> QED BY <1>1, <2>1
<1>3. CASE ~undoed
  <2>1. Kept = history /\ historyIndex = Len(history) - 1
    BY <1>3 DEF Kept, IInv, RedoNeedsUndo
  <2> QED BY <1>1, <2>1
<1> QED BY <1>2, <1>3

\* An edit that is not recorded changes the entry it is made in, or none.
LEMMA UnrecordedKeeps ==
  ASSUME IInv, NEW d \in Definition, definition' = d, Unrecorded(d)
  PROVE  /\ EditKeeps(d) /\ ChainStep /\ OldOrNew(d)
         /\ IsEntry(d) \/ history' = history
<1>1. /\ history \in Seq(Definition) /\ historyIndex \in 0..Len(history) - 1
      /\ Len(history) \in Nat /\ DOMAIN history = 1..Len(history)
      /\ undoing \in BOOLEAN /\ undoed \in BOOLEAN
  BY DEF IInv, TypeOK
<1>2. history' = Entries(d) /\ UNCHANGED <<historyIndex, undoing, undoed>>
  BY DEF Unrecorded
<1>3. /\ history' \in Seq(Definition) /\ Len(history') = Len(history)
      /\ \A i \in 1..historyIndex : history'[i] = history[i]
      /\ \A i \in DOMAIN history' : history'[i] = d \/ history'[i] = history[i]
      /\ undoed => history'[historyIndex + 1] = d
      /\ ~undoed => history' = history
  BY <1>2, EntriesType
<1>4. DOMAIN history' = 1..Len(history)
  BY <1>3
<1>5. EditKeeps(d)
  BY <1>1, <1>2, <1>3 DEF EditKeeps, IInv, RedoNeedsUndo, LiveIsEntry
<1>6. ChainStep
  BY <1>1, <1>2, <1>3, <1>4 DEF ChainStep
<1>7. OldOrNew(d)
  BY <1>1, <1>3, <1>4 DEF OldOrNew
<1>8. IsEntry(d) \/ history' = history
  BY <1>1, <1>3, <1>4 DEF IsEntry
<1> QED BY <1>5, <1>6, <1>7, <1>8

\* A recorded edit is an entry, be it a new one or the one it was made in.
LEMMA RecordedKeeps ==
  ASSUME IInv, NEW d \in Definition, definition' = d, Recorded(d)
  PROVE  EditKeeps(d) /\ ChainStep /\ OldOrNew(d) /\ IsEntry(d)
<1>1. /\ history \in Seq(Definition) /\ historyIndex \in 0..Len(history) - 1
      /\ Len(history) \in Nat /\ DOMAIN history = 1..Len(history)
      /\ undoing \in BOOLEAN /\ undoed \in BOOLEAN
  BY DEF IInv, TypeOK
<1>2. CASE /\ undoing /\ undoing' = FALSE /\ history' = Entries(d)
           /\ UNCHANGED <<historyIndex, undoed>>
  <2>1. undoed
    BY <1>2 DEF IInv, LiveIsEntry
  <2>2. /\ history' \in Seq(Definition) /\ Len(history') = Len(history)
        /\ \A i \in 1..historyIndex : history'[i] = history[i]
        /\ \A i \in DOMAIN history' : history'[i] = d \/ history'[i] = history[i]
        /\ history'[historyIndex + 1] = d
    BY <1>2, <2>1, EntriesType
  <2>3. DOMAIN history' = 1..Len(history)
    BY <2>2
  <2>4. EditKeeps(d)
    BY <1>1, <1>2, <2>1, <2>2 DEF EditKeeps, RedoNeedsUndo, LiveIsEntry
  <2>5. ChainStep /\ OldOrNew(d)
    BY <1>1, <1>2, <2>2, <2>3 DEF ChainStep, OldOrNew
  <2>6. IsEntry(d)
    BY <1>1, <2>2, <2>3 DEF IsEntry
  <2> QED BY <2>4, <2>5, <2>6
<1>3. CASE /\ ~undoing /\ history' = Append(Kept, d) /\ historyIndex' = Len(Kept)
           /\ undoed' = FALSE /\ UNCHANGED undoing
  <2>1. /\ Kept \in Seq(Definition)
        /\ Len(Kept) \in Nat /\ historyIndex <= Len(Kept) /\ Len(Kept) <= historyIndex + 1
        /\ Len(Kept) <= Len(history)
        /\ \A i \in 1..Len(Kept) : Kept[i] = history[i]
    BY KeptType
  <2>2. /\ history' \in Seq(Definition) /\ Len(history') = Len(Kept) + 1
        /\ \A i \in 1..Len(Kept) : history'[i] = Kept[i]
        /\ history'[Len(Kept) + 1] = d
    BY <1>3, <2>1
  <2>3. DOMAIN history' = 1..Len(Kept) + 1
    BY <2>1, <2>2
  <2>4. EditKeeps(d)
    <3>1. undoing' = FALSE /\ undoed' = FALSE
      BY <1>1, <1>3
    <3>2. historyIndex' = Len(history') - 1 /\ historyIndex' \in 0..Len(history') - 1
      BY <1>3, <2>1, <2>2
    <3>3. RedoNeedsUndo' /\ LiveIsEntry'
      BY <3>1, <3>2 DEF RedoNeedsUndo, LiveIsEntry
    <3> QED BY <2>2, <3>1, <3>2, <3>3 DEF EditKeeps
  <2>5. ChainStep
    BY <1>1, <1>3, <2>1, <2>2, <2>3 DEF ChainStep
  <2>6. OldOrNew(d)
    BY <1>1, <2>1, <2>2, <2>3 DEF OldOrNew
  <2>7. IsEntry(d)
    BY <2>1, <2>2, <2>3 DEF IsEntry
  <2> QED BY <2>4, <2>5, <2>6, <2>7
<1> QED BY <1>2, <1>3 DEF Recorded

\* Every edit keeps the invariant; it is an entry, or leaves the history alone.
LEMMA BecomesKeeps ==
  ASSUME IInv, NEW d \in Definition, NEW asked \in BOOLEAN, Becomes(d, asked)
  PROVE  /\ EditKeeps(d) /\ ChainStep /\ OldOrNew(d)
         /\ IsEntry(d) \/ (~asked /\ panel = 0 /\ history' = history)
<1>1. definition' = d
  BY DEF Becomes
<1>2. CASE asked \/ panel # 0
  <2>1. Recorded(d)
    BY <1>2 DEF Becomes
  <2> QED BY <1>1, <2>1, RecordedKeeps
<1>3. CASE ~(asked \/ panel # 0)
  <2>1. Unrecorded(d)
    BY <1>3 DEF Becomes
  <2>2. panel = 0 /\ ~asked
    BY <1>3
  <2> QED BY <1>1, <2>1, <2>2, UnrecordedKeeps
<1> QED BY <1>2, <1>3

-----------------------------------------------------------------------------
(* Steps.                                                                  *)

Keeps == IInv' /\ ChainStep

\* The definition becomes d, the panel, the clipboard and the counter aside.
LEMMA EditStep ==
  ASSUME IInv, NEW d \in Definition, NEW asked \in BOOLEAN, Becomes(d, asked),
         NEW name, Gesture(name), UNCHANGED <<panel, clipboard>>,
         panel \in {0} \cup Places(d)
  PROVE  /\ Keeps
         /\ asked \/ panel # 0 \/ TagsOf(d) \subseteq TagsOf(definition)
              => (KnowsTags => KnowsTags')
         /\ AllConnected /\ IsConnected(d) => AllConnected'
<1>1. /\ EditKeeps(d) /\ ChainStep /\ OldOrNew(d)
      /\ IsEntry(d) \/ (~asked /\ panel = 0 /\ history' = history)
  BY BecomesKeeps
<1>2. definition' = d
  BY <1>1 DEF EditKeeps
<1>3. TypeOK'
  <2>1. panel' \in {0} \cup Places(definition')
    BY <1>2
  <2>2. clipboard' \in [count : Nat, tags : Seq(Tags)]
    BY DEF IInv, TypeOK
  <2>3. gestures' \in 0..MaxGestures
    BY NamesAssumption DEF IInv, TypeOK, Gesture
  <2> QED BY <1>1, <1>2, <2>1, <2>2, <2>3 DEF EditKeeps, TypeOK
<1>4. Keeps
  BY <1>1, <1>3 DEF EditKeeps, IInv, Keeps
<1>5. ASSUME asked \/ panel # 0 \/ TagsOf(d) \subseteq TagsOf(definition), KnowsTags
      PROVE  KnowsTags'
  <2>1. CASE IsEntry(d)
    BY <1>2, <2>1 DEF IsEntry, KnowsTags, HistoryTags
  <2>2. CASE ~asked /\ panel = 0 /\ history' = history
    <3>1. TagsOf(d) \subseteq HistoryTags
      BY <1>5, <2>2 DEF KnowsTags
    <3>2. HistoryTags' = HistoryTags
      BY <2>2 DEF HistoryTags
    <3> QED BY <1>2, <3>1, <3>2 DEF KnowsTags
  <2> QED BY <1>1, <2>1, <2>2
<1>6. ASSUME AllConnected, IsConnected(d)
      PROVE  AllConnected'
  <2>1. IsConnected(definition')
    BY <1>2, <1>6
  <2>2. \A i \in DOMAIN history' : IsConnected(history'[i])
    BY <1>1, <1>6 DEF OldOrNew, AllConnected
  <2> QED BY <2>1, <2>2 DEF AllConnected
<1> QED BY <1>4, <1>5, <1>6

\* A gesture on the canvas whose handler asks for the recording.
LEMMA CanvasStep ==
  ASSUME IInv, NEW d \in Definition, Becomes(d, TRUE), NEW name, OnCanvas(name)
  PROVE  /\ Keeps
         /\ KnowsTags => KnowsTags'
         /\ AllConnected /\ IsConnected(d) => AllConnected'
<1>1. Gesture(name) /\ UNCHANGED <<panel, clipboard>> /\ panel \in {0} \cup Places(d)
  BY DEF OnCanvas
<1> QED BY <1>1, EditStep

\* What every step on the canvas keeps.
CanvasKeeps == /\ Keeps
               /\ KnowsTags => KnowsTags'
               /\ AllConnected /\ IdsAgree => AllConnected'

LEMMA LiveType ==
  ASSUME IInv
  PROVE  /\ definition \in Definition
         /\ AllConnected => IsConnected(definition)
BY DEF IInv, TypeOK, AllConnected

\* A new activity is connected to nothing.
LEMMA AddedConnected ==
  ASSUME NEW d \in Definition, NEW tag \in Tags, IsConnected(d)
  PROVE  IsConnected(WithActivity(d, tag))
<1>1. /\ TagsOf(WithActivity(d, tag)) = TagsOf(d) \cup {tag}
      /\ WithActivity(d, tag).flows = d.flows
  BY AddActivity
<1> QED BY <1>1 DEF IsConnected, Dangles, FlowPlaces

LEMMA NextNumber ==
  ASSUME NEW k \in 0..MaxTag - 1
  PROVE  k + 1 \in Tags
BY NamesAssumption DEF Tags, Numbers

LEMMA DropKeeps == IInv /\ Drop => CanvasKeeps
<1> SUFFICES ASSUME IInv, Drop PROVE CanvasKeeps
  OBVIOUS
<1>1. PICK k \in 0..MaxTag - 1 : Becomes(WithActivity(definition, k + 1), TRUE)
  BY DEF Drop
<1> DEFINE d == WithActivity(definition, k + 1)
<1>2. d \in Definition /\ (AllConnected => IsConnected(d))
  BY LiveType, NextNumber, AddActivity, AddedConnected
<1>3. OnCanvas("drop")
  BY DEF Drop
<1> HIDE DEF d
<1> QED BY <1>1, <1>2, <1>3, CanvasStep DEF CanvasKeeps, d

LEMMA ExtendKeeps == IInv /\ Extend => CanvasKeeps
<1> SUFFICES ASSUME IInv, Extend PROVE CanvasKeeps
  OBVIOUS
<1>1. PICK from \in TagsOf(definition), k \in 0..MaxTag - 1 :
        Becomes(WithFlow(WithActivity(definition, k + 1), from, k + 1), TRUE)
  BY DEF Extend
<1> DEFINE c == WithActivity(definition, k + 1)
           d == WithFlow(c, from, k + 1)
<1>2. k + 1 \in Tags /\ from \in Tags /\ definition \in Definition
  BY LiveType, NextNumber, Parts
<1>3. c \in Definition /\ TagsOf(c) = TagsOf(definition) \cup {k + 1}
  BY <1>2, AddActivity
<1>4. AllConnected => IsConnected(c)
  BY <1>2, LiveType, AddedConnected
<1> HIDE DEF c
<1>5. d \in Definition /\ (AllConnected => IsConnected(d))
  BY <1>2, <1>3, <1>4, AddFlow
<1>6. OnCanvas("extend")
  BY DEF Extend
<1>7. Becomes(d, TRUE)
  BY <1>1 DEF c
<1> HIDE DEF d
<1> QED BY <1>5, <1>6, <1>7, CanvasStep DEF CanvasKeeps

LEMMA ConnectKeeps == IInv /\ Connect => CanvasKeeps
<1> SUFFICES ASSUME IInv, Connect PROVE CanvasKeeps
  OBVIOUS
<1>1. PICK from \in TagsOf(definition), to \in TagsOf(definition) :
        Becomes(WithFlow(definition, from, to), TRUE)
  BY DEF Connect
<1> DEFINE d == WithFlow(definition, from, to)
<1>2. d \in Definition /\ (AllConnected => IsConnected(d))
  BY LiveType, Parts, AddFlow
<1>3. OnCanvas("connect")
  BY DEF Connect
<1> HIDE DEF d
<1> QED BY <1>1, <1>2, <1>3, CanvasStep DEF CanvasKeeps, d

LEMMA ReconnectKeeps == IInv /\ Reconnect => CanvasKeeps
<1> SUFFICES ASSUME IInv, Reconnect PROVE CanvasKeeps
  OBVIOUS
<1>1. PICK p \in FlowPlaces(definition), from \in TagsOf(definition), to \in TagsOf(definition) :
        Becomes(WithFlow(WithoutFlows(definition, SameId(p)), from, to), TRUE)
  BY DEF Reconnect
<1> DEFINE c == WithoutFlows(definition, SameId(p))
           d == WithFlow(c, from, to)
<1>2. from \in Tags /\ to \in Tags /\ definition \in Definition
  BY LiveType, Parts
<1>3. /\ c \in Definition /\ TagsOf(c) = TagsOf(definition)
      /\ AllConnected => IsConnected(c)
  BY <1>2, LiveType, RemoveFlows
<1> HIDE DEF c
<1>4. d \in Definition /\ (AllConnected => IsConnected(d))
  BY <1>2, <1>3, AddFlow
<1>5. OnCanvas("reconnect")
  BY DEF Reconnect
<1>6. Becomes(d, TRUE)
  BY <1>1 DEF c
<1> HIDE DEF d
<1> QED BY <1>4, <1>5, <1>6, CanvasStep DEF CanvasKeeps

LEMMA TrashFlowKeeps == IInv /\ TrashFlow => CanvasKeeps
<1> SUFFICES ASSUME IInv, TrashFlow PROVE CanvasKeeps
  OBVIOUS
<1>1. PICK p \in FlowPlaces(definition) : Becomes(WithoutFlows(definition, SameId(p)), TRUE)
  BY DEF TrashFlow
<1> DEFINE d == WithoutFlows(definition, SameId(p))
<1>2. d \in Definition /\ (AllConnected => IsConnected(d))
  BY LiveType, RemoveFlows
<1>3. OnCanvas("trash")
  BY DEF TrashFlow
<1> HIDE DEF d
<1> QED BY <1>1, <1>2, <1>3, CanvasStep DEF CanvasKeeps, d

LEMMA TouchKeeps == IInv /\ Touch => CanvasKeeps
<1> SUFFICES ASSUME IInv, Touch PROVE CanvasKeeps
  OBVIOUS
<1>1. OnCanvas("touch") /\ Becomes(definition, TRUE)
  BY DEF Touch
<1> QED BY <1>1, LiveType, CanvasStep DEF CanvasKeeps

\* An activity is removed with the flows at it; where ids agree it is the one removed.
LEMMA TrashActivityKeeps == IInv /\ TrashActivity => CanvasKeeps
<1> SUFFICES ASSUME IInv, TrashActivity PROVE CanvasKeeps
  OBVIOUS
<1>1. PICK tag \in TagsOf(definition) :
        Becomes(WithoutActivity(WithoutFlows(definition, FlowsAt(tag)), tag), TRUE)
  BY DEF TrashActivity
<1> DEFINE c == WithoutFlows(definition, FlowsAt(tag))
           places == {p \in Places(c) : c.activities[p].id = tag}
           d == [c EXCEPT !.activities = WithHoles(@, places)]
<1>2. definition \in Definition
  BY LiveType
<1>3. /\ c \in Definition /\ c.activities = definition.activities
      /\ \A p \in FlowPlaces(c) : /\ p \in FlowPlaces(definition) \ FlowsAt(tag)
                                  /\ c.flows[p] = definition.flows[p]
  BY <1>2, RemoveFlows
<1>4. d = WithoutActivity(c, tag)
  BY DEF WithoutActivity
<1>5. Becomes(d, TRUE)
  BY <1>1, <1>4
<1>6. Places(c) = Places(definition)
  BY <1>3 DEF Places
<1> HIDE DEF c
<1>7. /\ d \in Definition /\ d.flows = c.flows
      /\ Places(d) = Places(c) \ places
      /\ \A p \in Places(d) : d.activities[p] = c.activities[p]
  BY <1>3, RemoveActivities
<1> HIDE DEF d
<1>8. ASSUME AllConnected, IdsAgree
      PROVE  IsConnected(d)
  <2>1. TagsOf(definition) \ {tag} \subseteq TagsOf(d)
    <3> SUFFICES ASSUME NEW p \in Places(definition),
                        definition.activities[p].tracingTag # tag
                 PROVE  definition.activities[p].tracingTag \in TagsOf(d)
      BY DEF TagsOf
    <3>1. p \in Places(d) /\ d.activities[p] = definition.activities[p]
      BY <1>3, <1>6, <1>7, <1>8 DEF IdsAgree
    <3> QED BY <3>1 DEF TagsOf
  <2>2. IsConnected(definition)
    BY <1>8, LiveType
  <2> SUFFICES ASSUME NEW p \in FlowPlaces(d) PROVE ~Dangles(d, d.flows[p])
    BY DEF IsConnected
  <2>3. p \in FlowPlaces(c)
    BY <1>7 DEF FlowPlaces
  <2>4. p \in FlowPlaces(definition) \ FlowsAt(tag) /\ d.flows[p] = definition.flows[p]
    BY <1>3, <1>7, <2>3
  <2> QED BY <2>1, <2>2, <2>4 DEF IsConnected, Dangles, FlowsAt
<1>9. OnCanvas("trash")
  BY DEF TrashActivity
<1> QED BY <1>5, <1>7, <1>8, <1>9, CanvasStep DEF CanvasKeeps

\* The activity that takes the place of another has its tag.
LEMMA ChangeKeeps == IInv /\ Change => CanvasKeeps
<1> SUFFICES ASSUME IInv, Change PROVE CanvasKeeps
  OBVIOUS
<1>1. PICK tag \in TagsOf(definition) :
        Becomes(WithActivity(WithoutActivity(definition, tag), tag), TRUE)
  BY DEF Change
<1> DEFINE places == {p \in Places(definition) : definition.activities[p].id = tag}
           c == [definition EXCEPT !.activities = WithHoles(@, places)]
           d == WithActivity(c, tag)
<1>2. definition \in Definition /\ tag \in Tags
  BY LiveType, Parts
<1>3. /\ c \in Definition /\ c.flows = definition.flows
      /\ Places(c) = Places(definition) \ places
      /\ \A p \in Places(c) : c.activities[p] = definition.activities[p]
  BY <1>2, RemoveActivities
<1>4. c = WithoutActivity(definition, tag)
  BY DEF WithoutActivity
<1>5. Becomes(d, TRUE)
  BY <1>1, <1>4
<1> HIDE DEF c
<1>6. d \in Definition /\ TagsOf(d) = TagsOf(c) \cup {tag} /\ d.flows = c.flows
  BY <1>2, <1>3, AddActivity
<1> HIDE DEF d
<1>7. ASSUME AllConnected, IdsAgree
      PROVE  IsConnected(d)
  <2>1. TagsOf(definition) \subseteq TagsOf(d)
    <3> SUFFICES ASSUME NEW p \in Places(definition),
                        definition.activities[p].tracingTag # tag
                 PROVE  definition.activities[p].tracingTag \in TagsOf(c)
      BY <1>6 DEF TagsOf
    <3>1. p \in Places(c) /\ c.activities[p] = definition.activities[p]
      BY <1>3, <1>7 DEF IdsAgree
    <3> QED BY <3>1 DEF TagsOf
  <2>2. IsConnected(definition)
    BY <1>7, LiveType
  <2> QED BY <1>3, <1>6, <2>1, <2>2 DEF IsConnected, Dangles, FlowPlaces
<1>8. OnCanvas("change")
  BY DEF Change
<1> QED BY <1>5, <1>6, <1>7, <1>8, CanvasStep DEF CanvasKeeps

\* Undo and redo make an entry the live definition.
LEMMA GoToKeeps ==
  ASSUME IInv, NEW index \in 0..Len(history) - 1, index <= historyIndex + 1,
         NEW name, OnCanvas(name), GoTo(index)
  PROVE  CanvasKeeps
<1>1. /\ history \in Seq(Definition) /\ historyIndex \in 0..Len(history) - 1
      /\ DOMAIN history = 1..Len(history) /\ Len(history) \in Nat
  BY DEF IInv, TypeOK
<1>2. /\ definition' = history[index + 1] /\ history' = history /\ historyIndex' = index
      /\ undoing' = TRUE /\ undoed' = TRUE
      /\ panel' = 0 /\ UNCHANGED clipboard /\ gestures' \in 0..MaxGestures
  BY NamesAssumption DEF GoTo, OnCanvas, Gesture, IInv, TypeOK
<1>3. index + 1 \in DOMAIN history
  BY <1>1
<1>4. IInv'
  <2>1. definition' \in Definition
    BY <1>1, <1>2, <1>3
  <2>2. clipboard' \in [count : Nat, tags : Seq(Tags)]
    BY <1>2 DEF IInv, TypeOK
  <2>3. historyIndex' \in 0..Len(history') - 1
    BY <1>2
  <2>4. TypeOK'
    BY <1>1, <1>2, <2>1, <2>2, <2>3 DEF TypeOK
  <2>5. RedoNeedsUndo' /\ LiveIsEntry'
    BY <1>2 DEF RedoNeedsUndo, LiveIsEntry
  <2> QED BY <2>4, <2>5 DEF IInv
<1>5. ChainStep
  BY <1>1, <1>2 DEF ChainStep
<1>6. KnowsTags'
  BY <1>1, <1>2, <1>3 DEF KnowsTags, HistoryTags
<1>7. AllConnected => AllConnected'
  BY <1>2, <1>3 DEF AllConnected
<1> QED BY <1>4, <1>5, <1>6, <1>7 DEF CanvasKeeps, Keeps

LEMMA UndoKeeps == IInv /\ Undo => CanvasKeeps
<1> SUFFICES ASSUME IInv, Undo PROVE CanvasKeeps
  OBVIOUS
<1>1. historyIndex \in 0..Len(history) - 1 /\ Len(history) \in Nat
  BY DEF IInv, TypeOK
<1>2. historyIndex - 1 \in 0..Len(history) - 1 /\ historyIndex - 1 <= historyIndex + 1
  BY <1>1 DEF Undo
<1> QED BY <1>2, GoToKeeps DEF Undo

LEMMA RedoKeeps == IInv /\ Redo => CanvasKeeps
<1> SUFFICES ASSUME IInv, Redo PROVE CanvasKeeps
  OBVIOUS
<1>1. historyIndex \in 0..Len(history) - 1 /\ Len(history) \in Nat
  BY DEF IInv, TypeOK
<1>2. historyIndex + 1 \in 0..Len(history) - 1 /\ historyIndex + 1 <= historyIndex + 1
  BY <1>1 DEF Redo
<1> QED BY <1>2, GoToKeeps DEF Redo

\* A step that leaves the definition and the history alone.
LEMMA StillKeeps ==
  ASSUME IInv, UNCHANGED <<definition, history, historyIndex, undoing, undoed>>,
         panel' \in {0} \cup Places(definition),
         clipboard' \in [count : Nat, tags : Seq(Tags)],
         gestures' \in 0..MaxGestures
  PROVE  CanvasKeeps
<1>1. IInv'
  BY DEF IInv, TypeOK, RedoNeedsUndo, LiveIsEntry
<1>2. ChainStep
  BY DEF ChainStep, IInv, TypeOK
<1>3. (KnowsTags => KnowsTags') /\ (AllConnected => AllConnected')
  BY DEF KnowsTags, HistoryTags, AllConnected
<1> QED BY <1>1, <1>2, <1>3 DEF CanvasKeeps, Keeps

LEMMA PanelKeeps == IInv /\ (OpenPanel \/ ClosePanel) => CanvasKeeps
<1> SUFFICES ASSUME IInv, OpenPanel \/ ClosePanel PROVE CanvasKeeps
  OBVIOUS
<1>1. UNCHANGED <<definition, history, historyIndex, undoing, undoed, clipboard>>
  BY DEF OpenPanel, ClosePanel
<1>2. panel' \in {0} \cup Places(definition)
  BY DEF OpenPanel, ClosePanel
<1>3. gestures' \in 0..MaxGestures
  BY NamesAssumption DEF OpenPanel, ClosePanel, Gesture, IInv, TypeOK
<1>4. clipboard' \in [count : Nat, tags : Seq(Tags)]
  BY <1>1 DEF IInv, TypeOK
<1> QED BY <1>1, <1>2, <1>3, <1>4, StillKeeps

\* Places of a list are finite in number, and a listing of some is a sequence.
LEMMA ListingType ==
  ASSUME NEW n \in Nat, NEW places \in SUBSET (1..n), NEW s \in Listings(places)
  PROVE  /\ Cardinality(places) \in Nat
         /\ s \in Seq(places) /\ DOMAIN s = 1..Cardinality(places)
         /\ Len(s) = Cardinality(places)
<1>1. IsFiniteSet(places)
  <2>1. 1 \in Int /\ n \in Int
    OBVIOUS
  <2>2. IsFiniteSet(1..n)
    BY <2>1, FS_Interval
  <2> QED BY <2>2, FS_Subset
<1>2. Cardinality(places) \in Nat
  BY <1>1, FS_CardinalityType
<1>3. s \in [1..Cardinality(places) -> places]
  BY DEF Listings
<1> QED BY <1>2, <1>3

LEMMA CopyKeeps == IInv /\ Copy => CanvasKeeps
<1> SUFFICES ASSUME IInv, Copy PROVE CanvasKeeps
  OBVIOUS
<1>1. PICK selected \in SUBSET Places(definition) : \E s \in Listings(selected) :
        clipboard' = [count |-> Len(s),
                      tags  |-> IF selected = {} THEN clipboard.tags
                                ELSE [i \in DOMAIN s |-> definition.activities[s[i]].tracingTag]]
  BY DEF Copy
<1>2. PICK s \in Listings(selected) :
        clipboard' = [count |-> Len(s),
                      tags  |-> IF selected = {} THEN clipboard.tags
                                ELSE [i \in DOMAIN s |-> definition.activities[s[i]].tracingTag]]
  BY <1>1
<1>3. /\ definition \in Definition /\ clipboard.tags \in Seq(Tags)
      /\ definition.activities \in Seq(Activity \cup {Null})
      /\ \A p \in Places(definition) : definition.activities[p] \in Activity
  BY Parts DEF IInv, TypeOK
<1>4. selected \in SUBSET (1..Len(definition.activities)) /\ Len(definition.activities) \in Nat
  BY <1>3 DEF Places
<1>5. s \in Seq(selected) /\ DOMAIN s = 1..Len(s) /\ Len(s) \in Nat
  BY <1>4, ListingType
<1> DEFINE tags == [i \in DOMAIN s |-> definition.activities[s[i]].tracingTag]
<1>6. tags \in Seq(Tags)
  <2>1. \A i \in 1..Len(s) : definition.activities[s[i]].tracingTag \in Tags
    BY <1>3, <1>5 DEF Activity
  <2>2. tags \in [1..Len(s) -> Tags]
    BY <1>5, <2>1
  <2> QED BY <1>5, <2>2
<1> HIDE DEF tags
<1>7. clipboard' \in [count : Nat, tags : Seq(Tags)]
  BY <1>2, <1>3, <1>5, <1>6 DEF tags
<1>8. UNCHANGED <<definition, history, historyIndex, undoing, undoed, panel>>
  BY DEF Copy
<1>9. gestures' \in 0..MaxGestures /\ panel' \in {0} \cup Places(definition)
  BY <1>8, NamesAssumption DEF Copy, Gesture, IInv, TypeOK
<1> QED BY <1>7, <1>8, <1>9, StillKeeps

\* What a step keeps that may leave flows that lead nowhere.
KeyKeeps == Keeps /\ (KnowsTags => KnowsTags')

LEMMA RenameKeeps == IInv /\ Rename => KeyKeeps
<1> SUFFICES ASSUME IInv, Rename PROVE KeyKeeps
  OBVIOUS
<1> DEFINE old == definition.activities[panel].tracingTag
<1>1. PICK new \in Tags \ TagsOf(definition) :
        Becomes([activities |-> [definition.activities EXCEPT ![panel].tracingTag = new],
                 flows |-> [p \in DOMAIN definition.flows |->
                    IF p \in Reached(definition.flows)
                    THEN Renamed(definition.flows[p], old, new)
                    ELSE definition.flows[p]]], FALSE)
  BY DEF Rename
<1> DEFINE acts  == [definition.activities EXCEPT ![panel].tracingTag = new]
           flows == [p \in DOMAIN definition.flows |->
                       IF p \in Reached(definition.flows)
                       THEN Renamed(definition.flows[p], old, new)
                       ELSE definition.flows[p]]
           d     == [activities |-> acts, flows |-> flows]
<1>2. /\ panel \in Places(definition) /\ panel # 0
      /\ Gesture("rename") /\ UNCHANGED <<panel, clipboard>>
  BY DEF Rename, IInv, TypeOK
<1>3. /\ definition \in Definition
      /\ definition.activities \in Seq(Activity \cup {Null})
      /\ definition.flows \in Seq(Flow \cup {Null})
      /\ \A p \in Places(definition) : definition.activities[p] \in Activity
      /\ \A p \in FlowPlaces(definition) : definition.flows[p] \in Flow
  BY LiveType, Parts
<1>4. acts \in Seq(Activity \cup {Null}) /\ panel \in DOMAIN acts /\ acts[panel] \in Activity
  <2> DEFINE a == [definition.activities[panel] EXCEPT !.tracingTag = new]
  <2>1. a \in Activity
    BY <1>2, <1>3 DEF Activity
  <2>2. panel \in DOMAIN definition.activities
    BY <1>2 DEF Places
  <2>3. acts = [definition.activities EXCEPT ![panel] = a]
    OBVIOUS
  <2> HIDE DEF a, acts
  <2> QED BY <1>3, <2>1, <2>2, <2>3
<1>5. flows \in Seq(Flow \cup {Null})
  <2>1. definition.flows \in [1..Len(definition.flows) -> Flow \cup {Null}]
        /\ DOMAIN definition.flows = 1..Len(definition.flows) /\ Len(definition.flows) \in Nat
    BY <1>3
  <2>2. ASSUME NEW p \in 1..Len(definition.flows)
        PROVE  flows[p] \in Flow \cup {Null}
    <3>1. CASE p \in Reached(definition.flows)
      <4>1. definition.flows[p] # Null
        BY <2>1, <3>1 DEF Reached
      <4>2. definition.flows[p] \in Flow
        BY <1>3, <2>1, <4>1 DEF FlowPlaces
      <4>3. Renamed(definition.flows[p], old, new) \in Flow
        BY <4>2 DEF Renamed, Flow
      <4> QED BY <2>1, <3>1, <4>3
    <3>2. CASE p \notin Reached(definition.flows)
      BY <2>1, <3>2
    <3> QED BY <3>1, <3>2
  <2>3. flows \in [1..Len(definition.flows) -> Flow \cup {Null}]
    BY <2>1, <2>2
  <2> QED BY <2>1, <2>3
<1> HIDE DEF acts, flows
<1>6. d \in Definition
  BY <1>4, <1>5 DEF Definition
<1>7. panel \in Places(d)
  BY <1>4, NamesAssumption DEF Places
<1>8. Becomes(d, FALSE)
  BY <1>1 DEF acts, flows
<1> HIDE DEF d
<1> QED BY <1>2, <1>6, <1>7, <1>8, EditStep DEF KeyKeeps

LEMMA DeleteKeeps == IInv /\ Delete => KeyKeeps
<1> SUFFICES ASSUME IInv, Delete PROVE KeyKeeps
  OBVIOUS
<1>1. PICK selected \in SUBSET Places(definition), flows \in SUBSET FlowPlaces(definition) :
        LET gone  == {definition.activities[p].tracingTag : p \in selected}
            inner == {p \in FlowPlaces(definition) :
                        /\ definition.flows[p].sourceRef \in gone
                        /\ definition.flows[p].targetRef \in gone}
            first == {p \in inner : \A q \in inner : p <= q}
        IN Becomes(WithoutFlows([definition EXCEPT !.activities = WithHoles(@, selected)],
                                IF inner = {} THEN flows ELSE first), FALSE)
  BY DEF Delete, DeleteSelected
<1>2. PICK places :
        Becomes(WithoutFlows([definition EXCEPT !.activities = WithHoles(@, selected)],
                             places), FALSE)
  BY <1>1
<1> DEFINE c == [definition EXCEPT !.activities = WithHoles(@, selected)]
           d == WithoutFlows(c, places)
<1>3. definition \in Definition
  BY LiveType
<1>4. c \in Definition /\ TagsOf(c) \subseteq TagsOf(definition)
  BY <1>3, RemoveActivities
<1> HIDE DEF c
<1>5. d \in Definition /\ TagsOf(d) \subseteq TagsOf(definition)
  BY <1>4, RemoveFlows
<1>6. Becomes(d, FALSE)
  BY <1>2 DEF c
<1>7. Gesture("delete") /\ panel = 0 /\ UNCHANGED <<panel, clipboard>>
  BY DEF Delete
<1> HIDE DEF d
<1> QED BY <1>5, <1>6, <1>7, EditStep DEF KeyKeeps

\* With the panel open only flows go.
LEMMA DeleteFlowsKeeps == IInv /\ DeleteFlows => CanvasKeeps
<1> SUFFICES ASSUME IInv, DeleteFlows PROVE CanvasKeeps
  OBVIOUS
<1>1. PICK flows \in SUBSET FlowPlaces(definition) :
        Becomes(WithoutFlows(definition, flows), FALSE)
  BY DEF DeleteFlows
<1> DEFINE d == WithoutFlows(definition, flows)
<1>2. /\ d \in Definition /\ d.activities = definition.activities
      /\ AllConnected => IsConnected(d)
  BY LiveType, RemoveFlows
<1>3. panel # 0 /\ panel \in Places(definition)
  BY DEF DeleteFlows, IInv, TypeOK
<1>4. panel \in Places(d)
  BY <1>2, <1>3 DEF Places
<1>5. Gesture("delete") /\ UNCHANGED <<panel, clipboard>> /\ Becomes(d, FALSE)
  BY <1>1 DEF DeleteFlows
<1> HIDE DEF d
<1> QED BY <1>2, <1>3, <1>4, <1>5, EditStep DEF CanvasKeeps

\* What is pasted is new activities, and flows between them or with an undefined end.
LEMMA PasteKeeps == IInv /\ Paste => Keeps
<1> SUFFICES ASSUME IInv, Paste PROVE Keeps
  OBVIOUS
<1> DEFINE copied == ToSet(clipboard.tags)
           inner  == {p \in FlowPlaces(definition) :
                        /\ definition.flows[p].sourceRef \in copied
                        /\ definition.flows[p].targetRef \in copied}
<1>1. PICK k \in 0..MaxTag - clipboard.count : \E s \in Listings(inner), at \in Firsts(clipboard.tags) :
        Becomes([activities |-> definition.activities \o
                   [i \in 1..clipboard.count |-> [tracingTag |-> k + i, id |-> k + i]],
                 flows |-> definition.flows \o
                   [i \in DOMAIN s |->
                      [sourceRef |-> Pasted(at[definition.flows[s[i]].sourceRef], k),
                       targetRef |-> Pasted(at[definition.flows[s[i]].targetRef], k)]]], FALSE)
  BY DEF Paste
<1>2. PICK s \in Listings(inner), at \in Firsts(clipboard.tags) :
        Becomes([activities |-> definition.activities \o
                   [i \in 1..clipboard.count |-> [tracingTag |-> k + i, id |-> k + i]],
                 flows |-> definition.flows \o
                   [i \in DOMAIN s |->
                      [sourceRef |-> Pasted(at[definition.flows[s[i]].sourceRef], k),
                       targetRef |-> Pasted(at[definition.flows[s[i]].targetRef], k)]]], FALSE)
  BY <1>1
<1> DEFINE acts  == [i \in 1..clipboard.count |-> [tracingTag |-> k + i, id |-> k + i]]
           flows == [i \in DOMAIN s |->
                       [sourceRef |-> Pasted(at[definition.flows[s[i]].sourceRef], k),
                        targetRef |-> Pasted(at[definition.flows[s[i]].targetRef], k)]]
           d     == [activities |-> definition.activities \o acts,
                     flows |-> definition.flows \o flows]
<1>3. /\ definition.activities \in Seq(Activity \cup {Null})
      /\ definition.flows \in Seq(Flow \cup {Null})
      /\ clipboard.count \in Nat /\ clipboard.tags \in Seq(Tags)
  BY LiveType, Parts DEF IInv, TypeOK
<1>4. ASSUME NEW i \in 1..clipboard.count
      PROVE  k + i \in Numbers
  BY <1>3, <1>4, NamesAssumption DEF Numbers
<1>5. acts \in Seq(Activity \cup {Null})
  <2>1. \A i \in 1..clipboard.count : acts[i] \in Activity
    BY <1>4 DEF Activity, Tags
  <2>2. acts \in [1..clipboard.count -> Activity \cup {Null}]
    BY <2>1
  <2>3. clipboard.count \in Nat
    BY <1>3
  <2> HIDE DEF acts
  <2> QED BY <2>2, <2>3
<1>6. /\ inner \subseteq 1..Len(definition.flows) /\ Len(definition.flows) \in Nat
  BY <1>3 DEF FlowPlaces
<1>7. s \in Seq(inner) /\ DOMAIN s = 1..Len(s) /\ Len(s) \in Nat
  BY <1>6, ListingType
<1>8. ASSUME NEW tag \in copied
      PROVE  Pasted(at[tag], k) \in Tags \cup {NoTag}
  <2>1. at[tag] \in Nat /\ at[tag] >= 1
    BY <1>3 DEF Firsts
  <2>2. CASE at[tag] <= clipboard.count
    BY <1>3, <1>4, <2>1, <2>2 DEF Pasted, Tags
  <2>3. CASE ~(at[tag] <= clipboard.count)
    BY <2>3 DEF Pasted
  <2> QED BY <2>2, <2>3
<1>9. flows \in Seq(Flow \cup {Null})
  <2>1. ASSUME NEW i \in 1..Len(s)
        PROVE  flows[i] \in Flow
    <3>1. s[i] \in inner
      BY <1>7
    <3> QED BY <1>7, <1>8, <3>1 DEF Flow
  <2>2. flows \in [1..Len(s) -> Flow \cup {Null}]
    BY <1>7, <2>1
  <2> QED BY <1>7, <2>2
<1>10. Becomes(d, FALSE)
  BY <1>2
<1>11. OnCanvas("paste")
  BY DEF Paste
<1> HIDE DEF acts, flows
<1>12. d \in Definition
  BY <1>3, <1>5, <1>9 DEF Definition
<1>13. Gesture("paste") /\ UNCHANGED <<panel, clipboard>> /\ panel \in {0} \cup Places(d)
  BY <1>11 DEF OnCanvas
<1> HIDE DEF d
<1> QED BY <1>10, <1>12, <1>13, EditStep

-----------------------------------------------------------------------------
(* The specification.                                                      *)

LEMMA InitInvariant == Init => IInv
<1> SUFFICES ASSUME Init PROVE IInv
  OBVIOUS
<1>1. history \in Seq(Definition) /\ Len(history) = 1
  BY LoadedAssumption DEF Init
<1>2. clipboard \in [count : Nat, tags : Seq(Tags)]
  BY DEF Init
<1>3. TypeOK
  <2>1. historyIndex \in 0..Len(history) - 1 /\ gestures \in 0..MaxGestures
    BY <1>1, NamesAssumption DEF Init
  <2>2. definition \in Definition /\ panel \in {0} \cup Places(definition)
    BY LoadedAssumption DEF Init
  <2>3. undoing \in BOOLEAN /\ undoed \in BOOLEAN
    BY DEF Init
  <2> QED BY <1>1, <1>2, <2>1, <2>2, <2>3 DEF TypeOK
<1>4. RedoNeedsUndo
  BY <1>1 DEF Init, RedoNeedsUndo
<1>5. undoing = FALSE /\ undoed = FALSE
  BY DEF Init
<1>6. LiveIsEntry
  BY <1>5 DEF LiveIsEntry
<1> QED BY <1>3, <1>4, <1>6 DEF IInv

\* What each step keeps, by what may go wrong in it.
LEMMA StepKeeps ==
  ASSUME IInv, [Next]_vars
  PROVE  /\ Keeps
         /\ KnowsTags /\ ~KnowsTags' => Paste
         /\ AllConnected /\ IdsAgree /\ ~AllConnected' => Rename \/ Paste \/ Delete
<1>1. CASE \/ Drop \/ Extend \/ Connect \/ Reconnect \/ TrashActivity \/ TrashFlow
           \/ Change \/ Touch \/ Undo \/ Redo \/ OpenPanel \/ ClosePanel \/ Copy
           \/ DeleteFlows
  <2>1. CanvasKeeps
    BY <1>1, DropKeeps, ExtendKeeps, ConnectKeeps, ReconnectKeeps, TrashActivityKeeps,
       TrashFlowKeeps, ChangeKeeps, TouchKeeps, UndoKeeps, RedoKeeps, PanelKeeps,
       CopyKeeps, DeleteFlowsKeeps
  <2> QED BY <2>1 DEF CanvasKeeps
<1>2. CASE Rename \/ Delete
  BY <1>2, RenameKeeps, DeleteKeeps DEF KeyKeeps
<1>3. CASE Paste
  BY <1>3, PasteKeeps
<1>4. CASE UNCHANGED vars
  <2>1. /\ UNCHANGED <<definition, history, historyIndex, undoing, undoed>>
        /\ UNCHANGED <<panel, clipboard, gestures>>
    BY <1>4 DEF vars
  <2>2. /\ panel' \in {0} \cup Places(definition)
        /\ clipboard' \in [count : Nat, tags : Seq(Tags)]
        /\ gestures' \in 0..MaxGestures
    BY <2>1 DEF IInv, TypeOK
  <2>3. CanvasKeeps
    BY <2>1, <2>2, StillKeeps
  <2> QED BY <2>3 DEF CanvasKeeps
<1> QED BY <1>1, <1>2, <1>3, <1>4 DEF Next

LEMMA Invariant == Spec => []IInv
<1>1. IInv /\ [Next]_vars => IInv'
  BY StepKeeps DEF Keeps
<1> QED BY InitInvariant, <1>1, PTL DEF Spec

\* The variables of the editor hold what they are meant to hold: after any gestures
\* the index is that of an entry, and an open panel shows an activity that is there.
THEOREM TypeCorrect == Spec => []TypeOK
<1>1. IInv => TypeOK
  BY DEF IInv
<1> QED BY Invariant, <1>1, PTL

\* A redo is possible after an undo only: whatever is recorded is where the editor
\* stands, and is the end of its history.
THEOREM RedoIsUndone == Spec => []RedoNeedsUndo
<1>1. IInv => RedoNeedsUndo
  BY DEF IInv
<1> QED BY Invariant, <1>1, PTL

\* No gesture changes what undo leads back to: the entries before the one the editor
\* stands at stay, although undo and redo edit the entries themselves.
THEOREM ChainIsKept == Spec => UndoChainKept
<1>1. IInv /\ [Next]_vars
        => [/\ historyIndex' <= historyIndex + 1
            /\ \A i \in 1..historyIndex : i \in DOMAIN history' /\ history'[i] = history[i]]_vars
  BY StepKeeps DEF Keeps, ChainStep
<1> QED BY Invariant, <1>1, PTL DEF Spec, UndoChainKept

\* Only Paste hides tags from createNewTracingTag, which looks in the history.
THEOREM OnlyPasteHides == Spec => OnlyPasteHidesTags
<1>1. IInv /\ [Next]_vars => [KnowsTags /\ ~KnowsTags' => Paste]_vars
  BY StepKeeps
<1> QED BY Invariant, <1>1, PTL DEF Spec, OnlyPasteHidesTags

\* As long as no activity was renamed, only Paste, Delete and Rename leave a flow that
\* leads nowhere.
THEOREM FlowsStayConnected == Spec => CanvasKeepsFlows
<1>1. IInv /\ [Next]_vars
        => [AllConnected /\ IdsAgree /\ ~AllConnected' => Rename \/ Paste \/ Delete]_vars
  BY StepKeeps
<1> QED BY Invariant, <1>1, PTL DEF Spec, CanvasKeepsFlows
=============================================================================
