---------------------------- MODULE FlowGraphProofs ----------------------------
(***************************************************************************)
(* Two properties of the static analysis hold of every graph that can be   *)
(* drawn.  The forward flows have no circle: a walk that visits no         *)
(* activity twice meets none of activities that are equally deep.  And the *)
(* block of a join where paths of one length come together is closed:      *)
(* there the depths and the distances are those of the layers of the       *)
(* graph, so the levels that BlockFinder gathers are its layers.           *)
(***************************************************************************)
EXTENDS FlowDrawing, Induction, SequenceTheorems

-----------------------------------------------------------------------------
(* Sequences.                                                              *)

\* `Only' as a row of sequences, one for each beginning of `s'.
Filters(row, s, S) ==
  /\ row[0] = <<>>
  /\ \A n \in 1..Len(s) :
       row[n] = IF s[n] \in S THEN Append(row[n - 1], s[n]) ELSE row[n - 1]

\* `Only' is the last sequence of such a row.
LEMMA OnlyRow ==
  ASSUME NEW E, NEW s \in Seq(E), NEW S
  PROVE  \E row \in [0..Len(s) -> Seq(E)] : Only(s, S) = row[Len(s)] /\ Filters(row, s, S)
<1> DEFINE step == [n \in 1..Len(s) |-> [x \in Seq(E) |->
                      IF s[n] \in S THEN Append(x, s[n]) ELSE x]]
           body(f) == [n \in 0..Len(s) |->
                      IF n = 0 THEN <<>>
                      ELSE IF s[n] \in S THEN Append(f[n - 1], s[n]) ELSE f[n - 1]]
           Is(f) == f = body(f)
           only == CHOOSE f : Is(f)
<1>1. step \in [1..Len(s) -> [Seq(E) -> Seq(E)]]
  OBVIOUS
<1>2. PICK f \in [0..Len(s) -> Seq(E)] : Iterates(f, <<>>, step, Len(s))
  <2> <<>> \in Seq(E) /\ Len(s) \in Nat
    OBVIOUS
  <2> HIDE DEF step
  <2> QED
    BY <1>1, IterationExists
<1>3. Is(f)
  <2>1. f = [n \in 0..Len(s) |-> IF n = 0 THEN <<>> ELSE step[n][f[n - 1]]]
    BY <1>2 DEF Iterates
  <2>2. ASSUME NEW n \in 0..Len(s), n # 0
        PROVE  step[n][f[n - 1]] =
                 IF s[n] \in S THEN Append(f[n - 1], s[n]) ELSE f[n - 1]
    <3>1. n \in 1..Len(s) /\ f[n - 1] \in Seq(E)
      BY <2>2
    <3> QED
      BY <3>1
  <2> HIDE DEF step
  <2> QED
    BY <2>1, <2>2
<1>4. Is(only)
  <2> HIDE DEF Is
  <2> QED
    BY <1>3
<1>5. Only(s, S) = only[Len(s)]
  BY DEF Only
<1>6. ASSUME NEW h, Is(h)
      PROVE  /\ h[0] = <<>>
             /\ \A n \in 1..Len(s) :
                  h[n] = IF s[n] \in S THEN Append(h[n - 1], s[n]) ELSE h[n - 1]
  <2>1. body(h)[0] = <<>>
    OBVIOUS
  <2>2. ASSUME NEW n \in 1..Len(s)
        PROVE  body(h)[n] = IF s[n] \in S THEN Append(h[n - 1], s[n]) ELSE h[n - 1]
    OBVIOUS
  <2>3. h = body(h)
    BY <1>6
  <2> HIDE DEF body
  <2> QED
    BY <2>1, <2>2, <2>3
<1>7. f = only
  <2> HIDE DEF only, Is
  <2>1. f[0] = only[0]
    BY <1>3, <1>4, <1>6
  <2>2. ASSUME NEW n \in 1..Len(s), f[n - 1] = only[n - 1]
        PROVE  f[n] = only[n]
    <3>1. f[n] = IF s[n] \in S THEN Append(f[n - 1], s[n]) ELSE f[n - 1]
      BY <1>3, <1>6
    <3>2. only[n] = IF s[n] \in S THEN Append(only[n - 1], s[n]) ELSE only[n - 1]
      BY <1>4, <1>6
    <3> QED
      BY <2>2, <3>1, <3>2
  <2>3. \A n \in 0..Len(s) : f[n] = only[n]
    <3>1. Len(s) \in Nat
      OBVIOUS
    <3>2. \A n \in 1..Len(s) : f[n - 1] = only[n - 1] => f[n] = only[n]
      BY <2>2
    <3> QED
      BY <2>1, <3>1, <3>2, IterationIsUnique, ZenonT(40)
  <2> QED
    BY <2>3, <1>3, <1>4 DEF Is
<1> HIDE DEF only, Is
<1> QED
  BY <1>3, <1>5, <1>6, <1>7 DEF Filters

\* What is in `t', the filtered beginning of `s', comes from it, and stays in order.
Comes(t, s, S, n) == \A j \in 1..Len(t) : \E h \in 1..n : t[j] = s[h] /\ s[h] \in S
Stays(t, s, S, n) ==
  \A i \in 1..n : s[i] \in S =>
    \E k \in 1..Len(t) : t[k] = s[i] /\ \A j \in 1..k : \E h \in 1..i : t[j] = s[h]

\* `Only' keeps the elements of `S', and what comes before an element that it keeps
\* came before it.
LEMMA OnlyKeeps ==
  ASSUME NEW E, NEW s \in Seq(E), NEW S
  PROVE  /\ Only(s, S) \in Seq(E)
         /\ ToSet(Only(s, S)) = ToSet(s) \cap S
         /\ Stays(Only(s, S), s, S, Len(s))
<1>1. PICK row \in [0..Len(s) -> Seq(E)] : Only(s, S) = row[Len(s)] /\ Filters(row, s, S)
  BY OnlyRow
<1> DEFINE T == {n \in Nat : n \in 0..Len(s) =>
                    Comes(row[n], s, S, n) /\ Stays(row[n], s, S, n)}
<1>2. 0 \in T
  BY <1>1 DEF Filters, Comes, Stays
<1>3. ASSUME NEW n \in Nat, n \in T
      PROVE  n + 1 \in T
  <2> SUFFICES ASSUME n + 1 \in 0..Len(s)
               PROVE  Comes(row[n + 1], s, S, n + 1) /\ Stays(row[n + 1], s, S, n + 1)
    OBVIOUS
  <2>1. /\ Comes(row[n], s, S, n) /\ Stays(row[n], s, S, n)
        /\ row[n] \in Seq(E) /\ row[n + 1] \in Seq(E) /\ s[n + 1] \in E
    BY <1>3
  <2>2. CASE s[n + 1] \notin S
    <3>1. row[n + 1] = row[n]
      BY <1>1, <2>2, n + 1 \in 1..Len(s), (n + 1) - 1 = n DEF Filters
    <3> QED
      BY <2>1, <2>2, <3>1 DEF Comes, Stays
  <2>3. CASE s[n + 1] \in S
    <3>1. row[n + 1] = Append(row[n], s[n + 1])
      BY <1>1, <2>3, n + 1 \in 1..Len(s), (n + 1) - 1 = n DEF Filters
    <3>2. /\ Len(row[n + 1]) = Len(row[n]) + 1
          /\ row[n + 1][Len(row[n]) + 1] = s[n + 1]
          /\ \A j \in 1..Len(row[n]) : row[n + 1][j] = row[n][j]
      BY <2>1, <3>1
    <3>3. Comes(row[n + 1], s, S, n + 1)
      <4> SUFFICES ASSUME NEW j \in 1..Len(row[n + 1])
                   PROVE  \E h \in 1..(n + 1) : row[n + 1][j] = s[h] /\ s[h] \in S
        BY DEF Comes
      <4>1. CASE j = Len(row[n]) + 1
        BY <2>3, <3>2, <4>1
      <4>2. CASE j # Len(row[n]) + 1
        <5>1. j \in 1..Len(row[n])
          BY <2>1, <3>2, <4>2
        <5>2. PICK h \in 1..n : row[n][j] = s[h] /\ s[h] \in S
          BY <2>1, <5>1 DEF Comes
        <5> QED
          BY <3>2, <5>1, <5>2
      <4> QED
        BY <4>1, <4>2
    <3>4. Stays(row[n + 1], s, S, n + 1)
      <4> SUFFICES ASSUME NEW i \in 1..(n + 1), s[i] \in S
                   PROVE  \E k \in 1..Len(row[n + 1]) :
                            /\ row[n + 1][k] = s[i]
                            /\ \A j \in 1..k : \E h \in 1..i : row[n + 1][j] = s[h]
        BY DEF Stays
      <4>1. CASE i = n + 1
        <5>1. Len(row[n]) + 1 \in 1..Len(row[n + 1])
          BY <2>1, <3>2
        <5>2. \A j \in 1..(Len(row[n]) + 1) : \E h \in 1..(n + 1) : row[n + 1][j] = s[h]
          BY <3>2, <3>3 DEF Comes
        <5> QED
          BY <3>2, <4>1, <5>1, <5>2
      <4>2. CASE i # n + 1
        <5>1. PICK k \in 1..Len(row[n]) :
                /\ row[n][k] = s[i]
                /\ \A j \in 1..k : \E h \in 1..i : row[n][j] = s[h]
          BY <2>1, <4>2 DEF Stays
        <5>2. k \in 1..Len(row[n + 1]) /\ \A j \in 1..k : row[n + 1][j] = row[n][j]
          BY <3>2
        <5>3. row[n + 1][k] = s[i]
          BY <5>1, <5>2
        <5> QED
          BY <5>1, <5>2, <5>3
      <4> QED
        BY <4>1, <4>2
    <3> QED
      BY <3>3, <3>4
  <2> QED
    BY <2>2, <2>3
<1>4. Comes(row[Len(s)], s, S, Len(s)) /\ Stays(row[Len(s)], s, S, Len(s))
  <2>1. Nat \subseteq T
    <3> HIDE DEF T
    <3> QED
      BY <1>2, <1>3, SetInduction
  <2>2. Len(s) \in Nat /\ Len(s) \in 0..Len(s)
    OBVIOUS
  <2> QED
    BY <2>1, <2>2
<1>5. row[Len(s)] \in Seq(E)
  OBVIOUS
<1>6. ToSet(row[Len(s)]) = ToSet(s) \cap S
  <2>1. ASSUME NEW x \in ToSet(row[Len(s)])
        PROVE  x \in ToSet(s) \cap S
    <3>1. PICK j \in 1..Len(row[Len(s)]) : x = row[Len(s)][j]
      BY <1>5 DEF ToSet
    <3> QED
      BY <1>4, <3>1 DEF ToSet, Comes
  <2>2. ASSUME NEW x \in ToSet(s) \cap S
        PROVE  x \in ToSet(row[Len(s)])
    <3>1. PICK i \in 1..Len(s) : x = s[i]
      BY DEF ToSet
    <3>2. PICK k \in 1..Len(row[Len(s)]) : row[Len(s)][k] = s[i]
      BY <1>4, <3>1 DEF Stays
    <3> QED
      BY <1>5, <3>1, <3>2 DEF ToSet
  <2> QED
    BY <2>1, <2>2
<1>7. Only(s, S) = row[Len(s)]
  BY <1>1
<1> QED
  BY <1>4, <1>5, <1>6, <1>7

\* `Ends' has an element for each pair that ends there.
LEMMA EndsType ==
  ASSUME NEW E, NEW pairs \in Seq(E), NEW here, NEW a, NEW there
  PROVE  /\ Ends(pairs, here, a, there) \in Seq(ToSet(Ends(pairs, here, a, there)))
         /\ ToSet(Ends(pairs, here, a, there)) =
              {p[there] : p \in {q \in ToSet(pairs) : q[here] = a}}
<1> DEFINE S == {p \in ToSet(pairs) : p[here] = a}
           matching == Only(pairs, S)
<1>1. matching \in Seq(E) /\ ToSet(matching) = S
  BY OnlyKeeps
<1>2. Ends(pairs, here, a, there) = [i \in DOMAIN matching |-> matching[i][there]]
  BY DEF Ends
<1> HIDE DEF matching
<1>3. DOMAIN matching = 1..Len(matching) /\ Len(matching) \in Nat
  BY <1>1
<1>4. ToSet(Ends(pairs, here, a, there)) = {p[there] : p \in S}
  BY <1>1, <1>2 DEF ToSet
<1>5. Ends(pairs, here, a, there) \in [1..Len(matching) -> ToSet(Ends(pairs, here, a, there))]
  BY <1>2, <1>3 DEF ToSet
<1>6. Ends(pairs, here, a, there) \in Seq(ToSet(Ends(pairs, here, a, there)))
  BY <1>3, <1>5
<1> QED
  BY <1>4, <1>6

-----------------------------------------------------------------------------
(* Walks.                                                                  *)

\* Activities with a distance, the records of a walk, and what may lead from where.
Pairs(A) == A \X Nat
Walks(A) == [line : Seq(Pairs(A)), todo : Seq(Pairs(A))]
Ways(A)  == [A -> Seq(A \X {1, 2})]

\* The pairs that a pair leads to.
Led(steps, v) ==
  {<<steps[v[1]][i][1], v[2] + steps[v[1]][i][2]>> : i \in DOMAIN steps[v[1]]}

\* What is next is farther away.
LEMMA LedType ==
  ASSUME NEW A, NEW steps \in Ways(A), NEW v \in Pairs(A)
  PROVE  /\ Led(steps, v) \subseteq Pairs(A)
         /\ \A c \in Led(steps, v) : v[2] < c[2] /\ c[2] <= v[2] + 2
<1> SUFFICES ASSUME NEW c \in Led(steps, v)
             PROVE  c \in Pairs(A) /\ v[2] < c[2] /\ c[2] <= v[2] + 2
  OBVIOUS
<1>1. steps[v[1]] \in Seq(A \X {1, 2}) /\ v[1] \in A /\ v[2] \in Nat
  BY DEF Pairs, Ways
<1>2. PICK i \in DOMAIN steps[v[1]] :
        c = <<steps[v[1]][i][1], v[2] + steps[v[1]][i][2]>>
  BY DEF Led
<1>3. steps[v[1]][i] \in A \X {1, 2}
  BY <1>1
<1>4. steps[v[1]][i][1] \in A /\ steps[v[1]][i][2] \in {1, 2}
  BY <1>3
<1>5. c[1] \in A /\ c[2] \in Nat /\ v[2] < c[2] /\ c[2] <= v[2] + 2 /\ c = <<c[1], c[2]>>
  BY <1>1, <1>2, <1>4
<1> QED
  BY <1>5 DEF Pairs

\* What a visit does, as far as the invariant below asks: `v' is visited, what it leads
\* to comes first, and what comes before a pair in the list came before it already or
\* is what `v' leads to.
Visited(steps, w, v, t) ==
  /\ t.line = Append(w.line, v)
  /\ \A j \in 1..Len(t.todo) :
       /\ t.todo[j][1] \notin Met(ToSet(t.line))
       /\ t.todo[j] \in Led(steps, v) \cup ToSet(w.todo)
  /\ \A c \in Led(steps, v) : c[1] \notin Met(ToSet(t.line)) =>
       \E k \in 1..Len(t.todo) :
          t.todo[k] = c /\ \A j \in 1..k : t.todo[j] \in Led(steps, v)
  /\ \A i \in 1..Len(w.todo) : w.todo[i][1] \notin Met(ToSet(t.line)) =>
       \E k \in 1..Len(t.todo) :
          /\ t.todo[k] = w.todo[i]
          /\ \A j \in 1..k : \/ t.todo[j] \in Led(steps, v)
                             \/ \E h \in 1..i : t.todo[j] = w.todo[h]

\* A visit does that.
LEMMA VisitVisits ==
  ASSUME NEW A, NEW steps \in Ways(A), NEW w \in Walks(A), w.todo # <<>>
  PROVE  /\ Visit(steps, w) \in Walks(A)
         /\ Visited(steps, w, Head(w.todo), Visit(steps, w))
         /\ w.todo[1] = Head(w.todo) /\ Head(w.todo) \in Pairs(A) /\ 1 \in 1..Len(w.todo)
<1> DEFINE v    == Head(w.todo)
           line == Append(w.line, v)
           next == [i \in DOMAIN steps[v[1]] |->
                      <<steps[v[1]][i][1], v[2] + steps[v[1]][i][2]>>]
           rest == next \o Tail(w.todo)
           S    == {x \in ToSet(rest) : x[1] \notin Met(ToSet(line))}
           todo == Only(rest, S)
<1>1. w.line \in Seq(Pairs(A)) /\ w.todo \in Seq(Pairs(A))
  BY DEF Walks
<1>2. v \in Pairs(A) /\ Tail(w.todo) \in Seq(Pairs(A)) /\ w.todo[1] = v /\ 1 \in 1..Len(w.todo)
  BY <1>1
<1>3. line \in Seq(Pairs(A))
  BY <1>1, <1>2
<1>4. /\ next \in Seq(Pairs(A))
      /\ \A i \in 1..Len(next) : next[i] \in Led(steps, v)
      /\ \A c \in Led(steps, v) : \E i \in 1..Len(next) : next[i] = c
  <2>1. steps[v[1]] \in Seq(A \X {1, 2})
    BY <1>2 DEF Pairs, Ways
  <2>2. \A i \in DOMAIN steps[v[1]] : next[i] \in Led(steps, v)
    BY DEF Led
  <2>3. DOMAIN steps[v[1]] = 1..Len(steps[v[1]]) /\ Len(steps[v[1]]) \in Nat
    BY <2>1
  <2>4. Led(steps, v) \subseteq Pairs(A)
    BY <1>2, LedType
  <2>5. next \in [1..Len(steps[v[1]]) -> Pairs(A)]
    BY <2>2, <2>3, <2>4
  <2>6. next \in Seq(Pairs(A)) /\ Len(next) = Len(steps[v[1]])
    BY <2>3, <2>5
  <2>7. ASSUME NEW c \in Led(steps, v)
        PROVE  \E i \in 1..Len(next) : next[i] = c
    <3>1. PICK i \in DOMAIN steps[v[1]] :
            c = <<steps[v[1]][i][1], v[2] + steps[v[1]][i][2]>>
      BY DEF Led
    <3>2. next[i] = c
      BY <3>1
    <3> QED
      BY <2>3, <2>6, <3>2
  <2> QED
    BY <2>2, <2>3, <2>6, <2>7
<1> HIDE DEF next, v, line
<1>5. /\ rest \in Seq(Pairs(A))
      /\ Len(rest) = Len(next) + Len(Tail(w.todo))
      /\ \A i \in 1..Len(next) : i \in 1..Len(rest) /\ rest[i] = next[i]
      /\ \A i \in 1..Len(Tail(w.todo)) :
           Len(next) + i \in 1..Len(rest) /\ rest[Len(next) + i] = Tail(w.todo)[i]
  BY <1>2, <1>4
<1>6. /\ Len(Tail(w.todo)) = Len(w.todo) - 1 /\ Len(w.todo) \in Nat /\ Len(next) \in Nat
      /\ \A i \in 1..Len(Tail(w.todo)) : Tail(w.todo)[i] = w.todo[i + 1]
  BY <1>1, <1>4
<1>7. \A i \in 2..Len(w.todo) :
        Len(next) + (i - 1) \in 1..Len(rest) /\ rest[Len(next) + (i - 1)] = w.todo[i]
  BY <1>5, <1>6
<1>8. \A j \in 1..Len(rest) :
        \/ j \in 1..Len(next) /\ rest[j] \in Led(steps, v)
        \/ \E h \in 2..Len(w.todo) : j = Len(next) + (h - 1) /\ rest[j] = w.todo[h]
  <2> SUFFICES ASSUME NEW j \in 1..Len(rest)
               PROVE  \/ j \in 1..Len(next) /\ rest[j] \in Led(steps, v)
                      \/ \E h \in 2..Len(w.todo) : j = Len(next) + (h - 1) /\ rest[j] = w.todo[h]
    OBVIOUS
  <2>1. CASE j <= Len(next)
    BY <1>4, <1>5, <2>1
  <2>2. CASE j > Len(next)
    <3>1. (j - Len(next)) + 1 \in 2..Len(w.todo)
      BY <1>5, <1>6, <2>2
    <3>2. j = Len(next) + (((j - Len(next)) + 1) - 1)
      BY <1>6
    <3> QED
      BY <1>7, <3>1, <3>2
  <2> QED
    BY <1>6, <2>1, <2>2
<1> HIDE DEF rest
<1>9. todo \in Seq(Pairs(A)) /\ ToSet(todo) = ToSet(rest) \cap S /\ Stays(todo, rest, S, Len(rest))
  BY <1>5, OnlyKeeps
<1>10. Visit(steps, w) = [line |-> line, todo |-> todo]
  BY DEF Visit, v, line, next, rest
<1> HIDE DEF todo
<1>11. \A i \in 1..Len(rest) : rest[i][1] \notin Met(ToSet(line)) =>
         \E k \in 1..Len(todo) :
            todo[k] = rest[i] /\ \A j \in 1..k : \E h \in 1..i : todo[j] = rest[h]
  <2> SUFFICES ASSUME NEW i \in 1..Len(rest), rest[i][1] \notin Met(ToSet(line))
               PROVE  \E k \in 1..Len(todo) :
                         todo[k] = rest[i] /\ \A j \in 1..k : \E h \in 1..i : todo[j] = rest[h]
    OBVIOUS
  <2>1. rest[i] \in S
    BY <1>5 DEF ToSet
  <2> QED
    BY <1>9, <2>1 DEF Stays
<1>12. ASSUME NEW j \in 1..Len(todo)
       PROVE  todo[j][1] \notin Met(ToSet(line)) /\ todo[j] \in Led(steps, v) \cup ToSet(w.todo)
  <2>1. todo[j] \in ToSet(todo)
    BY <1>9 DEF ToSet
  <2>2. todo[j] \in S
    BY <1>9, <2>1
  <2>3. PICK i \in 1..Len(rest) : todo[j] = rest[i]
    BY <1>5, <2>2 DEF ToSet
  <2>4. \A h \in 2..Len(w.todo) : w.todo[h] \in ToSet(w.todo)
    BY <1>1 DEF ToSet
  <2> QED
    BY <1>8, <2>2, <2>3, <2>4
<1>13. ASSUME NEW c \in Led(steps, v), c[1] \notin Met(ToSet(line))
       PROVE  \E k \in 1..Len(todo) :
                 todo[k] = c /\ \A j \in 1..k : todo[j] \in Led(steps, v)
  <2>1. PICK i \in 1..Len(next) : next[i] = c
    BY <1>4
  <2>2. i \in 1..Len(rest) /\ rest[i] = c
    BY <1>5, <2>1
  <2>3. PICK k \in 1..Len(todo) :
          todo[k] = rest[i] /\ \A j \in 1..k : \E h \in 1..i : todo[j] = rest[h]
    BY <1>11, <1>13, <2>2
  <2>4. \A h \in 1..i : rest[h] \in Led(steps, v)
    BY <1>4, <1>5, <1>6
  <2> QED
    BY <2>2, <2>3, <2>4
<1>14. ASSUME NEW i \in 1..Len(w.todo), w.todo[i][1] \notin Met(ToSet(line))
       PROVE  \E k \in 1..Len(todo) :
                 /\ todo[k] = w.todo[i]
                 /\ \A j \in 1..k : \/ todo[j] \in Led(steps, v)
                                    \/ \E h \in 1..i : todo[j] = w.todo[h]
  <2>1. v[1] \in Met(ToSet(line))
    <3>1. line = Append(w.line, v)
      BY DEF line
    <3>2. Len(line) \in DOMAIN line /\ line[Len(line)] = v
      BY <1>1, <1>2, <3>1
    <3> QED
      BY <3>2 DEF Met, ToSet
  <2>2. i \in 2..Len(w.todo)
    BY <1>2, <1>6, <1>14, <2>1
  <2>3. Len(next) + (i - 1) \in 1..Len(rest) /\ rest[Len(next) + (i - 1)] = w.todo[i]
    BY <1>7, <2>2
  <2>4. PICK k \in 1..Len(todo) :
          /\ todo[k] = rest[Len(next) + (i - 1)]
          /\ \A j \in 1..k : \E h \in 1..(Len(next) + (i - 1)) : todo[j] = rest[h]
    BY <1>11, <1>14, <2>3
  <2>5. ASSUME NEW j \in 1..k
        PROVE  todo[j] \in Led(steps, v) \/ \E h \in 1..i : todo[j] = w.todo[h]
    <3>1. PICK h \in 1..(Len(next) + (i - 1)) : todo[j] = rest[h]
      BY <2>4
    <3>2. h \in 1..Len(rest)
      BY <1>6, <2>3
    <3>3. CASE rest[h] \in Led(steps, v)
      BY <3>1, <3>3
    <3>4. ASSUME NEW m \in 2..Len(w.todo), h = Len(next) + (m - 1), rest[h] = w.todo[m]
          PROVE  \E x \in 1..i : todo[j] = w.todo[x]
      <4>1. m \in 1..i
        BY <1>6, <3>4
      <4> QED
        BY <3>1, <3>4, <4>1
    <3> QED
      BY <1>8, <3>2, <3>3, <3>4
  <2> QED
    BY <2>3, <2>4, <2>5
<1>15. Visit(steps, w).line = line /\ Visit(steps, w).todo = todo
  BY <1>10
<1>16. Visit(steps, w) \in Walks(A)
  BY <1>3, <1>9, <1>10 DEF Walks
<1>17. Visited(steps, w, v, Visit(steps, w))
  <2>1. line = Append(w.line, v)
    BY DEF line
  <2>2. PICK t \in {Visit(steps, w)} : t.line = line /\ t.todo = todo
    BY <1>15
  <2>3. \A j \in 1..Len(t.todo) :
          /\ t.todo[j][1] \notin Met(ToSet(t.line))
          /\ t.todo[j] \in Led(steps, v) \cup ToSet(w.todo)
    BY <1>12, <2>2
  <2>4. \A c \in Led(steps, v) : c[1] \notin Met(ToSet(t.line)) =>
          \E k \in 1..Len(t.todo) :
             t.todo[k] = c /\ \A j \in 1..k : t.todo[j] \in Led(steps, v)
    BY <1>13, <2>2
  <2>5. \A i \in 1..Len(w.todo) : w.todo[i][1] \notin Met(ToSet(t.line)) =>
          \E k \in 1..Len(t.todo) :
             /\ t.todo[k] = w.todo[i]
             /\ \A j \in 1..k : \/ t.todo[j] \in Led(steps, v)
                                \/ \E h \in 1..i : t.todo[j] = w.todo[h]
    BY <1>14, <2>2
  <2>6. Visited(steps, w, v, t)
    BY <2>1, <2>2, <2>3, <2>4, <2>5 DEF Visited
  <2> QED
    BY <2>6
<1> QED
  BY <1>2, <1>16, <1>17 DEF v

\* The activities that `steps' leads to from `x'.
Kids(steps, x) == {steps[x][i][1] : i \in DOMAIN steps[x]}

\* No circle of activities is equally far away: of any set, one leads to no other that
\* is as far as itself.
NoLevelCircle(steps, pairs) ==
  \A S \in (SUBSET Met(pairs)) \ {{}} :
    \E v \in pairs :
      /\ v[1] \in S
      /\ \A u \in pairs : u[1] \in S \cap Kids(steps, v[1]) /\ u[2] = v[2] => u[1] = v[1]

\* The invariant of a walk, after `n' visits.
MetOnce(w)      == \A i, j \in 1..Len(w.line) : w.line[i][1] = w.line[j][1] => i = j
TodoIsNew(w)    == \A j \in 1..Len(w.todo) : w.todo[j][1] \notin Met(ToSet(w.line))
Begins(w, a, n) == IF n = 0 THEN w.line = <<>> /\ w.todo = <<<<a, 0>>>>
                            ELSE w.line # <<>> /\ w.line[1] = <<a, 0>>
Expects(w, v, b) ==
  \/ b \in Met(ToSet(w.line))
  \/ \E i \in 1..Len(w.todo) : w.todo[i][1] = b /\ \A j \in 1..i : v[2] < w.todo[j][2]
KidsCome(w, steps) == \A v \in ToSet(w.line) : \A b \in Kids(steps, v[1]) : Expects(w, v, b)
Near(w, n) == \A v \in ToSet(w.line) \cup ToSet(w.todo) : v[2] <= 2 * n

\* All of it.
WalkInv(w, steps, a, n) ==
  /\ MetOnce(w)
  /\ TodoIsNew(w)
  /\ w.todo # <<>> => Len(w.line) = n
  /\ Begins(w, a, n)
  /\ KidsCome(w, steps)
  /\ NoLevelCircle(steps, ToSet(w.line))
  /\ Near(w, n)

\* A pair leads to a pair for each activity that it leads to.
LEMMA KidIsLed ==
  ASSUME NEW steps, NEW v, NEW b \in Kids(steps, v[1])
  PROVE  \E c \in Led(steps, v) : c[1] = b
<1>1. PICK i \in DOMAIN steps[v[1]] : b = steps[v[1]][i][1]
  BY DEF Kids
<1> DEFINE c == <<steps[v[1]][i][1], v[2] + steps[v[1]][i][2]>>
<1>2. c \in Led(steps, v)
  BY DEF Led
<1>3. c[1] = b
  BY <1>1
<1> QED
  BY <1>2, <1>3

\* The invariant holds before the first visit.
LEMMA WalkInvInit ==
  ASSUME NEW steps, NEW a
  PROVE  WalkInv([line |-> <<>>, todo |-> <<<<a, 0>>>>], steps, a, 0)
<1> DEFINE w == [line |-> <<>>, todo |-> <<<<a, 0>>>>]
<1>1. w.line = <<>> /\ w.todo = <<<<a, 0>>>> /\ ToSet(w.line) = {}
      /\ Met(ToSet(w.line)) = {} /\ Len(w.line) = 0
  BY DEF ToSet, Met
<1>2. ToSet(w.todo) = {<<a, 0>>}
  BY <1>1 DEF ToSet
<1> HIDE DEF w
<1>3. MetOnce(w) /\ TodoIsNew(w) /\ Begins(w, a, 0) /\ KidsCome(w, steps)
  BY <1>1 DEF MetOnce, TodoIsNew, Begins, KidsCome
<1>4. NoLevelCircle(steps, ToSet(w.line))
  BY <1>1 DEF NoLevelCircle
<1>5. Near(w, 0)
  BY <1>1, <1>2 DEF Near
<1>6. WalkInv(w, steps, a, 0)
  BY <1>1, <1>3, <1>4, <1>5 DEF WalkInv
<1> QED
  BY <1>6 DEF w

\* A visit keeps the invariant: what is visited next is nearer than all that comes
\* after what led to it, so that it is farther than that.
LEMMA WalkInvStep ==
  ASSUME NEW A, NEW steps \in Ways(A), NEW a \in A, NEW w \in Walks(A),
         NEW n \in Nat, WalkInv(w, steps, a, n)
  PROVE  WalkInv(Visit(steps, w), steps, a, n + 1)
<1>1. CASE w.todo = <<>>
  <2>1. Visit(steps, w) = w
    BY <1>1 DEF Visit
  <2>2. n # 0
    BY <1>1 DEF WalkInv, Begins
  <2>3. Begins(w, a, n + 1)
    BY <2>2 DEF WalkInv, Begins
  <2>4. Near(w, n + 1)
    <3> SUFFICES ASSUME NEW v \in ToSet(w.line) \cup ToSet(w.todo)
                 PROVE  v[2] <= 2 * (n + 1)
      BY DEF Near
    <3>1. v \in Pairs(A)
      BY DEF Walks, ToSet
    <3>2. v[2] <= 2 * n /\ v[2] \in Nat
      BY <3>1 DEF WalkInv, Near, Pairs
    <3> QED
      BY <3>2
  <2>5. WalkInv(w, steps, a, n + 1)
    BY <1>1, <2>3, <2>4 DEF WalkInv
  <2> QED
    BY <2>1, <2>5
<1>2. CASE w.todo # <<>>
  <2> DEFINE v == Head(w.todo)
  <2>1. PICK t \in Walks(A) :
          /\ t = Visit(steps, w) /\ Visited(steps, w, v, t)
          /\ w.todo[1] = v /\ v \in Pairs(A) /\ 1 \in 1..Len(w.todo)
    BY <1>2, VisitVisits
  <2> HIDE DEF v
  <2>2. /\ w.line \in Seq(Pairs(A)) /\ w.todo \in Seq(Pairs(A))
        /\ t.line \in Seq(Pairs(A)) /\ t.todo \in Seq(Pairs(A))
    BY DEF Walks
  <2>3. /\ Len(w.line) \in Nat /\ Len(t.line) = Len(w.line) + 1
        /\ t.line[Len(w.line) + 1] = v
        /\ \A i \in 1..Len(w.line) : t.line[i] = w.line[i]
    BY <2>1, <2>2 DEF Visited
  <2>4. ToSet(t.line) = ToSet(w.line) \cup {v}
    <3>1. DOMAIN t.line = 1..(Len(w.line) + 1) /\ DOMAIN w.line = 1..Len(w.line)
      BY <2>2, <2>3
    <3>2. \A x \in ToSet(t.line) : x \in ToSet(w.line) \cup {v}
      BY <2>3, <3>1 DEF ToSet
    <3>3. \A x \in ToSet(w.line) \cup {v} : x \in ToSet(t.line)
      BY <2>3, <3>1 DEF ToSet
    <3> QED
      BY <3>2, <3>3
  <2>5. Met(ToSet(t.line)) = Met(ToSet(w.line)) \cup {v[1]}
    BY <2>4 DEF Met
  <2>6. v[1] \notin Met(ToSet(w.line)) /\ v[1] \in A /\ v[2] \in Nat
    BY <2>1 DEF WalkInv, TodoIsNew, Pairs
  <2>7. /\ Led(steps, v) \subseteq Pairs(A)
        /\ \A c \in Led(steps, v) : v[2] < c[2] /\ c[2] <= v[2] + 2
    BY <2>1, LedType
  <2>8. Len(w.line) = n
    BY <1>2 DEF WalkInv
  <2>9. /\ ToSet(w.line) \subseteq Pairs(A) /\ ToSet(w.todo) \subseteq Pairs(A)
        /\ ToSet(t.line) \subseteq Pairs(A) /\ ToSet(t.todo) \subseteq Pairs(A)
    BY <2>2 DEF ToSet
  <2>10. MetOnce(t)
    <3> SUFFICES ASSUME NEW i \in 1..(Len(w.line) + 1), NEW j \in 1..(Len(w.line) + 1),
                        t.line[i][1] = t.line[j][1]
                 PROVE  i = j
      BY <2>3 DEF MetOnce
    <3>1. \A k \in 1..Len(w.line) : w.line[k][1] # v[1]
      <4>1. \A k \in 1..Len(w.line) : w.line[k] \in ToSet(w.line)
        BY <2>2 DEF ToSet
      <4> QED
        BY <2>6, <4>1 DEF Met
    <3>2. CASE i \in 1..Len(w.line) /\ j \in 1..Len(w.line)
      BY <2>3, <3>2 DEF WalkInv, MetOnce
    <3>3. CASE i \in 1..Len(w.line) /\ j = Len(w.line) + 1
      BY <2>3, <3>1, <3>3
    <3>4. CASE i = Len(w.line) + 1 /\ j \in 1..Len(w.line)
      BY <2>3, <3>1, <3>4
    <3> QED
      BY <2>3, <3>2, <3>3, <3>4
  <2>11. TodoIsNew(t)
    BY <2>1 DEF Visited, TodoIsNew
  <2>12. Len(t.line) = n + 1
    BY <2>3, <2>8
  <2>13. Begins(t, a, n + 1)
    <3>1. t.line # <<>> /\ n + 1 # 0
      BY <2>12
    <3>2. CASE n = 0
      BY <2>1, <2>3, <2>8, <3>1, <3>2 DEF WalkInv, Begins
    <3>3. CASE n # 0
      <4>1. 1 \in 1..Len(w.line)
        BY <2>8, <3>3
      <4> QED
        BY <2>3, <3>1, <3>3, <4>1 DEF WalkInv, Begins
    <3> QED
      BY <3>2, <3>3
  <2>14. KidsCome(t, steps)
    <3> SUFFICES ASSUME NEW u \in ToSet(t.line), NEW b \in Kids(steps, u[1]),
                        b \notin Met(ToSet(t.line))
                 PROVE  \E i \in 1..Len(t.todo) :
                           t.todo[i][1] = b /\ \A j \in 1..i : u[2] < t.todo[j][2]
      BY DEF KidsCome, Expects
    <3>1. CASE u = v
      <4>1. PICK c \in Led(steps, v) : c[1] = b
        BY <3>1, KidIsLed
      <4>2. PICK k \in 1..Len(t.todo) :
              t.todo[k] = c /\ \A j \in 1..k : t.todo[j] \in Led(steps, v)
        BY <2>1, <4>1 DEF Visited
      <4> QED
        BY <2>7, <3>1, <4>1, <4>2
    <3>2. CASE u # v
      <4>1. u \in ToSet(w.line)
        BY <2>4, <3>2
      <4>2. b \notin Met(ToSet(w.line)) /\ b # v[1]
        BY <2>5
      <4>3. PICK i \in 1..Len(w.todo) :
              w.todo[i][1] = b /\ \A j \in 1..i : u[2] < w.todo[j][2]
        BY <4>1, <4>2 DEF WalkInv, KidsCome, Expects
      <4>4. PICK k \in 1..Len(t.todo) :
              /\ t.todo[k] = w.todo[i]
              /\ \A j \in 1..k : \/ t.todo[j] \in Led(steps, v)
                                 \/ \E h \in 1..i : t.todo[j] = w.todo[h]
        BY <2>1, <4>3 DEF Visited
      <4>5. u[2] < v[2] /\ u[2] \in Nat
        <5>1. 1 \in 1..i
          BY <4>3
        <5>2. u \in Pairs(A)
          BY <2>9
        <5> QED
          BY <2>1, <4>3, <5>1, <5>2 DEF Pairs
      <4>6. ASSUME NEW j \in 1..k
            PROVE  u[2] < t.todo[j][2]
        <5>1. CASE t.todo[j] \in Led(steps, v)
          <6>1. v[2] < t.todo[j][2] /\ t.todo[j] \in Pairs(A)
            BY <2>7, <5>1
          <6>2. t.todo[j][2] \in Nat
            BY <6>1 DEF Pairs
          <6> QED
            BY <2>6, <4>5, <6>1, <6>2
        <5>2. CASE \E h \in 1..i : t.todo[j] = w.todo[h]
          BY <4>3, <5>2
        <5> QED
          BY <4>4, <5>1, <5>2
      <4> QED
        BY <4>3, <4>4, <4>6
    <3> QED
      BY <3>1, <3>2
  <2>15. NoLevelCircle(steps, ToSet(t.line))
    <3> SUFFICES ASSUME NEW S \in (SUBSET Met(ToSet(t.line))) \ {{}}
                 PROVE  \E x \in ToSet(t.line) :
                          /\ x[1] \in S
                          /\ \A u \in ToSet(t.line) :
                               u[1] \in S \cap Kids(steps, x[1]) /\ u[2] = x[2] => u[1] = x[1]
      BY DEF NoLevelCircle
    <3> DEFINE R == S \ {v[1]}
    <3>1. CASE R = {}
      <4>1. S = {v[1]}
        BY <3>1
      <4> QED
        BY <2>4, <4>1
    <3>2. CASE R # {}
      <4>1. R \in (SUBSET Met(ToSet(w.line))) \ {{}}
        BY <2>5, <3>2
      <4>2. PICK x \in ToSet(w.line) :
              /\ x[1] \in R
              /\ \A u \in ToSet(w.line) :
                   u[1] \in R \cap Kids(steps, x[1]) /\ u[2] = x[2] => u[1] = x[1]
        BY <4>1 DEF WalkInv, NoLevelCircle
      <4>3. ASSUME v[1] \in Kids(steps, x[1])
            PROVE  v[2] # x[2]
        <5>1. PICK i \in 1..Len(w.todo) :
                w.todo[i][1] = v[1] /\ \A j \in 1..i : x[2] < w.todo[j][2]
          BY <2>6, <4>3 DEF WalkInv, KidsCome, Expects
        <5>2. 1 \in 1..i
          BY <5>1
        <5>3. x[2] < v[2]
          BY <2>1, <5>1, <5>2
        <5>4. x[2] \in Nat
          BY <2>9 DEF Pairs
        <5> QED
          BY <2>6, <5>3, <5>4
      <4>4. ASSUME NEW u \in ToSet(t.line),
                   u[1] \in S \cap Kids(steps, x[1]), u[2] = x[2]
            PROVE  u[1] = x[1]
        <5>1. CASE u = v
          BY <4>3, <4>4, <5>1
        <5>2. CASE u # v
          <6>1. u \in ToSet(w.line)
            BY <2>4, <5>2
          <6>2. u[1] # v[1]
            BY <2>6, <6>1 DEF Met
          <6> QED
            BY <4>2, <4>4, <6>1, <6>2
        <5> QED
          BY <5>1, <5>2
      <4> QED
        BY <2>4, <4>2, <4>4
    <3> QED
      BY <3>1, <3>2
  <2>16. Near(t, n + 1)
    <3> SUFFICES ASSUME NEW u \in ToSet(t.line) \cup ToSet(t.todo)
                 PROVE  u[2] <= 2 * (n + 1)
      BY DEF Near
    <3>1. \A x \in ToSet(w.line) \cup ToSet(w.todo) : x[2] \in Nat /\ x[2] <= 2 * n
      BY <2>9 DEF WalkInv, Near, Pairs
    <3>2. v \in ToSet(w.todo)
      BY <2>1, <2>2 DEF ToSet
    <3>3. v[2] <= 2 * n
      BY <3>1, <3>2
    <3>4. u[2] \in Nat
      BY <2>9 DEF Pairs
    <3>5. CASE u \in ToSet(w.line) \cup ToSet(w.todo)
      <4>1. u[2] <= 2 * n
        BY <3>1, <3>5
      <4> QED
        BY <3>4, <4>1
    <3>6. CASE u \in Led(steps, v)
      <4>1. u[2] <= v[2] + 2
        BY <2>7, <3>6
      <4> QED
        BY <2>6, <3>3, <3>4, <4>1
    <3>7. u \in ToSet(w.line) \cup ToSet(w.todo) \cup Led(steps, v)
      <4>1. CASE u \in ToSet(t.line)
        BY <2>4, <3>2, <4>1
      <4>2. CASE u \in ToSet(t.todo)
        <5>1. PICK j \in 1..Len(t.todo) : u = t.todo[j]
          BY <2>2, <4>2 DEF ToSet
        <5> QED
          BY <2>1, <5>1 DEF Visited
      <4> QED
        BY <4>1, <4>2
    <3> QED
      BY <3>5, <3>6, <3>7
  <2>17. WalkInv(t, steps, a, n + 1)
    BY <2>10, <2>11, <2>12, <2>13, <2>14, <2>15, <2>16 DEF WalkInv
  <2> QED
    BY <2>1, <2>17
<1> QED
  BY <1>1, <1>2

\* A walk as a row of records, one for each number of visits.
Walking(row, steps, a, N) ==
  /\ row[0] = [line |-> <<>>, todo |-> <<<<a, 0>>>>]
  /\ \A n \in 1..N : row[n] = Visit(steps, row[n - 1])

\* `Walk' is the last line of such a row.
LEMMA WalkRow ==
  ASSUME NEW A, IsFiniteSet(A), NEW steps \in Ways(A), NEW a \in A
  PROVE  \E row \in [0..Cardinality(A) -> Walks(A)] :
           Walk(steps, a) = row[Cardinality(A)].line /\ Walking(row, steps, a, Cardinality(A))
<1>1. PICK N \in Nat : N = Cardinality(A)
  BY FS_CardinalityType
<1>2. DOMAIN steps = A
  BY DEF Ways
<1> DEFINE x0   == [line |-> <<>>, todo |-> <<<<a, 0>>>>]
           step == [n \in 1..N |-> [w \in Walks(A) |-> Visit(steps, w)]]
           body(f) == [n \in 0..N |-> IF n = 0 THEN x0 ELSE Visit(steps, f[n - 1])]
           Is(f) == f = body(f)
           walk == CHOOSE f : Is(f)
<1>3. x0 \in Walks(A)
  <2>1. <<a, 0>> \in Pairs(A)
    BY DEF Pairs
  <2>2. <<>> \in Seq(Pairs(A)) /\ <<<<a, 0>>>> \in Seq(Pairs(A))
    BY <2>1
  <2> QED
    BY <2>2 DEF Walks
<1>4. \A w \in Walks(A) : Visit(steps, w) \in Walks(A)
  <2> SUFFICES ASSUME NEW w \in Walks(A)
               PROVE  Visit(steps, w) \in Walks(A)
    OBVIOUS
  <2>1. CASE w.todo = <<>>
    BY <2>1 DEF Visit
  <2>2. CASE w.todo # <<>>
    BY <2>2, VisitVisits
  <2> QED
    BY <2>1, <2>2
<1>5. step \in [1..N -> [Walks(A) -> Walks(A)]]
  BY <1>4
<1> HIDE DEF x0
<1>6. PICK f \in [0..N -> Walks(A)] : Iterates(f, x0, step, N)
  <2> HIDE DEF step
  <2> QED
    BY <1>3, <1>5, IterationExists
<1>7. Is(f)
  <2>1. f = [n \in 0..N |-> IF n = 0 THEN x0 ELSE step[n][f[n - 1]]]
    BY <1>6 DEF Iterates
  <2>2. ASSUME NEW n \in 0..N, n # 0
        PROVE  step[n][f[n - 1]] = Visit(steps, f[n - 1])
    <3>1. n \in 1..N /\ f[n - 1] \in Walks(A)
      BY <2>2
    <3> QED
      BY <3>1
  <2> HIDE DEF step
  <2> QED
    BY <2>1, <2>2
<1>8. Is(walk)
  <2> HIDE DEF Is
  <2> QED
    BY <1>7
<1>9. Walk(steps, a) = walk[N].line
  BY <1>1, <1>2 DEF Walk, x0
<1>10. ASSUME NEW h, Is(h)
       PROVE  h[0] = x0 /\ \A n \in 1..N : h[n] = Visit(steps, h[n - 1])
  <2>1. body(h)[0] = x0
    OBVIOUS
  <2>2. ASSUME NEW n \in 1..N
        PROVE  body(h)[n] = Visit(steps, h[n - 1])
    OBVIOUS
  <2>3. h = body(h)
    BY <1>10
  <2> HIDE DEF body
  <2> QED
    BY <2>1, <2>2, <2>3
<1>11. f = walk
  <2> HIDE DEF walk, Is
  <2>1. f[0] = walk[0]
    BY <1>7, <1>8, <1>10
  <2>2. ASSUME NEW n \in 1..N, f[n - 1] = walk[n - 1]
        PROVE  f[n] = walk[n]
    <3>1. f[n] = Visit(steps, f[n - 1])
      BY <1>7, <1>10
    <3>2. walk[n] = Visit(steps, walk[n - 1])
      BY <1>8, <1>10
    <3> QED
      BY <2>2, <3>1, <3>2
  <2>3. \A n \in 0..N : f[n] = walk[n]
    <3>1. \A n \in 1..N : f[n - 1] = walk[n - 1] => f[n] = walk[n]
      BY <2>2
    <3> QED
      BY <2>1, <3>1, IterationIsUnique, ZenonT(40)
  <2> QED
    BY <2>3, <1>7, <1>8 DEF Is
<1> HIDE DEF walk, Is
<1>12. Walking(f, steps, a, N)
  BY <1>7, <1>10 DEF Walking, x0
<1> QED
  BY <1>1, <1>9, <1>11, <1>12

\* What a walk is in the end: it begins at `a', visits nothing twice, visits all that
\* it is led to, and meets no circle of activities that are equally far away.
Explored(line, steps, a) ==
  /\ line # <<>> /\ line[1] = <<a, 0>>
  /\ \A i, j \in 1..Len(line) : line[i][1] = line[j][1] => i = j
  /\ \A v \in ToSet(line) : Kids(steps, v[1]) \subseteq Met(ToSet(line))
  /\ NoLevelCircle(steps, ToSet(line))

\* A walk of as many visits as there are activities has nothing left to do.
LEMMA WalkExplores ==
  ASSUME NEW A, IsFiniteSet(A), NEW steps \in Ways(A), NEW a \in A
  PROVE  /\ Walk(steps, a) \in Seq(Pairs(A))
         /\ Explored(Walk(steps, a), steps, a)
         /\ \A v \in ToSet(Walk(steps, a)) : v[2] <= 2 * Cardinality(A)
<1>1. PICK N \in Nat : N = Cardinality(A)
  BY FS_CardinalityType
<1>2. PICK row \in [0..N -> Walks(A)] :
        Walk(steps, a) = row[N].line /\ Walking(row, steps, a, N)
  BY <1>1, WalkRow
<1> DEFINE T == {n \in Nat : n \in 0..N => WalkInv(row[n], steps, a, n)}
<1>3. 0 \in T
  BY <1>2, WalkInvInit DEF Walking
<1>4. ASSUME NEW n \in Nat, n \in T
      PROVE  n + 1 \in T
  <2> SUFFICES ASSUME n + 1 \in 0..N
               PROVE  WalkInv(row[n + 1], steps, a, n + 1)
    OBVIOUS
  <2>1. row[n] \in Walks(A) /\ WalkInv(row[n], steps, a, n)
    BY <1>4
  <2>2. row[n + 1] = Visit(steps, row[n])
    BY <1>2, n + 1 \in 1..N, (n + 1) - 1 = n DEF Walking
  <2> QED
    BY <2>1, <2>2, WalkInvStep
<1>5. WalkInv(row[N], steps, a, N)
  <2>1. Nat \subseteq T
    <3> HIDE DEF T
    <3> QED
      BY <1>3, <1>4, SetInduction
  <2> QED
    BY <2>1
<1>6. PICK w \in Walks(A) : w = row[N] /\ WalkInv(w, steps, a, N) /\ Walk(steps, a) = w.line
  BY <1>2, <1>5
<1>7. /\ w.line \in Seq(Pairs(A)) /\ w.todo \in Seq(Pairs(A))
      /\ \A i \in 1..Len(w.line) : w.line[i] \in Pairs(A) /\ w.line[i] \in ToSet(w.line)
      /\ \A i \in 1..Len(w.todo) : w.todo[i] \in Pairs(A)
  BY DEF Walks, ToSet
<1>8. w.todo = <<>>
  <2> SUFFICES ASSUME w.todo # <<>>
               PROVE  FALSE
    OBVIOUS
  <2>1. Len(w.line) = N /\ 1 \in 1..Len(w.todo)
    BY <1>6, <1>7 DEF WalkInv
  <2> DEFINE f == [i \in 1..(N + 1) |-> IF i = N + 1 THEN w.todo[1][1] ELSE w.line[i][1]]
  <2>2. f \in [1..(N + 1) -> A]
    <3>1. \A i \in 1..N : w.line[i][1] \in A
      BY <1>7, <2>1 DEF Pairs
    <3>2. w.todo[1][1] \in A
      BY <1>7, <2>1 DEF Pairs
    <3> QED
      BY <3>1, <3>2
  <2>3. IsFiniteSet(1..(N + 1)) /\ Cardinality(1..(N + 1)) = N + 1
    BY FS_Interval
  <2>4. \A i \in 1..N : w.line[i][1] # w.todo[1][1]
    BY <1>6, <1>7, <2>1 DEF WalkInv, TodoIsNew, Met
  <2>5. ASSUME NEW i \in 1..(N + 1), NEW j \in 1..(N + 1), f[i] = f[j]
        PROVE  i = j
    <3>1. CASE i = N + 1 /\ j # N + 1
      BY <2>4, <2>5, <3>1
    <3>2. CASE i # N + 1 /\ j = N + 1
      BY <2>4, <2>5, <3>2
    <3>3. CASE i # N + 1 /\ j # N + 1
      <4>1. i \in 1..N /\ j \in 1..N /\ w.line[i][1] = w.line[j][1]
        BY <2>5, <3>3
      <4> QED
        BY <1>6, <2>1, <4>1 DEF WalkInv, MetOnce
    <3> QED
      BY <3>1, <3>2, <3>3
  <2> HIDE DEF f
  <2>6. \E i, j \in 1..(N + 1) : i # j /\ f[i] = f[j]
    BY <1>1, <2>2, <2>3, FS_PigeonHole
  <2> QED
    BY <2>5, <2>6
<1>9. \A v \in ToSet(w.line) : Kids(steps, v[1]) \subseteq Met(ToSet(w.line))
  BY <1>6, <1>8 DEF WalkInv, KidsCome, Expects
<1>10. N # 0
  BY <1>1, FS_EmptySet
<1>11. Explored(w.line, steps, a)
  BY <1>6, <1>9, <1>10 DEF Explored, WalkInv, Begins, MetOnce
<1>12. \A v \in ToSet(w.line) : v[2] <= 2 * N
  BY <1>6 DEF WalkInv, Near
<1> QED
  BY <1>1, <1>6, <1>7, <1>11, <1>12

\* A walk stays within what its steps do not leave.
LEMMA WalkLies ==
  ASSUME NEW A, IsFiniteSet(A), NEW steps \in Ways(A), NEW a \in A,
         NEW P, <<a, 0>> \in P, \A v \in P \cap Pairs(A) : Led(steps, v) \subseteq P
  PROVE  ToSet(Walk(steps, a)) \subseteq P
<1>1. PICK N \in Nat : N = Cardinality(A)
  BY FS_CardinalityType
<1>2. PICK row \in [0..N -> Walks(A)] :
        Walk(steps, a) = row[N].line /\ Walking(row, steps, a, N)
  BY <1>1, WalkRow
<1> DEFINE Lies(w) == ToSet(w.line) \subseteq P /\ ToSet(w.todo) \subseteq P
           T == {n \in Nat : n \in 0..N => Lies(row[n])}
<1>3. 0 \in T
  <2>1. row[0].line = <<>> /\ row[0].todo = <<<<a, 0>>>>
    BY <1>2 DEF Walking
  <2> QED
    BY <2>1 DEF ToSet
<1>4. ASSUME NEW n \in Nat, n \in T
      PROVE  n + 1 \in T
  <2> SUFFICES ASSUME n + 1 \in 0..N
               PROVE  Lies(row[n + 1])
    OBVIOUS
  <2>1. PICK w \in Walks(A) : w = row[n] /\ Lies(w)
    BY <1>4
  <2>2. row[n + 1] = Visit(steps, w)
    BY <1>2, <2>1, n + 1 \in 1..N, (n + 1) - 1 = n DEF Walking
  <2>3. CASE w.todo = <<>>
    BY <2>1, <2>2, <2>3 DEF Visit
  <2>4. CASE w.todo # <<>>
    <3> DEFINE v == Head(w.todo)
    <3>1. PICK t \in Walks(A) :
            /\ t = Visit(steps, w) /\ Visited(steps, w, v, t)
            /\ w.todo[1] = v /\ v \in Pairs(A) /\ 1 \in 1..Len(w.todo)
      BY <2>4, VisitVisits
    <3> HIDE DEF v
    <3>2. /\ w.line \in Seq(Pairs(A)) /\ w.todo \in Seq(Pairs(A))
          /\ t.line \in Seq(Pairs(A)) /\ t.todo \in Seq(Pairs(A))
      BY DEF Walks
    <3>3. v \in P
      BY <2>1, <3>1, <3>2 DEF ToSet
    <3>4. ASSUME NEW u \in ToSet(t.line)
          PROVE  u \in P
      <4>1. PICK i \in 1..Len(t.line) : u = t.line[i]
        BY <3>2 DEF ToSet
      <4>2. t.line = Append(w.line, v)
        BY <3>1 DEF Visited
      <4>3. u = v \/ \E j \in 1..Len(w.line) : u = w.line[j]
        BY <3>2, <4>1, <4>2
      <4> QED
        BY <2>1, <3>2, <3>3, <4>3 DEF ToSet
    <3>5. ASSUME NEW u \in ToSet(t.todo)
          PROVE  u \in P
      <4>1. PICK i \in 1..Len(t.todo) : u = t.todo[i]
        BY <3>2 DEF ToSet
      <4>2. u \in Led(steps, v) \cup ToSet(w.todo)
        BY <3>1, <4>1 DEF Visited
      <4> QED
        BY <2>1, <3>1, <3>3, <4>2
    <3> QED
      BY <2>2, <3>1, <3>4, <3>5
  <2> QED
    BY <2>3, <2>4
<1>5. Lies(row[N])
  <2>1. Nat \subseteq T
    <3> HIDE DEF T
    <3> QED
      BY <1>3, <1>4, SetInduction
  <2> QED
    BY <2>1
<1> QED
  BY <1>2, <1>5

-----------------------------------------------------------------------------
(* Depths.                                                                 *)

\* A graph that FlowGraph is about.
IsGraph(g) ==
  /\ g = [flows |-> g.flows, starts |-> g.starts, boundaries |-> g.boundaries]
  /\ g.flows \in Seq(ToSet(g.flows))
  /\ g.starts \in Seq(ToSet(g.starts))
  /\ g.boundaries \in Seq(ToSet(g.boundaries))

\* The elements of a sequence, and their parts, are finitely many.
LEMMA ImageIsFinite ==
  ASSUME NEW E, NEW s \in Seq(E), NEW here
  PROVE  IsFiniteSet({s[i][here] : i \in DOMAIN s})
<1> DEFINE T == {s[i][here] : i \in DOMAIN s}
           f == [i \in 1..Len(s) |-> s[i][here]]
<1>1. DOMAIN s = 1..Len(s) /\ Len(s) \in Nat
  OBVIOUS
<1>2. f \in Surjection(1..Len(s), T)
  BY <1>1 DEF Surjection
<1>3. IsFiniteSet(1..Len(s))
  BY <1>1, FS_Interval
<1> HIDE DEF f, T
<1>4. IsFiniteSet(T)
  BY <1>2, <1>3, FS_Surjection
<1> QED
  BY <1>4 DEF T

\* So are its elements.
LEMMA ElementsAreFinite ==
  ASSUME NEW E, NEW s \in Seq(E)
  PROVE  IsFiniteSet(ToSet(s))
<1>1. DOMAIN s = 1..Len(s) /\ Len(s) \in Nat
  OBVIOUS
<1>2. s \in Surjection(1..Len(s), ToSet(s))
  BY <1>1 DEF Surjection, ToSet
<1>3. IsFiniteSet(1..Len(s))
  BY <1>1, FS_Interval
<1> QED
  BY <1>2, <1>3, FS_Surjection

\* And so are the activities of a graph.
LEMMA NodesAreFinite ==
  ASSUME NEW g, IsGraph(g)
  PROVE  IsFiniteSet(NodesOf(g))
<1> DEFINE F1 == {g.flows[i][1] : i \in DOMAIN g.flows}
           F2 == {g.flows[i][2] : i \in DOMAIN g.flows}
           F3 == {g.boundaries[i][1] : i \in DOMAIN g.boundaries}
           F4 == ToSet(g.starts)
<1>1. IsFiniteSet(F1)
  BY ImageIsFinite DEF IsGraph
<1>2. IsFiniteSet(F2)
  BY ImageIsFinite DEF IsGraph
<1>3. IsFiniteSet(F3)
  BY ImageIsFinite DEF IsGraph
<1>4. IsFiniteSet(F4)
  BY ElementsAreFinite DEF IsGraph
<1>5. NodesOf(g) = ((F1 \cup F2) \cup F3) \cup F4
  BY DEF NodesOf, Source, Target
<1> HIDE DEF F1, F2, F3, F4
<1>6. IsFiniteSet(F1 \cup F2)
  BY <1>1, <1>2, FS_Union
<1>7. IsFiniteSet((F1 \cup F2) \cup F3)
  BY <1>3, <1>6, FS_Union
<1> QED
  BY <1>4, <1>5, <1>7, FS_Union

\* Where the flows of an activity lead, and where those that lead to it come from.
Onward(g, a) == {p[2] : p \in {q \in ToSet(g.flows) : q[1] = a}}
Backward(g, a) == {p[1] : p \in {q \in ToSet(g.flows) : q[2] = a}}
Hosted(g, a) == {p[1] : p \in {q \in ToSet(g.boundaries) : q[2] = a}}

\* The neighbours of an activity are activities of the graph.
LEMMA NeighboursType ==
  ASSUME NEW g, IsGraph(g), NEW a
  PROVE  /\ Successors(g, a) \in Seq(NodesOf(g))   /\ ToSet(Successors(g, a)) = Onward(g, a)
         /\ Predecessors(g, a) \in Seq(NodesOf(g)) /\ ToSet(Predecessors(g, a)) = Backward(g, a)
         /\ Attached(g, a) \in Seq(NodesOf(g))     /\ ToSet(Attached(g, a)) = Hosted(g, a)
         /\ Onward(g, a) \subseteq NodesOf(g) /\ Backward(g, a) \subseteq NodesOf(g)
         /\ Hosted(g, a) \subseteq NodesOf(g)
<1>1. /\ Successors(g, a) \in Seq(ToSet(Successors(g, a)))
      /\ ToSet(Successors(g, a)) = Onward(g, a)
  BY EndsType DEF IsGraph, Successors, Onward
<1>2. /\ Predecessors(g, a) \in Seq(ToSet(Predecessors(g, a)))
      /\ ToSet(Predecessors(g, a)) = Backward(g, a)
  BY EndsType DEF IsGraph, Predecessors, Backward
<1>3. /\ Attached(g, a) \in Seq(ToSet(Attached(g, a)))
      /\ ToSet(Attached(g, a)) = Hosted(g, a)
  BY EndsType DEF IsGraph, Attached, Hosted
<1>4. Onward(g, a) \subseteq NodesOf(g)
  BY DEF Onward, NodesOf, Target, ToSet
<1>5. Backward(g, a) \subseteq NodesOf(g)
  BY DEF Backward, NodesOf, Source, ToSet
<1>6. Hosted(g, a) \subseteq NodesOf(g)
  BY DEF Hosted, NodesOf, ToSet
<1>7. /\ Successors(g, a) \in Seq(NodesOf(g))
      /\ Predecessors(g, a) \in Seq(NodesOf(g))
      /\ Attached(g, a) \in Seq(NodesOf(g))
  BY <1>1, <1>2, <1>3, <1>4, <1>5, <1>6, SeqMonotonic
<1> QED
  BY <1>1, <1>2, <1>3, <1>4, <1>5, <1>6, <1>7

\* `Away' makes pairs.
LEMMA AwayType ==
  ASSUME NEW A, NEW s \in Seq(A), NEW distance \in {1, 2}
  PROVE  /\ Away(s, distance) \in Seq(A \X {1, 2})
         /\ Len(Away(s, distance)) = Len(s)
         /\ \A i \in 1..Len(s) : Away(s, distance)[i] = <<s[i], distance>>
<1>1. DOMAIN s = 1..Len(s) /\ Len(s) \in Nat /\ \A i \in 1..Len(s) : s[i] \in A
  OBVIOUS
<1>2. Away(s, distance) = [i \in 1..Len(s) |-> <<s[i], distance>>]
  BY <1>1 DEF Away
<1>3. Away(s, distance) \in [1..Len(s) -> A \X {1, 2}]
  BY <1>1, <1>2
<1>4. Away(s, distance) \in Seq(A \X {1, 2}) /\ Len(Away(s, distance)) = Len(s)
  BY <1>1, <1>3
<1> QED
  BY <1>2, <1>4

\* The steps of a graph are its flows, and two for an attached event.
LEMMA StepsType ==
  ASSUME NEW g, IsGraph(g)
  PROVE  /\ Steps(g) \in Ways(NodesOf(g))
         /\ \A a \in NodesOf(g) : Onward(g, a) \subseteq Kids(Steps(g), a)
         /\ g.boundaries = <<>> => \A a \in NodesOf(g) : \A i \in DOMAIN Steps(g)[a] :
              Steps(g)[a][i][1] \in Onward(g, a) /\ Steps(g)[a][i][2] = 1
<1>1. ASSUME NEW a \in NodesOf(g)
      PROVE  /\ Steps(g)[a] \in Seq(NodesOf(g) \X {1, 2})
             /\ Onward(g, a) \subseteq Kids(Steps(g), a)
             /\ g.boundaries = <<>> => \A i \in DOMAIN Steps(g)[a] :
                  Steps(g)[a][i][1] \in Onward(g, a) /\ Steps(g)[a][i][2] = 1
  <2>1. Steps(g)[a] = Away(Successors(g, a), 1) \o Away(Attached(g, a), 2)
    BY DEF Steps
  <2>2. /\ Successors(g, a) \in Seq(NodesOf(g)) /\ ToSet(Successors(g, a)) = Onward(g, a)
        /\ Attached(g, a) \in Seq(NodesOf(g)) /\ ToSet(Attached(g, a)) = Hosted(g, a)
    BY NeighboursType
  <2>3. PICK next \in Seq(NodesOf(g) \X {1, 2}) :
          /\ next = Away(Successors(g, a), 1) /\ Len(next) = Len(Successors(g, a))
          /\ \A i \in 1..Len(Successors(g, a)) : next[i] = <<Successors(g, a)[i], 1>>
    BY <2>2, AwayType
  <2>4. PICK held \in Seq(NodesOf(g) \X {1, 2}) :
          held = Away(Attached(g, a), 2) /\ Len(held) = Len(Attached(g, a))
    BY <2>2, AwayType
  <2>5. /\ Steps(g)[a] \in Seq(NodesOf(g) \X {1, 2})
        /\ DOMAIN Steps(g)[a] = 1..(Len(next) + Len(held))
        /\ Len(next) \in Nat /\ Len(held) \in Nat
        /\ \A i \in 1..Len(next) : Steps(g)[a][i] = next[i]
    <3>1. Steps(g)[a] = next \o held
      BY <2>1, <2>3, <2>4
    <3> QED
      BY <3>1
  <2>6. ASSUME NEW b \in Onward(g, a)
        PROVE  b \in Kids(Steps(g), a)
    <3>1. PICK i \in 1..Len(Successors(g, a)) : b = Successors(g, a)[i]
      BY <2>2 DEF ToSet
    <3>2. i \in DOMAIN Steps(g)[a] /\ Steps(g)[a][i] = <<b, 1>>
      BY <2>3, <2>5, <3>1
    <3> QED
      BY <3>2 DEF Kids
  <2>7. ASSUME g.boundaries = <<>>, NEW i \in DOMAIN Steps(g)[a]
        PROVE  Steps(g)[a][i][1] \in Onward(g, a) /\ Steps(g)[a][i][2] = 1
    <3>1. Hosted(g, a) = {}
      BY <2>7 DEF Hosted, ToSet
    <3>2. Attached(g, a) = <<>>
      <4>1. \A k \in 1..Len(Attached(g, a)) : Attached(g, a)[k] \in ToSet(Attached(g, a))
        BY <2>2 DEF ToSet
      <4>2. Len(Attached(g, a)) = 0
        BY <2>2, <3>1, <4>1
      <4> QED
        BY <2>2, <4>2
    <3>3. i \in 1..Len(Successors(g, a))
      BY <2>3, <2>4, <2>5, <3>2
    <3>4. Steps(g)[a][i] = <<Successors(g, a)[i], 1>>
      BY <2>3, <2>5, <3>3
    <3>5. Successors(g, a)[i] \in ToSet(Successors(g, a))
      BY <2>2, <3>3 DEF ToSet
    <3> QED
      BY <2>2, <3>4, <3>5
  <2> QED
    BY <2>5, <2>6, <2>7
<1>2. Steps(g) \in Ways(NodesOf(g))
  <2>1. Steps(g) = [a \in NodesOf(g) |-> Steps(g)[a]]
    BY DEF Steps
  <2> QED
    BY <1>1, <2>1 DEF Ways
<1> QED
  BY <1>1, <1>2

\* The pairs that the walk from a start event yields.
From(g, i) == ToSet(Walk(Steps(g), g.starts[i]))

\* What such a walk yields.
LEMMA FromType ==
  ASSUME NEW g, IsGraph(g), NEW i \in DOMAIN g.starts
  PROVE  /\ From(g, i) \subseteq Pairs(NodesOf(g))
         /\ \A u, v \in From(g, i) : u[1] = v[1] => u = v
         /\ \A v \in From(g, i) : Kids(Steps(g), v[1]) \subseteq Met(From(g, i))
         /\ NoLevelCircle(Steps(g), From(g, i))
         /\ \A v \in From(g, i) : v[2] <= 2 * Cardinality(NodesOf(g))
<1>1. g.starts[i] \in NodesOf(g)
  BY DEF NodesOf, ToSet
<1>2. PICK line \in Seq(Pairs(NodesOf(g))) :
        /\ line = Walk(Steps(g), g.starts[i])
        /\ Explored(line, Steps(g), g.starts[i])
        /\ \A v \in ToSet(line) : v[2] <= 2 * Cardinality(NodesOf(g))
  BY <1>1, NodesAreFinite, StepsType, WalkExplores
<1>3. ASSUME NEW u \in ToSet(line), NEW v \in ToSet(line), u[1] = v[1]
      PROVE  u = v
  <2>1. PICK j \in 1..Len(line), k \in 1..Len(line) : u = line[j] /\ v = line[k]
    BY DEF ToSet
  <2> QED
    BY <1>2, <1>3, <2>1 DEF Explored
<1>4. ToSet(line) \subseteq Pairs(NodesOf(g))
  BY DEF ToSet
<1> QED
  BY <1>2, <1>3, <1>4 DEF Explored, From

\* The first start event that reaches an activity decides.
LEMMA InDepths ==
  ASSUME NEW g, IsGraph(g), NEW v
  PROVE  v \in Depths(g) <=>
           \E i \in DOMAIN g.starts :
              v \in From(g, i) /\ \A j \in 1..(i - 1) : v[1] \notin Met(From(g, j))
<1> DEFINE depths == [i \in DOMAIN g.starts |-> From(g, i)]
<1>1. Depths(g) = UNION {{x \in depths[i] : \A j \in 1..(i - 1) : x[1] \notin Met(depths[j])} :
                           i \in DOMAIN depths}
  BY DEF Depths, From
<1>2. DOMAIN depths = DOMAIN g.starts
  OBVIOUS
<1>3. ASSUME NEW i \in DOMAIN g.starts
      PROVE  depths[i] = From(g, i) /\ \A j \in 1..(i - 1) : depths[j] = From(g, j)
  <2>1. DOMAIN g.starts = 1..Len(g.starts) /\ Len(g.starts) \in Nat
    BY DEF IsGraph
  <2>2. \A j \in 1..(i - 1) : j \in DOMAIN g.starts
    BY <2>1
  <2> QED
    BY <2>2
<1> HIDE DEF depths
<1> QED
  BY <1>1, <1>2, <1>3

\* An activity has one depth.
LEMMA DepthIsUnique ==
  ASSUME NEW g, IsGraph(g)
  PROVE  /\ Depths(g) \subseteq Pairs(NodesOf(g))
         /\ \A u, v \in Depths(g) : u[1] = v[1] => u = v
         /\ \A v \in Depths(g) : DepthIn(Depths(g), v[1]) = v[2]
<1>1. Depths(g) \subseteq Pairs(NodesOf(g))
  BY InDepths, FromType
<1>2. ASSUME NEW u \in Depths(g), NEW v \in Depths(g), u[1] = v[1]
      PROVE  u = v
  <2>1. PICK i \in DOMAIN g.starts :
          u \in From(g, i) /\ \A j \in 1..(i - 1) : u[1] \notin Met(From(g, j))
    BY InDepths
  <2>2. PICK k \in DOMAIN g.starts :
          v \in From(g, k) /\ \A j \in 1..(k - 1) : v[1] \notin Met(From(g, j))
    BY InDepths
  <2>3. u[1] \in Met(From(g, i)) /\ v[1] \in Met(From(g, k))
    BY <2>1, <2>2 DEF Met
  <2>4. i \in Nat /\ k \in Nat /\ 1 <= i /\ 1 <= k
    BY DEF IsGraph
  <2>5. i = k
    <3>1. CASE i < k
      <4>1. i \in 1..(k - 1)
        BY <2>4, <3>1
      <4> QED
        BY <1>2, <2>2, <2>3, <4>1
    <3>2. CASE k < i
      <4>1. k \in 1..(i - 1)
        BY <2>4, <3>2
      <4> QED
        BY <1>2, <2>1, <2>3, <4>1
    <3> QED
      BY <2>4, <3>1, <3>2
  <2> QED
    BY <1>2, <2>1, <2>2, <2>5, FromType
<1>3. ASSUME NEW v \in Depths(g)
      PROVE  DepthIn(Depths(g), v[1]) = v[2]
  <2>1. v[1] \in Met(Depths(g))
    BY DEF Met
  <2>2. (CHOOSE u \in Depths(g) : u[1] = v[1]) = v
    BY <1>2
  <2> QED
    BY <2>1, <2>2 DEF DepthIn
<1> QED
  BY <1>1, <1>2, <1>3

\* Of any activities that have a depth, one leads to no other that is as deep or deeper.
LEMMA DepthsEnd ==
  ASSUME NEW g, IsGraph(g), NEW S \in (SUBSET Met(Depths(g))) \ {{}}
  PROVE  \E v \in Depths(g) :
           /\ v[1] \in S
           /\ \A u \in Depths(g) :
                u[1] \in S \cap Kids(Steps(g), v[1]) /\ v[2] <= u[2] => u[1] = v[1]
<1> DEFINE I == {k \in DOMAIN g.starts : S \cap Met(From(g, k)) # {}}
<1>1. DOMAIN g.starts = 1..Len(g.starts) /\ Len(g.starts) \in Nat
  BY DEF IsGraph
<1>2. I \in SUBSET Nat
  BY <1>1
<1>3. I # {}
  <2>1. PICK x \in S : x \in Met(Depths(g))
    OBVIOUS
  <2>2. PICK v \in Depths(g) : v[1] = x
    BY <2>1 DEF Met
  <2>3. PICK k \in DOMAIN g.starts : v \in From(g, k)
    BY InDepths
  <2>4. k \in I
    BY <2>2, <2>3 DEF Met
  <2> QED
    BY <2>4
<1>4. PICK i \in I : \A k \in I : i <= k
  <2> HIDE DEF I
  <2> QED
    BY <1>2, <1>3, LeastOfSet
<1>5. i \in DOMAIN g.starts /\ \A j \in 1..(i - 1) : S \cap Met(From(g, j)) = {}
  <2>1. \A j \in 1..(i - 1) : j \in DOMAIN g.starts
    BY <1>1
  <2>2. \A j \in 1..(i - 1) : j \notin I
    BY <1>1, <1>4
  <2> QED
    BY <2>1, <2>2
<1> DEFINE W == From(g, i)
           R == S \cap Met(W)
<1>6. /\ W \subseteq Pairs(NodesOf(g))
      /\ \A u, v \in W : u[1] = v[1] => u = v
      /\ \A v \in W : Kids(Steps(g), v[1]) \subseteq Met(W)
      /\ NoLevelCircle(Steps(g), W)
      /\ \A v \in W : v[2] <= 2 * Cardinality(NodesOf(g))
  BY <1>5, FromType
<1>7. R # {}
  BY <1>4
<1>8. \A v \in W : v[1] \in R => v \in Depths(g)
  BY <1>5, InDepths
<1>9. ASSUME NEW v \in Depths(g), v[1] \in R
      PROVE  v \in W
  <2>1. PICK w \in W : w[1] = v[1]
    BY <1>9 DEF Met
  <2>2. w \in Depths(g)
    BY <1>8, <1>9, <2>1
  <2> QED
    BY <2>1, <2>2, DepthIsUnique
<1> HIDE DEF W
<1> DEFINE L == {v[2] : v \in {x \in W : x[1] \in R}}
<1>10. L \in SUBSET Nat
  BY <1>6 DEF Pairs
<1>11. L # {}
  <2>1. PICK x \in R : TRUE
    BY <1>7
  <2>2. PICK v \in W : v[1] = x
    BY <2>1 DEF Met
  <2> QED
    BY <2>1, <2>2
<1>12. PICK N \in Nat : N = 2 * Cardinality(NodesOf(g))
  <2>1. Cardinality(NodesOf(g)) \in Nat
    BY NodesAreFinite, FS_CardinalityType
  <2> QED
    BY <2>1
<1>13. \A k \in L : k <= N
  BY <1>6, <1>12
<1>14. PICK m \in L : \A k \in L : k <= m
  <2> HIDE DEF L
  <2> QED
    BY <1>10, <1>11, <1>12, <1>13, GreatestOfSet
<1> DEFINE M == {v[1] : v \in {x \in W : x[1] \in R /\ x[2] = m}}
<1>15. M \in (SUBSET Met(W)) \ {{}}
  <2>1. PICK v \in W : v[1] \in R /\ v[2] = m
    OBVIOUS
  <2>2. v[1] \in M
    BY <2>1
  <2> QED
    BY <2>2 DEF Met
<1>16. PICK v \in W :
         /\ v[1] \in M
         /\ \A u \in W : u[1] \in M \cap Kids(Steps(g), v[1]) /\ u[2] = v[2] => u[1] = v[1]
  <2> HIDE DEF M
  <2> QED
    BY <1>6, <1>15 DEF NoLevelCircle
<1>17. v[1] \in R /\ v[2] = m
  BY <1>6, <1>16
<1>18. ASSUME NEW u \in Depths(g), u[1] \in S \cap Kids(Steps(g), v[1]), v[2] <= u[2]
       PROVE  u[1] = v[1]
  <2>1. u[1] \in R
    BY <1>6, <1>18
  <2>2. u \in W
    BY <1>9, <2>1
  <2>3. u[2] \in L
    BY <2>1, <2>2
  <2>4. u[2] <= m /\ u[2] \in Nat /\ m \in Nat
    BY <1>10, <1>14, <2>3
  <2>5. u[2] = m
    BY <1>17, <1>18, <2>4
  <2>6. u[1] \in M
    BY <2>1, <2>2, <2>5
  <2> QED
    BY <1>16, <1>17, <1>18, <2>2, <2>5, <2>6
<1> QED
  BY <1>8, <1>16, <1>17, <1>18

\* The flows that are not feedback, and what makes one of them so.
LEMMA ForwardFlows ==
  ASSUME NEW g, IsGraph(g)
  PROVE  /\ ToSet(WithoutFeedback(g).flows) = ToSet(g.flows) \ FeedbackFlows(g)
         /\ WithoutFeedback(g).flows \in Seq(ToSet(WithoutFeedback(g).flows))
         /\ \A f \in ToSet(g.flows) : f \in FeedbackFlows(g) <=> LeadsBack(Depths(g), f)
<1>1. \A f \in ToSet(g.flows) : f \in FeedbackFlows(g) <=> LeadsBack(Depths(g), f)
  BY DEF FeedbackFlows
<1> DEFINE kept == Only(g.flows, ToSet(g.flows) \ FeedbackFlows(g))
<1>2. WithoutFeedback(g) = [g EXCEPT !.flows = kept]
  BY DEF WithoutFeedback
<1>3. kept \in Seq(ToSet(g.flows)) /\ ToSet(kept) = ToSet(g.flows) \ FeedbackFlows(g)
  BY OnlyKeeps DEF IsGraph
<1> HIDE DEF kept
<1>4. WithoutFeedback(g).flows = kept
  BY <1>2 DEF IsGraph
<1>5. kept \in Seq(ToSet(kept))
  <2>1. kept \in [1..Len(kept) -> ToSet(kept)] /\ Len(kept) \in Nat
    BY <1>3 DEF ToSet
  <2> QED
    BY <2>1
<1> QED
  BY <1>1, <1>3, <1>4, <1>5

-----------------------------------------------------------------------------
(* The drawing.                                                            *)

\* What is drawn is a graph.
Drawn == sheet \in Sheets /\ flows \in Seq(sheet.drawable)

\* FlowGraph is about what is drawn.
LEMMA DrawnIsGraph ==
  ASSUME Drawn
  PROVE  IsGraph(Graph)
<1>1. flows \in Seq(ToSet(flows))
  <2>1. flows \in [1..Len(flows) -> ToSet(flows)] /\ Len(flows) \in Nat
    BY DEF Drawn, ToSet
  <2> QED
    BY <2>1
<1>2. <<Start>> \in Seq(ToSet(<<Start>>))
  BY DEF ToSet
<1>3. sheet.boundaries \in Seq(ToSet(sheet.boundaries))
  BY SheetAssumption DEF Drawn
<1> QED
  BY <1>1, <1>2, <1>3 DEF IsGraph, Graph

\* What is drawn stays a list of flows.
LEMMA DrawnInvariant == Spec => []Drawn
<1>1. Init => Drawn
  BY DEF Init, Drawn
<1>2. Drawn /\ [Next]_<<sheet, flows>> => Drawn'
  <2> SUFFICES ASSUME Drawn, [Next]_<<sheet, flows>>
               PROVE  Drawn'
    OBVIOUS
  <2>1. ASSUME NEW flow \in sheet.drawable, Draw(flow)
        PROVE  Drawn'
    BY <2>1 DEF Draw, Drawn
  <2>2. CASE UNCHANGED <<sheet, flows>>
    BY <2>2 DEF Drawn
  <2> QED
    BY <2>1, <2>2 DEF Next
<1> QED
  BY <1>1, <1>2, PTL DEF Spec

\* A forward flow leads to an activity that is as deep or deeper.
LEMMA GraphIsForwardAcyclic ==
  ASSUME IsGraph(Graph)
  PROVE  ForwardAcyclic
<1> DEFINE forward == ToSet(WithoutFeedback(Graph).flows)
           D == Depths(Graph)
<1> SUFFICES ASSUME NEW S \in (SUBSET Met(D)) \ {{}}
             PROVE  \E a \in S : \A b \in S \ {a} : <<a, b>> \notin forward
  BY DEF ForwardAcyclic
<1>1. PICK v \in D :
        /\ v[1] \in S
        /\ \A u \in D : u[1] \in S \cap Kids(Steps(Graph), v[1]) /\ v[2] <= u[2] => u[1] = v[1]
  BY DepthsEnd
<1>2. v \in Pairs(NodesOf(Graph))
  BY DepthIsUnique
<1>3. ASSUME NEW b \in S \ {v[1]}, <<v[1], b>> \in forward
      PROVE  FALSE
  <2>1. PICK f \in ToSet(Graph.flows) : f = <<v[1], b>> /\ f \notin FeedbackFlows(Graph)
    BY <1>3, ForwardFlows
  <2>2. f[1] = v[1] /\ f[2] = b
    BY <2>1
  <2>3. ~LeadsBack(D, f)
    BY <2>1, ForwardFlows
  <2>4. PICK u \in D : u[1] = b
    BY DEF Met
  <2>5. DepthIn(D, b) = u[2] /\ DepthIn(D, v[1]) = v[2] /\ u[2] \in Nat /\ v[2] \in Nat
    BY <2>4, DepthIsUnique DEF Pairs
  <2>6. ~(u[2] < v[2])
    BY <2>2, <2>3, <2>5 DEF LeadsBack, Source, Target
  <2>7. b \in Onward(Graph, v[1])
    BY <2>1, <2>2 DEF Onward
  <2>8. b \in Kids(Steps(Graph), v[1])
    BY <1>2, <2>7, StepsType DEF Pairs
  <2> QED
    BY <1>1, <1>3, <2>4, <2>5, <2>6, <2>8
<1> QED
  BY <1>1, <1>3

\* Without the flows that setFeedbackByDepthFromStart marks as feedback no cycle is left
\* behind the start event, except flows from an activity to itself.
THEOREM ForwardIsAcyclic == Spec => []ForwardAcyclic
<1>1. Drawn => ForwardAcyclic
  BY DrawnIsGraph, GraphIsForwardAcyclic
<1> QED
  BY <1>1, DrawnInvariant, PTL

-----------------------------------------------------------------------------
(* Layers.                                                                 *)

\* One layer more.
Farther(g, nearer) ==
  Append(nearer, UNION {ToSet(Predecessors(g, b)) : b \in Last(nearer)})

\* Layers so far.
Rows(A) == Seq(SUBSET A) \ {<<>>}

\* One layer more is the activities that lead to the last.
LEMMA FartherType ==
  ASSUME NEW g, IsGraph(g), NEW s \in Rows(NodesOf(g))
  PROVE  /\ Farther(g, s) \in Rows(NodesOf(g))
         /\ Len(Farther(g, s)) = Len(s) + 1
         /\ \A i \in 1..Len(s) : Farther(g, s)[i] = s[i]
         /\ Farther(g, s)[Len(s) + 1] = UNION {Backward(g, b) : b \in s[Len(s)]}
<1> DEFINE U == UNION {Backward(g, b) : b \in s[Len(s)]}
<1>1. \A b : ToSet(Predecessors(g, b)) = Backward(g, b) /\ Backward(g, b) \subseteq NodesOf(g)
  BY NeighboursType
<1>2. U \in SUBSET NodesOf(g)
  BY <1>1
<1>3. Farther(g, s) = Append(s, U)
  BY <1>1 DEF Farther, Last
<1>4. s \in Seq(SUBSET NodesOf(g)) /\ s # <<>>
  BY DEF Rows
<1> HIDE DEF U
<1>5. /\ Append(s, U) \in Seq(SUBSET NodesOf(g)) /\ Len(Append(s, U)) = Len(s) + 1
      /\ \A i \in 1..Len(s) : Append(s, U)[i] = s[i]
      /\ Append(s, U)[Len(s) + 1] = U
  BY <1>2, <1>4
<1>6. Append(s, U) # <<>>
  BY <1>4, <1>5
<1> QED
  BY <1>3, <1>5, <1>6 DEF Rows, U

\* The layers as a row of sequences, one for each number of layers.
LayersOf(row, g, a, N) ==
  /\ row[0] = <<{a}>>
  /\ \A n \in 1..N : row[n] = Farther(g, row[n - 1])

\* `Layers' is the last sequence of such a row.
LEMMA LayersRow ==
  ASSUME NEW g, IsGraph(g), NEW a \in NodesOf(g)
  PROVE  \E row \in [0..Cardinality(NodesOf(g)) -> Rows(NodesOf(g))] :
           /\ Layers(g, a) = row[Cardinality(NodesOf(g))]
           /\ LayersOf(row, g, a, Cardinality(NodesOf(g)))
<1>1. PICK N \in Nat : N = Cardinality(NodesOf(g))
  BY NodesAreFinite, FS_CardinalityType
<1> DEFINE X    == Rows(NodesOf(g))
           step == [n \in 1..N |-> [s \in X |-> Farther(g, s)]]
           body(f) == [n \in 0..N |-> IF n = 0 THEN <<{a}>> ELSE Farther(g, f[n - 1])]
           Is(f) == f = body(f)
           layers == CHOOSE f : Is(f)
<1>2. <<{a}>> \in X
  BY DEF Rows
<1>3. \A s \in X : Farther(g, s) \in X
  BY FartherType
<1> HIDE DEF X
<1>4. step \in [1..N -> [X -> X]]
  BY <1>3
<1>5. PICK f \in [0..N -> X] : Iterates(f, <<{a}>>, step, N)
  <2> HIDE DEF step
  <2> QED
    BY <1>2, <1>4, IterationExists
<1>6. Is(f)
  <2>1. f = [n \in 0..N |-> IF n = 0 THEN <<{a}>> ELSE step[n][f[n - 1]]]
    BY <1>5 DEF Iterates
  <2>2. ASSUME NEW n \in 0..N, n # 0
        PROVE  step[n][f[n - 1]] = Farther(g, f[n - 1])
    <3>1. n \in 1..N /\ f[n - 1] \in X
      BY <2>2
    <3> QED
      BY <3>1
  <2> HIDE DEF step
  <2> QED
    BY <2>1, <2>2
<1>7. Is(layers)
  <2> HIDE DEF Is
  <2> QED
    BY <1>6
<1>8. Layers(g, a) = layers[N]
  BY <1>1 DEF Layers, Farther
<1>9. ASSUME NEW h, Is(h)
      PROVE  h[0] = <<{a}>> /\ \A n \in 1..N : h[n] = Farther(g, h[n - 1])
  <2>1. body(h)[0] = <<{a}>>
    OBVIOUS
  <2>2. ASSUME NEW n \in 1..N
        PROVE  body(h)[n] = Farther(g, h[n - 1])
    OBVIOUS
  <2>3. h = body(h)
    BY <1>9
  <2> HIDE DEF body
  <2> QED
    BY <2>1, <2>2, <2>3
<1>10. f = layers
  <2> HIDE DEF layers, Is
  <2>1. f[0] = layers[0]
    BY <1>6, <1>7, <1>9
  <2>2. ASSUME NEW n \in 1..N, f[n - 1] = layers[n - 1]
        PROVE  f[n] = layers[n]
    <3>1. f[n] = Farther(g, f[n - 1])
      BY <1>6, <1>9
    <3>2. layers[n] = Farther(g, layers[n - 1])
      BY <1>7, <1>9
    <3> QED
      BY <2>2, <3>1, <3>2
  <2>3. \A n \in 0..N : f[n] = layers[n]
    <3>1. \A n \in 1..N : f[n - 1] = layers[n - 1] => f[n] = layers[n]
      BY <2>2
    <3> QED
      BY <2>1, <3>1, IterationIsUnique, ZenonT(40)
  <2> QED
    BY <2>3, <1>6, <1>7 DEF Is
<1> HIDE DEF layers, Is
<1>11. LayersOf(f, g, a, N)
  BY <1>6, <1>9 DEF LayersOf
<1> QED
  BY <1>1, <1>8, <1>10, <1>11 DEF X

\* After `n' steps there are the layers 0 to `n'.
Grown(s, g, a, n) ==
  /\ Len(s) = n + 1 /\ s[1] = {a}
  /\ \A k \in 1..n : s[k + 1] = UNION {Backward(g, b) : b \in s[k]}

\* `L[n]' is the layer of the activities that are n flows before `a'.
Stacks(L, g, a) ==
  LET N == Cardinality(NodesOf(g))
  IN  /\ L \in [0..N -> SUBSET NodesOf(g)]
      /\ L[0] = {a}
      /\ \A n \in 1..N : L[n] = UNION {Backward(g, b) : b \in L[n - 1]}

\* The layers from `from' to `to'.
Between(L, from, to) == UNION {L[n] : n \in from..to}

\* The layers of a graph are such a function, and disjoint if the graph is balanced.
LEMMA LayersStack ==
  ASSUME NEW g, IsGraph(g), NEW a \in NodesOf(g)
  PROVE  \E L : /\ Stacks(L, g, a)
                /\ Behind(g, a) = Between(L, 1, Cardinality(NodesOf(g)))
                /\ Balanced(g, a) => \A m, n \in 0..Cardinality(NodesOf(g)) :
                                       m # n => L[m] \cap L[n] = {}
<1>1. PICK N \in Nat : N = Cardinality(NodesOf(g))
  BY NodesAreFinite, FS_CardinalityType
<1>2. PICK row \in [0..N -> Rows(NodesOf(g))] :
        Layers(g, a) = row[N] /\ LayersOf(row, g, a, N)
  BY <1>1, LayersRow
<1> DEFINE T == {n \in Nat : n \in 0..N => Grown(row[n], g, a, n)}
<1>3. 0 \in T
  <2>1. row[0] = <<{a}>>
    BY <1>2 DEF LayersOf
  <2>2. Len(<<{a}>>) = 0 + 1 /\ <<{a}>>[1] = {a} /\ 1..0 = {}
    OBVIOUS
  <2>3. Grown(<<{a}>>, g, a, 0)
    BY <2>2 DEF Grown
  <2> QED
    BY <2>1, <2>3
<1>4. ASSUME NEW n \in Nat, n \in T
      PROVE  n + 1 \in T
  <2> SUFFICES ASSUME n + 1 \in 0..N
               PROVE  Grown(row[n + 1], g, a, n + 1)
    OBVIOUS
  <2>1. PICK s \in Rows(NodesOf(g)) : s = row[n] /\ Grown(s, g, a, n)
    BY <1>4
  <2>2. row[n + 1] = Farther(g, s)
    BY <1>2, <2>1, n + 1 \in 1..N, (n + 1) - 1 = n DEF LayersOf
  <2>3. PICK t : /\ t = Farther(g, s) /\ Len(t) = Len(s) + 1
                 /\ \A i \in 1..Len(s) : t[i] = s[i]
                 /\ t[Len(s) + 1] = UNION {Backward(g, b) : b \in s[Len(s)]}
    BY FartherType
  <2>4. Len(t) = (n + 1) + 1 /\ t[1] = {a}
    BY <2>1, <2>3 DEF Grown
  <2>5. ASSUME NEW k \in 1..(n + 1)
        PROVE  t[k + 1] = UNION {Backward(g, b) : b \in t[k]}
    <3>1. CASE k = n + 1
      <4>1. t[k] = s[k] /\ t[k + 1] = UNION {Backward(g, b) : b \in s[k]}
        BY <2>1, <2>3, <3>1 DEF Grown
      <4> QED
        BY <4>1
    <3>2. CASE k # n + 1
      <4>1. k \in 1..n /\ k \in 1..Len(s) /\ k + 1 \in 1..Len(s)
        BY <2>1, <3>2 DEF Grown
      <4>2. t[k] = s[k] /\ t[k + 1] = s[k + 1]
        BY <2>3, <4>1
      <4> QED
        BY <2>1, <4>1, <4>2 DEF Grown
    <3> QED
      BY <3>1, <3>2
  <2> QED
    BY <2>2, <2>3, <2>4, <2>5 DEF Grown
<1>5. Grown(row[N], g, a, N)
  <2>1. Nat \subseteq T
    <3> HIDE DEF T
    <3> QED
      BY <1>3, <1>4, SetInduction
  <2> QED
    BY <2>1
<1>6. PICK s \in Rows(NodesOf(g)) : s = Layers(g, a) /\ Grown(s, g, a, N)
  BY <1>2, <1>5
<1> DEFINE L == [n \in 0..N |-> s[n + 1]]
<1>7. s \in Seq(SUBSET NodesOf(g)) /\ DOMAIN s = 1..(N + 1)
  BY <1>6 DEF Rows, Grown
<1>8. L \in [0..N -> SUBSET NodesOf(g)]
  BY <1>7
<1>9. Stacks(L, g, a)
  <2>1. \A n \in 1..N : L[n] = UNION {Backward(g, b) : b \in L[n - 1]}
    <3> SUFFICES ASSUME NEW n \in 1..N
                 PROVE  L[n] = UNION {Backward(g, b) : b \in L[n - 1]}
      OBVIOUS
    <3>1. L[n] = s[n + 1] /\ L[n - 1] = s[n]
      OBVIOUS
    <3> QED
      BY <1>6, <3>1 DEF Grown
  <2>2. L[0] = {a}
    BY <1>6 DEF Grown
  <2> HIDE DEF L
  <2> QED
    BY <1>1, <1>8, <2>1, <2>2 DEF Stacks
<1>10. Behind(g, a) = Between(L, 1, N)
  <2>1. /\ Len(Tail(s)) = N /\ DOMAIN Tail(s) = 1..N
        /\ \A n \in 1..N : Tail(s)[n] = L[n]
    BY <1>6, <1>7 DEF Grown
  <2>2. ToSet(Tail(s)) = {L[n] : n \in 1..N}
    <3> HIDE DEF L
    <3> QED
      BY <2>1 DEF ToSet
  <2> QED
    BY <1>6, <2>2 DEF Behind, Between
<1>11. Balanced(g, a) => \A m, n \in 0..N : m # n => L[m] \cap L[n] = {}
  <2> SUFFICES ASSUME Balanced(g, a), NEW m \in 0..N, NEW n \in 0..N, m # n
               PROVE  L[m] \cap L[n] = {}
    OBVIOUS
  <2>1. m + 1 \in DOMAIN s /\ n + 1 \in DOMAIN s /\ m + 1 # n + 1
    BY <1>7
  <2>2. s[m + 1] \cap s[n + 1] = {}
    BY <1>6, <2>1 DEF Balanced
  <2> QED
    BY <2>2
<1> HIDE DEF L
<1> QED
  BY <1>1, <1>9, <1>10, <1>11

\* The layers of a balanced graph: an activity is in one of them.
Heap(L, g, a, N) ==
  /\ N \in Nat /\ N = Cardinality(NodesOf(g))
  /\ Stacks(L, g, a)
  /\ \A m, n \in 0..N : m # n => L[m] \cap L[n] = {}

\* Below a layer that is not empty none is.
LEMMA LowerLayers ==
  ASSUME NEW g, NEW a, NEW L, NEW N, Heap(L, g, a, N), NEW n \in 0..N, L[n] # {}
  PROVE  \A k \in 0..n : L[k] # {}
<1> DEFINE T == {d \in Nat : d <= n => L[n - d] # {}}
<1>1. 0 \in T
  BY DEF Heap
<1>2. ASSUME NEW d \in Nat, d \in T
      PROVE  d + 1 \in T
  <2> SUFFICES ASSUME d + 1 <= n
               PROVE  L[n - (d + 1)] # {}
    OBVIOUS
  <2>1. n - d \in 1..N /\ (n - d) - 1 = n - (d + 1)
    BY DEF Heap
  <2>2. L[n - d] # {}
    BY <1>2
  <2>3. L[n - d] = UNION {Backward(g, b) : b \in L[n - (d + 1)]}
    BY <2>1 DEF Heap, Stacks
  <2> QED
    BY <2>2, <2>3
<1>3. Nat \subseteq T
  <2> HIDE DEF T
  <2> QED
    BY <1>1, <1>2, SetInduction
<1>4. ASSUME NEW k \in 0..n
      PROVE  L[k] # {}
  <2>1. n - k \in Nat /\ n - k <= n /\ n - (n - k) = k
    BY DEF Heap
  <2>2. n - k \in T
    BY <1>3, <2>1
  <2> QED
    BY <2>1, <2>2
<1> QED
  BY <1>4

\* As many layers as there are activities cannot all have one of their own beside `a'.
LEMMA TopLayerIsEmpty ==
  ASSUME NEW g, IsGraph(g), NEW a, NEW L, NEW N, Heap(L, g, a, N)
  PROVE  L[N] = {}
<1> SUFFICES ASSUME L[N] # {}
             PROVE  FALSE
  OBVIOUS
<1>1. N \in Nat /\ N \in 0..N
  BY DEF Heap
<1>2. \A k \in 0..N : L[k] # {}
  BY <1>1, LowerLayers
<1> DEFINE f == [k \in 0..N |-> CHOOSE x : x \in L[k]]
<1>3. \A k \in 0..N : f[k] \in L[k] /\ f[k] \in NodesOf(g)
  BY <1>2 DEF Heap, Stacks
<1>4. f \in [0..N -> NodesOf(g)]
  BY <1>3
<1> HIDE DEF f
<1>5. IsFiniteSet(0..N) /\ Cardinality(0..N) = N + 1
  BY <1>1, FS_Interval
<1>6. IsFiniteSet(NodesOf(g)) /\ Cardinality(NodesOf(g)) < Cardinality(0..N)
  BY <1>1, <1>5, NodesAreFinite DEF Heap
<1>7. PICK m \in 0..N, n \in 0..N : m # n /\ f[m] = f[n]
  BY <1>4, <1>5, <1>6, FS_PigeonHole
<1> QED
  BY <1>3, <1>7 DEF Heap

\* A flow to a layer comes from the layer above.
LEMMA FlowClimbs ==
  ASSUME NEW g, IsGraph(g), NEW a, NEW L, NEW N, Heap(L, g, a, N),
         NEW f \in ToSet(g.flows), NEW k \in 0..N, f[2] \in L[k]
  PROVE  k + 1 \in 1..N /\ f[1] \in L[k + 1]
<1>1. k # N /\ N \in Nat
  BY TopLayerIsEmpty DEF Heap
<1>2. k + 1 \in 1..N /\ (k + 1) - 1 = k
  BY <1>1
<1>3. L[k + 1] = UNION {Backward(g, b) : b \in L[k]}
  BY <1>2 DEF Heap, Stacks
<1>4. f[1] \in Backward(g, f[2])
  BY DEF Backward
<1> QED
  BY <1>2, <1>3, <1>4

\* From an activity of a layer a flow leads to the layer below.
LEMMA LayerFlow ==
  ASSUME NEW g, NEW a, NEW L, NEW N, Heap(L, g, a, N), NEW n \in 1..N, NEW x \in L[n]
  PROVE  \E f \in ToSet(g.flows) : f[1] = x /\ f[2] \in L[n - 1]
<1>1. L[n] = UNION {Backward(g, b) : b \in L[n - 1]}
  BY DEF Heap, Stacks
<1>2. PICK b \in L[n - 1] : x \in Backward(g, b)
  BY <1>1
<1> QED
  BY <1>2 DEF Backward

\* How deep an activity behind `a' is: as many flows as the start event is farther.
LEMMA DepthBehind ==
  ASSUME NEW g, IsGraph(g), g.boundaries = <<>>, NEW s, g.starts = <<s>>,
         NEW a, NEW L, NEW N, Heap(L, g, a, N),
         NEW v \in Depths(g), NEW k \in 0..N, v[1] \in L[k]
  PROVE  v[2] \in Nat /\ k + v[2] \in 0..N /\ s \in L[k + v[2]]
<1> DEFINE P == {u \in Pairs(NodesOf(g)) : \A i \in 0..N : u[1] \in L[i] =>
                    i + u[2] \in 0..N /\ s \in L[i + u[2]]}
<1>1. DOMAIN g.starts = {1} /\ g.starts[1] = s
  OBVIOUS
<1>2. s \in NodesOf(g)
  BY <1>1 DEF NodesOf, ToSet
<1>3. <<s, 0>> \in P
  BY <1>2 DEF Pairs, Heap
<1>4. ASSUME NEW u \in P \cap Pairs(NodesOf(g)), NEW c \in Led(Steps(g), u)
      PROVE  c \in P
  <2>1. u[1] \in NodesOf(g) /\ u[2] \in Nat
    BY DEF Pairs
  <2>2. PICK i \in DOMAIN Steps(g)[u[1]] :
          c = <<Steps(g)[u[1]][i][1], u[2] + Steps(g)[u[1]][i][2]>>
    BY DEF Led
  <2>3. Steps(g)[u[1]][i][1] \in Onward(g, u[1]) /\ Steps(g)[u[1]][i][2] = 1
    BY <2>1, StepsType
  <2>4. c[1] \in Onward(g, u[1]) /\ c[2] = u[2] + 1
    BY <2>2, <2>3
  <2>5. c \in Pairs(NodesOf(g))
    BY LedType, StepsType
  <2>6. ASSUME NEW j \in 0..N, c[1] \in L[j]
        PROVE  j + c[2] \in 0..N /\ s \in L[j + c[2]]
    <3>1. PICK f \in ToSet(g.flows) : f[1] = u[1] /\ f[2] = c[1]
      BY <2>4 DEF Onward
    <3>2. j + 1 \in 1..N /\ u[1] \in L[j + 1]
      BY <2>6, <3>1, FlowClimbs
    <3>3. j + 1 \in 0..N
      BY <3>2 DEF Heap
    <3>4. (j + 1) + u[2] \in 0..N /\ s \in L[(j + 1) + u[2]]
      BY <3>2, <3>3
    <3>5. (j + 1) + u[2] = j + c[2]
      <4>1. j \in Nat /\ u[2] \in Nat
        BY <2>1 DEF Heap
      <4> HIDE DEF P
      <4>2. (j + 1) + u[2] = j + (u[2] + 1)
        BY <4>1
      <4> QED
        BY <2>4, <4>2
    <3> QED
      BY <3>4, <3>5
  <2> QED
    BY <2>5, <2>6
<1>5. v \in From(g, 1)
  BY <1>1, InDepths
<1>6. ToSet(Walk(Steps(g), s)) \subseteq P
  <2> HIDE DEF P
  <2> QED
    BY <1>2, <1>3, <1>4, WalkLies, NodesAreFinite, StepsType
<1>7. v \in P
  BY <1>1, <1>5, <1>6 DEF From
<1> QED
  BY <1>7 DEF Pairs

\* Of a feedback flow both ends have a depth, and it leads to the smaller one.
LEMMA FeedbackDepths ==
  ASSUME NEW g, IsGraph(g), NEW f \in FeedbackFlows(g)
  PROVE  /\ f \in ToSet(g.flows)
         /\ \E u, v \in Depths(g) : u[1] = f[2] /\ v[1] = f[1] /\ u[2] < v[2]
<1>1. f \in ToSet(g.flows)
  BY DEF FeedbackFlows
<1>2. LeadsBack(Depths(g), f)
  BY <1>1, ForwardFlows
<1>3. DepthIn(Depths(g), f[2]) >= 0 /\ DepthIn(Depths(g), f[2]) < DepthIn(Depths(g), f[1])
  BY <1>2 DEF LeadsBack, Source, Target
<1>4. f[2] \in Met(Depths(g))
  BY <1>3 DEF DepthIn
<1>5. PICK u \in Depths(g) : u[1] = f[2]
  BY <1>4 DEF Met
<1>6. DepthIn(Depths(g), f[2]) = u[2] /\ u[2] \in Nat
  BY <1>5, DepthIsUnique DEF Pairs
<1>7. f[1] \in Met(Depths(g))
  BY <1>3, <1>6 DEF DepthIn
<1>8. PICK v \in Depths(g) : v[1] = f[1]
  BY <1>7 DEF Met
<1>9. DepthIn(Depths(g), f[1]) = v[2]
  BY <1>8, DepthIsUnique
<1> QED
  BY <1>1, <1>3, <1>5, <1>6, <1>8, <1>9

\* No flow behind the join of a balanced graph is a feedback flow.
LEMMA BehindIsForward ==
  ASSUME NEW g, IsGraph(g), g.boundaries = <<>>, NEW s, g.starts = <<s>>,
         NEW a, NEW L, NEW N, Heap(L, g, a, N),
         NEW f \in ToSet(g.flows), NEW k \in 0..N, f[2] \in L[k]
  PROVE  f \notin FeedbackFlows(g)
<1> SUFFICES ASSUME f \in FeedbackFlows(g)
             PROVE  FALSE
  OBVIOUS
<1>1. PICK u \in Depths(g), v \in Depths(g) : u[1] = f[2] /\ v[1] = f[1] /\ u[2] < v[2]
  BY FeedbackDepths
<1>2. k + 1 \in 1..N /\ f[1] \in L[k + 1] /\ N \in Nat
  BY FlowClimbs DEF Heap
<1>3. u[2] \in Nat /\ k + u[2] \in 0..N /\ s \in L[k + u[2]]
  BY <1>1, DepthBehind
<1>4. v[2] \in Nat /\ (k + 1) + v[2] \in 0..N /\ s \in L[(k + 1) + v[2]]
  BY <1>1, <1>2, k + 1 \in 0..N, DepthBehind
<1>5. (k + 1) + v[2] # k + u[2]
  BY <1>1, <1>3, <1>4
<1> QED
  BY <1>3, <1>4, <1>5 DEF Heap

\* Without the feedback flows the layers are the same.
LEMMA ForwardLayers ==
  ASSUME NEW g, IsGraph(g), g.boundaries = <<>>, NEW s, g.starts = <<s>>,
         NEW a \in NodesOf(g), NEW L, NEW N, Heap(L, g, a, N)
  PROVE  /\ IsGraph(WithoutFeedback(g))
         /\ ToSet(WithoutFeedback(g).flows) \subseteq ToSet(g.flows)
         /\ \A f \in ToSet(g.flows) : \A k \in 0..N :
              f[2] \in L[k] => f \in ToSet(WithoutFeedback(g).flows)
         /\ a \in NodesOf(WithoutFeedback(g))
<1>1. PICK f : f = WithoutFeedback(g)
  OBVIOUS
<1>2. /\ f.flows \in Seq(ToSet(f.flows)) /\ ToSet(f.flows) = ToSet(g.flows) \ FeedbackFlows(g)
      /\ f = [g EXCEPT !.flows = f.flows]
  <2>1. f = [g EXCEPT !.flows = Only(g.flows, ToSet(g.flows) \ FeedbackFlows(g))]
    BY <1>1 DEF WithoutFeedback
  <2>2. f.flows = Only(g.flows, ToSet(g.flows) \ FeedbackFlows(g))
    BY <2>1 DEF IsGraph
  <2> QED
    BY <1>1, <2>1, <2>2, ForwardFlows
<1>3. /\ f = [flows |-> f.flows, starts |-> f.starts, boundaries |-> f.boundaries]
      /\ f.starts = g.starts /\ f.boundaries = g.boundaries
  BY <1>2 DEF IsGraph
<1>4. IsGraph(f)
  BY <1>2, <1>3 DEF IsGraph
<1>5. ASSUME NEW q \in ToSet(g.flows), NEW k \in 0..N, q[2] \in L[k]
      PROVE  q \in ToSet(f.flows)
  BY <1>2, <1>5, BehindIsForward
<1>6. ASSUME a \notin NodesOf(f)
      PROVE  FALSE
  <2>1. \A q \in ToSet(f.flows) : q[1] # a /\ q[2] # a
    BY <1>6 DEF NodesOf, Source, Target, ToSet
  <2>2. a # s
    BY <1>3, <1>6 DEF NodesOf, ToSet
  <2>3. L[0] = {a} /\ 0 \in 0..N /\ N \in Nat
    BY DEF Heap, Stacks
  <2>4. \A q \in ToSet(g.flows) : q[2] # a
    BY <1>5, <2>1, <2>3
  <2>5. \A k \in 1..N : L[k] = {}
    <3> SUFFICES ASSUME NEW k \in 1..N, L[k] # {}
                 PROVE  FALSE
      OBVIOUS
    <3>1. k \in 0..N /\ 1 \in 0..k /\ 1 \in 1..N
      BY <2>3
    <3>2. L[1] # {}
      BY <3>1, LowerLayers
    <3>3. PICK q \in ToSet(g.flows) : q[2] \in L[1 - 1]
      BY <3>1, <3>2, LayerFlow
    <3> QED
      BY <2>3, <2>4, <3>3
  <2>6. PICK q \in ToSet(g.flows) : q[1] = a
    <3>1. a \notin ToSet(g.starts)
      BY <1>3, <1>6 DEF NodesOf
    <3>2. DOMAIN g.boundaries = {}
      OBVIOUS
    <3> QED
      BY <2>4, <3>1, <3>2 DEF NodesOf, Source, Target, ToSet
  <2>7. q \in FeedbackFlows(g)
    BY <1>2, <2>1, <2>6
  <2>8. PICK u \in Depths(g), v \in Depths(g) : u[1] = q[2] /\ v[1] = q[1] /\ u[2] < v[2]
    BY <2>7, FeedbackDepths
  <2>9. u[2] \in Nat
    BY DepthIsUnique DEF Pairs
  <2>10. v[2] \in Nat /\ 0 + v[2] \in 0..N /\ s \in L[0 + v[2]]
    BY <2>3, <2>6, <2>8, DepthBehind
  <2>11. v[2] \in 1..N /\ 0 + v[2] = v[2]
    BY <2>8, <2>9, <2>10
  <2> QED
    BY <2>5, <2>10, <2>11
<1> QED
  BY <1>1, <1>2, <1>4, <1>5, <1>6

-----------------------------------------------------------------------------
(* Paths back.                                                             *)

\* Paths that are one flow longer.
Extended(f, join, paths) == UNION {Longer(f, join, p) : p \in paths}

\* Paths back as a row of sets, one for each number of flows.
PathsOf(row, f, join) ==
  /\ row[0] = {<<>>}
  /\ \A n \in 1..Len(f.flows) : row[n] = Extended(f, join, row[n - 1])

\* `PathsBack' collects such a row.
LEMMA PathsRow ==
  ASSUME NEW f, IsGraph(f), NEW join
  PROVE  \E row \in [0..Len(f.flows) -> SUBSET Seq(1..Len(f.flows))] :
           /\ PathsBack(f, join) = UNION {row[n] : n \in 1..Len(f.flows)}
           /\ PathsOf(row, f, join)
<1>1. PICK N \in Nat : N = Len(f.flows) /\ DOMAIN f.flows = 1..N
  BY DEF IsGraph
<1> DEFINE X    == SUBSET Seq(1..N)
           step == [n \in 1..N |-> [ps \in X |-> Extended(f, join, ps)]]
           body(h) == [n \in 0..N |-> IF n = 0 THEN {<<>>} ELSE Extended(f, join, h[n - 1])]
           Is(h) == h = body(h)
           paths == CHOOSE h : Is(h)
<1>2. {<<>>} \in X
  OBVIOUS
<1>3. ASSUME NEW ps \in X
      PROVE  Extended(f, join, ps) \in X
  <2>1. ASSUME NEW p \in ps, NEW q \in Longer(f, join, p)
        PROVE  q \in Seq(1..N)
    <3>1. PICK i \in DOMAIN f.flows : q = Append(p, i)
      BY DEF Longer
    <3> QED
      BY <1>1, <3>1
  <2> QED
    BY <2>1 DEF Extended
<1> HIDE DEF X
<1>4. step \in [1..N -> [X -> X]]
  BY <1>3
<1>5. PICK h \in [0..N -> X] : Iterates(h, {<<>>}, step, N)
  <2> HIDE DEF step
  <2> QED
    BY <1>2, <1>4, IterationExists
<1>6. Is(h)
  <2>1. h = [n \in 0..N |-> IF n = 0 THEN {<<>>} ELSE step[n][h[n - 1]]]
    BY <1>5 DEF Iterates
  <2>2. ASSUME NEW n \in 0..N, n # 0
        PROVE  step[n][h[n - 1]] = Extended(f, join, h[n - 1])
    <3>1. n \in 1..N /\ h[n - 1] \in X
      BY <2>2
    <3> QED
      BY <3>1
  <2> HIDE DEF step
  <2> QED
    BY <2>1, <2>2
<1>7. Is(paths)
  <2> HIDE DEF Is
  <2> QED
    BY <1>6
<1>8. PathsBack(f, join) = UNION {paths[n] : n \in 1..N}
  BY <1>1 DEF PathsBack, Extended
<1>9. ASSUME NEW k, Is(k)
      PROVE  k[0] = {<<>>} /\ \A n \in 1..N : k[n] = Extended(f, join, k[n - 1])
  <2>1. body(k)[0] = {<<>>}
    OBVIOUS
  <2>2. ASSUME NEW n \in 1..N
        PROVE  body(k)[n] = Extended(f, join, k[n - 1])
    OBVIOUS
  <2>3. k = body(k)
    BY <1>9
  <2> HIDE DEF body
  <2> QED
    BY <2>1, <2>2, <2>3
<1>10. h = paths
  <2> HIDE DEF paths, Is
  <2>1. h[0] = paths[0]
    BY <1>6, <1>7, <1>9
  <2>2. ASSUME NEW n \in 1..N, h[n - 1] = paths[n - 1]
        PROVE  h[n] = paths[n]
    <3>1. h[n] = Extended(f, join, h[n - 1])
      BY <1>6, <1>9
    <3>2. paths[n] = Extended(f, join, paths[n - 1])
      BY <1>7, <1>9
    <3> QED
      BY <2>2, <3>1, <3>2
  <2>3. \A n \in 0..N : h[n] = paths[n]
    <3>1. \A n \in 1..N : h[n - 1] = paths[n - 1] => h[n] = paths[n]
      BY <2>2
    <3> QED
      BY <2>1, <3>1, IterationIsUnique, ZenonT(40)
  <2> QED
    BY <2>3, <1>6, <1>7 DEF Is
<1> HIDE DEF paths, Is
<1>11. PathsOf(h, f, join)
  BY <1>1, <1>6, <1>9 DEF PathsOf
<1> QED
  BY <1>1, <1>8, <1>10, <1>11 DEF X

\* `f' has the flows of `g' behind `join', and its layers.
Lower(f, g, join, L, N) ==
  /\ IsGraph(f) /\ Heap(L, g, join, N)
  /\ ToSet(f.flows) \subseteq ToSet(g.flows)
  /\ \A q \in ToSet(g.flows) : \A k \in 0..N : q[2] \in L[k] => q \in ToSet(f.flows)
  /\ join \in NodesOf(f)

\* A path of `n' flows climbs `n' layers.
Climbs(p, f, L, n, N) ==
  /\ n <= N /\ Len(p) = n
  /\ \A j \in 1..n : Source(f.flows[p[j]]) \in L[j]

\* Where a path ends.
LEMMA EndOfClimb ==
  ASSUME NEW f, NEW g, NEW join, NEW L, NEW N, Lower(f, g, join, L, N),
         NEW n \in Nat, NEW p \in Seq(1..Len(f.flows)), Climbs(p, f, L, n, N)
  PROVE  End(f, join, p) \in L[n]
<1>1. CASE n = 0
  <2>1. p = <<>>
    BY <1>1 DEF Climbs
  <2> QED
    BY <1>1, <2>1 DEF End, Lower, Heap, Stacks
<1>2. CASE n # 0
  <2>1. p # <<>> /\ Last(p) = p[n] /\ n \in 1..n
    BY <1>2 DEF Climbs, Last
  <2> QED
    BY <2>1 DEF End, Climbs
<1> QED
  BY <1>1, <1>2

\* All paths back do so.
LEMMA PathsClimb ==
  ASSUME NEW f, NEW g, IsGraph(g), NEW join, NEW L, NEW N, Lower(f, g, join, L, N),
         NEW row \in [0..Len(f.flows) -> SUBSET Seq(1..Len(f.flows))],
         PathsOf(row, f, join)
  PROVE  \A n \in 0..Len(f.flows) : \A p \in row[n] : Climbs(p, f, L, n, N)
<1>1. PICK M \in Nat : M = Len(f.flows) /\ DOMAIN f.flows = 1..M
  <2>1. IsGraph(f)
    BY DEF Lower
  <2>2. f.flows \in Seq(ToSet(f.flows))
    BY <2>1 DEF IsGraph
  <2> QED
    BY <2>2
<1> DEFINE T == {n \in Nat : n <= M => \A p \in row[n] : Climbs(p, f, L, n, N)}
<1>2. 0 \in T
  <2>1. row[0] = {<<>>}
    BY DEF PathsOf
  <2> QED
    BY <2>1 DEF Climbs, Lower, Heap
<1>3. ASSUME NEW n \in Nat, n \in T
      PROVE  n + 1 \in T
  <2> SUFFICES ASSUME n + 1 <= M, NEW q \in row[n + 1]
               PROVE  Climbs(q, f, L, n + 1, N)
    OBVIOUS
  <2>1. row[n + 1] = Extended(f, join, row[n])
    <3>1. n + 1 \in 1..Len(f.flows) /\ (n + 1) - 1 = n
      BY <1>1
    <3> QED
      BY <3>1 DEF PathsOf
  <2>2. PICK p \in row[n] : q \in Longer(f, join, p)
    BY <2>1 DEF Extended
  <2>3. p \in Seq(1..Len(f.flows)) /\ Climbs(p, f, L, n, N)
    BY <1>1, <1>3
  <2>4. PICK i \in DOMAIN f.flows : q = Append(p, i) /\ Target(f.flows[i]) = End(f, join, p)
    BY <2>2 DEF Longer
  <2>5. End(f, join, p) \in L[n]
    BY <2>3, EndOfClimb
  <2>6. n \in 0..N
    BY <2>3 DEF Climbs, Lower, Heap
  <2>7. f.flows[i] \in ToSet(g.flows)
    BY DEF Lower, ToSet
  <2>8. n + 1 \in 1..N /\ Source(f.flows[i]) \in L[n + 1]
    BY <2>4, <2>5, <2>6, <2>7, FlowClimbs DEF Lower, Source, Target
  <2>9. Len(p) = n /\ Len(q) = n + 1 /\ q[n + 1] = i /\ \A j \in 1..n : q[j] = p[j]
    BY <1>1, <2>3, <2>4 DEF Climbs
  <2>10. ASSUME NEW j \in 1..(n + 1)
         PROVE  Source(f.flows[q[j]]) \in L[j]
    <3>1. CASE j = n + 1
      BY <2>8, <2>9, <3>1
    <3>2. CASE j # n + 1
      <4>1. j \in 1..n
        BY <3>2
      <4> QED
        BY <2>3, <2>9, <4>1 DEF Climbs
    <3> QED
      BY <3>1, <3>2
  <2> QED
    BY <2>8, <2>9, <2>10 DEF Climbs, Lower, Heap
<1>4. Nat \subseteq T
  <2> HIDE DEF T
  <2> QED
    BY <1>2, <1>3, SetInduction
<1> QED
  BY <1>1, <1>4

\* To each activity behind the join a path leads back.
LEMMA PathsReach ==
  ASSUME NEW f, NEW g, IsGraph(g), NEW join, NEW L, NEW N, Lower(f, g, join, L, N),
         NEW row \in [0..Len(f.flows) -> SUBSET Seq(1..Len(f.flows))],
         PathsOf(row, f, join)
  PROVE  \A n \in 0..N : n <= Len(f.flows) =>
           \A x \in L[n] : \E p \in row[n] : End(f, join, p) = x
<1>1. PICK M \in Nat : M = Len(f.flows) /\ DOMAIN f.flows = 1..M
  <2>1. IsGraph(f)
    BY DEF Lower
  <2>2. f.flows \in Seq(ToSet(f.flows))
    BY <2>1 DEF IsGraph
  <2> QED
    BY <2>2
<1>2. N \in Nat /\ L[0] = {join} /\ 0 \in 0..N
  BY DEF Lower, Heap, Stacks
<1> DEFINE T == {n \in Nat : n <= M /\ n <= N =>
                    \A x \in L[n] : \E p \in row[n] : End(f, join, p) = x}
<1>3. 0 \in T
  <2>1. row[0] = {<<>>} /\ End(f, join, <<>>) = join
    BY DEF PathsOf, End
  <2> QED
    BY <1>2, <2>1
<1>4. ASSUME NEW n \in Nat, n \in T
      PROVE  n + 1 \in T
  <2> SUFFICES ASSUME n + 1 <= M, n + 1 <= N, NEW x \in L[n + 1]
               PROVE  \E q \in row[n + 1] : End(f, join, q) = x
    OBVIOUS
  <2>1. n + 1 \in 1..N /\ (n + 1) - 1 = n /\ n \in 0..N /\ n + 1 \in 1..M /\ n \in 0..M
    BY <1>1, <1>2
  <2>2. PICK e \in ToSet(g.flows) : e[1] = x /\ e[2] \in L[n]
    BY <2>1, LayerFlow DEF Lower
  <2>3. e \in ToSet(f.flows)
    BY <2>1, <2>2 DEF Lower
  <2>4. PICK i \in 1..M : e = f.flows[i]
    BY <1>1, <2>3 DEF ToSet
  <2>5. PICK p \in row[n] : End(f, join, p) = e[2]
    BY <1>4, <2>1, <2>2
  <2>6. p \in Seq(1..M) /\ Climbs(p, f, L, n, N)
    BY <1>1, <2>1, PathsClimb
  <2>7. Source(f.flows[i]) = x /\ Target(f.flows[i]) = End(f, join, p)
    BY <2>2, <2>4, <2>5 DEF Source, Target
  <2>8. x # join
    BY <1>2, <2>1 DEF Lower, Heap
  <2>9. ASSUME NEW j \in ToSet(p)
        PROVE  x # Source(f.flows[j])
    <3>1. PICK k \in 1..n : j = p[k]
      BY <2>6 DEF ToSet, Climbs
    <3>2. Source(f.flows[j]) \in L[k] /\ k \in 0..N /\ k # n + 1 /\ n + 1 \in 0..N
      BY <1>2, <2>1, <2>6, <3>1 DEF Climbs
    <3> QED
      BY <3>2 DEF Lower, Heap
  <2>10. Append(p, i) \in Longer(f, join, p)
    BY <1>1, <2>4, <2>7, <2>8, <2>9 DEF Longer
  <2>11. row[n + 1] = Extended(f, join, row[n])
    BY <1>1, <2>1 DEF PathsOf
  <2>12. Append(p, i) \in row[n + 1]
    BY <2>5, <2>10, <2>11 DEF Extended
  <2>13. Append(p, i) # <<>> /\ Last(Append(p, i)) = i
    <3>1. /\ Append(p, i) \in Seq(1..M)
          /\ Len(Append(p, i)) = Len(p) + 1
          /\ Append(p, i)[Len(p) + 1] = i
      BY <2>6
    <3> QED
      BY <3>1 DEF Last
  <2>14. End(f, join, Append(p, i)) = x
    BY <2>7, <2>13 DEF End
  <2> QED
    BY <2>12, <2>14
<1>5. Nat \subseteq T
  <2> HIDE DEF T
  <2> QED
    BY <1>3, <1>4, SetInduction
<1> QED
  BY <1>1, <1>2, <1>5

\* Of paths of one length one comes last.
LEMMA LastPath ==
  ASSUME NEW n \in Nat, NEW M \in Nat, NEW Q \in SUBSET Seq(1..M), Q # {},
         \A q \in Q : Len(q) = n
  PROVE  \E p \in Q : \A q \in Q : ~Later(q, p)
<1> DEFINE T == {k \in Nat : k <= n =>
                    \E p \in Q : \A q \in Q : \A j \in 1..k :
                       (\A i \in 1..(j - 1) : q[i] = p[i]) => q[j] <= p[j]}
<1>1. 0 \in T
  OBVIOUS
<1>2. ASSUME NEW k \in Nat, k \in T
      PROVE  k + 1 \in T
  <2> SUFFICES ASSUME k + 1 <= n
               PROVE  \E p \in Q : \A q \in Q : \A j \in 1..(k + 1) :
                         (\A i \in 1..(j - 1) : q[i] = p[i]) => q[j] <= p[j]
    OBVIOUS
  <2>1. PICK p \in Q : \A q \in Q : \A j \in 1..k :
          (\A i \in 1..(j - 1) : q[i] = p[i]) => q[j] <= p[j]
    BY <1>2
  <2> DEFINE R == {q \in Q : \A i \in 1..k : q[i] = p[i]}
             V == {q[k + 1] : q \in R}
  <2>2. ASSUME NEW q \in Q, NEW j \in 1..n
        PROVE  q[j] \in 1..M
    <3>1. q \in Seq(1..M) /\ Len(q) = n
      OBVIOUS
    <3> QED
      BY <3>1
  <2>3. V \in SUBSET Nat /\ \A v \in V : v <= M
    BY <2>2, k + 1 \in 1..n
  <2>4. V # {}
    <3>1. p \in R
      OBVIOUS
    <3> QED
      BY <3>1
  <2>5. PICK m \in V : \A v \in V : v <= m
    <3> HIDE DEF V
    <3> QED
      BY <2>3, <2>4, GreatestOfSet
  <2>6. PICK r \in R : r[k + 1] = m
    OBVIOUS
  <2>7. ASSUME NEW q \in Q, NEW j \in 1..(k + 1), \A i \in 1..(j - 1) : q[i] = r[i]
        PROVE  q[j] <= r[j]
    <3>1. \A i \in 1..k : r[i] = p[i]
      BY <2>6
    <3>2. CASE j = k + 1
      <4>1. \A i \in 1..k : q[i] = p[i]
        BY <2>7, <3>1, <3>2
      <4>2. q[k + 1] \in V
        BY <4>1
      <4> QED
        BY <2>5, <2>6, <3>2, <4>2
    <3>3. CASE j # k + 1
      <4>1. j \in 1..k /\ \A i \in 1..(j - 1) : i \in 1..k
        BY <3>3
      <4>2. \A i \in 1..(j - 1) : q[i] = p[i]
        BY <2>7, <3>1, <4>1
      <4>3. q[j] <= p[j]
        BY <2>1, <4>1, <4>2
      <4> QED
        BY <3>1, <4>1, <4>3
    <3> QED
      BY <3>2, <3>3
  <2> QED
    BY <2>6, <2>7
<1>3. Nat \subseteq T
  <2> HIDE DEF T
  <2> QED
    BY <1>1, <1>2, SetInduction
<1>4. PICK p \in Q : \A q \in Q : \A j \in 1..n :
        (\A i \in 1..(j - 1) : q[i] = p[i]) => q[j] <= p[j]
  <2>1. n \in T
    BY <1>3
  <2>2. n <= n
    OBVIOUS
  <2> QED
    BY <2>1, <2>2
<1>5. ASSUME NEW q \in Q, Later(q, p)
      PROVE  FALSE
  <2>1. DOMAIN q = 1..n /\ DOMAIN p = 1..n
    OBVIOUS
  <2>2. PICK j \in 1..n : q[j] > p[j] /\ \A i \in 1..(j - 1) : q[i] = p[i]
    BY <1>5, <2>1 DEF Later
  <2>3. q[j] <= p[j] /\ q[j] \in Nat /\ p[j] \in Nat
    BY <1>4, <2>2
  <2> QED
    BY <2>2, <2>3
<1> QED
  BY <1>5

\* There are not more layers than flows.
LEMMA FewLayers ==
  ASSUME NEW f, NEW g, IsGraph(g), NEW join, NEW L, NEW N, Lower(f, g, join, L, N),
         NEW n \in 0..N, L[n] # {}
  PROVE  n <= Len(f.flows)
<1>1. PICK M \in Nat : M = Len(f.flows) /\ DOMAIN f.flows = 1..M
  <2>1. IsGraph(f)
    BY DEF Lower
  <2>2. f.flows \in Seq(ToSet(f.flows))
    BY <2>1 DEF IsGraph
  <2> QED
    BY <2>2
<1>2. N \in Nat /\ Heap(L, g, join, N)
  BY DEF Lower, Heap
<1> SUFFICES ASSUME M < n
             PROVE  FALSE
  BY <1>1, <1>2
<1>3. ASSUME NEW k \in 1..n
      PROVE  \E i \in 1..M : Source(f.flows[i]) \in L[k]
  <2>1. k \in 0..n /\ k \in 1..N /\ k - 1 \in 0..N
    BY <1>2
  <2>2. L[k] # {}
    BY <1>2, <2>1, LowerLayers
  <2>3. PICK x \in L[k] : TRUE
    BY <2>2
  <2>4. PICK e \in ToSet(g.flows) : e[1] = x /\ e[2] \in L[k - 1]
    BY <1>2, <2>1, LayerFlow
  <2>5. e \in ToSet(f.flows)
    BY <2>1, <2>4 DEF Lower
  <2>6. PICK i \in 1..M : e = f.flows[i]
    BY <1>1, <2>5 DEF ToSet
  <2> QED
    BY <2>4, <2>6 DEF Source
<1> DEFINE h == [k \in 1..n |-> CHOOSE i \in 1..M : Source(f.flows[i]) \in L[k]]
<1>4. \A k \in 1..n : h[k] \in 1..M /\ Source(f.flows[h[k]]) \in L[k]
  BY <1>3
<1>5. h \in [1..n -> 1..M]
  BY <1>4
<1> HIDE DEF h
<1>6. /\ IsFiniteSet(1..n) /\ Cardinality(1..n) = n
      /\ IsFiniteSet(1..M) /\ Cardinality(1..M) = M
  <2>1. n \in Int /\ n >= 1
    BY <1>1, <1>2
  <2>2. Cardinality(1..n) = n - 1 + 1
    BY <2>1, FS_Interval
  <2>3. Cardinality(1..M) = IF 1 > M THEN 0 ELSE M - 1 + 1
    BY FS_Interval
  <2>4. IsFiniteSet(1..n) /\ IsFiniteSet(1..M)
    BY <2>1, FS_Interval
  <2> QED
    BY <2>1, <2>2, <2>3, <2>4
<1>7. PICK i \in 1..n, j \in 1..n : i # j /\ h[i] = h[j]
  BY <1>5, <1>6, FS_PigeonHole
<1>8. i \in 0..N /\ j \in 0..N
  BY <1>2
<1> QED
  BY <1>2, <1>4, <1>7, <1>8 DEF Heap

\* The activities at a distance.
At(seen, i) == {x.activity : x \in {y \in seen : y.distance = i}}

\* What BackWalk has seen at a distance is a layer.
LEMMA SeenIsLayer ==
  ASSUME NEW f, NEW g, IsGraph(g), NEW join, NEW L, NEW N, Lower(f, g, join, L, N),
         NEW i \in 1..N
  PROVE  At(BackWalk(f, join), i) = L[i]
<1>1. PICK M \in Nat : M = Len(f.flows) /\ DOMAIN f.flows = 1..M
  <2>1. IsGraph(f)
    BY DEF Lower
  <2>2. f.flows \in Seq(ToSet(f.flows))
    BY <2>1 DEF IsGraph
  <2> QED
    BY <2>2
<1>2. PICK row \in [0..M -> SUBSET Seq(1..M)] :
        PathsBack(f, join) = UNION {row[n] : n \in 1..M} /\ PathsOf(row, f, join)
  BY <1>1, PathsRow DEF Lower
<1>3. N \in Nat /\ Heap(L, g, join, N)
  BY DEF Lower, Heap
<1> DEFINE paths == PathsBack(f, join)
           to(a) == {p \in paths : End(f, join, p) = a}
           last(a) == CHOOSE p \in to(a) : \A q \in to(a) : ~Later(q, p)
           seen(a) == [activity |-> a, distance |-> Len(last(a)),
                       visits |-> Cardinality(to(a))]
<1>4. ASSUME NEW p \in paths
      PROVE  /\ p \in Seq(1..M) /\ Len(p) \in 1..N /\ End(f, join, p) \in L[Len(p)]
             /\ \A n \in 0..N : End(f, join, p) \in L[n] => n = Len(p)
  <2>1. PICK n \in 1..M : p \in row[n]
    BY <1>2
  <2>2. p \in Seq(1..M) /\ Climbs(p, f, L, n, N)
    BY <1>1, <1>2, <2>1, PathsClimb
  <2>3. Len(p) = n /\ n \in 1..N /\ n \in 0..N
    BY <1>3, <2>2 DEF Climbs
  <2>4. End(f, join, p) \in L[n]
    BY <1>1, <2>2, EndOfClimb
  <2> QED
    BY <1>3, <2>2, <2>3, <2>4 DEF Heap
<1>5. ASSUME NEW a, to(a) # {}, NEW n \in 1..N, a \in L[n]
      PROVE  Len(last(a)) = n
  <2>1. to(a) \in SUBSET Seq(1..M)
    BY <1>4
  <2>2. \A q \in to(a) : Len(q) = n
    BY <1>3, <1>4, <1>5
  <2> HIDE DEF to
  <2>3. \E p \in to(a) : \A q \in to(a) : ~Later(q, p)
    <3>1. PICK Q : Q = to(a)
      OBVIOUS
    <3>2. n \in Nat /\ Q \in SUBSET Seq(1..M) /\ Q # {} /\ \A q \in Q : Len(q) = n
      BY <1>3, <1>5, <2>1, <2>2, <3>1
    <3>3. \E p \in Q : \A q \in Q : ~Later(q, p)
      BY <3>2, LastPath
    <3> QED
      BY <3>1, <3>3
  <2>4. last(a) \in to(a)
    BY <2>3
  <2> QED
    BY <2>2, <2>4
<1>6. BackWalk(f, join) = {seen(a) : a \in {End(f, join, p) : p \in paths}}
  BY DEF BackWalk
<1> HIDE DEF last
<1>7. ASSUME NEW y \in BackWalk(f, join), y.distance = i
      PROVE  y.activity \in L[i]
  <2>1. PICK p \in paths : y = seen(End(f, join, p))
    BY <1>6
  <2> DEFINE a == End(f, join, p)
  <2>2. p \in to(a) /\ Len(p) \in 1..N /\ a \in L[Len(p)]
    BY <1>4
  <2> HIDE DEF to, paths
  <2>3. Len(last(a)) = Len(p)
    BY <1>5, <2>2
  <2> QED
    BY <1>7, <2>1, <2>2, <2>3
<1>8. ASSUME NEW a \in L[i]
      PROVE  \E y \in BackWalk(f, join) : y.distance = i /\ y.activity = a
  <2>1. i \in 0..N /\ i \in 1..M
    BY <1>1, <1>3, FewLayers
  <2>2. PICK p \in row[i] : End(f, join, p) = a
    BY <1>1, <1>2, <2>1, PathsReach
  <2>3. p \in paths
    BY <1>2, <2>1, <2>2
  <2>4. p \in to(a)
    BY <2>2, <2>3
  <2> HIDE DEF to, paths
  <2>5. Len(last(a)) = i
    BY <1>5, <2>4
  <2>6. seen(a) \in BackWalk(f, join)
    BY <1>6, <2>2, <2>3
  <2> QED
    BY <2>5, <2>6
<1> QED
  BY <1>7, <1>8 DEF At

-----------------------------------------------------------------------------
(* Blocks.                                                                 *)

\* The steps of visitToLineUp are the flows, backwards.
LEMMA BackSteps ==
  ASSUME NEW f, IsGraph(f)
  PROVE  /\ [a \in NodesOf(f) |-> Away(Predecessors(f, a), 1)] \in Ways(NodesOf(f))
         /\ \A a \in NodesOf(f) :
              Backward(f, a) \subseteq Kids([x \in NodesOf(f) |-> Away(Predecessors(f, x), 1)], a)
<1> DEFINE steps == [a \in NodesOf(f) |-> Away(Predecessors(f, a), 1)]
<1>1. ASSUME NEW a \in NodesOf(f)
      PROVE  steps[a] \in Seq(NodesOf(f) \X {1, 2}) /\ Backward(f, a) \subseteq Kids(steps, a)
  <2>1. PICK s \in Seq(NodesOf(f)) : s = Predecessors(f, a) /\ ToSet(s) = Backward(f, a)
    BY NeighboursType
  <2>2. PICK t \in Seq(NodesOf(f) \X {1, 2}) :
          /\ t = Away(s, 1) /\ Len(t) = Len(s)
          /\ \A i \in 1..Len(s) : t[i] = <<s[i], 1>>
    BY AwayType
  <2>3. steps[a] = t
    BY <2>1, <2>2
  <2> HIDE DEF steps
  <2>4. ASSUME NEW b \in Backward(f, a)
        PROVE  b \in Kids(steps, a)
    <3>1. PICK i \in 1..Len(s) : b = s[i]
      BY <2>1 DEF ToSet
    <3>2. i \in DOMAIN t /\ t[i][1] = b
      BY <2>2, <3>1
    <3> QED
      BY <2>3, <3>2 DEF Kids
  <2> QED
    BY <2>3, <2>4
<1>2. steps \in Ways(NodesOf(f))
  BY <1>1 DEF Ways
<1> QED
  BY <1>1, <1>2

\* The line-up misses no activity behind the join.
LEMMA LineUpHolds ==
  ASSUME NEW f, NEW g, IsGraph(g), NEW join, NEW L, NEW N, Lower(f, g, join, L, N)
  PROVE  /\ LineUp(f, join) \in Seq(NodesOf(f))
         /\ \A i \in 1..N : L[i] \subseteq ToSet(LineUp(f, join))
<1>1. PICK steps \in Ways(NodesOf(f)) :
        /\ steps = [a \in NodesOf(f) |-> Away(Predecessors(f, a), 1)]
        /\ \A a \in NodesOf(f) : Backward(f, a) \subseteq Kids(steps, a)
  BY BackSteps DEF Lower
<1>2. join \in NodesOf(f) /\ IsFiniteSet(NodesOf(f)) /\ N \in Nat /\ Heap(L, g, join, N)
  BY NodesAreFinite DEF Lower, Heap
<1>3. PICK line \in Seq(Pairs(NodesOf(f))) :
        line = Walk(steps, join) /\ Explored(line, steps, join)
  BY <1>2, WalkExplores
<1> DEFINE names == [i \in DOMAIN line |-> line[i][1]]
<1>4. LineUp(f, join) = Tail(names)
  BY <1>1, <1>3 DEF LineUp
<1>5. Len(line) \in Nat /\ DOMAIN line = 1..Len(line) /\ Len(line) >= 1
  BY <1>3 DEF Explored
<1>6. ASSUME NEW i \in 1..Len(line)
      PROVE  line[i][1] \in NodesOf(f)
  BY <1>5 DEF Pairs
<1>7. names \in Seq(NodesOf(f)) /\ Len(names) = Len(line)
  <2>1. names \in [1..Len(line) -> NodesOf(f)]
    BY <1>5, <1>6
  <2> HIDE DEF names
  <2> QED
    BY <1>5, <2>1
<1>8. \A i \in 1..Len(line) : names[i] = line[i][1]
  BY <1>5
<1> HIDE DEF names
<1>9. /\ Tail(names) \in Seq(NodesOf(f)) /\ Len(Tail(names)) = Len(line) - 1
      /\ \A i \in 1..(Len(line) - 1) : Tail(names)[i] = names[i + 1]
  BY <1>5, <1>7
<1> DEFINE T == {k \in Nat : k <= N => L[k] \subseteq Met(ToSet(line))}
<1>10. 0 \in T
  <2>1. line[1] \in ToSet(line) /\ line[1][1] = join
    BY <1>3, <1>5 DEF Explored, ToSet
  <2>2. L[0] = {join}
    BY <1>2 DEF Heap, Stacks
  <2> QED
    BY <2>1, <2>2 DEF Met
<1>11. ASSUME NEW k \in Nat, k \in T
       PROVE  k + 1 \in T
  <2> SUFFICES ASSUME k + 1 <= N, NEW x \in L[k + 1]
               PROVE  x \in Met(ToSet(line))
    OBVIOUS
  <2>1. k + 1 \in 1..N /\ (k + 1) - 1 = k /\ k \in 0..N
    BY <1>2
  <2>2. PICK e \in ToSet(g.flows) : e[1] = x /\ e[2] \in L[k]
    BY <1>2, <2>1, LayerFlow
  <2>3. PICK v \in ToSet(line) : v[1] = e[2]
    <3>1. e[2] \in Met(ToSet(line))
      BY <1>2, <1>11, <2>1, <2>2
    <3> QED
      BY <3>1 DEF Met
  <2>4. e \in ToSet(f.flows)
    BY <2>1, <2>2 DEF Lower
  <2>5. x \in Backward(f, e[2])
    BY <2>2, <2>4 DEF Backward
  <2>6. v[1] \in NodesOf(f)
    BY DEF ToSet, Pairs
  <2>7. x \in Kids(steps, v[1])
    BY <1>1, <2>3, <2>5, <2>6
  <2> QED
    BY <1>3, <2>7 DEF Explored
<1>12. Nat \subseteq T
  <2> HIDE DEF T
  <2> QED
    BY <1>10, <1>11, SetInduction
<1>13. ASSUME NEW i \in 1..N, NEW x \in L[i]
       PROVE  x \in ToSet(LineUp(f, join))
  <2>1. x \in Met(ToSet(line))
    BY <1>2, <1>12
  <2>2. PICK h \in 1..Len(line) : line[h][1] = x
    BY <1>5, <2>1 DEF Met, ToSet
  <2>3. x # join
    <3>1. L[0] = {join} /\ 0 \in 0..N /\ i \in 0..N /\ i # 0
      BY <1>2 DEF Heap, Stacks
    <3> QED
      BY <1>2, <3>1 DEF Heap
  <2>4. h # 1
    BY <1>3, <2>2, <2>3 DEF Explored
  <2>5. h - 1 \in 1..(Len(line) - 1) /\ (h - 1) + 1 = h
    BY <1>5, <2>4
  <2>6. Tail(names)[h - 1] = x
    BY <1>8, <1>9, <2>2, <2>5
  <2> QED
    <3>1. DOMAIN Tail(names) = 1..(Len(line) - 1)
      BY <1>5, <1>9
    <3> QED
      BY <1>4, <2>5, <2>6, <3>1 DEF ToSet
<1> QED
  BY <1>4, <1>9, <1>13

\* Blocks while they are gathered.
Blocks(A) == [members : Seq(A), branch : Int, open : BOOLEAN]

\* A level closes the block if it is empty, and otherwise only if it is one activity.
Adds(c, b, level) ==
  /\ ~b.open => c = b
  /\ b.open => c.members = b.members \o level /\ (c.open \/ level = <<>> \/ Len(level) = 1)

\* That is what AddLevel does.
LEMMA AddLevelAdds ==
  ASSUME NEW g, IsGraph(g), NEW A, NEW seen, NEW level \in Seq(A), NEW b \in Blocks(A)
  PROVE  AddLevel(g, seen, level, b) \in Blocks(A) /\ Adds(AddLevel(g, seen, level, b), b, level)
<1> DEFINE entering == {k \in DOMAIN g.flows : Target(g.flows[k]) \in ToSet(level)}
           single   == Len(level) = 1
           branch   == IF single THEN b.branch
                       ELSE b.branch + Cardinality(entering) - Len(level)
           open     == /\ level # <<>>
                       /\ single => \A x \in seen :
                            x.activity = Head(level) => x.visits # b.branch
           next     == [members |-> b.members \o level, branch |-> branch, open |-> open]
<1>1. b.members \in Seq(A) /\ b.branch \in Int /\ b.open \in BOOLEAN
  BY DEF Blocks
<1>2. Cardinality(entering) \in Nat
  <2>1. DOMAIN g.flows = 1..Len(g.flows) /\ Len(g.flows) \in Nat
    BY DEF IsGraph
  <2>2. IsFiniteSet(DOMAIN g.flows)
    BY <2>1, FS_Interval
  <2>3. IsFiniteSet(entering)
    BY <2>2, FS_Subset
  <2> QED
    BY <2>3, FS_CardinalityType
<1> HIDE DEF entering
<1>3. branch \in Int
  BY <1>1, <1>2
<1>4. open \in BOOLEAN
  OBVIOUS
<1>5. b.members \o level \in Seq(A)
  BY <1>1
<1>6. open \/ level = <<>> \/ Len(level) = 1
  OBVIOUS
<1> HIDE DEF branch, open
<1>7. next \in Blocks(A)
  BY <1>3, <1>4, <1>5 DEF Blocks
<1>8. AddLevel(g, seen, level, b) = IF ~b.open THEN b ELSE next
  BY DEF AddLevel, branch, open, entering
<1> QED
  BY <1>6, <1>7, <1>8 DEF Adds

\* The block of a join as a row of blocks, one for each level.
BlockOf(row, g, join, seen, line) ==
  /\ row[0] = [members |-> <<>>, branch |-> Len(Predecessors(g, join)), open |-> TRUE]
  /\ \A n \in 1..Cardinality(NodesOf(g)) :
       row[n] = AddLevel(g, seen, Level(line, seen, n), row[n - 1])

\* A level is what the line has at a distance.
LEMMA LevelType ==
  ASSUME NEW A, NEW line \in Seq(A), NEW seen, NEW i
  PROVE  /\ Level(line, seen, i) \in Seq(A)
         /\ ToSet(Level(line, seen, i)) = ToSet(line) \cap At(seen, i)
BY OnlyKeeps DEF Level, At

\* `BlockMembers' is the last block of such a row.
LEMMA BlockRow ==
  ASSUME NEW g, IsGraph(g), NEW join, NEW A, NEW seen, NEW line \in Seq(A),
         seen = BackWalk(WithoutFeedback(g), join), line = LineUp(WithoutFeedback(g), join)
  PROVE  \E row \in [0..Cardinality(NodesOf(g)) -> Blocks(A)] :
           /\ BlockMembers(g, join) = row[Cardinality(NodesOf(g))].members
           /\ BlockOf(row, g, join, seen, line)
<1>1. PICK N \in Nat : N = Cardinality(NodesOf(g))
  BY NodesAreFinite, FS_CardinalityType
<1> DEFINE X    == Blocks(A)
           add(n, b) == AddLevel(g, seen, Level(line, seen, n), b)
           x0   == [members |-> <<>>, branch |-> Len(Predecessors(g, join)), open |-> TRUE]
           step == [n \in 1..N |-> [b \in X |-> add(n, b)]]
           body(f) == [n \in 0..N |-> IF n = 0 THEN x0 ELSE add(n, f[n - 1])]
           Is(f) == f = body(f)
           block == CHOOSE f : Is(f)
<1>2. x0 \in X
  <2>1. Len(Predecessors(g, join)) \in Int
    BY NeighboursType
  <2>2. <<>> \in Seq(A)
    OBVIOUS
  <2> QED
    BY <2>1, <2>2 DEF Blocks
<1>3. \A n \in 1..N : \A b \in X : add(n, b) \in X
  BY AddLevelAdds, LevelType
<1>4. BlockMembers(g, join) = block[N].members
  BY <1>1 DEF BlockMembers
<1>5. \A f : BlockOf(f, g, join, seen, line) <=>
               f[0] = x0 /\ \A n \in 1..N : f[n] = add(n, f[n - 1])
  BY <1>1 DEF BlockOf
<1> HIDE DEF X, x0, add
<1>6. step \in [1..N -> [X -> X]]
  BY <1>3
<1>7. PICK f \in [0..N -> X] : Iterates(f, x0, step, N)
  <2> HIDE DEF step
  <2> QED
    BY <1>2, <1>6, IterationExists
<1>8. Is(f)
  <2>1. f = [n \in 0..N |-> IF n = 0 THEN x0 ELSE step[n][f[n - 1]]]
    BY <1>7 DEF Iterates
  <2>2. ASSUME NEW n \in 0..N, n # 0
        PROVE  step[n][f[n - 1]] = add(n, f[n - 1])
    <3>1. n \in 1..N /\ f[n - 1] \in X
      BY <2>2
    <3> QED
      BY <3>1
  <2> HIDE DEF step
  <2> QED
    BY <2>1, <2>2
<1>9. Is(block)
  <2> HIDE DEF Is
  <2> QED
    BY <1>8
<1>10. ASSUME NEW h, Is(h)
       PROVE  h[0] = x0 /\ \A n \in 1..N : h[n] = add(n, h[n - 1])
  <2>1. body(h)[0] = x0
    OBVIOUS
  <2>2. ASSUME NEW n \in 1..N
        PROVE  body(h)[n] = add(n, h[n - 1])
    OBVIOUS
  <2>3. h = body(h)
    BY <1>10
  <2> HIDE DEF body
  <2> QED
    BY <2>1, <2>2, <2>3
<1>11. f = block
  <2> HIDE DEF block, Is
  <2>1. f[0] = block[0]
    BY <1>8, <1>9, <1>10
  <2>2. ASSUME NEW n \in 1..N, f[n - 1] = block[n - 1]
        PROVE  f[n] = block[n]
    <3>1. f[n] = add(n, f[n - 1])
      BY <1>8, <1>10
    <3>2. block[n] = add(n, block[n - 1])
      BY <1>9, <1>10
    <3> QED
      BY <2>2, <3>1, <3>2
  <2>3. \A n \in 0..N : f[n] = block[n]
    <3>1. \A n \in 1..N : f[n - 1] = block[n - 1] => f[n] = block[n]
      BY <2>2
    <3> QED
      BY <2>1, <3>1, IterationIsUnique, ZenonT(40)
  <2> QED
    BY <2>3, <1>8, <1>9 DEF Is
<1> HIDE DEF block, Is
<1>12. BlockOf(f, g, join, seen, line)
  BY <1>5, <1>8, <1>10
<1> QED
  BY <1>1, <1>4, <1>11, <1>12 DEF X

\* Behind an activity of a layer lies what is in the layers beyond, and all of it if
\* the activity is alone in its layer.
LEMMA LayersBeyond ==
  ASSUME NEW g, IsGraph(g), NEW a, NEW L, NEW N, Heap(L, g, a, N),
         NEW k \in 0..N, NEW x \in L[k], NEW K, Stacks(K, g, x)
  PROVE  /\ Between(K, 1, N) \subseteq Between(L, k + 1, N)
         /\ L[k] = {x} => Between(K, 1, N) = Between(L, k + 1, N)
<1>1. N \in Nat /\ L[N] = {}
  BY TopLayerIsEmpty DEF Heap
<1> DEFINE above(m) == IF k + m <= N THEN L[k + m] ELSE {}
           T == {m \in Nat : m <= N => K[m] \subseteq above(m) /\ (L[k] = {x} => K[m] = above(m))}
<1>2. /\ K[0] = {x}
      /\ \A m \in 1..N : K[m] = UNION {Backward(g, b) : b \in K[m - 1]}
      /\ \A m \in 1..N : L[m] = UNION {Backward(g, b) : b \in L[m - 1]}
  BY DEF Heap, Stacks
<1>3. 0 \in T
  <2>1. above(0) = L[k]
    BY <1>1
  <2> HIDE DEF above
  <2> QED
    BY <1>2, <2>1
<1>4. ASSUME NEW m \in Nat, m \in T
      PROVE  m + 1 \in T
  <2> SUFFICES ASSUME m + 1 <= N
               PROVE  /\ K[m + 1] \subseteq above(m + 1)
                      /\ L[k] = {x} => K[m + 1] = above(m + 1)
    OBVIOUS
  <2>1. above(m + 1) = UNION {Backward(g, b) : b \in above(m)}
    <3>1. CASE k + (m + 1) <= N
      <4>1. k + (m + 1) \in 1..N /\ (k + (m + 1)) - 1 = k + m
        BY <1>1, <3>1
      <4>2. L[k + (m + 1)] = UNION {Backward(g, b) : b \in L[k + m]}
        BY <1>2, <4>1
      <4>3. above(m + 1) = L[k + (m + 1)] /\ above(m) = L[k + m]
        BY <1>1, <3>1
      <4> QED
        BY <4>2, <4>3
    <3>2. CASE ~(k + (m + 1) <= N)
      <4>1. above(m + 1) = {}
        BY <3>2
      <4>2. above(m) = {}
        <5>1. CASE k + m <= N
          <6>1. k + m = N
            BY <1>1, <3>2, <5>1
          <6> QED
            BY <1>1, <6>1
        <5>2. CASE ~(k + m <= N)
          BY <5>2
        <5> QED
          BY <5>1, <5>2
      <4> QED
        BY <4>1, <4>2
    <3> QED
      BY <3>1, <3>2
  <2>2. m + 1 \in 1..N /\ (m + 1) - 1 = m /\ m <= N
    BY <1>1
  <2>3. K[m + 1] = UNION {Backward(g, b) : b \in K[m]}
    BY <1>2, <2>2
  <2>4. K[m] \subseteq above(m) /\ (L[k] = {x} => K[m] = above(m))
    BY <1>4, <2>2
  <2> HIDE DEF above
  <2> QED
    BY <2>1, <2>3, <2>4
<1>5. Nat \subseteq T
  <2> HIDE DEF T
  <2> QED
    BY <1>3, <1>4, SetInduction
<1>6. ASSUME NEW m \in 1..N
      PROVE  K[m] \subseteq above(m) /\ (L[k] = {x} => K[m] = above(m))
  <2>1. m \in T
    BY <1>1, <1>5
  <2> QED
    BY <1>1, <2>1
<1>7. ASSUME NEW m \in 1..N
      PROVE  above(m) \subseteq Between(L, k + 1, N)
  <2>1. CASE k + m <= N
    <3>1. k + m \in (k + 1)..N /\ above(m) = L[k + m]
      BY <1>1, <2>1
    <3> QED
      BY <3>1 DEF Between
  <2>2. CASE ~(k + m <= N)
    BY <2>2
  <2> QED
    BY <2>1, <2>2
<1>8. ASSUME NEW j \in (k + 1)..N
      PROVE  \E m \in 1..N : above(m) = L[j]
  <2>1. j - k \in 1..N /\ k + (j - k) = j /\ j <= N
    BY <1>1
  <2>2. above(j - k) = L[j]
    BY <2>1
  <2> QED
    BY <2>1, <2>2
<1> HIDE DEF above
<1>9. Between(K, 1, N) \subseteq Between(L, k + 1, N)
  BY <1>6, <1>7 DEF Between
<1>10. ASSUME L[k] = {x}
       PROVE  Between(L, k + 1, N) \subseteq Between(K, 1, N)
  BY <1>6, <1>8, <1>10 DEF Between
<1> QED
  BY <1>9, <1>10

\* The block as far as it has been gathered: some layers, the last of which has one
\* activity when the block is closed.
Gathered(b, L, i) ==
  IF b.open
  THEN ToSet(b.members) = Between(L, 1, i)
  ELSE \E k \in 1..i : /\ ToSet(b.members) = Between(L, 1, k)
                       /\ L[k] = {} \/ L[k] = {Last(b.members)}

\* What findBlockMembers gathers are the layers behind the join.
LEMMA BlockGathers ==
  ASSUME NEW f, NEW g, IsGraph(g), NEW join, NEW L, NEW N, Lower(f, g, join, L, N),
         f = WithoutFeedback(g)
  PROVE  \E b \in Blocks(NodesOf(f)) : BlockMembers(g, join) = b.members /\ Gathered(b, L, N)
<1>0. PICK A, seen, line : A = NodesOf(f) /\ seen = BackWalk(f, join) /\ line = LineUp(f, join)
  OBVIOUS
<1>1. N \in Nat /\ N = Cardinality(NodesOf(g)) /\ Heap(L, g, join, N)
  BY DEF Lower, Heap
<1>2. line \in Seq(A) /\ \A i \in 1..N : L[i] \subseteq ToSet(line)
  BY <1>0, LineUpHolds
<1>3. \A i \in 1..N : At(seen, i) = L[i]
  BY <1>0, SeenIsLayer
<1>4. PICK row \in [0..N -> Blocks(A)] :
        BlockMembers(g, join) = row[N].members /\ BlockOf(row, g, join, seen, line)
  BY <1>0, <1>1, <1>2, BlockRow
<1>5. ASSUME NEW i \in 1..N
      PROVE  Level(line, seen, i) \in Seq(A) /\ ToSet(Level(line, seen, i)) = L[i]
  <2>1. L[i] \subseteq ToSet(line) /\ At(seen, i) = L[i]
    BY <1>2, <1>3
  <2>2. /\ Level(line, seen, i) \in Seq(A)
        /\ ToSet(Level(line, seen, i)) = ToSet(line) \cap At(seen, i)
    BY <1>2, LevelType
  <2> QED
    BY <2>1, <2>2
<1> DEFINE T == {n \in Nat : n <= N => Gathered(row[n], L, n)}
<1>6. 0 \in T
  <2>1. row[0].open = TRUE /\ row[0].members = <<>>
    BY <1>4 DEF BlockOf
  <2>2. ToSet(<<>>) = {} /\ Between(L, 1, 0) = {}
    BY DEF ToSet, Between
  <2> QED
    BY <2>1, <2>2 DEF Gathered
<1>7. ASSUME NEW n \in Nat, n \in T
      PROVE  n + 1 \in T
  <2> SUFFICES ASSUME n + 1 <= N
               PROVE  Gathered(row[n + 1], L, n + 1)
    OBVIOUS
  <2>1. n + 1 \in 1..N /\ (n + 1) - 1 = n /\ n \in 0..N
    BY <1>1
  <2>2. PICK b \in Blocks(A) : b = row[n] /\ Gathered(b, L, n)
    BY <1>7, <2>1
  <2>3. PICK level \in Seq(A) : level = Level(line, seen, n + 1) /\ ToSet(level) = L[n + 1]
    BY <1>5, <2>1
  <2>4. row[n + 1] = AddLevel(g, seen, level, b)
    BY <1>1, <1>4, <2>1, <2>2, <2>3 DEF BlockOf
  <2>5. PICK c \in Blocks(A) :
          /\ c = row[n + 1]
          /\ ~b.open => c = b
          /\ b.open => c.members = b.members \o level /\ (c.open \/ level = <<>> \/ Len(level) = 1)
    <3>1. PICK c : c = AddLevel(g, seen, level, b)
      OBVIOUS
    <3>2. c \in Blocks(A) /\ Adds(c, b, level)
      BY <3>1, AddLevelAdds
    <3> QED
      BY <2>4, <3>1, <3>2 DEF Adds
  <2>6. CASE ~b.open
    <3>1. PICK k \in 1..n : /\ ToSet(b.members) = Between(L, 1, k)
                            /\ L[k] = {} \/ L[k] = {Last(b.members)}
      BY <2>2, <2>6 DEF Gathered
    <3>2. k \in 1..(n + 1)
      OBVIOUS
    <3> QED
      BY <2>5, <2>6, <3>1, <3>2 DEF Gathered
  <2>7. CASE b.open
    <3>1. b.members \in Seq(A) /\ c.members = b.members \o level
      BY <2>5, <2>7 DEF Blocks
    <3>2. ToSet(c.members) = Between(L, 1, n + 1)
      <4>1. ToSet(c.members) = ToSet(b.members) \cup ToSet(level)
        <5>1. /\ DOMAIN (b.members \o level) = 1..(Len(b.members) + Len(level))
              /\ Len(b.members) \in Nat /\ Len(level) \in Nat
              /\ DOMAIN b.members = 1..Len(b.members) /\ DOMAIN level = 1..Len(level)
              /\ \A i \in 1..Len(b.members) : (b.members \o level)[i] = b.members[i]
              /\ \A i \in 1..Len(level) : (b.members \o level)[Len(b.members) + i] = level[i]
          BY <3>1
        <5>2. ASSUME NEW x \in ToSet(b.members \o level)
              PROVE  x \in ToSet(b.members) \cup ToSet(level)
          <6>1. PICK i \in 1..(Len(b.members) + Len(level)) : x = (b.members \o level)[i]
            BY <5>1 DEF ToSet
          <6>2. CASE i <= Len(b.members)
            BY <5>1, <6>1, <6>2 DEF ToSet
          <6>3. CASE i > Len(b.members)
            <7>1. i - Len(b.members) \in 1..Len(level)
                  /\ Len(b.members) + (i - Len(b.members)) = i
              BY <5>1, <6>1, <6>3
            <7>2. x = level[i - Len(b.members)]
              BY <5>1, <6>1, <7>1
            <7> QED
              BY <5>1, <7>1, <7>2 DEF ToSet
          <6> QED
            BY <5>1, <6>2, <6>3
        <5>3. ASSUME NEW x \in ToSet(b.members)
              PROVE  x \in ToSet(b.members \o level)
          <6>1. PICK i \in 1..Len(b.members) : x = b.members[i]
            BY <5>1 DEF ToSet
          <6>2. i \in DOMAIN (b.members \o level) /\ (b.members \o level)[i] = x
            BY <5>1, <6>1
          <6> QED
            BY <6>2 DEF ToSet
        <5>4. ASSUME NEW x \in ToSet(level)
              PROVE  x \in ToSet(b.members \o level)
          <6>1. PICK i \in 1..Len(level) : x = level[i]
            BY <5>1 DEF ToSet
          <6>2. /\ Len(b.members) + i \in DOMAIN (b.members \o level)
                /\ (b.members \o level)[Len(b.members) + i] = x
            BY <5>1, <6>1
          <6> QED
            BY <6>2 DEF ToSet
        <5> QED
          BY <3>1, <5>2, <5>3, <5>4
      <4>2. ToSet(b.members) = Between(L, 1, n)
        BY <2>2, <2>7 DEF Gathered
      <4>3. Between(L, 1, n + 1) = Between(L, 1, n) \cup L[n + 1]
        <5>1. \A j : j \in 1..(n + 1) <=> j \in 1..n \/ j = n + 1
          OBVIOUS
        <5> QED
          BY <5>1 DEF Between
      <4> QED
        BY <2>3, <4>1, <4>2, <4>3
    <3>3. CASE c.open
      BY <2>5, <3>2, <3>3 DEF Gathered
    <3>4. CASE ~c.open
      <4>1. L[n + 1] = {} \/ L[n + 1] = {Last(c.members)}
        <5>1. CASE level = <<>>
          <6>1. ToSet(<<>>) = {}
            BY DEF ToSet
          <6> QED
            BY <2>3, <5>1, <6>1
        <5>2. CASE Len(level) = 1
          <6>1. ToSet(level) = {level[1]}
            <7>1. DOMAIN level = {1}
              BY <5>2
            <7> QED
              BY <7>1 DEF ToSet
          <6>2. Last(c.members) = level[1]
            <7>1. Len(c.members) = Len(b.members) + 1 /\ c.members[Len(b.members) + 1] = level[1]
              <8>1. Len(b.members) \in Nat /\ 1 \in 1..Len(level)
                BY <3>1, <5>2
              <8>2. (b.members \o level)[Len(b.members) + 1] = level[1]
                BY <3>1, <8>1
              <8>3. Len(b.members \o level) = Len(b.members) + Len(level)
                BY <3>1
              <8> QED
                BY <3>1, <5>2, <8>2, <8>3
            <7> QED
              BY <7>1 DEF Last
          <6> QED
            BY <2>3, <6>1, <6>2
        <5> QED
          BY <2>5, <2>7, <3>4, <5>1, <5>2
      <4>2. n + 1 \in 1..(n + 1)
        OBVIOUS
      <4> QED
        BY <2>5, <3>2, <3>4, <4>1, <4>2 DEF Gathered
    <3> QED
      BY <3>3, <3>4
  <2> QED
    BY <2>2, <2>6, <2>7
<1>8. Gathered(row[N], L, N)
  <2>1. Nat \subseteq T
    <3> HIDE DEF T
    <3> QED
      BY <1>6, <1>7, SetInduction
  <2> QED
    BY <1>1, <2>1
<1>9. row[N] \in Blocks(A)
  BY <1>1
<1> QED
  BY <1>0, <1>4, <1>8, <1>9

\* A block that ends with one activity is closed, and so is one that goes on to the end.
LEMMA BlockCloses ==
  ASSUME NEW g, IsGraph(g), g.boundaries = <<>>, NEW s, g.starts = <<s>>,
         NEW join \in NodesOf(g), Balanced(g, join), BlockMembers(g, join) # <<>>
  PROVE  Behind(g, join) =
           ToSet(BlockMembers(g, join)) \cup Behind(g, Last(BlockMembers(g, join)))
<1>1. PICK N \in Nat : N = Cardinality(NodesOf(g))
  BY NodesAreFinite, FS_CardinalityType
<1>2. PICK L : /\ Stacks(L, g, join)
               /\ Behind(g, join) = Between(L, 1, N)
               /\ \A m, n \in 0..N : m # n => L[m] \cap L[n] = {}
  BY <1>1, LayersStack
<1>3. Heap(L, g, join, N)
  BY <1>1, <1>2 DEF Heap
<1>4. PICK f : f = WithoutFeedback(g) /\ Lower(f, g, join, L, N)
  BY <1>3, ForwardLayers DEF Lower
<1>5. PICK b \in Blocks(NodesOf(f)) : BlockMembers(g, join) = b.members /\ Gathered(b, L, N)
  BY <1>4, BlockGathers
<1>6. PICK k \in 0..N : /\ ToSet(b.members) = Between(L, 1, k)
                        /\ k = N \/ L[k] = {} \/ L[k] = {Last(b.members)}
  <2>1. CASE b.open
    BY <1>1, <1>5, <2>1 DEF Gathered
  <2>2. CASE ~b.open
    <3>1. PICK k \in 1..N : /\ ToSet(b.members) = Between(L, 1, k)
                            /\ L[k] = {} \/ L[k] = {Last(b.members)}
      BY <1>5, <2>2 DEF Gathered
    <3>2. k \in 0..N
      BY <1>1
    <3> QED
      BY <3>1, <3>2
  <2> QED
    BY <2>1, <2>2
<1>7. PICK x : x = Last(b.members)
  OBVIOUS
<1>8. x \in ToSet(b.members)
  <2>1. b.members \in Seq(NodesOf(f)) /\ b.members # <<>>
    BY <1>5 DEF Blocks
  <2>2. Len(b.members) \in DOMAIN b.members
    BY <2>1
  <2> QED
    BY <1>7, <2>2 DEF Last, ToSet
<1>9. PICK i \in 1..k : x \in L[i]
  BY <1>6, <1>8 DEF Between
<1>10. i \in 0..N /\ i \in 1..N
  BY <1>1
<1>11. x \in NodesOf(g)
  BY <1>3, <1>9, <1>10 DEF Heap, Stacks
<1>12. PICK K : Stacks(K, g, x) /\ Behind(g, x) = Between(K, 1, N)
  BY <1>1, <1>11, LayersStack
<1>13. /\ Behind(g, x) \subseteq Between(L, i + 1, N)
       /\ L[i] = {x} => Behind(g, x) = Between(L, i + 1, N)
  BY <1>3, <1>9, <1>10, <1>12, LayersBeyond
<1>14. Behind(g, x) \subseteq Behind(g, join)
  <2>1. \A j \in (i + 1)..N : j \in 1..N
    BY <1>1, <1>10
  <2> QED
    BY <1>2, <1>13, <2>1 DEF Between
<1>15. ToSet(b.members) \subseteq Behind(g, join)
  <2>1. \A j \in 1..k : j \in 1..N
    BY <1>1
  <2> QED
    BY <1>2, <1>6, <2>1 DEF Between
<1>16. ASSUME NEW y \in Behind(g, join), y \notin ToSet(b.members)
       PROVE  y \in Behind(g, x)
  <2>1. PICK j \in 1..N : y \in L[j]
    BY <1>2 DEF Between
  <2>2. j \notin 1..k
    BY <1>6, <1>16, <2>1 DEF Between
  <2>3. j > k /\ k # N
    BY <1>1, <2>1, <2>2
  <2>4. L[k] # {}
    <3>1. k \in 0..j /\ j \in 0..N
      BY <1>1, <2>3
    <3> QED
      BY <1>3, <2>1, <3>1, LowerLayers
  <2>5. L[k] = {x}
    BY <1>6, <1>7, <2>3, <2>4
  <2>6. i = k
    <3>1. x \in L[k] /\ k \in 0..N
      BY <2>5
    <3> QED
      BY <1>3, <1>9, <1>10, <3>1 DEF Heap
  <2>7. j \in (i + 1)..N
    BY <1>1, <2>1, <2>3, <2>6
  <2> QED
    BY <1>13, <2>1, <2>5, <2>6, <2>7 DEF Between
<1> QED
  BY <1>5, <1>7, <1>14, <1>15, <1>16

\* The block that BlockFinder yields for a join where paths of one length come together
\* holds all that may still send the join a token, up to its last member.
THEOREM BlocksAreClosed == Spec => []BlockIsClosed
<1>1. Drawn => BlockIsClosed
  <2> SUFFICES ASSUME Drawn, Join \in Nodes, sheet.boundaries = <<>>, Balanced(Graph, Join),
                      BlockMembers(Graph, Join) # <<>>
               PROVE  Behind(Graph, Join) =
                        ToSet(BlockMembers(Graph, Join))
                          \cup Behind(Graph, Last(BlockMembers(Graph, Join)))
    BY DEF BlockIsClosed
  <2>1. IsGraph(Graph)
    BY DrawnIsGraph
  <2>2. Graph.boundaries = <<>> /\ Graph.starts = <<Start>> /\ Join \in NodesOf(Graph)
    BY DEF Graph, Nodes
  <2> QED
    BY <2>1, <2>2, BlockCloses
<1> QED
  BY <1>1, DrawnInvariant, PTL
=============================================================================
