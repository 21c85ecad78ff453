----------------------------- MODULE Induction -----------------------------
(***************************************************************************)
(* Induction over the natural numbers, as facts about sets of numbers and  *)
(* about functions that are defined by recursion, which the provers can    *)
(* use (those of NaturalsInduction are about operators).                   *)
(***************************************************************************)
EXTENDS Integers, FiniteSetTheorems, TLAPS

\* What holds of 0, and of n + 1 if it holds of n, holds of every number.
LEMMA SetInduction ==
  ASSUME NEW T, 0 \in T, \A n \in Nat : n \in T => n + 1 \in T
  PROVE  Nat \subseteq T
<1> SUFFICES ASSUME NEW n \in Nat, n \notin T
             PROVE  FALSE
  OBVIOUS
<1> DEFINE missing == {k \in 0..n : k \notin T}
           down    == [k \in missing |-> k - 1]
<1>1. \A k \in missing : k - 1 \in missing
  OBVIOUS
<1>2. n \in missing
  OBVIOUS
<1>3. down \in Injection(missing, missing)
  <2>1. down \in [missing -> missing]
    BY <1>1
  <2>2. \A j, k \in missing : j - 1 = k - 1 => j = k
    OBVIOUS
  <2> QED
    BY <2>1, <2>2 DEF Injection, IsInjective
<1>4. missing \in SUBSET Nat /\ \A k \in missing : k <= n
  OBVIOUS
<1> HIDE DEF missing
<1>5. IsFiniteSet(missing)
  BY <1>4, FS_BoundedSetOfNaturals
<1>6. down \in Surjection(missing, missing)
  BY <1>3, <1>5, FS_Injection
<1>7. PICK k \in missing : down[k] = n
  BY <1>2, <1>6 DEF Surjection
<1> QED
  BY <1>4, <1>7

\* A set of numbers has a least one.
LEMMA LeastOfSet ==
  ASSUME NEW S \in SUBSET Nat, S # {}
  PROVE  \E n \in S : \A k \in S : n <= k
<1> SUFFICES ASSUME \A n \in S : \E k \in S : k < n
             PROVE  FALSE
  OBVIOUS
<1> DEFINE T == {n \in Nat : \A k \in S : n <= k}
<1>1. 0 \in T
  OBVIOUS
<1>2. ASSUME NEW n \in Nat, n \in T
      PROVE  n + 1 \in T
  <2>1. n \notin S
    BY <1>2
  <2>2. ASSUME NEW k \in S
        PROVE  n + 1 <= k
    BY <1>2, <2>1
  <2> QED
    BY <2>2
<1> HIDE DEF T
<1>3. Nat \subseteq T
  BY <1>1, <1>2, SetInduction
<1>4. PICK n \in S : TRUE
  OBVIOUS
<1>5. n + 1 \in T
  BY <1>3
<1> QED
  BY <1>4, <1>5 DEF T

\* A set of numbers that are not too large has a greatest one.
LEMMA GreatestOfSet ==
  ASSUME NEW S \in SUBSET Nat, S # {}, NEW top \in Nat, \A k \in S : k <= top
  PROVE  \E n \in S : \A k \in S : k <= n
<1> DEFINE T == {top - k : k \in S}
<1>1. T \in SUBSET Nat /\ T # {}
  <2>1. \A k \in S : top - k \in Nat
    OBVIOUS
  <2>2. PICK k \in S : TRUE
    OBVIOUS
  <2> QED
    BY <2>1, <2>2
<1>2. PICK m \in T : \A k \in T : m <= k
  <2> HIDE DEF T
  <2> QED
    BY <1>1, LeastOfSet
<1>3. PICK n \in S : m = top - n
  BY <1>2
<1>4. ASSUME NEW k \in S
      PROVE  k <= n
  <2>1. top - n <= top - k
    BY <1>2, <1>3
  <2> QED
    BY <2>1
<1> QED
  BY <1>4

\* `f' begins with `x' and goes on as the functions of `step' say.
Iterates(f, x, step, m) ==
  f = [n \in 0..m |-> IF n = 0 THEN x ELSE step[n][f[n - 1]]]

\* A recursion that stays within a set defines a function.
LEMMA IterationExists ==
  ASSUME NEW N \in Nat, NEW X, NEW x \in X, NEW step \in [1..N -> [X -> X]]
  PROVE  \E f \in [0..N -> X] : Iterates(f, x, step, N)
<1> DEFINE T == {m \in Nat : m <= N => \E f \in [0..m -> X] : Iterates(f, x, step, m)}
<1>1. 0 \in T
  <2> DEFINE f == [n \in 0..0 |-> x]
  <2>1. f \in [0..0 -> X] /\ Iterates(f, x, step, 0)
    BY DEF Iterates
  <2> QED
    BY <2>1
<1>2. ASSUME NEW m \in Nat, m \in T
      PROVE  m + 1 \in T
  <2> SUFFICES ASSUME m + 1 <= N
               PROVE  \E f \in [0..(m + 1) -> X] : Iterates(f, x, step, m + 1)
    OBVIOUS
  <2>1. PICK f \in [0..m -> X] : Iterates(f, x, step, m)
    BY <1>2
  <2>2. PICK y \in X : y = step[m + 1][f[m]]
    OBVIOUS
  <2> DEFINE g == [n \in 0..(m + 1) |-> IF n = m + 1 THEN y ELSE f[n]]
  <2>3. g \in [0..(m + 1) -> X]
    OBVIOUS
  <2>4. ASSUME NEW n \in 0..(m + 1)
        PROVE  g[n] = IF n = 0 THEN x ELSE step[n][g[n - 1]]
    <3>1. CASE n = m + 1
      BY <2>2, <3>1
    <3>2. CASE n # m + 1
      BY <2>1, <3>2 DEF Iterates
    <3> QED
      BY <3>1, <3>2
  <2>5. Iterates(g, x, step, m + 1)
    BY <2>4 DEF Iterates
  <2> HIDE DEF g
  <2> QED
    BY <2>3, <2>5
<1> HIDE DEF T
<1>3. N \in T
  BY <1>1, <1>2, SetInduction
<1> QED
  BY <1>3 DEF T

\* Two functions that begin alike and go on alike are alike.
LEMMA IterationIsUnique ==
  ASSUME NEW N \in Nat, NEW f, NEW g, f[0] = g[0],
         \A n \in 1..N : f[n - 1] = g[n - 1] => f[n] = g[n]
  PROVE  \A n \in 0..N : f[n] = g[n]
<1> DEFINE T == {n \in Nat : n \in 0..N => f[n] = g[n]}
<1>1. 0 \in T
  OBVIOUS
<1>2. ASSUME NEW n \in Nat, n \in T
      PROVE  n + 1 \in T
  <2> SUFFICES ASSUME n + 1 \in 0..N
               PROVE  f[n + 1] = g[n + 1]
    OBVIOUS
  <2>1. f[n] = g[n] /\ n + 1 \in 1..N /\ (n + 1) - 1 = n
    BY <1>2
  <2> QED
    BY <2>1
<1>3. Nat \subseteq T
  <2> HIDE DEF T
  <2> QED
    BY <1>1, <1>2, SetInduction
<1> QED
  BY <1>3
=============================================================================
