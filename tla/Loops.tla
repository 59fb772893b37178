--------------------------------- MODULE Loops ---------------------------------
(***************************************************************************)
(* Induction over numbers, and the loops of the C code as functions that   *)
(* give the state after each turn.                                         *)
(***************************************************************************)
EXTENDS Integers, FiniteSets, FiniteSetTheorems, TLAPS

\* A set with 0 that goes on from each number to the next is all of Nat: were N the
\* one left out, adding one would inject its numbers below N into themselves without 0.
LEMMA Induct ==
  ASSUME NEW I \in SUBSET Nat, 0 \in I, \A n \in I : n + 1 \in I
  PROVE  I = Nat
<1> SUFFICES ASSUME NEW N \in Nat, N \notin I
             PROVE  FALSE
  OBVIOUS
<1> DEFINE A == {n \in 0 .. N : n \in I}
           f == [n \in A |-> n + 1]
<1>1. IsFiniteSet(A) /\ IsFiniteSet(A \ {0}) /\ Cardinality(A \ {0}) = Cardinality(A) - 1
  <2>1. IsFiniteSet(0 .. N)
    BY FS_Interval
  <2>2. IsFiniteSet(A) /\ 0 \in A
    BY <2>1, FS_Subset
  <2> QED
    BY <2>2, FS_RemoveElement
<1>2. f \in [A -> A \ {0}]
  OBVIOUS
<1>3. Cardinality(A) \in Nat
  BY <1>1, FS_CardinalityType
<1> HIDE DEF A, f
<1>4. Cardinality(A \ {0}) < Cardinality(A)
  BY <1>1, <1>3
<1>5. PICK m \in A, n \in A : m # n /\ f[m] = f[n]
  BY <1>1, <1>2, <1>4, FS_PigeonHole
<1> QED
  BY <1>5 DEF A, f

LEMMA UpTo ==
  ASSUME NEW N \in Nat, NEW I \in SUBSET (0 .. N), 0 \in I, \A n \in I : n < N => n + 1 \in I
  PROVE  N \in I
<1> DEFINE J == {n \in Nat : n <= N => n \in I}
<1>1. 0 \in J
  OBVIOUS
<1>2. ASSUME NEW n \in J PROVE n + 1 \in J
  OBVIOUS
<1>3. J = Nat
  BY <1>1, <1>2, Induct
<1> QED
  BY <1>3

\* The same for each turn.
LEMMA EachUpTo ==
  ASSUME NEW N \in Nat, NEW I \in SUBSET (0 .. N), 0 \in I, \A n \in I : n < N => n + 1 \in I
  PROVE  \A n \in 0 .. N : n \in I
<1> TAKE m \in 0 .. N
<1> DEFINE J == {n \in 0 .. m : n \in I}
<1>1. m \in Nat /\ 0 \in J /\ J \in SUBSET (0 .. m)
  OBVIOUS
<1>2. ASSUME NEW n \in J, n < m PROVE n + 1 \in J
  BY <1>2
<1> HIDE DEF J
<1>3. m \in J
  BY <1>1, <1>2, UpTo
<1> QED
  BY <1>3 DEF J

\* f holds the states of a loop of N turns, whose turn i takes state s to step[i][s].
Runs(f, N, S, start, step) ==
  /\ f = [i \in 0 .. N |-> f[i]]
  /\ f[0] = start
  /\ \A i \in 0 .. N : f[i] \in S
  /\ \A i \in 1 .. N : f[i] = step[i][f[i - 1]]

\* There are such states, for any steps ...
LEMMA LoopRuns ==
  ASSUME NEW N \in Nat, NEW S, NEW start \in S, NEW step \in [1 .. N -> [S -> S]]
  PROVE  \E f : Runs(f, N, S, start, step)
<1> DEFINE Step(f, i) == IF i = 0 THEN start ELSE step[i][f[i - 1]]
           RunsTo(f, n) == f \in [0 .. n -> S] /\ f = [i \in 0 .. n |-> Step(f, i)]
           I == {n \in 0 .. N : \E f : RunsTo(f, n)}
<1>1. 0 \in I
  <2> DEFINE f == [i \in 0 .. 0 |-> start]
  <2>1. f \in [0 .. 0 -> S]
    OBVIOUS
  <2>2. f = [i \in 0 .. 0 |-> Step(f, i)]
    OBVIOUS
  <2>3. RunsTo(f, 0)
    BY <2>1, <2>2
  <2> HIDE DEF f, RunsTo
  <2> QED
    BY <2>3
<1>2. ASSUME NEW n \in I, n < N PROVE n + 1 \in I
  <2> HIDE DEF RunsTo
  <2>0. n \in 0 .. N /\ \E f : RunsTo(f, n)
    OBVIOUS
  <2> HIDE DEF I
  <2>1. n \in Nat /\ n + 1 \in 0 .. N
    BY <1>2, <2>0
  <2> PICK f : RunsTo(f, n)
    BY <2>0
  <2> DEFINE g == [i \in 0 .. n + 1 |-> Step(f, i)]
  <2>2. \A i \in 0 .. n : f[i] = g[i] /\ f[i] \in S
    <3>1. f \in [0 .. n -> S] /\ f = [i \in 0 .. n |-> Step(f, i)]
      BY DEF RunsTo
    <3>2. \A i \in 0 .. n : i \in 0 .. n + 1
      BY <2>1
    <3> HIDE DEF Step
    <3>3. \A i \in 0 .. n : f[i] = Step(f, i)
      BY <3>1
    <3> QED
      BY <3>1, <3>2, <3>3
  <2>3. g = [i \in 0 .. n + 1 |-> Step(f, i)]
    OBVIOUS
  <2>4. ASSUME NEW i \in 0 .. n + 1
        PROVE  Step(f, i) \in S /\ Step(f, i) = Step(g, i)
    <3> HIDE DEF g, RunsTo
    <3>1. i = 0 \/ (i - 1 \in 0 .. n /\ i \in 1 .. N)
      BY <1>2, <2>1
    <3>2. CASE i = 0
      BY <3>2
    <3>3. CASE i # 0 /\ i - 1 \in 0 .. n /\ i \in 1 .. N
      <4>1. f[i - 1] = g[i - 1] /\ f[i - 1] \in S
        BY <2>2, <3>3
      <4>2. step[i][f[i - 1]] \in S
        BY <3>3, <4>1
      <4> QED
        BY <3>3, <4>1, <4>2
    <3> QED
      BY <3>1, <3>2, <3>3
  <2> HIDE DEF g, Step
  <2>5. g = [i \in 0 .. n + 1 |-> Step(g, i)]
    BY <2>3, <2>4
  <2>6. g \in [0 .. n + 1 -> S]
    BY <2>3, <2>4
  <2>7. RunsTo(g, n + 1)
    BY <2>5, <2>6 DEF RunsTo
  <2> QED
    BY <2>1, <2>7 DEF I
<1>3. N \in I
  <2>1. I \in SUBSET (0 .. N)
    OBVIOUS
  <2> HIDE DEF I
  <2> QED
    BY <1>1, <1>2, <2>1, UpTo
<1> HIDE DEF RunsTo
<1>4. PICK f : RunsTo(f, N)
  BY <1>3
<1>5. f \in [0 .. N -> S] /\ f = [i \in 0 .. N |-> Step(f, i)]
  BY <1>4 DEF RunsTo
<1> HIDE DEF Step
<1>6. f = [i \in 0 .. N |-> f[i]] /\ \A i \in 0 .. N : f[i] \in S
  BY <1>5
<1>7. \A i \in 0 .. N : f[i] = Step(f, i)
  BY <1>5
<1>8. f[0] = start /\ \A i \in 1 .. N : f[i] = step[i][f[i - 1]]
  BY <1>7 DEF Step
<1> QED
  BY <1>6, <1>8 DEF Runs

\* ... and only these.
LEMMA LoopOnly ==
  ASSUME NEW N \in Nat, NEW S, NEW start \in S, NEW step, NEW f, Runs(f, N, S, start, step),
         NEW g, g[0] = start, \A i \in 1 .. N : g[i - 1] \in S => g[i] = step[i][g[i - 1]]
  PROVE  \A i \in 0 .. N : g[i] = f[i]
<1> SUFFICES ASSUME NEW n \in 0 .. N
             PROVE  g[n] = f[n]
  OBVIOUS
<1> DEFINE I == {i \in 0 .. n : g[i] = f[i]}
<1>1. n \in Nat /\ \A i \in 0 .. n : i \in 0 .. N
  OBVIOUS
<1>2. 0 \in I
  BY DEF Runs
<1>3. ASSUME NEW i \in I, i < n PROVE i + 1 \in I
  <2>1. i \in 0 .. N /\ i + 1 \in 1 .. N /\ (i + 1) - 1 = i /\ i + 1 \in 0 .. n
    BY <1>3
  <2>2. f[i] \in S /\ f[i + 1] = step[i + 1][f[i]]
    BY <2>1 DEF Runs
  <2> QED
    BY <2>1, <2>2
<1>4. I \in SUBSET (0 .. n)
  OBVIOUS
<1> HIDE DEF I
<1>5. n \in I
  BY <1>1, <1>2, <1>3, <1>4, UpTo
<1> QED
  BY <1>5 DEF I
=============================================================================
