------------------------------ MODULE Recursion ------------------------------
(***************************************************************************)
(* Induction and recursion over an initial segment of the naturals, stated *)
(* about sets and functions instead of operators, so that the provers can  *)
(* apply them: the proofs about loops of the code that are modelled by     *)
(* recursive functions (the sums of r12_bulk_deposit_unallocated.py, the   *)
(* lists of funds_trail.py, the days of r14_reconciliation_timing.py) rest *)
(* on these lemmas.                                                        *)
(***************************************************************************)
EXTENDS Integers, FiniteSetTheorems, WellFoundedInduction, TLAPS

LEMMA SmallestOf ==
  ASSUME NEW S \in SUBSET Nat, S # {}
  PROVE  \E x \in S : \A y \in S : x <= y
<1> DEFINE T == {1..n : n \in S}
<1>1. T \subseteq FiniteSubsetsOf(Nat) /\ T # {}
  <2>1. ASSUME NEW n \in S
        PROVE  1..n \in FiniteSubsetsOf(Nat)
    <3>1. IsFiniteSet(1..n)
      BY FS_Interval
    <3>2. 1..n \in SUBSET Nat
      OBVIOUS
    <3> QED
      BY <3>1, <3>2 DEF FiniteSubsetsOf
  <2> QED
    BY <2>1
<1>2. PICK t \in T : \A u \in T : ~(<<u, t>> \in StrictSubsetOrdering(Nat))
  BY <1>1, FS_StrictSubsetOrderingWellFounded, WFMin
<1>3. PICK x \in S : t = 1..x
  OBVIOUS
<1>4. ASSUME NEW y \in S, y < x
      PROVE  FALSE
  <2>1. x \in 1..x /\ x \notin 1..y /\ 1..y \subseteq 1..x
    BY <1>4
  <2>2. <<1..y, 1..x>> \in StrictSubsetOrdering(Nat)
    BY <2>1 DEF StrictSubsetOrdering
  <2> QED
    BY <1>2, <1>3, <2>2
<1> QED
  BY <1>4

\* Induction: what holds of 0 and passes from each number to the next holds up to n.
LEMMA UpTo ==
  ASSUME NEW n \in Nat, NEW S, 0 \in S, \A i \in 1..n : i - 1 \in S => i \in S
  PROVE  0..n \subseteq S
<1> DEFINE Rest == {i \in 0..n : i \notin S}
<1> SUFFICES ASSUME Rest # {} PROVE FALSE
  OBVIOUS
<1>1. PICK x \in Rest : \A y \in Rest : x <= y
  <2>1. Rest \in SUBSET Nat
    OBVIOUS
  <2> HIDE DEF Rest
  <2> QED
    BY <2>1, SmallestOf
<1>2. x \in 1..n /\ x - 1 \in 0..n
  BY <1>1
<1>3. x - 1 \in S
  BY <1>1, <1>2
<1> QED
  BY <1>1, <1>2, <1>3

\* f starts with a value of V and goes from each value to the next by a step.
Follows(f, n, V, first, step) ==
  /\ f \in [0..n -> V]
  /\ f[0] = first
  /\ \A i \in 1..n : f[i] = step[i][f[i - 1]]

\* Recursion: there is such a function for each first value and steps.
LEMMA ByRecursion ==
  ASSUME NEW n \in Nat, NEW V, NEW first \in V, NEW step \in [1..n -> [V -> V]]
  PROVE  \E f : Follows(f, n, V, first, step)
<1> DEFINE Defined == {k \in 0..n : \E f : Follows(f, k, V, first, step)}
<1>1. 0 \in Defined
  <2> DEFINE f == [i \in 0..0 |-> first]
  <2>1. Follows(f, 0, V, first, step)
    BY DEF Follows
  <2> HIDE DEF f
  <2> QED
    BY <2>1
<1>2. ASSUME NEW k \in 1..n, k - 1 \in Defined
      PROVE  k \in Defined
  <2>1. PICK f : Follows(f, k - 1, V, first, step)
    BY <1>2
  <2> USE DEF Follows
  <2> DEFINE g == [i \in 0..k |-> IF i = k THEN step[k][f[k - 1]] ELSE f[i]]
  <2>2. g \in [0..k -> V]
    <3>1. f[k - 1] \in V
      BY <2>1
    <3>2. step[k][f[k - 1]] \in V
      BY <3>1
    <3> QED
      BY <2>1, <3>2
  <2>3. g[0] = first
    BY <2>1
  <2>4. ASSUME NEW i \in 1..k
        PROVE  g[i] = step[i][g[i - 1]]
    <3>1. g[i - 1] = f[i - 1]
      OBVIOUS
    <3>2. CASE i = k
      <4>1. g[k] = step[k][f[k - 1]]
        OBVIOUS
      <4> HIDE DEF g
      <4> QED
        BY <3>1, <3>2, <4>1
    <3>3. CASE i # k
      <4>1. i \in 1..(k - 1) /\ g[i] = f[i]
        BY <3>3
      <4> HIDE DEF g
      <4> QED
        BY <2>1, <3>1, <4>1
    <3> QED
      BY <3>2, <3>3
  <2>5. k \in 0..n
    BY <1>2
  <2> HIDE DEF g
  <2> QED
    <3>1. Follows(g, k, V, first, step)
      BY <2>2, <2>3, <2>4
    <3> HIDE DEF Follows
    <3> QED
      BY <2>5, <3>1
<1> HIDE DEF Defined
<1>3. n \in Defined
  <2>1. 0..n \subseteq Defined
    BY <1>1, <1>2, UpTo
  <2> QED
    BY <2>1
<1> QED
  BY <1>3 DEF Defined

\* f has the running totals of w.
Sums(f, n, w) ==
  /\ f \in [0..n -> Int]
  /\ f[0] = 0
  /\ \A i \in 1..n : f[i] = f[i - 1] + w[i]

LEMMA SumsExist ==
  ASSUME NEW n \in Nat, NEW w \in [1..n -> Int]
  PROVE  \E f : Sums(f, n, w)
<1> DEFINE step == [i \in 1..n |-> [s \in Int |-> s + w[i]]]
<1>1. step \in [1..n -> [Int -> Int]]
  OBVIOUS
<1>2. \A i \in 1..n : \A s \in Int : step[i][s] = s + w[i]
  OBVIOUS
<1> HIDE DEF step
<1>3. PICK f : Follows(f, n, Int, 0, step)
  <2> DEFINE V == Int
             zero == 0
  <2>1. zero \in V /\ step \in [1..n -> [V -> V]]
    BY <1>1
  <2> HIDE DEF V, zero
  <2>2. \E f : Follows(f, n, V, zero, step)
    BY <2>1, ByRecursion
  <2> QED
    BY <2>2 DEF V, zero
<1>4. \A i \in 1..n : f[i - 1] \in Int
  BY <1>3 DEF Follows
<1>5. \A i \in 1..n : f[i] = f[i - 1] + w[i]
  BY <1>2, <1>3, <1>4 DEF Follows
<1>6. Sums(f, n, w)
  BY <1>3, <1>5 DEF Follows, Sums
<1> QED
  BY <1>6

LEMMA SumsAsFunction ==
  ASSUME NEW n \in Nat, NEW w \in [1..n -> Int], NEW f, Sums(f, n, w)
  PROVE  f = [i \in 0..n |-> IF i = 0 THEN 0 ELSE f[i - 1] + w[i]]
BY DEF Sums

LEMMA FunctionAsSums ==
  ASSUME NEW n \in Nat, NEW w \in [1..n -> Int],
         NEW f, f = [i \in 0..n |-> IF i = 0 THEN 0 ELSE f[i - 1] + w[i]]
  PROVE  Sums(f, n, w)
<1>1. /\ DOMAIN f = 0..n
      /\ f[0] = 0
      /\ \A i \in 1..n : f[i] = f[i - 1] + w[i]
  OBVIOUS
<1> DEFINE S == {i \in 0..n : f[i] \in Int}
<1>2. 0 \in S
  BY <1>1
<1>3. ASSUME NEW i \in 1..n, i - 1 \in S
      PROVE  i \in S
  BY <1>1, <1>3
<1> HIDE DEF S
<1>4. 0..n \subseteq S
  BY <1>2, <1>3, UpTo
<1>5. f \in [0..n -> Int]
  BY <1>4 DEF S
<1> QED
  BY <1>1, <1>5 DEF Sums

\* The k summands of v after from are the first k of w.
SameFrom(v, from, w, k) == \A i \in 1..k : v[from + i] = w[i]

\* The summands after from, up to to, are zero.
Zeros(w, from, to) == \A i \in (from + 1)..to : w[i] = 0

\* Totals agree as far as the summands do.
LEMMA SumsAgree ==
  ASSUME NEW m \in Nat, NEW v, NEW f, Sums(f, m, v),
         NEW n \in Nat, NEW w \in [1..n -> Int], NEW g, Sums(g, n, w),
         NEW from \in Nat, NEW k \in Nat, from + k <= m, k <= n,
         SameFrom(v, from, w, k)
  PROVE  f[from + k] = f[from] + g[k]
<1> DEFINE S == {i \in 0..k : f[from + i] = f[from] + g[i]}
<1>1. /\ f \in [0..m -> Int] /\ \A i \in 1..m : f[i] = f[i - 1] + v[i]
      /\ g \in [0..n -> Int] /\ g[0] = 0 /\ \A i \in 1..n : g[i] = g[i - 1] + w[i]
  BY DEF Sums
<1>2. 0 \in S
  <2>1. f[from] \in Int
    BY <1>1
  <2> QED
    BY <1>1, <2>1
<1>3. ASSUME NEW i \in 1..k, i - 1 \in S
      PROVE  i \in S
  <2>1. PICK j : j = from + i
    OBVIOUS
  <2>2. j \in 1..m /\ i \in 1..n /\ j - 1 = from + (i - 1) /\ i - 1 \in 0..n /\ j - 1 \in 0..m
    BY <2>1
  <2>3. f[j] = f[j - 1] + v[j] /\ g[i] = g[i - 1] + w[i] /\ v[j] = w[i]
    BY <1>1, <2>1, <2>2 DEF SameFrom
  <2>4. f[j - 1] = f[from] + g[i - 1]
    BY <1>3, <2>2
  <2>5. f[from] \in Int /\ f[j] \in Int /\ g[i] \in Int /\ g[i - 1] \in Int
    <3>1. from \in 0..m /\ j \in 0..m /\ i \in 0..n
      BY <2>2
    <3> HIDE DEF S
    <3> QED
      BY <1>1, <2>2, <3>1
  <2>6. f[j] = f[from] + g[i]
    <3>1. CASE w[i] \in Int
      BY <2>3, <2>4, <2>5, <3>1
    <3>2. w[i] \in Int
      BY <1>1, <2>2
    <3> QED
      BY <3>1, <3>2
  <2> QED
    BY <2>1, <2>6
<1> HIDE DEF S
<1>4. 0..k \subseteq S
  BY <1>2, <1>3, UpTo
<1> QED
  BY <1>4 DEF S

\* Zeros add nothing.
LEMMA SumsOfZeros ==
  ASSUME NEW n \in Nat, NEW w, NEW f, Sums(f, n, w),
         NEW from \in Nat, NEW to \in Nat, from <= to, to <= n,
         Zeros(w, from, to)
  PROVE  f[to] = f[from]
<1> DEFINE S == {i \in 0..(to - from) : f[from + i] = f[from]}
<1>1. f \in [0..n -> Int] /\ \A i \in 1..n : f[i] = f[i - 1] + w[i]
  BY DEF Sums
<1>2. 0 \in S /\ to - from \in Nat
  OBVIOUS
<1>3. ASSUME NEW i \in 1..(to - from), i - 1 \in S
      PROVE  i \in S
  <2>1. PICK j : j = from + i
    OBVIOUS
  <2>2. j \in (from + 1)..to /\ j \in 1..n /\ j - 1 = from + (i - 1) /\ j - 1 \in 0..n
    BY <2>1
  <2>3. f[j] = f[j - 1] + w[j] /\ w[j] = 0 /\ f[j - 1] \in Int
    BY <1>1, <2>2 DEF Zeros
  <2>4. f[j - 1] = f[from]
    BY <1>3, <2>2
  <2> QED
    BY <2>1, <2>3, <2>4
<1> HIDE DEF S
<1>4. 0..(to - from) \subseteq S
  BY <1>2, <1>3, UpTo
<1>5. to - from \in S /\ from + (to - from) = to
  BY <1>2, <1>4
<1> QED
  BY <1>5 DEF S
=============================================================================
