------------------------------- MODULE Induction -------------------------------
(***************************************************************************)
(* Induction and recursion over the natural numbers, stated without        *)
(* operator parameters: a set of counterexamples has a least one, and a    *)
(* loop with a given step has a run.                                       *)
(***************************************************************************)
EXTENDS Integers, FiniteSetTheorems, WellFoundedInduction, TLAPS

\* Division with remainder, as the source's % on unsigned numbers.
LEMMA DivMod ==
  ASSUME NEW W \in Nat \ {0}, NEW a \in Nat
  PROVE  /\ a = W * (a \div W) + (a % W)
         /\ a \div W \in Int
         /\ a % W \in 0..(W - 1)
  BY SMTT(20)

\* Every set of natural numbers that is not empty has a least element: of the
\* intervals 0..(n - 1) for its elements n one is minimal for inclusion.
LEMMA LeastNatural ==
  ASSUME NEW S \in SUBSET Nat, S # {}
  PROVE  \E m \in S : \A n \in S : m <= n
<1> DEFINE below(n) == 0..(n - 1)
           T == {below(n) : n \in S}
<1>1. T \subseteq FiniteSubsetsOf(Nat) /\ T # {}
  <2>1. \A n \in S : IsFiniteSet(below(n)) /\ below(n) \subseteq Nat
    <3> TAKE n \in S
    <3>1. 0 \in Int /\ n - 1 \in Int
      OBVIOUS
    <3>2. QED
      BY <3>1, FS_Interval
  <2>2. QED
    BY <2>1 DEF FiniteSubsetsOf
<1>2. PICK X \in T : \A Y \in T : ~(<<Y, X>> \in StrictSubsetOrdering(Nat))
  BY <1>1, WFMin, FS_StrictSubsetOrderingWellFounded
<1>3. PICK m \in S : X = below(m)
  BY <1>2
<1>4. ASSUME NEW n \in S PROVE m <= n
  <2> SUFFICES ASSUME n < m PROVE FALSE
    OBVIOUS
  <2>1. below(n) \subseteq below(m) /\ n \in below(m) /\ n \notin below(n)
    OBVIOUS
  <2>2. <<below(n), below(m)>> \in StrictSubsetOrdering(Nat)
    BY <2>1 DEF StrictSubsetOrdering
  <2>3. QED
    BY <1>2, <1>3, <2>2
<1>5. QED
  BY <1>4

\* Induction up to n: the set P of the numbers for which the claim holds.
LEMMA InductionUpTo ==
  ASSUME NEW n \in Nat, NEW P, 0 \in P, \A k \in 1..n : k - 1 \in P => k \in P
  PROVE  \A k \in 0..n : k \in P
<1> DEFINE Bad == (0..n) \ P
<1> SUFFICES ASSUME Bad # {} PROVE FALSE
  OBVIOUS
<1>1. PICK m \in Bad : \A k \in Bad : m <= k
  <2>1. Bad \in SUBSET Nat
    OBVIOUS
  <2> HIDE DEF Bad
  <2>2. QED
    BY <2>1, LeastNatural
<1>2. m \in 1..n /\ m - 1 \notin Bad
  BY <1>1
<1>3. QED
  BY <1>1, <1>2

\* A run of k rounds of a loop that does step[j] in its j-th one.
LoopRun(f, k, S, base, step) ==
  /\ f \in [0..k -> S] /\ f[0] = base
  /\ \A j \in 1..k : f[j] = step[j][f[j - 1]]

LEMMA LoopRuns ==
  ASSUME NEW S, NEW base \in S, NEW n \in Nat, NEW step \in [1..n -> [S -> S]]
  PROVE  \E f : LoopRun(f, n, S, base, step)
<1> DEFINE Run(f, k) == LoopRun(f, k, S, base, step)
           P == {k \in 0..n : \E f : Run(f, k)}
<1>1. 0 \in P
  <2>1. Run([j \in 0..0 |-> base], 0)
    BY DEF LoopRun
  <2> HIDE DEF Run
  <2>2. QED
    BY <2>1
<1>2. ASSUME NEW k \in 1..n, k - 1 \in P PROVE k \in P
  <2>1. PICK f : Run(f, k - 1)
    BY <1>2
  <2> DEFINE g == [j \in 0..k |-> IF j = k THEN step[k][f[k - 1]] ELSE f[j]]
  <2>2. f[k - 1] \in S /\ step[k] \in [S -> S]
    BY <2>1 DEF LoopRun
  <2>3. g \in [0..k -> S] /\ g[0] = base
    BY <2>1, <2>2 DEF LoopRun
  <2>4. \A j \in 0..(k - 1) : g[j] = f[j]
    OBVIOUS
  <2>5. g[k] = step[k][f[k - 1]]
    OBVIOUS
  <2> HIDE DEF g
  <2>6. \A j \in 1..k : g[j] = step[j][g[j - 1]]
    BY <2>1, <2>4, <2>5 DEF LoopRun
  <2>7. Run(g, k)
    BY <2>3, <2>6 DEF LoopRun
  <2> HIDE DEF Run
  <2>8. QED
    BY <2>7
<1> HIDE DEF P
<1>3. \A k \in 0..n : k \in P
  BY <1>1, <1>2, InductionUpTo
<1>4. n \in P
  BY <1>3
<1>5. QED
  BY <1>4 DEF P
===============================================================================
