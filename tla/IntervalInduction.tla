--------------------------- MODULE IntervalInduction ---------------------------
(***************************************************************************)
(* Induction on an interval of numbers, for the numbers that a set holds,  *)
(* and functions that recur over one.  What a recursive function computes  *)
(* from a sequence is proved with them (PersistenceProofs, WorldProofs,    *)
(* EngineProofs, ScriptsProofs).                                           *)
(***************************************************************************)
EXTENDS Integers, FiniteSets, FiniteSetTheorems, WellFoundedInduction, TLAPS

\* A non-empty set of numbers up to n has a least one.
LEMMA Least ==
    ASSUME NEW n \in Nat, NEW S, S \subseteq 0 .. n, S # {}
    PROVE  \E m \in S : \A l \in S : m <= l
<1>. DEFINE Initial  == {0 .. m : m \in S}
            Smaller == StrictSubsetOrdering(0 .. n)
<1>1. IsWellFoundedOn(Smaller, FiniteSubsetsOf(0 .. n))
  BY FS_StrictSubsetOrderingWellFounded
<1>2. Initial \subseteq FiniteSubsetsOf(0 .. n) /\ Initial # {}
  <2>1. \A m \in S : IsFiniteSet(0 .. m) /\ 0 .. m \subseteq 0 .. n
    BY FS_Interval
  <2>. QED BY <2>1 DEF FiniteSubsetsOf
<1>3. \E x \in Initial : \A y \in Initial : <<y, x>> \notin Smaller
  <2>. HIDE DEF Initial, Smaller
  <2>. QED BY <1>1, <1>2, WFMin
<1>4. PICK m \in S : \A l \in S : <<0 .. l, 0 .. m>> \notin Smaller
  BY <1>3
<1>5. ASSUME NEW l \in S, l < m PROVE FALSE
  <2>1. 0 .. l \subseteq 0 .. m /\ m \notin 0 .. l /\ m \in 0 .. m
    BY <1>5
  <2>2. 0 .. l # 0 .. m /\ 0 .. l \in SUBSET (0 .. n) /\ 0 .. m \in SUBSET (0 .. n)
    BY <2>1
  <2>3. <<0 .. l, 0 .. m>> \in Smaller
    BY <2>1, <2>2 DEF StrictSubsetOrdering
  <2>. QED BY <1>4, <2>3
<1>. QED BY <1>5

\* Induction on an interval, for the numbers a set T holds.
LEMMA Upto ==
    ASSUME NEW n \in Nat, NEW T, 0 \in T, \A i \in 1 .. n : i - 1 \in T => i \in T
    PROVE  0 .. n \subseteq T
<1>. SUFFICES ASSUME NEW S, S = (0 .. n) \ T, S # {} PROVE FALSE
  OBVIOUS
<1>1. PICK m \in S : \A l \in S : m <= l
  BY Least
<1>2. m \in 1 .. n /\ m - 1 \notin S /\ m - 1 \in 0 .. n
  BY <1>1
<1>. QED BY <1>2

\* What is computed from x in n steps of G, each from the one before.
Computes(f, n, x, G) ==
    f[0] = x /\ \A i \in 1 .. n : f[i] = G[<<i, f[i - 1]>>]

\* A function that recurs over an interval exists, and has the steps' type.
LEMMA Recursion ==
    ASSUME NEW n \in Nat, NEW X, NEW x \in X, NEW G,
           \A i \in 1 .. n, y \in X : G[<<i, y>>] \in X
    PROVE  \E f \in [0 .. n -> X] : Computes(f, n, x, G)
<1>. DEFINE T == {m \in 0 .. n : \E f \in [0 .. m -> X] : Computes(f, m, x, G)}
<1>1. 0 \in T
  <2>1. [i \in 0 .. 0 |-> x] \in [0 .. 0 -> X] /\ Computes([i \in 0 .. 0 |-> x], 0, x, G)
    BY DEF Computes
  <2>. QED BY <2>1
<1>2. ASSUME NEW m \in 1 .. n, m - 1 \in T PROVE m \in T
  <2>1. PICK f \in [0 .. m - 1 -> X] : Computes(f, m - 1, x, G)
    BY <1>2
  <2>. DEFINE g == [i \in 0 .. m |-> IF i = m THEN G[<<m, f[m - 1]>>] ELSE f[i]]
  <2>2. G[<<m, f[m - 1]>>] \in X
    BY <2>1
  <2>3. g \in [0 .. m -> X]
    BY <2>2
  <2>4. ASSUME NEW i \in 1 .. m PROVE g[i] = G[<<i, g[i - 1]>>]
    <3>1. g[i - 1] = f[i - 1]
      OBVIOUS
    <3>2. CASE i = m
      <4>1. g[i] = G[<<i, f[i - 1]>>]
        BY <3>2
      <4>. QED BY <3>1, <4>1, Zenon
    <3>3. CASE i # m
      <4>1. i \in 1 .. m - 1 /\ g[i] = f[i]
        BY <3>3
      <4>2. f[i] = G[<<i, f[i - 1]>>]
        BY <2>1, <4>1 DEF Computes
      <4>. QED BY <3>1, <4>1, <4>2, Zenon
    <3>. QED BY <3>2, <3>3
  <2>5. g[0] = x
    BY <2>1 DEF Computes
  <2>6. Computes(g, m, x, G)
    BY <2>4, <2>5 DEF Computes
  <2>. QED BY <2>3, <2>6
<1>3. 0 .. n \subseteq T
  <2>. HIDE DEF T
  <2>. QED BY <1>1, <1>2, Upto
<1>. QED BY <1>3
=============================================================================
