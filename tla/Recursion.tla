----------------------------- MODULE Recursion ------------------------------
(***************************************************************************)
(* Induction over the numbers, on sets instead of operators, and the       *)
(* functions on the numbers that a recursive definition means: there is    *)
(* one, and it keeps to the set its steps keep to.                         *)
(***************************************************************************)
EXTENDS Integers, WellFoundedInduction, TLAPS

(* Induction, on sets of numbers, and functions defined by recursion.      *)
LEMMA LeastElement ==
    ASSUME NEW T, T \subseteq Nat, T # {}
    PROVE  \E least \in T : \A y \in T : least <= y
<1>1. PICK x \in T : \A y \in T : ~(<<y, x>> \in OpToRel(<, Nat))
  <2>1. \E x \in T : \A y \in T : ~(<<y, x>> \in OpToRel(<, Nat))
    BY NatLessThanWellFounded, WFMin
  <2>2. QED
    BY <2>1
<1>2. \A y \in T : ~(y < x)
  BY <1>1 DEF OpToRel
<1>3. \A y \in T : x <= y
  BY <1>2
<1>4. QED
  BY <1>3

LEMMA InductiveSet ==
    ASSUME NEW T, T \subseteq Nat, 0 \in T, \A n \in T : n + 1 \in T
    PROVE  T = Nat
<1> SUFFICES ASSUME Nat \ T # {} PROVE FALSE
  OBVIOUS
<1>1. PICK x \in Nat \ T : \A y \in Nat \ T : x <= y
  BY LeastElement
<1>2. x - 1 \in T
  BY <1>1
<1>3. QED
  BY <1>2

(* A function on the numbers, given its value at 0 and its steps.          *)
Solves(f, S, zero, step) ==
    /\ f \in [Nat -> S]
    /\ f[0] = zero
    /\ \A n \in Nat : f[n + 1] = step[n][f[n]]

SolvesTo(f, S, zero, step, k) ==
    /\ f \in [Nat -> S]
    /\ f[0] = zero
    /\ \A n \in 0 .. k - 1 : f[n + 1] = step[n][f[n]]

LEMMA SolutionUnique ==
    ASSUME NEW S, NEW zero \in S, NEW step \in [Nat -> [S -> S]], NEW j \in Nat, NEW k \in Nat,
           j <= k, NEW f, SolvesTo(f, S, zero, step, j), NEW g, SolvesTo(g, S, zero, step, k)
    PROVE  f[j] = g[j]
<1> DEFINE T == {n \in Nat : n <= j => f[n] = g[n]}
<1>1. 0 \in T
  BY DEF SolvesTo
<1>2. ASSUME NEW n \in T PROVE n + 1 \in T
  <2>1. CASE n + 1 <= j
    <3>1. f[n] = g[n] /\ n \in 0 .. j - 1 /\ n \in 0 .. k - 1
      BY <1>2, <2>1
    <3>2. QED
      BY <1>2, <3>1 DEF SolvesTo
  <2>2. QED
    BY <1>2, <2>1
<1>3. T = Nat
  <2> HIDE DEF T
  <2>1. T \subseteq Nat
    BY DEF T
  <2>2. QED
    BY <1>1, <1>2, <2>1, InductiveSet
<1>4. QED
  BY <1>3

LEMMA Solution ==
    ASSUME NEW S, NEW zero \in S, NEW step \in [Nat -> [S -> S]]
    PROVE  \E f : Solves(f, S, zero, step)
<1> DEFINE T == {k \in Nat : \E f : SolvesTo(f, S, zero, step, k)}
<1>1. 0 \in T
  <2>1. SolvesTo([n \in Nat |-> zero], S, zero, step, 0)
    BY DEF SolvesTo
  <2>2. QED
    BY <2>1
<1>2. ASSUME NEW k \in T PROVE k + 1 \in T
  <2>1. PICK f : SolvesTo(f, S, zero, step, k)
    BY <1>2
  <2>2. PICK g : g = [f EXCEPT ![k + 1] = step[k][f[k]]]
    OBVIOUS
  <2>3. k \in Nat /\ f \in [Nat -> S] /\ step[k][f[k]] \in S
    BY <1>2, <2>1 DEF SolvesTo
  <2>4. g \in [Nat -> S] /\ g[k + 1] = step[k][f[k]] /\ \A n \in Nat : n # k + 1 => g[n] = f[n]
    BY <2>2, <2>3
  <2>5. g[0] = zero
    BY <2>1, <2>3, <2>4 DEF SolvesTo
  <2>6. ASSUME NEW n \in 0 .. k PROVE g[n + 1] = step[n][g[n]]
    <3>1. n \in Nat /\ g[n] = f[n]
      BY <2>3, <2>4
    <3>2. CASE n = k
      BY <2>4, <3>1, <3>2
    <3>3. CASE n \in 0 .. k - 1
      <4>1. n + 1 # k + 1 /\ n + 1 \in Nat
        BY <2>3, <3>3
      <4>2. g[n + 1] = f[n + 1] /\ f[n + 1] = step[n][f[n]]
        BY <2>1, <2>4, <3>3, <4>1 DEF SolvesTo
      <4>3. QED
        BY <3>1, <4>2
    <3>4. QED
      BY <2>3, <3>2, <3>3
  <2>7. k + 1 - 1 = k
    BY <2>3
  <2>8. SolvesTo(g, S, zero, step, k + 1)
    BY <2>4, <2>5, <2>6, <2>7 DEF SolvesTo
  <2>9. QED
    BY <2>3, <2>8
<1>3. T = Nat
  <2> HIDE DEF T
  <2>1. T \subseteq Nat
    BY DEF T
  <2>2. QED
    BY <1>1, <1>2, <2>1, InductiveSet
<1> DEFINE At(k) == CHOOSE f : SolvesTo(f, S, zero, step, k)
<1> DEFINE f == [k \in Nat |-> At(k)[k]]
<1>4. ASSUME NEW k \in Nat PROVE SolvesTo(At(k), S, zero, step, k)
  <2>1. \E g : SolvesTo(g, S, zero, step, k)
    BY <1>3
  <2>2. QED
    BY <2>1, Zenon
<1> HIDE DEF At
<1>5. f \in [Nat -> S]
  BY <1>4 DEF SolvesTo
<1>6. f[0] = zero
  BY <1>4 DEF SolvesTo
<1>7. ASSUME NEW n \in Nat PROVE f[n + 1] = step[n][f[n]]
  <2>1. SolvesTo(At(n), S, zero, step, n) /\ SolvesTo(At(n + 1), S, zero, step, n + 1)
    BY <1>4
  <2>2. At(n)[n] = At(n + 1)[n]
    BY <2>1, SolutionUnique
  <2>3. At(n + 1)[n + 1] = step[n][At(n + 1)[n]]
    BY <2>1 DEF SolvesTo
  <2>4. QED
    BY <2>2, <2>3
<1>8. QED
  BY <1>5, <1>6, <1>7 DEF Solves

(* Whatever takes these steps as long as it is in S is the function.       *)
LEMMA StaysIn ==
    ASSUME NEW S, NEW zero \in S, NEW step \in [Nat -> [S -> S]],
           NEW g, g = [k \in Nat |-> g[k]], g[0] = zero,
           \A k \in Nat : g[k] \in S => g[k + 1] = step[k][g[k]]
    PROVE  Solves(g, S, zero, step)
<1> DEFINE T == {k \in Nat : g[k] \in S}
<1>1. 0 \in T
  OBVIOUS
<1>2. ASSUME NEW k \in T PROVE k + 1 \in T
  <2>1. k \in Nat /\ g[k + 1] = step[k][g[k]]
    OBVIOUS
  <2>2. step[k] \in [S -> S] /\ g[k] \in S
    BY <2>1
  <2>3. QED
    BY <2>1, <2>2
<1>3. T = Nat
  <2> HIDE DEF T
  <2>1. T \subseteq Nat
    BY DEF T
  <2>2. QED
    BY <1>1, <1>2, <2>1, InductiveSet
<1>4. QED
  BY <1>3 DEF Solves

LEMMA Predecessor == ASSUME NEW k \in Nat, k # 0 PROVE k - 1 \in Nat /\ k - 1 + 1 = k
OBVIOUS
LEMMA Successor == ASSUME NEW k \in Nat PROVE k + 1 \in Nat /\ k + 1 # 0 /\ k + 1 - 1 = k
OBVIOUS
=============================================================================
