------------------------ MODULE SetupPayments_proofs ------------------------
(***************************************************************************)
(* Proofs about the Merkle trees and the payment script, for any earners,  *)
(* amounts and number of rounds, and for arrays of leaves of every length. *)
(***************************************************************************)
EXTENDS SetupPayments, LeafArrays, Recursion, FiniteSetTheorems, SequenceTheorems, TLAPS

----------------------------------------------------------------------------
(* 1 << k doubles.                                                         *)
LEMMA ShiftedIs ==
    /\ Shifted \in [Nat -> Nat \ {0}]
    /\ Shifted[0] = 1
    /\ \A k \in Nat : Shifted[k + 1] = 2 * Shifted[k]
<1> DEFINE S == Nat \ {0}
<1> DEFINE step == [n \in Nat |-> [x \in S |-> 2 * x]]
<1>1. 1 \in S /\ step \in [Nat -> [S -> S]] /\ \A k \in Nat, x \in S : step[k][x] = 2 * x
  OBVIOUS
<1> HIDE DEF S, step
<1>2. PICK f : Solves(f, S, 1, step)
  BY <1>1, Solution
<1>3. ASSUME NEW k \in Nat PROVE f[k] = IF k = 0 THEN 1 ELSE 2 * f[k - 1]
  BY <1>1, <1>2, Predecessor DEF Solves
<1>4. f = [k \in Nat |-> IF k = 0 THEN 1 ELSE 2 * f[k - 1]]
  BY <1>2, <1>3 DEF Solves
<1>5. Shifted = [k \in Nat |-> IF k = 0 THEN 1 ELSE 2 * Shifted[k - 1]]
  BY <1>4, Zenon DEF Shifted
<1>6. Shifted[0] = 1 /\ \A k \in Nat : Shifted[k + 1] = 2 * Shifted[k]
  BY <1>5, Successor
<1>7. Shifted = [k \in Nat |-> Shifted[k]]
  BY <1>5
<1>8. Solves(Shifted, S, 1, step)
  <2>1. \A k \in Nat : Shifted[k] \in S => Shifted[k + 1] = step[k][Shifted[k]]
    BY <1>1, <1>6
  <2>2. QED
    BY <1>1, <1>6, <1>7, <2>1, StaysIn
<1>9. QED
  BY <1>6, <1>8 DEF Solves, S

(* The index is halved on each layer.                                      *)
LEMMA WayIs ==
    ASSUME NEW index \in Nat
    PROVE  /\ Way(index) \in [Nat -> Nat]
           /\ Way(index)[0] = index
           /\ \A k \in Nat : Way(index)[k + 1] = Way(index)[k] \div 2
<1> DEFINE step == [n \in Nat |-> [x \in Nat |-> x \div 2]]
<1>1. step \in [Nat -> [Nat -> Nat]] /\ \A k \in Nat, x \in Nat : step[k][x] = x \div 2
  OBVIOUS
<1> HIDE DEF step
<1>2. PICK f : Solves(f, Nat, index, step)
  BY <1>1, Solution
<1>3. ASSUME NEW k \in Nat PROVE f[k] = IF k = 0 THEN index ELSE f[k - 1] \div 2
  <2>1. CASE k # 0
    <3>1. f[k - 1] \in Nat /\ f[k] = step[k - 1][f[k - 1]]
      BY <1>2, <2>1, Predecessor DEF Solves
    <3>2. QED
      BY <1>1, <2>1, <3>1, Predecessor
  <2>2. QED
    BY <1>2, <2>1 DEF Solves
<1>4. f = [k \in Nat |-> IF k = 0 THEN index ELSE f[k - 1] \div 2]
  BY <1>2, <1>3 DEF Solves
<1> DEFINE up == Way(index)
<1>5. up = [k \in Nat |-> IF k = 0 THEN index ELSE up[k - 1] \div 2]
  BY <1>4, Zenon DEF Way
<1> HIDE DEF up
<1>6. up[0] = index /\ \A k \in Nat : up[k + 1] = up[k] \div 2
  BY <1>5, Successor
<1>7. up = [k \in Nat |-> up[k]]
  BY <1>5
<1>8. Solves(up, Nat, index, step)
  BY <1>1, <1>6, <1>7, StaysIn
<1>9. QED
  BY <1>6, <1>8 DEF Solves, up

----------------------------------------------------------------------------
(* The hashes over some leaves: a set with the leaves in which two hashes  *)
(* can be hashed.                                                          *)
HashesOver(leafSet, D) == leafSet \subseteq D /\ \A l, r \in D : Keccak(l, r) \in D

Grown(H) == H \cup {Keccak(l, r) : l, r \in H}

GrownTo(g, leafSet, k) == g[0] = leafSet /\ \A n \in 0 .. k - 1 : g[n + 1] = Grown(g[n])

LEMMA GrowsUniquely ==
    ASSUME NEW leafSet, NEW j \in Nat, NEW k \in Nat, j <= k,
           NEW f, GrownTo(f, leafSet, j), NEW g, GrownTo(g, leafSet, k)
    PROVE  f[j] = g[j]
<1> DEFINE T == {n \in Nat : n <= j => f[n] = g[n]}
<1>1. 0 \in T
  BY DEF GrownTo
<1>2. ASSUME NEW n \in T PROVE n + 1 \in T
  <2>1. CASE n + 1 <= j
    <3>1. f[n] = g[n] /\ n \in 0 .. j - 1 /\ n \in 0 .. k - 1
      BY <1>2, <2>1
    <3>2. f[n + 1] = Grown(f[n]) /\ g[n + 1] = Grown(g[n])
      BY <3>1 DEF GrownTo
    <3>3. QED
      BY <3>1, <3>2
  <2>2. QED
    BY <1>2, <2>1
<1>3. T = Nat
  <2> HIDE DEF T
  <2>1. T \subseteq Nat
    BY DEF T
  <2>2. QED
    BY <1>1, <1>2, <2>1, InductiveSet
<1>4. QED
  BY <1>3

LEMMA Grows == ASSUME NEW leafSet, NEW k \in Nat PROVE \E g : GrownTo(g, leafSet, k)
<1> DEFINE T == {n \in Nat : \E g : GrownTo(g, leafSet, n)}
<1>1. 0 \in T
  <2>1. GrownTo([n \in Nat |-> leafSet], leafSet, 0)
    BY DEF GrownTo
  <2>2. QED
    BY <2>1
<1>2. ASSUME NEW n \in T PROVE n + 1 \in T
  <2>1. PICK g : GrownTo(g, leafSet, n)
    BY <1>2
  <2>2. PICK h : h = [m \in Nat |-> IF m <= n THEN g[m] ELSE Grown(g[n])]
    OBVIOUS
  <2>3. h[0] = leafSet
    BY <1>2, <2>1, <2>2 DEF GrownTo
  <2>4. ASSUME NEW m \in 0 .. n PROVE h[m + 1] = Grown(h[m])
    <3>1. n \in Nat /\ m \in Nat /\ m + 1 \in Nat
      BY <1>2
    <3>2. h[m] = g[m]
      BY <2>2, <3>1
    <3>3. CASE m = n
      BY <2>2, <3>1, <3>2, <3>3
    <3>4. CASE m \in 0 .. n - 1
      <4>1. h[m + 1] = g[m + 1]
        BY <2>2, <3>1, <3>4
      <4>2. g[m + 1] = Grown(g[m])
        BY <2>1, <3>4 DEF GrownTo
      <4>3. QED
        BY <3>2, <4>1, <4>2
    <3>5. QED
      BY <3>1, <3>3, <3>4
  <2>5. n + 1 - 1 = n
    BY <1>2
  <2>6. GrownTo(h, leafSet, n + 1)
    BY <2>3, <2>4, <2>5 DEF GrownTo
  <2>7. QED
    BY <1>2, <2>6
<1>3. T = Nat
  <2> HIDE DEF T
  <2>1. T \subseteq Nat
    BY DEF T
  <2>2. QED
    BY <1>1, <1>2, <2>1, InductiveSet
<1>4. QED
  BY <1>3

LEMMA HashesExist == ASSUME NEW leafSet PROVE \E D : HashesOver(leafSet, D)
<1> DEFINE At(k) == (CHOOSE g : GrownTo(g, leafSet, k))[k]
<1>1. At(0) = leafSet /\ \A k \in Nat : At(k + 1) = Grown(At(k))
  <2> DEFINE Choice(k) == CHOOSE g : GrownTo(g, leafSet, k)
  <2>1. ASSUME NEW k \in Nat PROVE GrownTo(Choice(k), leafSet, k)
    BY Grows, Zenon
  <2>2. ASSUME NEW k \in Nat PROVE At(k) = Choice(k)[k]
    OBVIOUS
  <2> HIDE DEF Choice, At
  <2>3. At(0) = leafSet
    BY <2>1, <2>2 DEF GrownTo
  <2>4. ASSUME NEW k \in Nat PROVE At(k + 1) = Grown(At(k))
    <3>1. GrownTo(Choice(k), leafSet, k) /\ GrownTo(Choice(k + 1), leafSet, k + 1)
      BY <2>1
    <3>2. Choice(k)[k] = Choice(k + 1)[k]
      BY <3>1, GrowsUniquely
    <3>3. Choice(k + 1)[k + 1] = Grown(Choice(k + 1)[k])
      BY <3>1 DEF GrownTo
    <3>4. QED
      BY <2>2, <3>2, <3>3
  <2>5. QED
    BY <2>3, <2>4
<1> HIDE DEF At
<1>2. ASSUME NEW j \in Nat, NEW k \in Nat PROVE At(j) \subseteq At(j + k)
  <2> DEFINE T == {n \in Nat : At(j) \subseteq At(j + n)}
  <2>1. 0 \in T
    OBVIOUS
  <2>2. ASSUME NEW n \in T PROVE n + 1 \in T
    <3>1. n \in Nat /\ At(j) \subseteq At(j + n)
      BY <2>2
    <3>2. At(j + n + 1) = Grown(At(j + n)) /\ j + (n + 1) = j + n + 1
      BY <1>1, <3>1
    <3>3. QED
      BY <3>1, <3>2 DEF Grown
  <2>3. T = Nat
    <3> HIDE DEF T
    <3>1. T \subseteq Nat
      BY DEF T
    <3>2. QED
      BY <2>1, <2>2, <3>1, InductiveSet
  <2>4. QED
    BY <2>3
<1> DEFINE D == UNION {At(k) : k \in Nat}
<1>3. leafSet \subseteq D
  BY <1>1
<1>4. ASSUME NEW l \in D, NEW r \in D PROVE Keccak(l, r) \in D
  <2>1. PICK j \in Nat, k \in Nat : l \in At(j) /\ r \in At(k)
    OBVIOUS
  <2>2. l \in At(j + k) /\ r \in At(j + k)
    <3>1. k + j = j + k
      OBVIOUS
    <3>2. QED
      BY <1>2, <2>1, <3>1
  <2>3. Keccak(l, r) \in At(j + k + 1)
    BY <1>1, <2>2 DEF Grown
  <2>4. QED
    BY <2>3
<1>5. QED
  BY <1>3, <1>4 DEF HashesOver

----------------------------------------------------------------------------
(* The layers of a tree.                                                   *)
(* Sequences, of whatever they are.                                        *)
IsList(s) == \E S : s \in Seq(S)

LEMMA ListIs ==
    ASSUME NEW s, IsList(s)
    PROVE  Len(s) \in Nat /\ DOMAIN s = 1 .. Len(s) /\ s = [i \in 1 .. Len(s) |-> s[i]]
BY LenProperties, SeqDef DEF IsList

LEMMA ShiftedGrows == \A n \in Nat : Shifted[n] > n
<1> DEFINE T == {n \in Nat : Shifted[n] > n}
<1>1. 0 \in T
  BY ShiftedIs
<1>2. ASSUME NEW n \in T PROVE n + 1 \in T
  <2>1. Shifted[n] \in Nat /\ Shifted[n + 1] = 2 * Shifted[n] /\ n \in Nat /\ Shifted[n] > n
    BY ShiftedIs
  <2>2. QED
    BY <2>1
<1>3. T = Nat
  <2> HIDE DEF T
  <2>1. T \subseteq Nat
    BY DEF T
  <2>2. QED
    BY <1>1, <1>2, <2>1, InductiveSet
<1>4. QED
  BY <1>3

LEMMA DepthIs == ASSUME NEW n \in Nat PROVE Depth(n) \in Nat \ {0} /\ Shifted[Depth(n)] >= n
<1> DEFINE T == {d \in 1 .. n + 1 : Shifted[d] >= n}
<1>1. n + 1 \in T
  <2>1. Shifted[n + 1] \in Nat /\ Shifted[n + 1] > n + 1
    BY ShiftedIs, ShiftedGrows
  <2>2. QED
    BY <2>1
<1>2. PICK d \in T : \A e \in T : d <= e
  <2>1. T \subseteq Nat /\ T # {}
    BY <1>1
  <2> HIDE DEF T
  <2>2. QED
    BY <2>1, LeastElement
<1>3. d \in 1 .. n + 1 /\ Shifted[d] >= n /\ \A e \in 1 .. n + 1 : Shifted[e] >= n => d <= e
  BY <1>2
<1>4. ASSUME NEW e \in 1 .. d - 1 PROVE Shifted[e] < n
  <2>1. e \in Nat /\ Shifted[e] \in Nat /\ e < d /\ e \in 1 .. n + 1
    BY ShiftedIs
  <2>2. QED
    BY <1>3, <2>1
<1>5. \E c \in 1 .. n + 1 : Shifted[c] >= n /\ \A e \in 1 .. c - 1 : Shifted[e] < n
  BY <1>3, <1>4
<1>6. Depth(n) \in 1 .. n + 1 /\ Shifted[Depth(n)] >= n
  BY <1>5, Zenon DEF Depth
<1>7. QED
  BY <1>6

LEMMA PaddedIs ==
    ASSUME NEW leaves, IsList(leaves)
    PROVE  /\ IsList(padLeaves(leaves))
           /\ Len(padLeaves(leaves)) = Shifted[Depth(Len(leaves))]
           /\ \A i \in 1 .. Shifted[Depth(Len(leaves))] :
                 padLeaves(leaves)[i] = IF i <= Len(leaves) THEN leaves[i] ELSE Zero
<1>1. PICK n : n = Shifted[Depth(Len(leaves))]
  OBVIOUS
<1>2. n \in Nat
  BY <1>1, ListIs, DepthIs, ShiftedIs
<1>3. PICK p : p = padLeaves(leaves)
  OBVIOUS
<1>4. p = [i \in 1 .. n |-> IF i <= Len(leaves) THEN leaves[i] ELSE Zero]
  BY <1>1, <1>3 DEF padLeaves
<1>5. PICK S : S = {p[i] : i \in 1 .. n}
  OBVIOUS
<1>6. p \in [1 .. n -> S]
  BY <1>4, <1>5
<1>7. p \in Seq(S)
  BY <1>2, <1>6, SeqDef
<1>8. PICK m \in Nat : m = Len(p) /\ 1 .. m = 1 .. n
  BY <1>6, <1>7, LenProperties
<1>9. m = n
  BY <1>2, <1>8
<1>10. QED
  BY <1>1, <1>3, <1>4, <1>7, <1>8, <1>9 DEF IsList

LEMMA PairsAre ==
    ASSUME NEW D, \A l, r \in D : Keccak(l, r) \in D, NEW layer \in Seq(D)
    PROVE  /\ HashPairs(layer) \in Seq(D)
           /\ Len(HashPairs(layer)) = Len(layer) \div 2
           /\ \A i \in 1 .. Len(layer) \div 2 :
                 HashPairs(layer)[i] = Keccak(layer[2 * i - 1], layer[2 * i])
<1>1. PICK n : n = Len(layer)
  OBVIOUS
<1>2. PICK h : h = n \div 2
  OBVIOUS
<1>3. n \in Nat /\ h \in Nat /\ \A i \in 1 .. h : 2 * i - 1 \in 1 .. n /\ 2 * i \in 1 .. n
  BY <1>1, <1>2, LenProperties
<1>4. \A i \in 1 .. n : layer[i] \in D
  BY <1>1, ElementOfSeq
<1>5. PICK p : p = HashPairs(layer)
  OBVIOUS
<1>6. p = [i \in 1 .. h |-> Keccak(layer[2 * i - 1], layer[2 * i])]
  BY <1>1, <1>2, <1>5 DEF HashPairs
<1>7. p \in [1 .. h -> D]
  BY <1>3, <1>4, <1>6
<1>8. p \in Seq(D)
  BY <1>3, <1>7, SeqDef
<1>9. PICK m \in Nat : m = Len(p) /\ 1 .. m = 1 .. h
  BY <1>7, <1>8, LenProperties
<1>10. m = h
  BY <1>3, <1>9
<1>11. QED
  BY <1>1, <1>2, <1>5, <1>6, <1>8, <1>9, <1>10

(* All layers of the padded tree, from the leaves (layer 0) to the root.   *)
Layers(leaves) ==
    LET layer[k \in Nat] ==
            IF k = 0 THEN padLeaves(leaves) ELSE HashPairs(layer[k - 1])
    IN  layer

LEMMA LayersAre ==
    ASSUME NEW leaves, IsList(leaves)
    PROVE  \E D : /\ \A l, r \in D : Keccak(l, r) \in D
                  /\ Layers(leaves) \in [Nat -> Seq(D)]
                  /\ Layers(leaves)[0] = padLeaves(leaves)
                  /\ \A k \in Nat : Layers(leaves)[k + 1] = HashPairs(Layers(leaves)[k])
<1>1. PICK S : padLeaves(leaves) \in Seq(S)
  BY PaddedIs DEF IsList
<1>2. PICK D : HashesOver(S, D)
  BY HashesExist
<1>3. padLeaves(leaves) \in Seq(D)
  BY <1>1, <1>2, SeqMonotonic DEF HashesOver
<1>4. \A l, r \in D : Keccak(l, r) \in D
  BY <1>2 DEF HashesOver
<1>5. PICK bottom : bottom = padLeaves(leaves)
  OBVIOUS
<1> DEFINE step == [n \in Nat |-> [x \in Seq(D) |-> HashPairs(x)]]
<1>6. /\ step \in [Nat -> [Seq(D) -> Seq(D)]]
      /\ \A k \in Nat, x \in Seq(D) : step[k][x] = HashPairs(x)
  BY <1>4, PairsAre
<1> HIDE DEF step
<1>7. PICK f : Solves(f, Seq(D), bottom, step)
  BY <1>3, <1>5, <1>6, Solution
<1>8. ASSUME NEW k \in Nat PROVE f[k] = IF k = 0 THEN bottom ELSE HashPairs(f[k - 1])
  <2>1. CASE k # 0
    <3>1. f[k - 1] \in Seq(D) /\ f[k] = step[k - 1][f[k - 1]]
      BY <1>7, <2>1, Predecessor DEF Solves
    <3>2. QED
      BY <1>6, <2>1, <3>1, Predecessor
  <2>2. QED
    BY <1>7, <2>1 DEF Solves
<1>9. f = [k \in Nat |-> IF k = 0 THEN padLeaves(leaves) ELSE HashPairs(f[k - 1])]
  BY <1>5, <1>7, <1>8 DEF Solves
<1> DEFINE layer == Layers(leaves)
<1>10. layer = [k \in Nat |-> IF k = 0 THEN padLeaves(leaves) ELSE HashPairs(layer[k - 1])]
  BY <1>9, Zenon DEF Layers
<1> HIDE DEF layer
<1>11. layer[0] = bottom /\ \A k \in Nat : layer[k + 1] = HashPairs(layer[k])
  BY <1>5, <1>10, Successor
<1>12. layer = [k \in Nat |-> layer[k]]
  BY <1>10
<1>13. Solves(layer, Seq(D), bottom, step)
  <2>1. \A k \in Nat : layer[k] \in Seq(D) => layer[k + 1] = step[k][layer[k]]
    BY <1>6, <1>11
  <2>2. QED
    BY <1>3, <1>5, <1>6, <1>11, <1>12, <2>1, StaysIn
<1>14. QED
  BY <1>4, <1>5, <1>11, <1>13 DEF Solves, layer

LEMMA HashedUpIs ==
    ASSUME NEW proof, NEW leaf, NEW index \in Nat
    PROVE  /\ HashedUp(proof, leaf, index)[0] = leaf
           /\ \A k \in Nat :
                 HashedUp(proof, leaf, index)[k + 1] =
                     IF Way(index)[k] % 2 = 0
                     THEN Keccak(HashedUp(proof, leaf, index)[k], proof[k + 1])
                     ELSE Keccak(proof[k + 1], HashedUp(proof, leaf, index)[k])
<1>1. PICK D : HashesOver({leaf} \cup {proof[k] : k \in Nat}, D)
  BY HashesExist
<1>2. /\ leaf \in D /\ \A k \in Nat : proof[k + 1] \in D
      /\ \A l, r \in D : Keccak(l, r) \in D
  BY <1>1, Successor DEF HashesOver
<1>3. PICK way : way = Way(index)
  OBVIOUS
<1> DEFINE step == [n \in Nat |-> [x \in D |-> IF way[n] % 2 = 0 THEN Keccak(x, proof[n + 1])
                                                                 ELSE Keccak(proof[n + 1], x)]]
<1>4. /\ step \in [Nat -> [D -> D]]
      /\ \A k \in Nat, x \in D : step[k][x] = IF way[k] % 2 = 0 THEN Keccak(x, proof[k + 1])
                                                               ELSE Keccak(proof[k + 1], x)
  BY <1>2
<1> HIDE DEF step
<1>5. PICK f : Solves(f, D, leaf, step)
  BY <1>2, <1>4, Solution
<1>6. ASSUME NEW k \in Nat
      PROVE  f[k] = IF k = 0 THEN leaf
                    ELSE IF way[k - 1] % 2 = 0 THEN Keccak(f[k - 1], proof[k])
                                               ELSE Keccak(proof[k], f[k - 1])
  <2>1. CASE k # 0
    <3>1. f[k - 1] \in D /\ f[k] = step[k - 1][f[k - 1]]
      BY <1>5, <2>1, Predecessor DEF Solves
    <3>2. QED
      BY <1>4, <2>1, <3>1, Predecessor
  <2>2. QED
    BY <1>5, <2>1 DEF Solves
<1>7. f = [k \in Nat |-> IF k = 0 THEN leaf
                         ELSE IF way[k - 1] % 2 = 0 THEN Keccak(f[k - 1], proof[k])
                                                    ELSE Keccak(proof[k], f[k - 1])]
  BY <1>5, <1>6 DEF Solves
<1> DEFINE hash == HashedUp(proof, leaf, index)
<1>8. f = [k \in Nat |-> IF k = 0 THEN leaf
                         ELSE IF Way(index)[k - 1] % 2 = 0 THEN Keccak(f[k - 1], proof[k])
                                                           ELSE Keccak(proof[k], f[k - 1])]
  BY <1>3, <1>7, Zenon
<1>9. hash = [k \in Nat |-> IF k = 0 THEN leaf
                            ELSE IF Way(index)[k - 1] % 2 = 0 THEN Keccak(hash[k - 1], proof[k])
                                                              ELSE Keccak(proof[k], hash[k - 1])]
  BY <1>8, Zenon DEF HashedUp
<1> HIDE DEF hash
<1>10. /\ hash[0] = leaf
       /\ \A k \in Nat : hash[k + 1] = IF Way(index)[k] % 2 = 0 THEN Keccak(hash[k], proof[k + 1])
                                                                ELSE Keccak(proof[k + 1], hash[k])
  BY <1>9, Successor
<1>11. QED
  BY <1>10 DEF hash

(* The nodes of a tree: on layer k, counted from 0 like the code does.     *)
Node(leaves, k, i) == Layers(leaves)[k][i + 1]
Width(leaves, k) == Shifted[Depth(Len(leaves)) - k]

LEMMA WidthIs ==
    ASSUME NEW leaves, IsList(leaves), NEW d, d = Depth(Len(leaves))
    PROVE  /\ d \in Nat \ {0}
           /\ Width(leaves, d) = 1
           /\ \A k \in 0 .. d : Width(leaves, k) \in Nat \ {0}
           /\ \A k \in 0 .. d - 1 : Width(leaves, k) = 2 * Width(leaves, k + 1)
<1>1. d \in Nat \ {0}
  BY ListIs, DepthIs
<1>2. d - d = 0 /\ \A k \in 0 .. d : d - k \in Nat
  BY <1>1
<1>3. ASSUME NEW k \in 0 .. d - 1 PROVE Width(leaves, k) = 2 * Width(leaves, k + 1)
  <2>1. d - (k + 1) \in Nat /\ d - (k + 1) + 1 = d - k
    BY <1>1
  <2>2. QED
    BY <2>1, ShiftedIs DEF Width
<1>4. QED
  BY <1>1, <1>2, <1>3, ShiftedIs DEF Width

LEMMA LayerLength ==
    ASSUME NEW leaves, IsList(leaves), NEW k \in 0 .. Depth(Len(leaves))
    PROVE  Len(Layers(leaves)[k]) = Width(leaves, k)
<1>1. PICK d : d = Depth(Len(leaves))
  OBVIOUS
<1>2. PICK layer : layer = Layers(leaves)
  OBVIOUS
<1>3. PICK D : /\ \A l, r \in D : Keccak(l, r) \in D
               /\ layer \in [Nat -> Seq(D)]
               /\ layer[0] = padLeaves(leaves)
               /\ \A j \in Nat : layer[j + 1] = HashPairs(layer[j])
  BY <1>2, LayersAre
<1> DEFINE T == {j \in Nat : j <= d => Len(layer[j]) = Width(leaves, j)}
<1>4. 0 \in T
  <2>1. d - 0 = d
    BY <1>1, WidthIs
  <2>2. QED
    BY <1>1, <1>3, <2>1, PaddedIs DEF Width
<1>5. ASSUME NEW j \in T PROVE j + 1 \in T
  <2>1. CASE j + 1 <= d
    <3>1. j \in Nat /\ j \in 0 .. d - 1 /\ Len(layer[j]) = Width(leaves, j) /\ j + 1 \in 0 .. d
      BY <1>1, <2>1, WidthIs
    <3>2. Len(layer[j + 1]) = Len(layer[j]) \div 2
      BY <1>3, <3>1, PairsAre
    <3>3. Width(leaves, j) = 2 * Width(leaves, j + 1) /\ Width(leaves, j + 1) \in Nat
      BY <1>1, <3>1, WidthIs
    <3>4. QED
      BY <3>1, <3>2, <3>3
  <2>2. QED
    BY <1>5, <2>1
<1>6. T = Nat
  <2> HIDE DEF T
  <2>1. T \subseteq Nat
    BY DEF T
  <2>2. QED
    BY <1>4, <1>5, <2>1, InductiveSet
<1>7. d \in Nat
  BY <1>1, WidthIs
<1>8. k \in T /\ k <= d
  BY <1>1, <1>6, <1>7
<1>9. QED
  BY <1>2, <1>8

LEMMA BottomNode ==
    ASSUME NEW leaves, IsList(leaves), NEW i \in 0 .. Width(leaves, 0) - 1
    PROVE  Node(leaves, 0, i) = IF i < Len(leaves) THEN leaves[i + 1] ELSE Zero
<1>1. Layers(leaves)[0] = padLeaves(leaves)
  BY LayersAre
<1>2. PICK w : w = Shifted[Depth(Len(leaves))]
  OBVIOUS
<1>3. Depth(Len(leaves)) - 0 = Depth(Len(leaves)) /\ Len(leaves) \in Nat /\ w \in Nat
  BY <1>2, WidthIs, ListIs, ShiftedIs
<1>4. i + 1 \in 1 .. w
  BY <1>2, <1>3 DEF Width
<1>5. padLeaves(leaves)[i + 1] = IF i + 1 <= Len(leaves) THEN leaves[i + 1] ELSE Zero
  BY <1>2, <1>4, PaddedIs
<1>6. i + 1 <= Len(leaves) <=> i < Len(leaves)
  BY <1>3
<1>7. QED
  BY <1>1, <1>5, <1>6 DEF Node

LEMMA InnerNode ==
    ASSUME NEW leaves, IsList(leaves), NEW k \in 0 .. Depth(Len(leaves)) - 1,
           NEW i \in 0 .. Width(leaves, k + 1) - 1
    PROVE  /\ 2 * i \in 0 .. Width(leaves, k) - 1
           /\ 2 * i + 1 \in 0 .. Width(leaves, k) - 1
           /\ Node(leaves, k + 1, i) = Keccak(Node(leaves, k, 2 * i), Node(leaves, k, 2 * i + 1))
<1>1. PICK d : d = Depth(Len(leaves))
  OBVIOUS
<1>2. PICK w : w = Width(leaves, k + 1)
  OBVIOUS
<1>3. d \in Nat /\ k \in Nat /\ k \in 0 .. d /\ k \in 0 .. d - 1 /\ k + 1 \in 0 .. d
  BY <1>1, WidthIs
<1>4. w \in Nat /\ Width(leaves, k) = 2 * w /\ i \in 0 .. w - 1
  BY <1>1, <1>2, <1>3, WidthIs
<1>5. PICK layer : layer = Layers(leaves)
  OBVIOUS
<1>6. PICK D : /\ \A l, r \in D : Keccak(l, r) \in D
               /\ layer \in [Nat -> Seq(D)]
               /\ \A j \in Nat : layer[j + 1] = HashPairs(layer[j])
  BY <1>5, LayersAre
<1>7. Len(layer[k]) = 2 * w
  BY <1>1, <1>3, <1>4, <1>5, LayerLength
<1>8. (2 * w) \div 2 = w /\ i + 1 \in 1 .. w
  BY <1>4
<1>9. layer[k + 1][i + 1] = Keccak(layer[k][2 * (i + 1) - 1], layer[k][2 * (i + 1)])
  <2>1. layer[k] \in Seq(D) /\ layer[k + 1] = HashPairs(layer[k])
    BY <1>3, <1>6
  <2>2. PICK below : below = layer[k]
    OBVIOUS
  <2>3. \A j \in 1 .. Len(below) \div 2 :
            HashPairs(below)[j] = Keccak(below[2 * j - 1], below[2 * j])
    BY <1>6, <2>1, <2>2, PairsAre
  <2>4. Len(below) \div 2 = w
    BY <1>7, <1>8, <2>2
  <2>5. HashPairs(below)[i + 1] = Keccak(below[2 * (i + 1) - 1], below[2 * (i + 1)])
    BY <1>8, <2>3, <2>4
  <2>6. QED
    BY <2>1, <2>2, <2>5, Zenon
<1>10. 2 * (i + 1) - 1 = 2 * i + 1 /\ 2 * (i + 1) = 2 * i + 1 + 1
  BY <1>4
<1>11. Node(leaves, k + 1, i) = Keccak(Node(leaves, k, 2 * i), Node(leaves, k, 2 * i + 1))
  BY <1>5, <1>9, <1>10 DEF Node
<1>12. QED
  BY <1>4, <1>11

----------------------------------------------------------------------------
(* Arrays that are overwritten in place hold the layers all the same: no   *)
(* place is read after it was written.                                     *)
SolvesUpTo(f, S, zero, step, d) ==
    /\ f \in [0 .. d -> S]
    /\ f[0] = zero
    /\ \A n \in 0 .. d - 1 : f[n + 1] = step[n][f[n]]

LEMMA BoundedSolution ==
    ASSUME NEW d \in Nat, NEW S, NEW zero \in S, NEW step \in [Nat -> [S -> S]]
    PROVE  \E f : SolvesUpTo(f, S, zero, step, d)
<1>1. PICK g : Solves(g, S, zero, step)
  BY Solution
<1>2. PICK f : f = [n \in 0 .. d |-> g[n]]
  OBVIOUS
<1>3. /\ f \in [0 .. d -> S] /\ f[0] = zero
  BY <1>1, <1>2 DEF Solves
<1>4. ASSUME NEW n \in 0 .. d - 1 PROVE f[n + 1] = step[n][f[n]]
  <2>1. n \in Nat /\ n \in 0 .. d /\ n + 1 \in 0 .. d
    OBVIOUS
  <2>2. f[n] = g[n] /\ f[n + 1] = g[n + 1]
    BY <1>2, <2>1
  <2>3. QED
    BY <1>1, <2>1, <2>2 DEF Solves
<1>5. QED
  BY <1>3, <1>4 DEF SolvesUpTo

(* One place of an array is overwritten.                                   *)
LEMMA PlaceOverwritten ==
    ASSUME NEW D, NEW s \in Seq(D), NEW p \in 1 .. Len(s), NEW x \in D
    PROVE  /\ [s EXCEPT ![p] = x] \in Seq(D)
           /\ Len([s EXCEPT ![p] = x]) = Len(s)
           /\ [s EXCEPT ![p] = x][p] = x
           /\ \A i \in 1 .. Len(s) : i # p => [s EXCEPT ![p] = x][i] = s[i]
<1>1. s \in [1 .. Len(s) -> D] /\ Len(s) \in Nat
  BY LenProperties
<1>2. PICK t : t = [s EXCEPT ![p] = x]
  OBVIOUS
<1>3. /\ t \in [1 .. Len(s) -> D] /\ t[p] = x
      /\ \A i \in 1 .. Len(s) : i # p => t[i] = s[i]
  BY <1>1, <1>2
<1>4. t \in Seq(D)
  BY <1>1, <1>3, SeqDef
<1>5. PICK n \in Nat : n = Len(s)
  BY <1>1
<1>6. PICK m \in Nat : m = Len(t) /\ 1 .. m = 1 .. n
  BY <1>3, <1>4, <1>5, LenProperties
<1>7. m = n
  BY <1>6
<1>8. QED
  BY <1>2, <1>3, <1>4, <1>5, <1>6, <1>7

LEMMA OverwrittenIs ==
    ASSUME NEW D, \A l, r \in D : Keccak(l, r) \in D, NEW start \in Seq(D),
           NEW count \in Nat, 2 * count <= Len(start)
    PROVE  /\ Overwritten(start, count) \in Seq(D)
           /\ Len(Overwritten(start, count)) = Len(start)
           /\ \A i \in 1 .. count :
                 Overwritten(start, count)[i] = Keccak(start[2 * i - 1], start[2 * i])
<1>1. PICK n \in Nat : n = Len(start)
  BY LenProperties
<1> DEFINE S == {x \in Seq(D) : Len(x) = n}
<1> DEFINE write(x, j) == [x EXCEPT ![j] = Keccak(x[2 * j - 1], x[2 * j])]
<1>2. ASSUME NEW x \in S, NEW j \in 1 .. count
      PROVE  /\ write(x, j) \in S
             /\ write(x, j)[j] = Keccak(x[2 * j - 1], x[2 * j])
             /\ \A i \in 1 .. n : i # j => write(x, j)[i] = x[i]
  <2>1. j \in 1 .. n /\ 2 * j - 1 \in 1 .. n /\ 2 * j \in 1 .. n
    BY <1>1
  <2>2. x[2 * j - 1] \in D /\ x[2 * j] \in D
    BY <2>1, ElementOfSeq
  <2>3. PICK hash \in D : hash = Keccak(x[2 * j - 1], x[2 * j])
    BY <2>2
  <2>4. QED
    BY <2>1, <2>3, PlaceOverwritten
<1> DEFINE step == [k \in Nat |-> [x \in S |-> IF k < count THEN write(x, k + 1) ELSE x]]
<1>3. ASSUME NEW k \in 0 .. count - 1, NEW x \in S PROVE step[k][x] = write(x, k + 1)
  OBVIOUS
<1>4. step \in [Nat -> [S -> S]]
  <2>1. ASSUME NEW k \in Nat, NEW x \in S
        PROVE  (IF k < count THEN write(x, k + 1) ELSE x) \in S
    <3>1. k < count => k + 1 \in 1 .. count
      OBVIOUS
    <3>2. QED
      BY <1>2, <3>1
  <2>2. QED
    BY <2>1
<1>5. start \in S
  BY <1>1
<1> HIDE DEF step, S
<1>6. PICK f : SolvesUpTo(f, S, start, step, count)
  BY <1>4, <1>5, BoundedSolution
<1>7. ASSUME NEW j \in 0 .. count
      PROVE  f[j] = IF j = 0 THEN start ELSE write(f[j - 1], j)
  <2>1. CASE j # 0
    <3>1. j - 1 \in 0 .. count - 1 /\ j - 1 \in 0 .. count /\ j - 1 + 1 = j
      BY <2>1
    <3>2. f[j] = step[j - 1][f[j - 1]] /\ f[j - 1] \in S
      BY <1>6, <3>1 DEF SolvesUpTo
    <3>3. QED
      BY <1>3, <2>1, <3>1, <3>2
  <2>2. QED
    BY <1>6, <2>1 DEF SolvesUpTo
<1> DEFINE equation(g) == g = [j \in 0 .. count |->
        IF j = 0 THEN start
        ELSE LET before == g[j - 1]
             IN  [before EXCEPT ![j] = Keccak(before[2 * j - 1], before[2 * j])]]
<1>8. equation(f)
  BY <1>6, <1>7 DEF SolvesUpTo
<1>9. PICK after : after = CHOOSE g : equation(g)
  OBVIOUS
<1>10. equation(after) /\ Overwritten(start, count) = after[count]
  <2>1. equation(after)
    BY <1>8, <1>9, Zenon
  <2>2. Overwritten(start, count) = after[count]
    BY <1>9, Zenon DEF Overwritten
  <2>3. QED
    BY <2>1, <2>2
<1>11. ASSUME NEW j \in 0 .. count
       PROVE  after[j] = IF j = 0 THEN start ELSE write(after[j - 1], j)
  BY <1>10
<1> HIDE DEF equation, write
<1> DEFINE T == {j \in Nat : j <= count =>
                    /\ after[j] \in S
                    /\ \A i \in 1 .. j : after[j][i] = Keccak(start[2 * i - 1], start[2 * i])
                    /\ \A i \in j + 1 .. n : after[j][i] = start[i]}
<1>12. 0 \in T
  BY <1>5, <1>11
<1>13. ASSUME NEW j \in T PROVE j + 1 \in T
  <2>1. CASE j + 1 <= count
    <3>1. PICK q : q = j + 1
      OBVIOUS
    <3>2. j \in Nat /\ q \in 1 .. count /\ q \in 0 .. count /\ q - 1 = j /\ q # 0
      BY <2>1, <3>1
    <3>3. PICK before : before = after[j]
      OBVIOUS
    <3>4. /\ before \in S
          /\ \A i \in 1 .. j : before[i] = Keccak(start[2 * i - 1], start[2 * i])
          /\ \A i \in q .. n : before[i] = start[i]
      BY <2>1, <3>1, <3>2, <3>3
    <3>5. PICK next : next = write(before, q)
      OBVIOUS
    <3>6. after[q] = next
      BY <1>11, <3>2, <3>3, <3>5
    <3>7. /\ next \in S /\ next[q] = Keccak(before[2 * q - 1], before[2 * q])
          /\ \A i \in 1 .. n : i # q => next[i] = before[i]
      BY <1>2, <3>2, <3>4, <3>5
    <3>8. 2 * q - 1 \in q .. n /\ 2 * q \in q .. n /\ q <= n
      BY <1>1, <3>2
    <3>9. next[q] = Keccak(start[2 * q - 1], start[2 * q])
      BY <3>4, <3>7, <3>8
    <3>10. ASSUME NEW i \in 1 .. q PROVE next[i] = Keccak(start[2 * i - 1], start[2 * i])
      <4>1. i = q \/ (i \in 1 .. j /\ i # q /\ i \in 1 .. n)
        BY <3>1, <3>2, <3>8
      <4>2. QED
        BY <3>4, <3>7, <3>9, <4>1
    <3>11. ASSUME NEW i \in q + 1 .. n PROVE next[i] = start[i]
      <4>1. i \in 1 .. n /\ i # q /\ i \in q .. n
        BY <3>2
      <4>2. QED
        BY <3>4, <3>7, <4>1
    <3>12. QED
      BY <3>1, <3>2, <3>6, <3>7, <3>10, <3>11
  <2>2. QED
    BY <1>13, <2>1
<1>14. T = Nat
  <2> HIDE DEF T
  <2>1. T \subseteq Nat
    BY DEF T
  <2>2. QED
    BY <1>12, <1>13, <2>1, InductiveSet
<1>15. after[count] \in S /\ \A i \in 1 .. count :
           after[count][i] = Keccak(start[2 * i - 1], start[2 * i])
  BY <1>14
<1>16. QED
  BY <1>1, <1>10, <1>15 DEF S

LEMMA ShiftedMonotone == \A a, b \in Nat : Shifted[a] <= Shifted[a + b]
<1> SUFFICES ASSUME NEW a \in Nat PROVE \A b \in Nat : Shifted[a] <= Shifted[a + b]
  OBVIOUS
<1> DEFINE T == {b \in Nat : Shifted[a] <= Shifted[a + b]}
<1>1. 0 \in T
  BY ShiftedIs
<1>2. ASSUME NEW b \in T PROVE b + 1 \in T
  <2>1. a + b \in Nat /\ a + (b + 1) = a + b + 1
    OBVIOUS
  <2>2. /\ Shifted[a] \in Nat /\ Shifted[a + b] \in Nat
        /\ Shifted[a + (b + 1)] = 2 * Shifted[a + b] /\ Shifted[a] <= Shifted[a + b]
    BY <2>1, ShiftedIs
  <2>3. QED
    BY <2>2
<1>3. T = Nat
  <2> HIDE DEF T
  <2>1. T \subseteq Nat
    BY DEF T
  <2>2. QED
    BY <1>1, <1>2, <2>1, InductiveSet
<1>4. QED
  BY <1>3

(* After each round the places that were written hold the layer.           *)
LayersFrom(layer, start, D) ==
    /\ \A l, r \in D : Keccak(l, r) \in D
    /\ layer \in [Nat -> Seq(D)] /\ layer[0] = start
    /\ \A k \in Nat : layer[k + 1] = HashPairs(layer[k])

HoldsLayers(start, d, layer) ==
    \A k \in 0 .. d : \A i \in 1 .. Shifted[d - k] : Rounds(start, d)[k][i] = layer[k][i]

LEMMA RoundsAre ==
    ASSUME NEW D, NEW start \in Seq(D), NEW d \in Nat, Len(start) = Shifted[d],
           NEW layer, LayersFrom(layer, start, D)
    PROVE  HoldsLayers(start, d, layer)
<1>1. /\ \A l, r \in D : Keccak(l, r) \in D
      /\ layer \in [Nat -> Seq(D)] /\ layer[0] = start
      /\ \A k \in Nat : layer[k + 1] = HashPairs(layer[k])
  BY DEF LayersFrom
<1>2. PICK n \in Nat : n = Shifted[d]
  BY ShiftedIs
<1> DEFINE S == {x \in Seq(D) : Len(x) = n}
<1>3. ASSUME NEW k \in 0 .. d - 1
      PROVE  /\ d - (k + 1) \in Nat /\ Shifted[d - (k + 1)] \in Nat
             /\ Shifted[d - k] = 2 * Shifted[d - (k + 1)]
             /\ 2 * Shifted[d - (k + 1)] <= n
  <2>1. d - (k + 1) \in Nat /\ d - (k + 1) + 1 = d - k /\ k \in Nat /\ d - k \in Nat
        /\ d - k + k = d
    OBVIOUS
  <2>2. Shifted[d - (k + 1)] \in Nat /\ Shifted[d - k] = 2 * Shifted[d - (k + 1)]
    BY <2>1, ShiftedIs
  <2>3. Shifted[d - k] <= Shifted[d - k + k]
    BY <2>1, ShiftedMonotone
  <2>4. QED
    BY <1>2, <2>1, <2>2, <2>3
<1>4. ASSUME NEW x \in S, NEW k \in 0 .. d - 1
      PROVE  /\ Overwritten(x, Shifted[d - (k + 1)]) \in S
             /\ \A i \in 1 .. Shifted[d - (k + 1)] :
                   Overwritten(x, Shifted[d - (k + 1)])[i] = Keccak(x[2 * i - 1], x[2 * i])
  <2>1. PICK count \in Nat : count = Shifted[d - (k + 1)] /\ 2 * count <= n
    BY <1>3
  <2>2. x \in Seq(D) /\ 2 * count <= Len(x) /\ Len(x) = n
    BY <2>1
  <2>3. /\ Overwritten(x, count) \in Seq(D) /\ Len(Overwritten(x, count)) = Len(x)
        /\ \A i \in 1 .. count : Overwritten(x, count)[i] = Keccak(x[2 * i - 1], x[2 * i])
    BY <1>1, <2>2, OverwrittenIs
  <2>4. QED
    BY <2>1, <2>2, <2>3
<1> DEFINE step == [k \in Nat |-> [x \in S |->
                IF k \in 0 .. d - 1 THEN Overwritten(x, Shifted[d - (k + 1)]) ELSE x]]
<1>5. step \in [Nat -> [S -> S]]
  BY <1>4
<1>6. ASSUME NEW k \in 0 .. d - 1, NEW x \in S
      PROVE  step[k][x] = Overwritten(x, Shifted[d - (k + 1)])
  OBVIOUS
<1>7. start \in S
  BY <1>2
<1> HIDE DEF step, S
<1>8. PICK f : SolvesUpTo(f, S, start, step, d)
  BY <1>5, <1>7, BoundedSolution
<1>9. ASSUME NEW k \in 0 .. d
      PROVE  f[k] = IF k = 0 THEN start ELSE Overwritten(f[k - 1], Shifted[d - k])
  <2>1. CASE k # 0
    <3>1. k - 1 \in 0 .. d - 1 /\ k - 1 \in 0 .. d /\ k - 1 + 1 = k
      BY <2>1
    <3>2. f[k] = step[k - 1][f[k - 1]] /\ f[k - 1] \in S
      BY <1>8, <3>1 DEF SolvesUpTo
    <3>3. step[k - 1][f[k - 1]] = Overwritten(f[k - 1], Shifted[d - (k - 1 + 1)])
      BY <1>6, <3>1, <3>2
    <3>4. QED
      BY <2>1, <3>1, <3>2, <3>3
  <2>2. QED
    BY <1>8, <2>1 DEF SolvesUpTo
<1> DEFINE equation(g) == g = [k \in 0 .. d |->
        IF k = 0 THEN start ELSE Overwritten(g[k - 1], Shifted[d - k])]
<1>10. equation(f)
  BY <1>8, <1>9 DEF SolvesUpTo
<1>11. PICK arrays : arrays = CHOOSE g : equation(g)
  OBVIOUS
<1>12. equation(arrays) /\ Rounds(start, d) = arrays
  <2>1. equation(arrays)
    BY <1>10, <1>11, Zenon
  <2>2. Rounds(start, d) = arrays
    BY <1>11, Zenon DEF Rounds
  <2>3. QED
    BY <2>1, <2>2
<1>13. ASSUME NEW k \in 0 .. d
       PROVE  arrays[k] = IF k = 0 THEN start ELSE Overwritten(arrays[k - 1], Shifted[d - k])
  BY <1>12
<1> HIDE DEF equation
<1> DEFINE T == {k \in Nat : k <= d =>
                    /\ arrays[k] \in S /\ Len(layer[k]) = Shifted[d - k]
                    /\ \A i \in 1 .. Shifted[d - k] : arrays[k][i] = layer[k][i]}
<1>14. 0 \in T
  <2>1. 0 \in 0 .. d /\ d - 0 = d
    OBVIOUS
  <2>2. arrays[0] = start
    BY <1>13, <2>1
  <2>3. QED
    BY <1>1, <1>7, <2>1, <2>2
<1>15. ASSUME NEW k \in T PROVE k + 1 \in T
  <2>1. CASE k + 1 <= d
    <3>1. PICK q, count : q = k + 1 /\ count = Shifted[d - q]
      OBVIOUS
    <3>2. /\ k \in 0 .. d - 1 /\ k \in Nat /\ q \in 0 .. d /\ q # 0 /\ q - 1 = k
          /\ d - q = d - (k + 1)
      BY <2>1, <3>1
    <3>3. count \in Nat /\ Shifted[d - k] = 2 * count
      BY <1>3, <3>1, <3>2
    <3>4. PICK before, below : before = arrays[k] /\ below = layer[k]
      OBVIOUS
    <3>5. /\ before \in S /\ below \in Seq(D) /\ Len(below) = 2 * count
          /\ \A i \in 1 .. 2 * count : before[i] = below[i]
      <4>1. k <= d
        BY <3>2
      <4>2. /\ arrays[k] \in S /\ Len(layer[k]) = Shifted[d - k]
            /\ \A i \in 1 .. Shifted[d - k] : arrays[k][i] = layer[k][i]
        BY <1>15, <4>1
      <4>3. layer[k] \in Seq(D)
        BY <1>1, <3>2
      <4>4. QED
        BY <3>3, <3>4, <4>2, <4>3, Zenon
    <3>6. PICK next : next = Overwritten(before, count)
      OBVIOUS
    <3>7. arrays[q] = next
      BY <1>13, <3>1, <3>2, <3>4, <3>6
    <3>8. /\ next \in S
          /\ \A i \in 1 .. count : next[i] = Keccak(before[2 * i - 1], before[2 * i])
      BY <1>4, <3>1, <3>2, <3>5, <3>6
    <3>9. (2 * count) \div 2 = count
      BY <3>3
    <3>10. /\ Len(layer[q]) = count
           /\ \A i \in 1 .. count : layer[q][i] = Keccak(below[2 * i - 1], below[2 * i])
      <4>1. layer[q] = HashPairs(below)
        BY <1>1, <3>1, <3>2, <3>4
      <4>2. /\ Len(HashPairs(below)) = Len(below) \div 2
            /\ \A i \in 1 .. Len(below) \div 2 :
                  HashPairs(below)[i] = Keccak(below[2 * i - 1], below[2 * i])
        BY <1>1, <3>5, PairsAre
      <4>3. QED
        BY <3>5, <3>9, <4>1, <4>2
    <3>11. ASSUME NEW i \in 1 .. count PROVE next[i] = layer[q][i]
      <4>1. 2 * i - 1 \in 1 .. 2 * count /\ 2 * i \in 1 .. 2 * count
        BY <3>3
      <4>2. QED
        BY <3>5, <3>8, <3>10, <4>1
    <3>12. /\ arrays[q] \in S /\ Len(layer[q]) = Shifted[d - q]
           /\ \A i \in 1 .. Shifted[d - q] : arrays[q][i] = layer[q][i]
      BY <3>1, <3>7, <3>8, <3>10, <3>11, Zenon
    <3>13. q \in Nat
      BY <3>1, <3>2
    <3>14. q \in T
      BY <3>12, <3>13
    <3>15. QED
      BY <3>1, <3>14
  <2>2. QED
    BY <1>15, <2>1
<1>16. T = Nat
  <2> HIDE DEF T
  <2>1. T \subseteq Nat
    BY DEF T
  <2>2. QED
    BY <1>14, <1>15, <2>1, InductiveSet
<1>17. ASSUME NEW k \in 0 .. d, NEW i \in 1 .. Shifted[d - k]
       PROVE  arrays[k][i] = layer[k][i]
  <2>1. k \in Nat /\ k <= d
    OBVIOUS
  <2>2. k \in T
    BY <1>16, <2>1, Zenon
  <2>3. QED
    BY <2>1, <2>2
<1>18. QED
  BY <1>12, <1>17 DEF HoldsLayers

LEMMA RootNode ==
    ASSUME NEW leaves, IsList(leaves)
    PROVE  merkleizeKeccak(leaves) = Node(leaves, Depth(Len(leaves)), 0)
<1>1. PICK d \in Nat \ {0} : d = Depth(Len(leaves))
  BY WidthIs
<1>2. PICK e \in Nat : e = d - 1 /\ e + 1 = d /\ e - e = 0 /\ d - (0 + 1) = e
  BY <1>1
<1>3. PICK layer : layer = Layers(leaves)
  OBVIOUS
<1>4. PICK D : /\ \A l, r \in D : Keccak(l, r) \in D
               /\ layer \in [Nat -> Seq(D)]
               /\ layer[0] = padLeaves(leaves)
               /\ \A j \in Nat : layer[j + 1] = HashPairs(layer[j])
  BY <1>3, LayersAre
<1>5. PICK start, above : /\ start = HashPairs(padLeaves(leaves))
                          /\ above = [k \in Nat |-> layer[k + 1]]
  OBVIOUS
<1>6. start = layer[1] /\ start \in Seq(D)
  BY <1>4, <1>5
<1>7. Len(start) = Shifted[e]
  <2>1. 1 \in 0 .. d
    BY <1>1
  <2>2. Len(layer[1]) = Shifted[d - 1]
    BY <1>1, <1>3, <2>1, LayerLength DEF Width
  <2>3. QED
    BY <1>2, <1>6, <2>2
<1>8. /\ above \in [Nat -> Seq(D)] /\ above[0] = start
      /\ \A k \in Nat : above[k + 1] = HashPairs(above[k])
  <2>1. \A k \in Nat : k + 1 \in Nat
    OBVIOUS
  <2>2. above \in [Nat -> Seq(D)]
    BY <1>4, <1>5, <2>1
  <2>3. above[0] = start
    BY <1>5, <1>6
  <2>4. ASSUME NEW k \in Nat PROVE above[k + 1] = HashPairs(above[k])
    <3>1. above[k] = layer[k + 1] /\ above[k + 1] = layer[k + 1 + 1]
      BY <1>5, <2>1
    <3>2. QED
      BY <1>4, <2>1, <3>1
  <2>5. QED
    BY <2>2, <2>3, <2>4
<1>9. LayersFrom(above, start, D)
  BY <1>4, <1>8 DEF LayersFrom
<1>10. Rounds(start, e)[e][1] = layer[d][1]
  <2>1. HoldsLayers(start, e, above)
    BY <1>6, <1>7, <1>9, RoundsAre
  <2>2. e \in 0 .. e /\ 1 \in 1 .. Shifted[e - e] /\ above[e] = layer[d]
    BY <1>2, <1>5, ShiftedIs
  <2>3. QED
    BY <2>1, <2>2 DEF HoldsLayers
<1>11. merkleizeKeccak(leaves) = Rounds(start, e)[e][1]
  BY <1>1, <1>2, <1>5, Zenon DEF merkleizeKeccak
<1>12. QED
  BY <1>1, <1>3, <1>10, <1>11 DEF Node

----------------------------------------------------------------------------
(* With the proof of an index any leaf hashes up to the root of the tree   *)
(* that has this leaf there.                                               *)
Put(leaves, index, leaf) == [leaves EXCEPT ![index + 1] = leaf]

LEMMA PutIs ==
    ASSUME NEW leaves, IsList(leaves), NEW index \in 0 .. Len(leaves) - 1, NEW leaf
    PROVE  /\ IsList(Put(leaves, index, leaf))
           /\ Len(Put(leaves, index, leaf)) = Len(leaves)
           /\ Put(leaves, index, leaf)[index + 1] = leaf
           /\ \A i \in 1 .. Len(leaves) : i # index + 1 => Put(leaves, index, leaf)[i] = leaves[i]
<1>1. PICK S : leaves \in Seq(S)
  BY DEF IsList
<1>2. PICK n \in Nat : n = Len(leaves)
  BY ListIs
<1>3. PICK s : s = Put(leaves, index, leaf)
  OBVIOUS
<1>4. DOMAIN leaves = 1 .. n /\ index + 1 \in 1 .. n /\ \A i \in 1 .. n : leaves[i] \in S
  BY <1>1, <1>2, ListIs, ElementOfSeq
<1>5. leaves \in [1 .. n -> S \cup {leaf}]
  BY <1>1, <1>2, <1>4, ListIs
<1>6. s \in [1 .. n -> S \cup {leaf}] /\ s[index + 1] = leaf
      /\ \A i \in 1 .. n : i # index + 1 => s[i] = leaves[i]
  BY <1>3, <1>4, <1>5 DEF Put
<1>7. s \in Seq(S \cup {leaf})
  BY <1>6, SeqDef
<1>8. PICK m \in Nat : m = Len(s) /\ 1 .. m = 1 .. n
  BY <1>6, <1>7, LenProperties
<1>9. m = n
  BY <1>8
<1>10. QED
  BY <1>2, <1>3, <1>6, <1>7, <1>8, <1>9 DEF IsList

(* The index is one of the layer, all the way up.                          *)
LEMMA WayInLayer ==
    ASSUME NEW leaves, IsList(leaves), NEW index \in 0 .. Len(leaves) - 1,
           NEW k \in 0 .. Depth(Len(leaves))
    PROVE  Way(index)[k] \in 0 .. Width(leaves, k) - 1
<1>1. PICK d : d = Depth(Len(leaves))
  OBVIOUS
<1>2. index \in Nat /\ Len(leaves) \in Nat /\ d \in Nat
  BY <1>1, ListIs, WidthIs
<1>3. PICK way : way = Way(index)
  OBVIOUS
<1>4. /\ way \in [Nat -> Nat] /\ way[0] = index
      /\ \A j \in Nat : way[j + 1] = way[j] \div 2
  BY <1>2, <1>3, WayIs
<1> DEFINE T == {j \in Nat : j <= d => way[j] \in 0 .. Width(leaves, j) - 1}
<1>5. 0 \in T
  <2>1. d - 0 = d /\ Shifted[d] >= Len(leaves) /\ Shifted[d] \in Nat
    BY <1>1, <1>2, DepthIs, ShiftedIs
  <2>2. Width(leaves, 0) = Shifted[d]
    BY <1>1, <2>1 DEF Width
  <2>3. PICK n, w : n = Len(leaves) /\ w = Width(leaves, 0)
    OBVIOUS
  <2>4. n \in Nat /\ w \in Nat /\ index \in 0 .. n - 1 /\ n <= w
    BY <1>2, <2>1, <2>2, <2>3
  <2>5. index \in 0 .. w - 1
    BY <2>4
  <2>6. QED
    BY <1>4, <2>3, <2>5
<1>6. ASSUME NEW j \in T PROVE j + 1 \in T
  <2>1. CASE j + 1 <= d
    <3>1. j \in Nat /\ j \in 0 .. d - 1 /\ way[j] \in 0 .. Width(leaves, j) - 1 /\ j + 1 \in 0 .. d
      BY <1>2, <2>1
    <3>2. PICK w : w = Width(leaves, j + 1)
      OBVIOUS
    <3>3. Width(leaves, j) = 2 * w /\ w \in Nat
      BY <1>1, <3>1, <3>2, WidthIs
    <3>4. PICK a \in Nat : a = way[j] /\ a <= 2 * w - 1
      BY <1>4, <3>1, <3>3
    <3>5. a \div 2 \in 0 .. w - 1
      BY <3>3, <3>4
    <3>6. way[j + 1] \in 0 .. w - 1
      BY <1>4, <3>1, <3>4, <3>5
    <3>7. QED
      BY <3>1, <3>2, <3>6
  <2>2. QED
    BY <1>6, <2>1
<1>7. T = Nat
  <2> HIDE DEF T
  <2>1. T \subseteq Nat
    BY DEF T
  <2>2. QED
    BY <1>5, <1>6, <2>1, InductiveSet
<1>8. k \in T /\ k <= d
  BY <1>1, <1>2, <1>7
<1>9. QED
  BY <1>3, <1>8

(* The two nodes below a node have indices whose half is its index.        *)
LEMMA OtherNeighbours ==
    ASSUME NEW a \in Nat, NEW i \in Nat, i # a \div 2
    PROVE  2 * i # a /\ 2 * i + 1 # a
OBVIOUS

(* A leaf changes the nodes above it only.                                 *)
LEMMA PutAside ==
    ASSUME NEW leaves, IsList(leaves), NEW index \in 0 .. Len(leaves) - 1, NEW leaf,
           NEW k \in 0 .. Depth(Len(leaves)), NEW j \in 0 .. Width(leaves, k) - 1,
           j # Way(index)[k]
    PROVE  Node(Put(leaves, index, leaf), k, j) = Node(leaves, k, j)
<1>1. PICK d : d = Depth(Len(leaves))
  OBVIOUS
<1>2. PICK other : other = Put(leaves, index, leaf)
  OBVIOUS
<1>3. /\ IsList(other) /\ Len(other) = Len(leaves)
      /\ \A i \in 1 .. Len(leaves) : i # index + 1 => other[i] = leaves[i]
  BY <1>2, PutIs
<1>4. \A l : Width(other, l) = Width(leaves, l)
  BY <1>3 DEF Width
<1>5. PICK way : way = Way(index)
  OBVIOUS
<1>6. index \in Nat /\ Len(leaves) \in Nat /\ d \in Nat
  BY <1>1, ListIs, WidthIs
<1>7. /\ way \in [Nat -> Nat] /\ way[0] = index
      /\ \A l \in Nat : way[l + 1] = way[l] \div 2
  BY <1>5, <1>6, WayIs
<1> DEFINE Same(l) == \A i \in 0 .. Width(leaves, l) - 1 :
                          i # way[l] => Node(other, l, i) = Node(leaves, l, i)
<1> DEFINE T == {l \in Nat : l <= d => Same(l)}
<1>8. 0 \in T
  <2>1. ASSUME NEW i \in 0 .. Width(leaves, 0) - 1, i # way[0]
        PROVE  Node(other, 0, i) = Node(leaves, 0, i)
    <3>1. i \in Nat /\ i # index
      BY <1>1, <1>7, <2>1, WidthIs
    <3>2. Node(other, 0, i) = IF i < Len(leaves) THEN other[i + 1] ELSE Zero
      BY <1>3, <1>4, BottomNode
    <3>3. Node(leaves, 0, i) = IF i < Len(leaves) THEN leaves[i + 1] ELSE Zero
      BY BottomNode
    <3>4. i < Len(leaves) => other[i + 1] = leaves[i + 1]
      BY <1>3, <1>6, <3>1
    <3>5. QED
      BY <3>2, <3>3, <3>4
  <2>2. QED
    BY <2>1
<1>9. ASSUME NEW l \in T PROVE l + 1 \in T
  <2>1. CASE l + 1 <= d
    <3>1. l \in Nat /\ l \in 0 .. d - 1 /\ Same(l)
      BY <1>6, <2>1
    <3>2. ASSUME NEW i \in 0 .. Width(leaves, l + 1) - 1, i # way[l + 1]
          PROVE  Node(other, l + 1, i) = Node(leaves, l + 1, i)
      <4>1. /\ 2 * i \in 0 .. Width(leaves, l) - 1 /\ 2 * i + 1 \in 0 .. Width(leaves, l) - 1
            /\ Node(leaves, l + 1, i) = Keccak(Node(leaves, l, 2 * i), Node(leaves, l, 2 * i + 1))
        BY <1>1, <3>1, InnerNode
      <4>2. Node(other, l + 1, i) = Keccak(Node(other, l, 2 * i), Node(other, l, 2 * i + 1))
        BY <1>1, <1>3, <1>4, <3>1, InnerNode
      <4>3. i \in Nat /\ way[l] \in Nat /\ way[l + 1] = way[l] \div 2
        BY <1>1, <1>7, <3>1, WidthIs
      <4>4. 2 * i # way[l] /\ 2 * i + 1 # way[l]
        <5>1. i # way[l] \div 2
          BY <3>2, <4>3, Zenon
        <5>2. QED
          BY <4>3, <5>1, OtherNeighbours, Zenon
      <4>5. /\ Node(other, l, 2 * i) = Node(leaves, l, 2 * i)
            /\ Node(other, l, 2 * i + 1) = Node(leaves, l, 2 * i + 1)
        BY <3>1, <4>1, <4>4
      <4>6. QED
        BY <4>1, <4>2, <4>5
    <3>3. QED
      BY <3>1, <3>2
  <2>2. QED
    BY <1>9, <2>1
<1>10. T = Nat
  <2> HIDE DEF T
  <2>1. T \subseteq Nat
    BY DEF T
  <2>2. QED
    BY <1>8, <1>9, <2>1, InductiveSet
<1>11. k \in T /\ k <= d
  BY <1>1, <1>6, <1>10
<1>12. QED
  BY <1>2, <1>5, <1>11

LEMMA Siblings ==
    ASSUME NEW a \in Nat
    PROVE  /\ a % 2 = 0 => a = 2 * (a \div 2) /\ Sibling(a) = 2 * (a \div 2) + 1
           /\ a % 2 # 0 => a = 2 * (a \div 2) + 1 /\ Sibling(a) = 2 * (a \div 2)
           /\ Sibling(a) # a
BY DEF Sibling

LEMMA RoundsOfTree ==
    ASSUME NEW leaves, IsList(leaves), NEW k \in 0 .. Depth(Len(leaves)),
           NEW i \in 1 .. Shifted[Depth(Len(leaves)) - k]
    PROVE  Rounds(padLeaves(leaves), Depth(Len(leaves)))[k][i] = Layers(leaves)[k][i]
<1>1. PICK d \in Nat : d = Depth(Len(leaves))
  BY WidthIs
<1>2. PICK layer, start : layer = Layers(leaves) /\ start = padLeaves(leaves)
  OBVIOUS
<1>3. PICK D : /\ \A l, r \in D : Keccak(l, r) \in D
               /\ layer \in [Nat -> Seq(D)]
               /\ layer[0] = start
               /\ \A j \in Nat : layer[j + 1] = HashPairs(layer[j])
  BY <1>2, LayersAre
<1>4. start \in Seq(D) /\ Len(start) = Shifted[d]
  BY <1>1, <1>2, <1>3, PaddedIs
<1>5. LayersFrom(layer, start, D)
  BY <1>3 DEF LayersFrom
<1>6. HoldsLayers(start, d, layer)
  BY <1>4, <1>5, RoundsAre
<1>7. QED
  BY <1>1, <1>2, <1>6 DEF HoldsLayers

LEMMA SiblingInLayer ==
    ASSUME NEW leaves, IsList(leaves), NEW index \in 0 .. Len(leaves) - 1,
           NEW k \in 0 .. Depth(Len(leaves)) - 1
    PROVE  Sibling(Way(index)[k]) \in 0 .. Width(leaves, k) - 1
<1>1. PICK d \in Nat : d = Depth(Len(leaves))
  BY WidthIs
<1>2. index \in Nat /\ Len(leaves) \in Nat /\ index < Len(leaves)
  BY ListIs
<1>3. k \in Nat /\ k \in 0 .. d /\ k + 1 \in Nat /\ k + 1 \in 0 .. d
  BY <1>1
<1>4. PICK a \in Nat, h \in Nat : a = Way(index)[k] /\ h = Way(index)[k + 1] /\ h = a \div 2
  <2>1. PICK way : way = Way(index)
    OBVIOUS
  <2>2. way \in [Nat -> Nat] /\ \A j \in Nat : way[j + 1] = way[j] \div 2
    BY <1>2, <2>1, WayIs
  <2>3. way[k] \in Nat /\ way[k + 1] \in Nat /\ way[k + 1] = way[k] \div 2
    BY <1>3, <2>2
  <2>4. QED
    BY <2>1, <2>3, Zenon
<1>5. PICK w \in Nat : w = Width(leaves, k + 1) /\ Width(leaves, k) = 2 * w
  BY <1>1, <1>3, WidthIs
<1>6. h \in 0 .. w - 1
  BY <1>1, <1>2, <1>3, <1>4, <1>5, WayInLayer
<1>7. Sibling(a) = 2 * h \/ Sibling(a) = 2 * h + 1
  BY <1>4, Siblings
<1>8. Sibling(a) \in 0 .. 2 * w - 1
  BY <1>6, <1>7
<1>9. QED
  BY <1>4, <1>5, <1>8

LEMMA ProofIs ==
    ASSUME NEW leaves, IsList(leaves), NEW index \in 0 .. Len(leaves) - 1
    PROVE  /\ Len(generateMerkleProof(leaves, index)) = Depth(Len(leaves))
           /\ generateMerkleProof(leaves, index) # <<>>
           /\ \A k \in 0 .. Depth(Len(leaves)) - 1 :
                 generateMerkleProof(leaves, index)[k + 1]
                     = Node(leaves, k, Sibling(Way(index)[k]))
<1>1. PICK d \in Nat \ {0} : d = Depth(Len(leaves))
  BY WidthIs
<1>2. PICK p : p = generateMerkleProof(leaves, index)
  OBVIOUS
<1>3. PICK arrays : arrays = Rounds(padLeaves(leaves), d)
  OBVIOUS
<1>4. p = [i \in 1 .. d |-> arrays[i - 1][Sibling(Way(index)[i - 1]) + 1]]
  BY <1>1, <1>2, <1>3, Zenon DEF generateMerkleProof
<1>5. ASSUME NEW k \in 0 .. d - 1
      PROVE  p[k + 1] = Node(leaves, k, Sibling(Way(index)[k]))
  <2>1. k \in Nat /\ k + 1 \in 1 .. d /\ k + 1 - 1 = k /\ k \in 0 .. d
    BY <1>1
  <2>2. PICK place : place = Sibling(Way(index)[k])
    OBVIOUS
  <2>3. p[k + 1] = arrays[k][place + 1]
    BY <1>4, <2>1, <2>2
  <2>4. PICK w \in Nat : w = Width(leaves, k) /\ w = Shifted[d - k]
    BY <1>1, <2>1, WidthIs DEF Width
  <2>5. place \in 0 .. w - 1
    BY <1>1, <2>1, <2>2, <2>4, SiblingInLayer
  <2>6. place + 1 \in 1 .. Shifted[d - k]
    BY <2>4, <2>5
  <2>7. arrays[k][place + 1] = Layers(leaves)[k][place + 1]
    BY <1>1, <1>3, <2>1, <2>6, RoundsOfTree
  <2>8. QED
    BY <2>2, <2>3, <2>7 DEF Node
<1>6. PICK S : S = {p[i] : i \in 1 .. d}
  OBVIOUS
<1>7. p \in [1 .. d -> S] /\ p \in Seq(S)
  <2>1. p \in [1 .. d -> S]
    BY <1>4, <1>6
  <2>2. QED
    BY <2>1, SeqDef
<1>8. PICK m \in Nat : m = Len(p) /\ 1 .. m = 1 .. d
  BY <1>7, LenProperties
<1>9. m = d
  BY <1>8
<1>10. p # <<>>
  BY <1>8, <1>9
<1>11. QED
  BY <1>1, <1>2, <1>5, <1>8, <1>9, <1>10

LEMMA HashesUpToPut ==
    ASSUME NEW leaves, IsList(leaves), NEW index \in 0 .. Len(leaves) - 1, NEW leaf
    PROVE  HashedUp(generateMerkleProof(leaves, index), leaf, index)[Depth(Len(leaves))]
               = merkleizeKeccak(Put(leaves, index, leaf))
<1>1. PICK d : d = Depth(Len(leaves))
  OBVIOUS
<1>2. PICK other : other = Put(leaves, index, leaf)
  OBVIOUS
<1>3. IsList(other) /\ Len(other) = Len(leaves) /\ other[index + 1] = leaf
  BY <1>2, PutIs
<1>4. \A l : Width(other, l) = Width(leaves, l)
  BY <1>3 DEF Width
<1>5. index \in Nat /\ Len(leaves) \in Nat /\ d \in Nat /\ index < Len(leaves)
  BY <1>1, ListIs, WidthIs
<1>6. PICK way : way = Way(index)
  OBVIOUS
<1>7. /\ way \in [Nat -> Nat] /\ way[0] = index
      /\ \A l \in Nat : way[l + 1] = way[l] \div 2
      /\ \A l \in 0 .. d : way[l] \in 0 .. Width(leaves, l) - 1
  BY <1>1, <1>5, <1>6, WayIs, WayInLayer
<1>8. PICK p : p = generateMerkleProof(leaves, index)
  OBVIOUS
<1>9. PICK hash : hash = HashedUp(p, leaf, index)
  OBVIOUS
<1>10. /\ hash[0] = leaf
       /\ \A k \in Nat : hash[k + 1] = IF way[k] % 2 = 0 THEN Keccak(hash[k], p[k + 1])
                                                        ELSE Keccak(p[k + 1], hash[k])
  <2>1. /\ HashedUp(p, leaf, index)[0] = leaf
        /\ \A k \in Nat :
              HashedUp(p, leaf, index)[k + 1] =
                  IF Way(index)[k] % 2 = 0
                  THEN Keccak(HashedUp(p, leaf, index)[k], p[k + 1])
                  ELSE Keccak(p[k + 1], HashedUp(p, leaf, index)[k])
    BY <1>5, HashedUpIs
  <2>2. QED
    BY <1>6, <1>9, <2>1, Zenon
<1> DEFINE T == {l \in Nat : l <= d => hash[l] = Node(other, l, way[l])}
<1>11. 0 \in T
  <2>1. way[0] \in 0 .. Width(other, 0) - 1
    BY <1>4, <1>5, <1>7
  <2>2. Node(other, 0, way[0]) = other[index + 1]
    BY <1>3, <1>5, <1>7, <2>1, BottomNode
  <2>3. QED
    BY <1>3, <1>10, <2>2
<1>12. ASSUME NEW l \in T PROVE l + 1 \in T
  <2>1. CASE l + 1 <= d
    <3>1. l \in Nat /\ l \in 0 .. d - 1 /\ l \in 0 .. d /\ l + 1 \in 0 .. d
          /\ hash[l] = Node(other, l, way[l])
      BY <1>5, <2>1
    <3>2. PICK a \in Nat, h \in Nat : a = way[l] /\ h = way[l + 1] /\ h = a \div 2
      <4>1. l + 1 \in Nat
        BY <3>1
      <4>2. way[l] \in Nat /\ way[l + 1] \in Nat /\ way[l + 1] = way[l] \div 2
        BY <1>7, <3>1, <4>1, Zenon
      <4>3. QED
        BY <4>2, Zenon
    <3>3. h \in 0 .. Width(leaves, l + 1) - 1
      BY <1>7, <3>1, <3>2
    <3>4. /\ 2 * h \in 0 .. Width(leaves, l) - 1 /\ 2 * h + 1 \in 0 .. Width(leaves, l) - 1
          /\ Node(other, l + 1, h) = Keccak(Node(other, l, 2 * h), Node(other, l, 2 * h + 1))
      BY <1>1, <1>3, <1>4, <3>1, <3>3, InnerNode
    <3>5. Sibling(a) \in 0 .. Width(leaves, l) - 1 /\ Sibling(a) # a
      BY <3>2, <3>4, Siblings
    <3>6. p[l + 1] = Node(other, l, Sibling(a))
      <4>1. p[l + 1] = Node(leaves, l, Sibling(a))
        BY <1>1, <1>6, <1>8, <3>1, <3>2, ProofIs
      <4>2. Node(other, l, Sibling(a)) = Node(leaves, l, Sibling(a))
        BY <1>1, <1>2, <1>6, <3>1, <3>2, <3>5, PutAside
      <4>3. QED
        BY <4>1, <4>2
    <3>7. hash[l + 1] = IF a % 2 = 0 THEN Keccak(Node(other, l, a), p[l + 1])
                                     ELSE Keccak(p[l + 1], Node(other, l, a))
      BY <1>10, <3>1, <3>2
    <3>8. hash[l + 1] = Node(other, l + 1, h)
      <4>1. CASE a % 2 = 0
        <5>1. a = 2 * h /\ Sibling(a) = 2 * h + 1
          BY <3>2, <4>1, Siblings
        <5>2. hash[l + 1] = Keccak(Node(other, l, a), Node(other, l, Sibling(a)))
          BY <3>6, <3>7, <4>1, Zenon
        <5>3. QED
          BY <3>4, <5>1, <5>2, Zenon
      <4>2. CASE a % 2 # 0
        <5>1. a = 2 * h + 1 /\ Sibling(a) = 2 * h
          BY <3>2, <4>2, Siblings
        <5>2. hash[l + 1] = Keccak(Node(other, l, Sibling(a)), Node(other, l, a))
          BY <3>6, <3>7, <4>2, Zenon
        <5>3. QED
          BY <3>4, <5>1, <5>2, Zenon
      <4>3. QED
        BY <4>1, <4>2
    <3>9. hash[l + 1] = Node(other, l + 1, way[l + 1])
      BY <3>2, <3>8, Zenon
    <3>10. QED
      BY <3>1, <3>9
  <2>2. QED
    BY <1>12, <2>1
<1>13. T = Nat
  <2> HIDE DEF T
  <2>1. T \subseteq Nat
    BY DEF T
  <2>2. QED
    BY <1>11, <1>12, <2>1, InductiveSet
<1>14. hash[d] = Node(other, d, way[d])
  BY <1>5, <1>13
<1>15. way[d] = 0
  <2>1. PICK w : w = Width(leaves, d)
    OBVIOUS
  <2>2. w = 1 /\ d \in 0 .. d
    BY <1>1, <1>5, <2>1, WidthIs
  <2>3. way[d] \in 0 .. w - 1
    BY <1>7, <2>1, <2>2
  <2>4. QED
    BY <2>2, <2>3
<1>16. QED
  BY <1>1, <1>2, <1>3, <1>8, <1>9, <1>14, <1>15, RootNode

----------------------------------------------------------------------------
(* Two arrays of leaves with one root are the same array.                  *)
Leafy(s) == IsList(s) /\ \A i \in 1 .. Len(s) : s[i].kind \notin {"zero", "node"}

LEMMA KeccakIs ==
    /\ \A l, r : Keccak(l, r).kind = "node"
    /\ \A l, r, m, s : Keccak(l, r) = Keccak(m, s) => l = m /\ r = s
    /\ Zero.kind = "zero"
<1>1. \A l, r : Keccak(l, r).left = l /\ Keccak(l, r).right = r /\ Keccak(l, r).kind = "node"
  BY DEF Keccak
<1>2. \A l, r, m, s : Keccak(l, r) = Keccak(m, s) => l = m /\ r = s
  BY <1>1
<1>3. QED
  BY <1>1, <1>2 DEF Zero

LEMMA BottomKind ==
    ASSUME NEW s, Leafy(s), NEW i \in 0 .. Width(s, 0) - 1
    PROVE  /\ Node(s, 0, i).kind # "node"
           /\ i < Len(s) <=> Node(s, 0, i).kind # "zero"
<1>1. i \in Nat /\ Len(s) \in Nat
  BY WidthIs, ListIs DEF Leafy
<1>2. Node(s, 0, i) = IF i < Len(s) THEN s[i + 1] ELSE Zero
  BY BottomNode DEF Leafy
<1>3. CASE i < Len(s)
  <2>1. s[i + 1].kind \notin {"zero", "node"}
    BY <1>1, <1>3 DEF Leafy
  <2>2. QED
    BY <1>2, <1>3, <2>1
<1>4. QED
  BY <1>1, <1>2, <1>3, KeccakIs

LEMMA DeeperDiffers ==
    ASSUME NEW s, Leafy(s), NEW t, Leafy(t), Depth(Len(s)) < Depth(Len(t))
    PROVE  merkleizeKeccak(s) # merkleizeKeccak(t)
<1> SUFFICES ASSUME merkleizeKeccak(s) = merkleizeKeccak(t) PROVE FALSE
  OBVIOUS
<1>1. PICK c, d : c = Depth(Len(s)) /\ d = Depth(Len(t))
  OBVIOUS
<1>2. c \in Nat \ {0} /\ d \in Nat \ {0} /\ c < d /\ IsList(s) /\ IsList(t)
  BY <1>1, WidthIs DEF Leafy
<1>3. ASSUME NEW u, IsList(u), NEW k \in 0 .. Depth(Len(u)) - 1
      PROVE  Node(u, k + 1, 0) = Keccak(Node(u, k, 0), Node(u, k, 1))
  <2>1. PICK w : w = Width(u, k + 1)
    OBVIOUS
  <2>2. k + 1 \in 0 .. Depth(Len(u))
    BY <1>3, WidthIs
  <2>3. w \in Nat \ {0}
    BY <1>3, <2>1, <2>2, WidthIs
  <2>4. 0 \in 0 .. w - 1 /\ 2 * 0 = 0 /\ 2 * 0 + 1 = 1
    BY <2>3
  <2>5. Node(u, k + 1, 0) = Keccak(Node(u, k, 2 * 0), Node(u, k, 2 * 0 + 1))
    BY <1>3, <2>1, <2>4, InnerNode
  <2>6. QED
    BY <2>4, <2>5
<1> DEFINE T == {j \in Nat : j <= c => Node(s, c - j, 0) = Node(t, d - j, 0)}
<1>4. 0 \in T
  <2>1. c - 0 = c /\ d - 0 = d
    BY <1>2
  <2>2. QED
    BY <1>1, <1>2, <2>1, RootNode
<1>5. ASSUME NEW j \in T PROVE j + 1 \in T
  <2>1. CASE j + 1 <= c
    <3>1. PICK a, b : a = c - (j + 1) /\ b = d - (j + 1)
      OBVIOUS
    <3>2. /\ a \in 0 .. c - 1 /\ b \in 0 .. d - 1
          /\ a + 1 = c - j /\ b + 1 = d - j /\ j \in Nat /\ j <= c
      BY <1>2, <1>5, <2>1, <3>1
    <3>3. Node(s, a + 1, 0) = Node(t, b + 1, 0)
      BY <1>5, <3>2
    <3>4. /\ Node(s, a + 1, 0) = Keccak(Node(s, a, 0), Node(s, a, 1))
          /\ Node(t, b + 1, 0) = Keccak(Node(t, b, 0), Node(t, b, 1))
      BY <1>1, <1>2, <1>3, <3>2
    <3>5. Node(s, a, 0) = Node(t, b, 0)
      BY <3>3, <3>4, KeccakIs
    <3>6. QED
      BY <3>1, <3>2, <3>5
  <2>2. QED
    BY <1>5, <2>1
<1>6. T = Nat
  <2> HIDE DEF T
  <2>1. T \subseteq Nat
    BY DEF T
  <2>2. QED
    BY <1>4, <1>5, <2>1, InductiveSet
<1>7. PICK b : b = d - c - 1
  OBVIOUS
<1>8. b \in 0 .. d - 1 /\ b + 1 = d - c /\ c - c = 0
  BY <1>2, <1>7
<1>9. Node(s, 0, 0) = Node(t, b + 1, 0)
  <2>1. c \in T /\ c <= c
    <3> HIDE DEF T
    <3>1. c \in Nat /\ c <= c
      BY <1>2
    <3>2. QED
      BY <1>6, <3>1
  <2>2. Node(s, c - c, 0) = Node(t, d - c, 0)
    BY <2>1
  <2>3. QED
    BY <1>8, <2>2
<1>10. Node(t, b + 1, 0).kind = "node"
  BY <1>1, <1>2, <1>3, <1>8, KeccakIs
<1>11. Node(s, 0, 0).kind # "node"
  <2>1. PICK w : w = Width(s, 0)
    OBVIOUS
  <2>2. w \in Nat \ {0}
    BY <1>1, <1>2, <2>1, WidthIs
  <2>3. 0 \in 0 .. w - 1
    BY <2>2
  <2>4. QED
    BY <2>1, <2>3, BottomKind
<1>12. QED
  BY <1>9, <1>10, <1>11

LEMMA SameNodes ==
    ASSUME NEW s, IsList(s), NEW t, IsList(t), Depth(Len(s)) = Depth(Len(t)),
           merkleizeKeccak(s) = merkleizeKeccak(t), NEW i \in 0 .. Width(s, 0) - 1
    PROVE  Node(s, 0, i) = Node(t, 0, i)
<1>1. PICK d : d = Depth(Len(s))
  OBVIOUS
<1>2. d \in Nat /\ d = Depth(Len(t))
  BY <1>1, WidthIs
<1>3. \A k : Width(t, k) = Width(s, k)
  BY DEF Width
<1> DEFINE Same(k) == \A j \in 0 .. Width(s, k) - 1 : Node(s, k, j) = Node(t, k, j)
<1> DEFINE T == {j \in Nat : j <= d => Same(d - j)}
<1>4. 0 \in T
  <2>1. d - 0 = d /\ Width(s, d) = 1
    BY <1>1, <1>2, WidthIs
  <2>2. 0 .. 1 - 1 = {0}
    OBVIOUS
  <2>3. Node(s, d, 0) = Node(t, d, 0)
    BY <1>1, <1>2, RootNode
  <2>4. QED
    BY <2>1, <2>2, <2>3
<1>5. ASSUME NEW j \in T PROVE j + 1 \in T
  <2>1. CASE j + 1 <= d
    <3>1. PICK k : k = d - (j + 1)
      OBVIOUS
    <3>2. /\ k \in 0 .. d - 1 /\ k + 1 = d - j /\ j \in Nat /\ j <= d
          /\ k \in 0 .. d /\ k + 1 \in 0 .. d
      BY <1>2, <1>5, <2>1, <3>1
    <3>3. Same(k + 1)
      BY <1>5, <3>2
    <3>4. ASSUME NEW m \in 0 .. Width(s, k) - 1 PROVE Node(s, k, m) = Node(t, k, m)
      <4>1. PICK w, h : w = Width(s, k + 1) /\ h = m \div 2
        OBVIOUS
      <4>2. w \in Nat /\ Width(s, k) = 2 * w
        BY <1>1, <3>2, <4>1, WidthIs
      <4>3. m \in 0 .. 2 * w - 1
        BY <4>2
      <4>4. h \in 0 .. w - 1 /\ (m = 2 * h \/ m = 2 * h + 1)
        BY <4>1, <4>2, <4>3
      <4>5. Node(s, k + 1, h) = Node(t, k + 1, h)
        BY <3>3, <4>1, <4>4
      <4>6. /\ Node(s, k + 1, h) = Keccak(Node(s, k, 2 * h), Node(s, k, 2 * h + 1))
            /\ Node(t, k + 1, h) = Keccak(Node(t, k, 2 * h), Node(t, k, 2 * h + 1))
        BY <1>1, <1>2, <1>3, <3>2, <4>1, <4>4, InnerNode
      <4>7. Node(s, k, 2 * h) = Node(t, k, 2 * h) /\ Node(s, k, 2 * h + 1) = Node(t, k, 2 * h + 1)
        BY <4>5, <4>6, KeccakIs
      <4>8. QED
        BY <4>4, <4>7
    <3>5. QED
      BY <3>1, <3>2, <3>4
  <2>2. QED
    BY <1>5, <2>1
<1>6. T = Nat
  <2> HIDE DEF T
  <2>1. T \subseteq Nat
    BY DEF T
  <2>2. QED
    BY <1>4, <1>5, <2>1, InductiveSet
<1>7. Same(0)
  <2>1. d - d = 0 /\ d \in T
    BY <1>2, <1>6
  <2>2. QED
    BY <1>2, <2>1
<1>8. QED
  BY <1>7

LEMMA NoLonger ==
    ASSUME NEW s, Leafy(s), NEW t, Leafy(t), Depth(Len(s)) = Depth(Len(t)),
           merkleizeKeccak(s) = merkleizeKeccak(t), NEW i \in 0 .. Len(s) - 1
    PROVE  i < Len(t) /\ s[i + 1] = t[i + 1]
<1>1. IsList(s) /\ IsList(t)
  BY DEF Leafy
<1>2. Width(t, 0) = Width(s, 0)
  BY DEF Width
<1>3. PICK n, w : n = Len(s) /\ w = Width(s, 0)
  OBVIOUS
<1>4. n \in Nat /\ w \in Nat /\ n <= w /\ Len(t) \in Nat
  <2>1. n \in Nat /\ Len(t) \in Nat
    BY <1>1, <1>3, ListIs
  <2>2. Depth(n) \in Nat /\ Shifted[Depth(n)] >= n
    BY <2>1, DepthIs
  <2>3. PICK d \in Nat : d = Depth(n)
    BY <2>2
  <2>4. d - 0 = d /\ Shifted[d] \in Nat
    BY <2>3, ShiftedIs
  <2>5. w = Shifted[d]
    BY <1>3, <2>3, <2>4 DEF Width
  <2>6. QED
    BY <2>1, <2>2, <2>3, <2>4, <2>5
<1>5. i \in Nat /\ i < n /\ i \in 0 .. w - 1
  BY <1>3, <1>4
<1>6. Node(s, 0, i) = Node(t, 0, i)
  BY <1>1, <1>3, <1>5, SameNodes
<1>7. Node(s, 0, i).kind # "zero"
  BY <1>3, <1>5, BottomKind
<1>8. i < Len(t)
  BY <1>2, <1>3, <1>5, <1>6, <1>7, BottomKind
<1>9. Node(s, 0, i) = s[i + 1] /\ Node(t, 0, i) = t[i + 1]
  BY <1>1, <1>2, <1>3, <1>5, <1>8, BottomNode
<1>10. QED
  BY <1>6, <1>8, <1>9

LEMMA RootTellsLeaves ==
    ASSUME NEW s, Leafy(s), NEW t, Leafy(t), merkleizeKeccak(s) = merkleizeKeccak(t)
    PROVE  s = t
<1>1. PICK m \in Nat, n \in Nat : m = Len(s) /\ n = Len(t)
  BY ListIs DEF Leafy
<1>2. Depth(m) \in Nat /\ Depth(n) \in Nat
  BY DepthIs
<1>3. ~(Depth(m) < Depth(n)) /\ ~(Depth(n) < Depth(m))
  BY <1>1, DeeperDiffers
<1>4. Depth(Len(s)) = Depth(Len(t))
  BY <1>1, <1>2, <1>3
<1>5. \A i \in 0 .. m - 1 : i < n /\ s[i + 1] = t[i + 1]
  BY <1>1, <1>4, NoLonger
<1>6. \A i \in 0 .. n - 1 : i < m
  BY <1>1, <1>4, NoLonger
<1>7. m = n
  <2>1. CASE m < n
    <3>1. m \in 0 .. n - 1
      BY <2>1
    <3>2. QED
      BY <1>6, <3>1
  <2>2. CASE n < m
    <3>1. n \in 0 .. m - 1
      BY <2>2
    <3>2. QED
      BY <1>5, <3>1
  <2>3. QED
    BY <2>1, <2>2
<1>8. ASSUME NEW i \in 1 .. m PROVE s[i] = t[i]
  <2>1. i - 1 \in 0 .. m - 1 /\ i - 1 + 1 = i
    OBVIOUS
  <2>2. QED
    BY <1>5, <2>1
<1>9. s = [i \in 1 .. m |-> s[i]] /\ t = [i \in 1 .. m |-> t[i]]
  BY <1>1, <1>7, ListIs DEF Leafy
<1>10. QED
  BY <1>8, <1>9

(* A proof that generateMerkleProof makes of an index verifies for a leaf  *)
(* against the root of the tree that has this leaf there, and no other.    *)
LEMMA VerifiesWhatWasPut ==
    ASSUME NEW leaves, IsList(leaves), NEW index \in 0 .. Len(leaves) - 1, NEW leaf, NEW root
    PROVE  verifyInclusionKeccak(generateMerkleProof(leaves, index), root, leaf, index)
               <=> merkleizeKeccak(Put(leaves, index, leaf)) = root
<1>1. PICK d, n, p : /\ d = Depth(Len(leaves)) /\ n = Len(leaves)
                     /\ p = generateMerkleProof(leaves, index)
  OBVIOUS
<1>2. p # <<>> /\ Len(p) = d
  BY <1>1, ProofIs
<1>3. n \in Nat /\ index \in 0 .. n - 1 /\ Shifted[d] >= n /\ Shifted[d] \in Nat
  BY <1>1, ListIs, DepthIs, ShiftedIs
<1>4. index < Shifted[Len(p)]
  BY <1>2, <1>3
<1>5. HashedUp(p, leaf, index)[Len(p)] = merkleizeKeccak(Put(leaves, index, leaf))
  BY <1>1, <1>2, HashesUpToPut
<1>6. QED
  BY <1>1, <1>2, <1>4, <1>5 DEF verifyInclusionKeccak
----------------------------------------------------------------------------
(* The arrays of leaves.                                                   *)
Leaves == {Leaf(name) : name \in LeafNames}

LEMMA ArrayIsLeafy == ASSUME NEW s, s \in Seq(Leaves) PROVE Leafy(s)
<1>1. \A i \in 1 .. Len(s) : s[i] \in Leaves
  BY ElementOfSeq
<1>2. \A leaf \in Leaves : leaf.kind \notin {"zero", "node"}
  BY DEF Leaves, Leaf
<1>3. IsList(s)
  BY DEF IsList
<1>4. QED
  BY <1>1, <1>2, <1>3 DEF Leafy

ArrayOK == array \in Seq(Leaves)

LEMMA ArrayInvariant == ArraySpec => []ArrayOK
<1>1. array = <<>> => ArrayOK
  BY EmptySeq DEF ArrayOK
<1>2. ArrayOK /\ [Grow]_array => ArrayOK'
  <2>1. ASSUME ArrayOK, Grow PROVE ArrayOK'
    <3>1. PICK name \in LeafNames : array' = Append(array, Leaf(name))
      BY <2>1 DEF Grow
    <3>2. Leaf(name) \in Leaves
      BY <3>1 DEF Leaves
    <3>3. QED
      BY <2>1, <3>1, <3>2, AppendProperties DEF ArrayOK
  <2>2. ASSUME ArrayOK, UNCHANGED array PROVE ArrayOK'
    BY <2>2 DEF ArrayOK
  <2>3. QED
    BY <2>1, <2>2
<1>3. QED
  BY <1>1, <1>2, PTL DEF ArraySpec

(* The proof of a leaf verifies at its index against the root, and for no  *)
(* other leaf, whatever the length of the array and the leaves in it.      *)
THEOREM ProofsFit == ArraySpec => []ProofsVerify
<1>1. ArrayOK => ProofsVerify
  <2> SUFFICES ASSUME array \in Seq(Leaves), NEW i \in 0 .. Len(array) - 1, NEW leaf \in Leaves
               PROVE  verifyInclusionKeccak(generateMerkleProof(array, i),
                                            merkleizeKeccak(array), leaf, i)
                        <=> leaf = array[i + 1]
    BY DEF ProofsVerify, Leaves, ArrayOK
  <2>1. PICK other : other = Put(array, i, leaf)
    OBVIOUS
  <2>2. Leafy(array) /\ IsList(array)
    BY ArrayIsLeafy DEF Leafy
  <2>3. i + 1 \in 1 .. Len(array) /\ Len(array) \in Nat
    BY <2>2, ListIs
  <2>4. other = [array EXCEPT ![i + 1] = leaf]
    BY <2>1 DEF Put
  <2>5. other \in Seq(Leaves) /\ other[i + 1] = leaf
    BY <2>3, <2>4, ExceptSeq
  <2>6. Leafy(other)
    BY <2>5, ArrayIsLeafy
  <2>7. merkleizeKeccak(other) = merkleizeKeccak(array) <=> other = array
    BY <2>2, <2>6, RootTellsLeaves
  <2>8. other = array <=> leaf = array[i + 1]
    <3>1. array = [k \in 1 .. Len(array) |-> array[k]]
      BY <2>2, ListIs
    <3>2. QED
      BY <2>3, <2>4, <2>5, <3>1
  <2>9. QED
    BY <2>1, <2>2, <2>7, <2>8, VerifiesWhatWasPut
<1>2. QED
  BY <1>1, ArrayInvariant, PTL

(* A prefix of an array has another root than the array.                   *)
THEOREM RootTellsLength == ArraySpec => []RootTellsHowManyLeaves
<1>1. ArrayOK => RootTellsHowManyLeaves
  <2> SUFFICES ASSUME array \in Seq(Leaves), NEW n \in 0 .. Len(array) - 1
               PROVE  merkleizeKeccak(SubSeq(array, 1, n)) # merkleizeKeccak(array)
    BY DEF RootTellsHowManyLeaves, ArrayOK
  <2>1. PICK m \in Nat : m = Len(array)
    BY LenProperties
  <2>2. PICK s : s = SubSeq(array, 1, n)
    OBVIOUS
  <2>3. n \in Nat /\ n < m
    BY <2>1
  <2>4. s \in Seq(Leaves) /\ Len(s) = n
    <3>1. \A k \in 1 .. n : array[k] \in Leaves
      BY <2>1, <2>3, ElementOfSeq
    <3>2. s = [k \in 1 .. n |-> array[k]]
      BY <2>2, <2>3
    <3>3. s \in [1 .. n -> Leaves]
      BY <3>1, <3>2
    <3>4. s \in Seq(Leaves)
      BY <2>3, <3>3, SeqDef
    <3>5. PICK k \in Nat : k = Len(s) /\ 1 .. k = 1 .. n
      BY <3>3, <3>4, LenProperties
    <3>6. QED
      BY <2>3, <3>4, <3>5
  <2>5. s # array
    BY <2>1, <2>3, <2>4
  <2>6. QED
    BY <2>2, <2>4, <2>5, ArrayIsLeafy, RootTellsLeaves
<1>2. QED
  BY <1>1, ArrayInvariant, PTL

----------------------------------------------------------------------------
(* What is left of a plan: the calls of a run from one of them on.         *)
UpdaterLike(call) == call.kind = "updater" /\ call.updater \in Accounts
FundLike(call) == call.kind = "fund" /\ call.count \in Nat /\ call.amount \in Nat
RootLike(call) ==
    call.kind = "root" /\ Leafy(call.leaves) /\ call.root = merkleizeKeccak(call.leaves)
ClaimLike(call) ==
    /\ call.kind = "claim"
    /\ call.rootIndex = 0
    /\ call.leaf.kind = "earnerLeaf"
    /\ call.tokenLeaf = TokenLeaf(DefaultEarnings)
    /\ \E leaves : /\ Leafy(leaves) /\ call.index \in 0 .. Len(leaves) - 1
                   /\ call.proof = generateMerkleProof(leaves, call.index)
    /\ \E earner, amount, earned :
          /\ call.leaf = EarnerLeaf(earner, amount)
          /\ call.tokenProof = generateMerkleProof(<<TokenLeaf(earned)>>, 0)

WholePlan(p) == \E updater, fund, root, claim :
    /\ UpdaterLike(updater) /\ FundLike(fund) /\ RootLike(root) /\ ClaimLike(claim)
    /\ p = <<updater, fund, root, claim>>
FundPlan(p) == \E fund, root, claim :
    FundLike(fund) /\ RootLike(root) /\ ClaimLike(claim) /\ p = <<fund, root, claim>>
RootPlan(p) == \E root, claim : RootLike(root) /\ ClaimLike(claim) /\ p = <<root, claim>>
ClaimPlan(p) == \E claim : ClaimLike(claim) /\ p = <<claim>>

PlanInOrder(p) == p = <<>> \/ WholePlan(p) \/ FundPlan(p) \/ RootPlan(p) \/ ClaimPlan(p)

(* The roots are those of the trees, and nobody has claimed anything but   *)
(* the 100 of a claim.                                                     *)
RootsOf(roots, trees) ==
    /\ IsList(roots) /\ IsList(trees) /\ Len(roots) = Len(trees)
    /\ \A k \in 1 .. Len(trees) : Leafy(trees[k]) /\ roots[k] = merkleizeKeccak(trees[k])

CoordOK(c) ==
    /\ c = [there |-> c.there, owner |-> c.owner, updater |-> c.updater, funded |-> c.funded,
            roots |-> c.roots, end |-> c.end, claimed |-> c.claimed, trees |-> c.trees]
    /\ c.there \in BOOLEAN /\ c.owner \in Accounts /\ c.updater \in Accounts
    /\ c.funded \in Nat /\ c.claimed \in [Earners -> {0, DefaultEarnings}]
    /\ RootsOf(c.roots, c.trees)

(* Each file written by hand is still there, or planned to be paid, or     *)
(* paid: it is in one of the three places only.                            *)
FileOK ==
    \/ file = NoFile
    \/ file \in Infos
    \/ file.kind = "leaves" /\ \A k \in DOMAIN file.leaves : file.leaves[k].kind = "earnerLeaf"

Unpaid == IF file.kind = "info" THEN 1 ELSE 0
Planned == IF Len(plan) > 1 THEN 1 ELSE 0

PaymentsInv ==
    /\ TypeOK
    /\ PlanInOrder(plan)
    /\ CoordOK(coord)
    /\ Len(coord.roots) + Planned + Unpaid <= rounds

----------------------------------------------------------------------------
LEMMA ListLength == ASSUME NEW s, IsList(s) PROVE Len(s) \in Nat
BY LenProperties DEF IsList

LEMMA ListAppended ==
    ASSUME NEW s, IsList(s), NEW x
    PROVE  /\ IsList(Append(s, x)) /\ Len(Append(s, x)) = Len(s) + 1
           /\ \A k \in 1 .. Len(s) : Append(s, x)[k] = s[k]
           /\ Append(s, x)[Len(s) + 1] = x
<1>1. PICK S : s \in Seq(S)
  BY DEF IsList
<1>2. s \in Seq(S \cup {x}) /\ x \in S \cup {x}
  BY <1>1
<1>3. /\ Append(s, x) \in Seq(S \cup {x}) /\ Len(Append(s, x)) = Len(s) + 1
      /\ \A k \in 1 .. Len(s) : Append(s, x)[k] = s[k]
      /\ Append(s, x)[Len(s) + 1] = x
  BY <1>2, AppendProperties
<1>4. QED
  BY <1>3 DEF IsList

LEMMA RootAppended ==
    ASSUME NEW roots, NEW trees, RootsOf(roots, trees), NEW tree, Leafy(tree)
    PROVE  RootsOf(Append(roots, merkleizeKeccak(tree)), Append(trees, tree))
<1>1. PICK r, t : r = Append(roots, merkleizeKeccak(tree)) /\ t = Append(trees, tree)
  OBVIOUS
<1>2. PICK n \in Nat : n = Len(trees) /\ n = Len(roots)
  BY ListLength DEF RootsOf
<1>3. /\ IsList(r) /\ Len(r) = n + 1 /\ r[n + 1] = merkleizeKeccak(tree)
      /\ \A k \in 1 .. n : r[k] = roots[k]
  BY <1>1, <1>2, ListAppended DEF RootsOf
<1>4. /\ IsList(t) /\ Len(t) = n + 1 /\ t[n + 1] = tree
      /\ \A k \in 1 .. n : t[k] = trees[k]
  BY <1>1, <1>2, ListAppended DEF RootsOf
<1>5. \A k \in 1 .. n : Leafy(trees[k]) /\ roots[k] = merkleizeKeccak(trees[k])
  BY <1>2 DEF RootsOf
<1>6. ASSUME NEW k \in 1 .. n + 1 PROVE Leafy(t[k]) /\ r[k] = merkleizeKeccak(t[k])
  <2>1. k \in 1 .. n \/ k = n + 1
    BY <1>2
  <2>2. QED
    BY <1>3, <1>4, <1>5, <2>1
<1>7. QED
  BY <1>1, <1>3, <1>4, <1>6 DEF RootsOf

LEMMA PlanLengths ==
    ASSUME NEW p
    PROVE  /\ WholePlan(p) => Len(p) = 4
           /\ FundPlan(p) => Len(p) = 3
           /\ RootPlan(p) => Len(p) = 2
           /\ ClaimPlan(p) => Len(p) = 1
           /\ PlanInOrder(p) => Len(p) \in 0 .. 4
BY DEF WholePlan, FundPlan, RootPlan, ClaimPlan, PlanInOrder

(* What a broadcast leaves of a plan.                                      *)
LEMMA PlanTails ==
    ASSUME NEW p
    PROVE  /\ WholePlan(p) => UpdaterLike(Head(p)) /\ FundPlan(Tail(p))
           /\ FundPlan(p) => FundLike(Head(p)) /\ RootPlan(Tail(p))
           /\ RootPlan(p) => RootLike(Head(p)) /\ ClaimPlan(Tail(p))
           /\ ClaimPlan(p) => ClaimLike(Head(p)) /\ Tail(p) = <<>>
<1>1. ASSUME FundPlan(p) PROVE FundLike(Head(p)) /\ RootPlan(Tail(p))
  <2>1. PICK fund, root, claim : /\ FundLike(fund) /\ RootLike(root) /\ ClaimLike(claim)
                                 /\ p = <<fund, root, claim>>
    BY <1>1 DEF FundPlan
  <2>2. Head(p) = fund /\ Tail(p) = <<root, claim>>
    BY <2>1
  <2>3. QED
    BY <2>1, <2>2 DEF RootPlan
<1>2. ASSUME RootPlan(p) PROVE RootLike(Head(p)) /\ ClaimPlan(Tail(p))
  <2>1. PICK root, claim : RootLike(root) /\ ClaimLike(claim) /\ p = <<root, claim>>
    BY <1>2 DEF RootPlan
  <2>2. Head(p) = root /\ Tail(p) = <<claim>>
    BY <2>1
  <2>3. QED
    BY <2>1, <2>2 DEF ClaimPlan
<1>3. ASSUME ClaimPlan(p) PROVE ClaimLike(Head(p)) /\ Tail(p) = <<>>
  <2>1. PICK claim : ClaimLike(claim) /\ p = <<claim>>
    BY <1>3 DEF ClaimPlan
  <2>2. Head(p) = claim /\ Tail(p) = <<>>
    BY <2>1
  <2>3. QED
    BY <2>1, <2>2
<1>4. ASSUME WholePlan(p) PROVE UpdaterLike(Head(p)) /\ FundPlan(Tail(p))
  <2>1. PICK updater, fund, root, claim :
            /\ UpdaterLike(updater) /\ FundLike(fund) /\ RootLike(root) /\ ClaimLike(claim)
            /\ p = <<updater, fund, root, claim>>
    BY <1>4 DEF WholePlan
  <2>2. Head(p) = updater /\ Tail(p) = <<fund, root, claim>>
    BY <2>1
  <2>3. QED
    BY <2>1, <2>2 DEF FundPlan
<1>5. QED
  BY <1>1, <1>2, <1>3, <1>4

LEMMA InfoFields ==
    ASSUME NEW kinds, NEW earners, NEW counts, NEW amounts, NEW roots, NEW indices, NEW ends,
           NEW info \in [kind: kinds, earners: earners, numPayments: counts,
                         amountPerPayment: amounts, rootAmount: roots,
                         indexToProve: indices, endTimestamp: ends]
    PROVE  /\ info.numPayments \in counts /\ info.amountPerPayment \in amounts
           /\ info.earners \in earners /\ info.indexToProve \in indices
           /\ info.rootAmount \in roots
OBVIOUS

LEMMA EarnerLeavesAre ==
    ASSUME NEW info \in Infos
    PROVE  /\ Leafy(EarnerLeaves(info)) /\ Len(EarnerLeaves(info)) = Len(info.earners)
           /\ info.indexToProve \in Nat /\ Len(info.earners) \in Nat
           /\ \A i \in 1 .. Len(info.earners) :
                 EarnerLeaves(info)[i] = EarnerLeaf(info.earners[i], Earnings(info))
<1>1. PICK n \in 0 .. MaxEarners : info.earners \in [1 .. n -> Earners]
  <2>1. info.earners \in UNION {[1 .. n -> Earners] : n \in 0 .. MaxEarners}
    BY InfoFields, Zenon DEF Infos
  <2>2. QED
    BY <2>1
<1>2. n \in Nat
  BY <1>1
<1>3. Len(info.earners) = n
  <2>1. info.earners \in Seq(Earners)
    BY <1>1, <1>2, SeqDef
  <2>2. PICK m \in Nat : m = Len(info.earners) /\ 1 .. m = 1 .. n
    BY <1>1, <2>1, LenProperties
  <2>3. QED
    BY <1>2, <2>2
<1>4. PICK leaves : leaves = EarnerLeaves(info)
  OBVIOUS
<1>5. leaves = [i \in 1 .. n |-> EarnerLeaf(info.earners[i], Earnings(info))]
  BY <1>3, <1>4 DEF EarnerLeaves
<1>6. PICK S : S = {leaves[i] : i \in 1 .. n}
  OBVIOUS
<1>7. leaves \in [1 .. n -> S]
  BY <1>5, <1>6
<1>8. leaves \in Seq(S)
  BY <1>2, <1>7, SeqDef
<1>9. PICK m \in Nat : m = Len(leaves) /\ 1 .. m = 1 .. n
  BY <1>7, <1>8, LenProperties
<1>10. m = n
  BY <1>2, <1>9
<1>11. \A i \in 1 .. n : leaves[i].kind = "earnerLeaf"
  BY <1>5 DEF EarnerLeaf
<1>12. Leafy(leaves)
  BY <1>8, <1>9, <1>10, <1>11 DEF Leafy, IsList
<1>13. info.indexToProve \in Nat
  <2>1. info.indexToProve \in 0 .. MaxEarners - 1
    BY InfoFields, Zenon DEF Infos
  <2>2. QED
    BY <2>1
<1>14. QED
  BY <1>2, <1>3, <1>4, <1>5, <1>9, <1>10, <1>12, <1>13

LEMMA PlanOfFile ==
    ASSUME NEW info \in Infos, info.indexToProve < Len(info.earners),
           NEW deployer \in Accounts
    PROVE  /\ WholePlan(Calls(info, deployer)) /\ UpdaterLike(UpdaterCall(deployer))
           /\ FundLike(FundCall(info)) /\ RootLike(RootCall(info)) /\ ClaimLike(ClaimCall(info))
<1>1. info.numPayments \in Nat /\ info.amountPerPayment \in Nat
  <2>1. info.numPayments \in 0 .. MaxEarners /\ info.amountPerPayment \in Amounts
    BY InfoFields, Zenon DEF Infos
  <2>2. 0 .. MaxEarners \subseteq Nat /\ Amounts \subseteq Nat
    BY PaymentsAssumption
  <2>3. QED
    BY <2>1, <2>2, Zenon
<1>2. FundLike(FundCall(info))
  BY <1>1 DEF FundLike, FundCall
<1>3. RootLike(RootCall(info))
  BY EarnerLeavesAre DEF RootLike, RootCall
<1>4. ClaimLike(ClaimCall(info))
  <2>1. PICK leaves, index : leaves = EarnerLeaves(info) /\ index = info.indexToProve
    OBVIOUS
  <2>2. Leafy(leaves) /\ index \in 0 .. Len(leaves) - 1
    BY <2>1, EarnerLeavesAre
  <2>3. PICK call : call = ClaimCall(info)
    OBVIOUS
  <2>4. /\ call.kind = "claim" /\ call.rootIndex = 0 /\ call.leaf.kind = "earnerLeaf"
        /\ call.tokenLeaf = TokenLeaf(DefaultEarnings)
        /\ call.index = index /\ call.proof = generateMerkleProof(leaves, index)
    BY <2>1, <2>3 DEF ClaimCall, EarnerLeaf
  <2>5. \E earner, amount, earned :
            /\ call.leaf = EarnerLeaf(earner, amount)
            /\ call.tokenProof = generateMerkleProof(<<TokenLeaf(earned)>>, 0)
    BY <2>3 DEF ClaimCall
  <2>6. QED
    BY <2>2, <2>3, <2>4, <2>5, Zenon DEF ClaimLike
<1>5. UpdaterLike(UpdaterCall(deployer))
  BY DEF UpdaterLike, UpdaterCall
<1>6. QED
  BY <1>2, <1>3, <1>4, <1>5 DEF WholePlan, Calls

LEMMA UpdatedCoord ==
    ASSUME NEW c, CoordOK(c), NEW call, UpdaterLike(call)
    PROVE  /\ CoordOK(After(c, call)) /\ After(c, call).roots = c.roots
           /\ After(c, call).trees = c.trees /\ After(c, call).claimed = c.claimed
           /\ After(c, call).funded = c.funded
<1>1. PICK d : d = After(c, call)
  OBVIOUS
<1>2. d = [c EXCEPT !.updater = call.updater]
  BY <1>1 DEF After, UpdaterLike
<1>3. PICK updater \in Accounts : updater = call.updater
  BY DEF UpdaterLike
<1>4. d = [there |-> c.there, owner |-> c.owner, updater |-> updater, funded |-> c.funded,
           roots |-> c.roots, end |-> c.end, claimed |-> c.claimed, trees |-> c.trees]
  BY <1>2, <1>3 DEF CoordOK
<1>5. /\ CoordOK(d) /\ d.roots = c.roots /\ d.trees = c.trees
      /\ d.funded = c.funded /\ d.claimed = c.claimed
  BY <1>4 DEF CoordOK
<1>6. QED
  BY <1>1, <1>5

LEMMA FundedCoord ==
    ASSUME NEW c, CoordOK(c), NEW call, FundLike(call)
    PROVE  /\ CoordOK(After(c, call)) /\ Len(After(c, call).roots) = Len(c.roots)
           /\ After(c, call).trees = c.trees /\ After(c, call).claimed = c.claimed
           /\ After(c, call).funded = c.funded + call.count * call.amount
<1>1. call.count * call.amount \in Nat
  BY DEF FundLike
<1>2. PICK paid \in Nat : paid = call.count * call.amount
  BY <1>1
<1>3. After(c, call) = [c EXCEPT !.funded = c.funded + paid]
  BY <1>2 DEF After, FundLike
<1>4. PICK d : d = After(c, call)
  OBVIOUS
<1>5. d = [there |-> c.there, owner |-> c.owner, updater |-> c.updater,
           funded |-> c.funded + paid, roots |-> c.roots, end |-> c.end,
           claimed |-> c.claimed, trees |-> c.trees]
  BY <1>3, <1>4 DEF CoordOK
<1>6. CoordOK(d) /\ d.roots = c.roots /\ d.trees = c.trees /\ d.claimed = c.claimed
      /\ d.funded = c.funded + paid
  BY <1>5 DEF CoordOK
<1>7. QED
  BY <1>2, <1>4, <1>6

LEMMA RootedCoord ==
    ASSUME NEW c, CoordOK(c), NEW call, RootLike(call)
    PROVE  /\ CoordOK(After(c, call)) /\ Len(After(c, call).roots) = Len(c.roots) + 1
           /\ After(c, call).trees = Append(c.trees, call.leaves)
           /\ After(c, call).funded = c.funded /\ After(c, call).claimed = c.claimed
<1>1. PICK d : d = After(c, call)
  OBVIOUS
<1>2. d = [c EXCEPT !.roots = Append(c.roots, call.root), !.end = call.end,
                    !.trees = Append(c.trees, call.leaves)]
  BY <1>1 DEF After, RootLike
<1>3. PICK roots, trees : roots = Append(c.roots, call.root) /\ trees = Append(c.trees, call.leaves)
  OBVIOUS
<1>4. RootsOf(roots, trees)
  BY <1>3, RootAppended DEF CoordOK, RootLike
<1>5. Len(roots) = Len(c.roots) + 1
  BY <1>3, ListAppended DEF CoordOK, RootsOf
<1>6. d = [there |-> c.there, owner |-> c.owner, updater |-> c.updater,
           funded |-> c.funded, roots |-> roots, end |-> call.end,
           claimed |-> c.claimed, trees |-> trees]
  BY <1>2, <1>3 DEF CoordOK
<1>7. /\ CoordOK(d) /\ d.roots = roots /\ d.trees = trees
      /\ d.funded = c.funded /\ d.claimed = c.claimed
  BY <1>4, <1>6 DEF CoordOK
<1>8. QED
  BY <1>1, <1>3, <1>5, <1>7

LEMMA ClaimedCoord ==
    ASSUME NEW c, CoordOK(c), NEW call, ClaimLike(call), Accepts(c, call)
    PROVE  /\ CoordOK(After(c, call)) /\ Len(After(c, call).roots) = Len(c.roots)
           /\ After(c, call).trees = c.trees /\ After(c, call).funded = c.funded
           /\ \A e \in Earners : e # call.leaf.earner => After(c, call).claimed[e] = c.claimed[e]
<1>1. call.leaf.earner \in Earners /\ call.tokenLeaf.cumulativeEarnings = DefaultEarnings
  BY PaymentsAssumption DEF Accepts, ClaimLike, TokenLeaf
<1>2. PICK claimed : claimed = [c.claimed EXCEPT ![call.leaf.earner] = DefaultEarnings]
  OBVIOUS
<1>3. /\ claimed \in [Earners -> {0, DefaultEarnings}]
      /\ \A e \in Earners : e # call.leaf.earner => claimed[e] = c.claimed[e]
  BY <1>1, <1>2 DEF CoordOK
<1>4. PICK d : d = After(c, call)
  OBVIOUS
<1>5. d = [there |-> c.there, owner |-> c.owner, updater |-> c.updater,
           funded |-> c.funded, roots |-> c.roots, end |-> c.end,
           claimed |-> claimed, trees |-> c.trees]
  BY <1>1, <1>2, <1>4 DEF CoordOK, After, ClaimLike
<1>6. /\ CoordOK(d) /\ d.roots = c.roots /\ d.trees = c.trees
      /\ d.funded = c.funded /\ d.claimed = claimed
  BY <1>3, <1>5 DEF CoordOK
<1>7. QED
  BY <1>3, <1>4, <1>6

----------------------------------------------------------------------------
LEMMA TypeParts ==
    TypeOK <=> /\ FileOK
               /\ rounds \in 0 .. MaxRounds
               /\ Len(plan) <= 4
               /\ coord.there \in BOOLEAN
               /\ coord.owner \in Accounts
               /\ coord.updater \in Accounts
               /\ coord.funded \in Nat
               /\ coord.claimed \in [Earners -> Nat]
               /\ Len(coord.roots) = Len(coord.trees)
BY Zenon DEF TypeOK, FileOK

LEMMA CoordTyped ==
    ASSUME NEW c, CoordOK(c)
    PROVE  /\ c.there \in BOOLEAN /\ c.owner \in Accounts /\ c.updater \in Accounts
           /\ c.funded \in Nat /\ c.claimed \in [Earners -> Nat]
           /\ Len(c.roots) = Len(c.trees) /\ Len(c.roots) \in Nat
<1>1. c.claimed \in [Earners -> Nat]
  <2>1. c.claimed \in [Earners -> {0, DefaultEarnings}] /\ {0, DefaultEarnings} \subseteq Nat
    BY PaymentsAssumption DEF CoordOK
  <2>2. QED
    BY <2>1
<1>2. QED
  BY <1>1, ListLength DEF CoordOK, RootsOf

LEMMA TypedState ==
    TypeOK => /\ rounds \in 0 .. MaxRounds /\ Len(plan) <= 4
              /\ coord.there \in BOOLEAN /\ coord.owner \in Accounts /\ coord.updater \in Accounts
              /\ coord.funded \in Nat /\ coord.claimed \in [Earners -> Nat]
              /\ Len(coord.roots) = Len(coord.trees)
BY Zenon DEF TypeOK

LEMMA AtMostFour == \A n \in 0 .. 4 : n <= 4
OBVIOUS

LEMMA FileKept == FileOK /\ UNCHANGED file => FileOK'
BY Zenon DEF FileOK

LEMMA PaymentsInit == Init => PaymentsInv
<1> SUFFICES ASSUME Init PROVE PaymentsInv
  OBVIOUS
<1>1. CoordOK(coord) /\ Len(coord.roots) = 0
  <2>1. PICK c : c = coord
    OBVIOUS
  <2>2. /\ c = [there |-> c.there, owner |-> c.owner, updater |-> c.updater, funded |-> 0,
                roots |-> <<>>, end |-> 0, claimed |-> c.claimed, trees |-> <<>>]
        /\ c.there \in BOOLEAN /\ c.owner \in Accounts /\ c.updater \in Accounts
        /\ c.claimed \in [Earners -> {0}]
    BY <2>1 DEF Init, CoordInits
  <2>3. IsList(<<>>)
    BY EmptySeq DEF IsList
  <2>4. CoordOK(c) /\ Len(c.roots) = 0
    BY <2>2, <2>3 DEF CoordOK, RootsOf
  <2>5. QED
    BY <2>1, <2>4
<1>2. PlanInOrder(plan) /\ Len(plan) = 0
  BY DEF Init, PlanInOrder
<1>3. TypeOK
  BY <1>1, <1>2, CoordTyped, PaymentsAssumption DEF Init, TypeOK
<1>4. Planned = 0 /\ Unpaid = 0
  BY <1>2 DEF Init, NoFile, Planned, Unpaid
<1>5. QED
  BY <1>1, <1>2, <1>3, <1>4 DEF PaymentsInv, Init

LEMMA WriteInfoInv == PaymentsInv /\ WriteInfo => PaymentsInv'
<1> SUFFICES ASSUME PaymentsInv, WriteInfo PROVE PaymentsInv'
  OBVIOUS
<1>1. file' \in Infos /\ UNCHANGED <<plan, coord>> /\ plan = <<>>
  BY DEF WriteInfo
<1>2. rounds \in Nat /\ rounds' = rounds + 1 /\ rounds' \in 0 .. MaxRounds
  BY PaymentsAssumption DEF WriteInfo, PaymentsInv, TypeOK
<1>3. TypeOK'
  BY <1>1, <1>2 DEF PaymentsInv, TypeOK
<1>4. Unpaid \in Nat /\ Unpaid' \in 0 .. 1 /\ Planned' = Planned /\ Planned \in Nat
  BY <1>1 DEF Unpaid, Planned
<1>5. Len(coord.roots) \in Nat
  BY CoordTyped DEF PaymentsInv
<1>6. QED
  BY <1>1, <1>2, <1>3, <1>4, <1>5 DEF PaymentsInv

LEMMA RunInv ==
    ASSUME NEW deployer \in Accounts, PaymentsInv, Run(deployer)
    PROVE  PaymentsInv'
<1>1. file \in Infos
  BY DEF PaymentsInv, TypeOK, Run, NoFile
<1>2. /\ file'.kind = "leaves"
      /\ \A k \in DOMAIN file'.leaves : file'.leaves[k].kind = "earnerLeaf"
  BY DEF Run, EarnerLeaves, EarnerLeaf
<1>3. UNCHANGED <<rounds, coord>> /\ plan = <<>> /\ Unpaid = 1 /\ Unpaid' = 0
  BY <1>2 DEF Run, Unpaid
<1>4. plan' = <<>> \/ WholePlan(plan')
  BY <1>1, PlanOfFile DEF Run, Passes
<1>5. PlanInOrder(plan)' /\ Len(plan') \in 0 .. 4
  <2>1. PlanInOrder(plan')
    BY <1>4 DEF PlanInOrder
  <2>2. QED
    BY <2>1, PlanLengths DEF PlanInOrder, WholePlan, FundPlan, RootPlan, ClaimPlan
<1>6. Planned = 0 /\ Planned' \in 0 .. 1
  BY <1>3, <1>5 DEF Planned
<1>7. TypeOK'
  <2>1. FileOK'
    BY <1>2, Zenon DEF FileOK
  <2>2. /\ rounds' \in 0 .. MaxRounds /\ Len(plan') <= 4
        /\ coord'.there \in BOOLEAN /\ coord'.owner \in Accounts /\ coord'.updater \in Accounts
        /\ coord'.funded \in Nat /\ coord'.claimed \in [Earners -> Nat]
        /\ Len(coord'.roots) = Len(coord'.trees)
    <3>1. TypeOK
      BY Zenon DEF PaymentsInv
    <3>2. Len(plan') <= 4
      BY <1>5, AtMostFour, Zenon
    <3>3. rounds' = rounds /\ coord' = coord
      BY <1>3
    <3>4. QED
      BY <3>1, <3>2, <3>3, TypedState, Zenon
  <2>3. QED
    BY <2>1, <2>2, Zenon DEF TypeOK, FileOK
<1>8. Len(coord.roots) \in Nat /\ rounds \in Nat
  BY CoordTyped DEF PaymentsInv, TypeOK
<1>9. QED
  BY <1>3, <1>5, <1>6, <1>7, <1>8 DEF PaymentsInv, CoordOK

LEMMA BroadcastInv == PaymentsInv /\ Broadcast => PaymentsInv'
<1> SUFFICES ASSUME PaymentsInv, Broadcast PROVE PaymentsInv'
  OBVIOUS
<1>1. PICK call, rest, next : call = Head(plan) /\ rest = Tail(plan) /\ next = After(coord, call)
  OBVIOUS
<1>2. /\ Accepts(coord, call) /\ coord' = next /\ plan' = rest
      /\ UNCHANGED <<file, rounds>> /\ plan # <<>>
  BY <1>1 DEF Broadcast
<1>3. /\ PlanInOrder(rest) /\ CoordOK(next)
      /\ Len(rest) \in 0 .. 4 /\ Len(next.roots) \in Nat
      /\ Len(next.roots) + (IF Len(rest) > 1 THEN 1 ELSE 0)
           <= Len(coord.roots) + (IF Len(plan) > 1 THEN 1 ELSE 0)
  <2>1. Len(coord.roots) \in Nat
    BY CoordTyped DEF PaymentsInv
  <2>2. CASE FundPlan(plan)
    <3>1. FundLike(call) /\ RootPlan(rest)
      BY <1>1, <2>2, PlanTails
    <3>2. CoordOK(next) /\ Len(next.roots) = Len(coord.roots)
      BY <1>1, <3>1, FundedCoord DEF PaymentsInv
    <3>3. Len(plan) = 3 /\ Len(rest) = 2 /\ PlanInOrder(rest)
      BY <2>2, <3>1, PlanLengths DEF PlanInOrder
    <3>4. QED
      BY <2>1, <3>2, <3>3
  <2>3. CASE RootPlan(plan)
    <3>1. RootLike(call) /\ ClaimPlan(rest)
      BY <1>1, <2>3, PlanTails
    <3>2. CoordOK(next) /\ Len(next.roots) = Len(coord.roots) + 1
      BY <1>1, <3>1, RootedCoord DEF PaymentsInv
    <3>3. Len(plan) = 2 /\ Len(rest) = 1 /\ PlanInOrder(rest)
      BY <2>3, <3>1, PlanLengths DEF PlanInOrder
    <3>4. QED
      BY <2>1, <3>2, <3>3
  <2>4. CASE ClaimPlan(plan)
    <3>1. ClaimLike(call) /\ rest = <<>>
      BY <1>1, <2>4, PlanTails
    <3>2. CoordOK(next) /\ Len(next.roots) = Len(coord.roots)
      BY <1>1, <1>2, <3>1, ClaimedCoord DEF PaymentsInv
    <3>3. Len(rest) = 0
      BY <3>1
    <3>4. QED
      BY <2>1, <2>4, <3>1, <3>2, <3>3, PlanLengths DEF PlanInOrder
  <2>5. CASE WholePlan(plan)
    <3>1. UpdaterLike(call) /\ FundPlan(rest)
      BY <1>1, <2>5, PlanTails
    <3>2. CoordOK(next) /\ Len(next.roots) = Len(coord.roots)
      BY <1>1, <3>1, UpdatedCoord DEF PaymentsInv
    <3>3. Len(plan) = 4 /\ Len(rest) = 3 /\ PlanInOrder(rest)
      BY <2>5, <3>1, PlanLengths DEF PlanInOrder
    <3>4. QED
      BY <2>1, <3>2, <3>3
  <2>6. QED
    BY <1>2, <2>2, <2>3, <2>4, <2>5 DEF PaymentsInv, PlanInOrder
<1>4. PlanInOrder(plan)' /\ CoordOK(coord)'
  BY <1>2, <1>3 DEF PlanInOrder, WholePlan, FundPlan, RootPlan, ClaimPlan, CoordOK
<1>5. TypeOK'
  <2>1. /\ next.there \in BOOLEAN /\ next.owner \in Accounts /\ next.updater \in Accounts
        /\ next.funded \in Nat /\ next.claimed \in [Earners -> Nat]
        /\ Len(next.roots) = Len(next.trees)
    BY <1>3, CoordTyped
  <2>2. FileOK'
    BY <1>2, FileKept, TypeParts DEF PaymentsInv
  <2>3. /\ rounds' \in 0 .. MaxRounds /\ Len(plan') <= 4
        /\ coord'.there \in BOOLEAN /\ coord'.owner \in Accounts /\ coord'.updater \in Accounts
        /\ coord'.funded \in Nat /\ coord'.claimed \in [Earners -> Nat]
        /\ Len(coord'.roots) = Len(coord'.trees)
    <3>1. TypeOK
      BY Zenon DEF PaymentsInv
    <3>2. Len(rest) <= 4
      BY <1>3, AtMostFour, Zenon
    <3>3. rounds' = rounds /\ coord' = next /\ plan' = rest
      BY <1>2
    <3>4. QED
      BY <2>1, <3>1, <3>2, <3>3, TypedState, Zenon
  <2>4. QED
    BY <2>2, <2>3, Zenon DEF TypeOK, FileOK
<1>6. Len(coord.roots) \in Nat /\ rounds \in Nat /\ Unpaid \in Nat /\ Unpaid' = Unpaid
  BY <1>2, CoordTyped DEF PaymentsInv, TypeOK, Unpaid
<1>7. Len(coord.roots)' + Planned' <= Len(coord.roots) + Planned
  BY <1>2, <1>3 DEF Planned
<1>8. Len(coord.roots)' \in Nat /\ Planned \in Nat /\ Planned' \in Nat
  BY <1>2, <1>3 DEF Planned
<1>9. QED
  BY <1>2, <1>4, <1>5, <1>6, <1>7, <1>8 DEF PaymentsInv

LEMMA StopsInv == PaymentsInv /\ (BroadcastStops \/ UNCHANGED vars) => PaymentsInv'
<1> SUFFICES ASSUME PaymentsInv, BroadcastStops \/ UNCHANGED vars PROVE PaymentsInv'
  OBVIOUS
<1>1. UNCHANGED <<file, rounds, coord>> /\ (plan' = <<>> \/ plan' = plan)
  BY DEF BroadcastStops, vars
<1>2. PlanInOrder(plan)' /\ Len(plan') <= 4
  BY <1>1 DEF PaymentsInv, TypeOK, PlanInOrder, WholePlan, FundPlan, RootPlan, ClaimPlan
<1>3. TypeOK'
  BY <1>1, <1>2 DEF PaymentsInv, TypeOK
<1>4. Planned' = Planned \/ Planned' = 0
  BY <1>1 DEF Planned
<1>5. /\ Planned \in Nat /\ Unpaid \in Nat /\ Unpaid' = Unpaid
      /\ Len(coord.roots) \in Nat /\ rounds \in Nat
  BY <1>1, CoordTyped DEF Planned, Unpaid, PaymentsInv, TypeOK
<1>6. QED
  BY <1>1, <1>2, <1>3, <1>4, <1>5 DEF PaymentsInv, CoordOK

LEMMA PaymentsInvariant == Spec => []PaymentsInv
<1>1. PaymentsInv /\ [Next]_vars => PaymentsInv'
  BY WriteInfoInv, RunInv, BroadcastInv, StopsInv DEF Next
<1>2. QED
  BY <1>1, PaymentsInit, PTL DEF Spec

(* The file is a round or the leaves of one, and the coordinator has paid  *)
(* in and out natural numbers, however runs are cut short.                 *)
THEOREM PaymentsTypeCorrect == Spec => []TypeOK
<1>1. PaymentsInv => TypeOK
  BY DEF PaymentsInv
<1>2. QED
  BY <1>1, PaymentsInvariant, PTL

(* No more roots are submitted than files were written: a file that was    *)
(* run is overwritten before its root is sent.                             *)
THEOREM FilesArePaidOnce == Spec => []EachFilePaidOnce
<1>1. PaymentsInv => EachFilePaidOnce
  <2> SUFFICES ASSUME PaymentsInv PROVE EachFilePaidOnce
    OBVIOUS
  <2>1. Len(coord.roots) \in Nat /\ rounds \in Nat /\ Planned \in Nat
    BY CoordTyped DEF PaymentsInv, TypeOK, Planned
  <2>2. Len(coord.roots) + Planned + Unpaid <= rounds /\ Unpaid \in Nat
    BY DEF PaymentsInv, Unpaid
  <2>3. Len(coord.roots) + Unpaid <= rounds
    BY <2>1, <2>2
  <2>4. QED
    BY <2>3 DEF EachFilePaidOnce, Unpaid
<1>2. QED
  BY <1>1, PaymentsInvariant, PTL

----------------------------------------------------------------------------
(* What a claim needs.                                                     *)
LEMMA FirstRoot ==
    ASSUME NEW roots, NEW trees, RootsOf(roots, trees), Len(trees) > 0
    PROVE  Leafy(trees[1]) /\ roots[1] = merkleizeKeccak(trees[1])
<1>1. PICK n \in Nat : n = Len(trees)
  BY ListLength DEF RootsOf
<1>2. 1 \in 1 .. n
  BY <1>1
<1>3. QED
  BY <1>1, <1>2 DEF RootsOf

LEMMA NoTreesYet ==
    ASSUME NEW roots, NEW trees, RootsOf(roots, trees)
    PROVE  trees = <<>> <=> Len(trees) = 0
BY EmptySeq DEF RootsOf, IsList

LEMMA EarnerLeafIs ==
    /\ \A earner, earnings : EarnerLeaf(earner, earnings).kind = "earnerLeaf"
    /\ \A earner, earnings : EarnerLeaf(earner, earnings).earner = earner
    /\ \A earner, earnings : EarnerLeaf(earner, earnings).earnerTokenRoot = TokenRoot(earnings)
BY DEF EarnerLeaf

LEMMA PutLeafy ==
    ASSUME NEW leaves, Leafy(leaves), NEW index \in 0 .. Len(leaves) - 1,
           NEW leaf, leaf.kind = "earnerLeaf"
    PROVE  Leafy(Put(leaves, index, leaf))
<1>1. PICK other : other = Put(leaves, index, leaf)
  OBVIOUS
<1>2. IsList(other) /\ Len(other) = Len(leaves) /\ other[index + 1] = leaf
      /\ \A i \in 1 .. Len(leaves) : i # index + 1 => other[i] = leaves[i]
  BY <1>1, PutIs DEF Leafy
<1>3. ASSUME NEW i \in 1 .. Len(leaves) PROVE other[i].kind \notin {"zero", "node"}
  BY <1>2 DEF Leafy
<1>4. QED
  BY <1>1, <1>2, <1>3 DEF Leafy

(* The proof of a leaf verifies against the root of a tree exactly if that *)
(* is the tree with the leaf put in.                                       *)
LEMMA ProofOfTree ==
    ASSUME NEW leaves, Leafy(leaves), NEW index \in 0 .. Len(leaves) - 1,
           NEW leaf, leaf.kind = "earnerLeaf", NEW tree, Leafy(tree)
    PROVE  verifyInclusionKeccak(generateMerkleProof(leaves, index), merkleizeKeccak(tree),
                                 leaf, index)
             <=> Put(leaves, index, leaf) = tree
<1>1. IsList(leaves)
  BY DEF Leafy
<1>2. Leafy(Put(leaves, index, leaf))
  BY PutLeafy
<1>3. merkleizeKeccak(Put(leaves, index, leaf)) = merkleizeKeccak(tree)
        <=> Put(leaves, index, leaf) = tree
  BY <1>2, RootTellsLeaves
<1>4. QED
  BY <1>1, <1>3, VerifiesWhatWasPut

LEMMA OneLeaf ==
    ASSUME NEW leaf, leaf.kind \notin {"zero", "node"}
    PROVE  Leafy(<<leaf>>) /\ Len(<<leaf>>) = 1 /\ <<leaf>>[1] = leaf
<1>1. PICK s : s = <<leaf>>
  OBVIOUS
<1>2. s \in Seq({leaf}) /\ Len(s) = 1 /\ s[1] = leaf
  BY <1>1
<1>3. \A i \in 1 .. Len(s) : s[i] = leaf
  BY <1>2
<1>4. Leafy(s)
  BY <1>2, <1>3 DEF Leafy, IsList
<1>5. QED
  BY <1>1, <1>2, <1>4

LEMMA TokenLeafIs ==
    /\ \A earnings : TokenLeaf(earnings).kind = "tokenLeaf"
    /\ \A earnings : TokenLeaf(earnings).cumulativeEarnings = earnings
BY DEF TokenLeaf

(* A token root tells the amount.                                          *)
LEMMA TokenRootTellsAmount ==
    ASSUME NEW a, NEW b, TokenRoot(a) = TokenRoot(b)
    PROVE  a = b
<1>1. PICK s, t : s = <<TokenLeaf(a)>> /\ t = <<TokenLeaf(b)>>
  OBVIOUS
<1>2. Leafy(s) /\ Leafy(t) /\ s[1] = TokenLeaf(a) /\ t[1] = TokenLeaf(b)
  BY <1>1, OneLeaf, TokenLeafIs
<1>3. s = t
  BY <1>1, <1>2, RootTellsLeaves DEF TokenRoot
<1>4. QED
  BY <1>2, <1>3, TokenLeafIs

LEMMA TokenProof ==
    ASSUME NEW a, NEW b, NEW claimed
    PROVE  verifyInclusionKeccak(generateMerkleProof(<<TokenLeaf(a)>>, 0), TokenRoot(b),
                                 TokenLeaf(claimed), 0)
             <=> b = claimed
<1>1. PICK s, leaf : s = <<TokenLeaf(a)>> /\ leaf = TokenLeaf(claimed)
  OBVIOUS
<1>2. IsList(s) /\ Len(s) = 1 /\ 0 \in 0 .. Len(s) - 1
  BY <1>1, OneLeaf, TokenLeafIs DEF Leafy
<1>3. Put(s, 0, leaf) = <<leaf>>
  BY <1>1 DEF Put
<1>4. verifyInclusionKeccak(generateMerkleProof(s, 0), TokenRoot(b), leaf, 0)
        <=> merkleizeKeccak(<<leaf>>) = TokenRoot(b)
  BY <1>2, <1>3, VerifiesWhatWasPut
<1>5. merkleizeKeccak(<<leaf>>) = TokenRoot(claimed)
  BY <1>1 DEF TokenRoot
<1>6. QED
  BY <1>1, <1>4, <1>5, TokenRootTellsAmount

----------------------------------------------------------------------------
LEMMA RecordKept ==
    ASSUME NEW c, CoordOK(c)
    PROVE  c.claimed \in [Earners -> {0, DefaultEarnings}] /\ RootsOf(c.roots, c.trees)
BY DEF CoordOK

(* The claim is simulated on the roots with the new one.                   *)
LEMMA SimulatedClaim ==
    ASSUME NEW info \in Infos, NEW c, CoordOK(c), info.indexToProve < Len(info.earners),
           NEW deployer \in Accounts, AllAccepted(c, Calls(info, deployer))
    PROVE  LET claim == ClaimCall(info)
               roots == Append(c.roots, merkleizeKeccak(EarnerLeaves(info)))
           IN  /\ verifyInclusionKeccak(claim.proof, roots[1], claim.leaf, claim.index)
               /\ verifyInclusionKeccak(claim.tokenProof, claim.leaf.earnerTokenRoot,
                                        claim.tokenLeaf, 0)
<1>1. PICK updater, fund, root, claim :
          /\ updater = UpdaterCall(deployer) /\ fund = FundCall(info)
          /\ root = RootCall(info) /\ claim = ClaimCall(info)
  OBVIOUS
<1>2. UpdaterLike(updater) /\ FundLike(fund) /\ RootLike(root) /\ ClaimLike(claim)
  BY <1>1, PlanOfFile
<1>3. PICK updated : updated = After(c, updater)
  OBVIOUS
<1>4. PICK funded : funded = After(updated, fund)
  OBVIOUS
<1>5. PICK rooted : rooted = After(funded, root)
  OBVIOUS
<1>6. CoordOK(updated) /\ updated.roots = c.roots
  BY <1>2, <1>3, UpdatedCoord
<1>7. CoordOK(funded) /\ funded.roots = c.roots
  <2>1. CoordOK(funded)
    BY <1>2, <1>4, <1>6, FundedCoord
  <2>2. funded = [updated EXCEPT !.funded = @ + fund.count * fund.amount]
    BY <1>2, <1>4 DEF After, FundLike
  <2>3. funded.roots = updated.roots
    BY <1>6, <2>2 DEF CoordOK
  <2>4. QED
    BY <1>6, <2>1, <2>3
<1>8. rooted.roots = Append(c.roots, merkleizeKeccak(EarnerLeaves(info)))
  <2>1. rooted = [funded EXCEPT !.roots = Append(@, root.root), !.end = root.end,
                                !.trees = Append(@, root.leaves)]
    BY <1>2, <1>5 DEF After, RootLike
  <2>2. rooted.roots = Append(funded.roots, root.root)
    BY <1>7, <2>1 DEF CoordOK
  <2>3. root.root = merkleizeKeccak(EarnerLeaves(info))
    BY <1>1 DEF RootCall
  <2>4. QED
    BY <1>7, <2>2, <2>3
<1>9. Accepts(rooted, claim)
  <2>1. PICK calls : calls = <<updater, fund, root, claim>>
    OBVIOUS
  <2>2. /\ calls[1] = updater /\ calls[2] = fund /\ calls[3] = root /\ calls[4] = claim
        /\ calls = Calls(info, deployer)
    BY <1>1, <2>1 DEF Calls
  <2>3. QED
    BY <1>3, <1>4, <1>5, <2>2, Zenon DEF AllAccepted
<1>10. /\ verifyInclusionKeccak(claim.proof, rooted.roots[1], claim.leaf, claim.index)
       /\ verifyInclusionKeccak(claim.tokenProof, claim.leaf.earnerTokenRoot,
                                claim.tokenLeaf, 0)
  <2>1. claim.kind = "claim" /\ claim.rootIndex + 1 = 1
    BY <1>2 DEF ClaimLike
  <2>2. QED
    BY <1>9, <2>1 DEF Accepts
<1>11. QED
  BY <1>1, <1>8, <1>10, Zenon

(* The claim of run verifies if the token roots are of the 100, and the    *)
(* leaves with the one of the claim are those of the first tree.           *)
LEMMA ClaimVerifies ==
    ASSUME NEW info \in Infos, NEW c, CoordOK(c), info.indexToProve < Len(info.earners)
    PROVE  LET claim == ClaimCall(info)
               roots == Append(c.roots, merkleizeKeccak(EarnerLeaves(info)))
               earner == info.earners[info.indexToProve + 1]
           IN  /\ verifyInclusionKeccak(claim.proof, roots[1], claim.leaf, claim.index)
                     <=> Put(EarnerLeaves(info), info.indexToProve,
                             EarnerLeaf(earner, info.rootAmount))
                           = IF c.trees = <<>> THEN EarnerLeaves(info) ELSE c.trees[1]
               /\ verifyInclusionKeccak(claim.tokenProof, claim.leaf.earnerTokenRoot,
                                        claim.tokenLeaf, 0)
                     <=> info.rootAmount = DefaultEarnings
<1>1. PICK leaves, index, earner, leaf, claim :
          /\ leaves = EarnerLeaves(info) /\ index = info.indexToProve
          /\ earner = info.earners[info.indexToProve + 1]
          /\ leaf = EarnerLeaf(earner, info.rootAmount) /\ claim = ClaimCall(info)
  OBVIOUS
<1>2. Leafy(leaves) /\ index \in 0 .. Len(leaves) - 1
  BY <1>1, EarnerLeavesAre
<1>3. /\ claim.index = index /\ claim.proof = generateMerkleProof(leaves, index)
      /\ claim.leaf = leaf
      /\ claim.tokenProof = generateMerkleProof(<<TokenLeaf(Earnings(info))>>, 0)
      /\ claim.tokenLeaf = TokenLeaf(DefaultEarnings)
  BY <1>1 DEF ClaimCall
<1>4. /\ leaf.kind = "earnerLeaf" /\ leaf.earner = earner
      /\ leaf.earnerTokenRoot = TokenRoot(info.rootAmount)
  BY <1>1, EarnerLeafIs
<1>5. PICK tree, roots : /\ tree = (IF c.trees = <<>> THEN leaves ELSE c.trees[1])
                         /\ roots = Append(c.roots, merkleizeKeccak(leaves))
  OBVIOUS
<1>6. Leafy(tree) /\ roots[1] = merkleizeKeccak(tree)
  <2>1. RootsOf(c.roots, c.trees) /\ IsList(c.roots)
    BY DEF CoordOK, RootsOf
  <2>2. PICK n \in Nat : n = Len(c.trees) /\ n = Len(c.roots)
    BY CoordTyped
  <2>3. c.trees = <<>> <=> n = 0
    <3>1. c.trees = <<>> <=> Len(c.trees) = 0
      BY <2>1, NoTreesYet, Zenon
    <3>2. QED
      BY <2>2, <3>1, Zenon
  <2>4. roots[n + 1] = merkleizeKeccak(leaves) /\ \A k \in 1 .. n : roots[k] = c.roots[k]
    BY <1>5, <2>1, <2>2, ListAppended
  <2>5. CASE n = 0
    <3>1. roots[1] = merkleizeKeccak(leaves) /\ tree = leaves
      BY <1>5, <2>3, <2>4, <2>5
    <3>2. QED
      BY <1>2, <3>1
  <2>6. CASE n > 0
    <3>1. tree = c.trees[1] /\ roots[1] = c.roots[1]
      BY <1>5, <2>3, <2>4, <2>6
    <3>2. QED
      BY <2>1, <2>2, <2>6, <3>1, FirstRoot
  <2>7. QED
    BY <2>2, <2>5, <2>6
<1>7. verifyInclusionKeccak(claim.proof, roots[1], claim.leaf, claim.index)
        <=> Put(leaves, index, leaf) = tree
  BY <1>2, <1>3, <1>4, <1>6, ProofOfTree
<1>8. verifyInclusionKeccak(claim.tokenProof, claim.leaf.earnerTokenRoot, claim.tokenLeaf, 0)
        <=> info.rootAmount = DefaultEarnings
  <2>1. verifyInclusionKeccak(generateMerkleProof(<<TokenLeaf(Earnings(info))>>, 0),
                              TokenRoot(info.rootAmount), TokenLeaf(DefaultEarnings), 0)
          <=> info.rootAmount = DefaultEarnings
    BY TokenProof, Zenon
  <2>2. QED
    BY <1>3, <1>4, <2>1, Zenon
<1>9. QED
  BY <1>1, <1>3, <1>4, <1>5, <1>7, <1>8, Zenon

----------------------------------------------------------------------------
(* What was paid in covers the 100 for every leaf of the first tree, which *)
(* is the tree of all claims: before it is submitted, nobody has claimed   *)
(* and the calls that are left pay in first; afterwards, only who has a    *)
(* leaf in it has claimed.                                                 *)
Earner(trees, e) ==
    \E i \in 1 .. Len(trees[1]) : trees[1][i] = EarnerLeaf(e, DefaultEarnings)

FundingOK(p, c) ==
    /\ Len(c.trees) = 0 =>
          /\ \A e \in Earners : c.claimed[e] = 0
          /\ WholePlan(p) => DefaultEarnings * Len(p[3].leaves) <= p[2].count * p[2].amount
          /\ FundPlan(p) => DefaultEarnings * Len(p[2].leaves) <= p[1].count * p[1].amount
          /\ RootPlan(p) => DefaultEarnings * Len(p[1].leaves) <= c.funded
    /\ Len(c.trees) > 0 =>
          /\ DefaultEarnings * Len(c.trees[1]) <= c.funded
          /\ \A e \in Earners : c.claimed[e] # 0 => Earner(c.trees, e)

FundingInv == PaymentsInv /\ FundingOK(plan, coord)

LEMMA AtLeast ==
    ASSUME NEW d \in Nat, NEW a \in Nat, d <= a, NEW n \in Nat
    PROVE  d * n \in Nat /\ d * n <= n * a
<1>1. PICK k \in Nat : a = d + k
  <2>1. a - d \in Nat /\ a = d + (a - d)
    OBVIOUS
  <2>2. QED
    BY <2>1
<1>2. n * a = n * d + n * k /\ n * k \in Nat /\ n * d = d * n /\ d * n \in Nat
  BY <1>1
<1>3. QED
  BY <1>2

(* An empty plan, or the last call alone, leaves nothing to be paid in.    *)
LEMMA NoRootLeft ==
    ASSUME NEW p, p = <<>> \/ ClaimPlan(p)
    PROVE  ~WholePlan(p) /\ ~FundPlan(p) /\ ~RootPlan(p)
<1>1. Len(p) \in {0, 1}
  BY PlanLengths
<1>2. Len(p) # 4 /\ Len(p) # 3 /\ Len(p) # 2
  BY <1>1
<1>3. QED
  BY <1>2, PlanLengths, Zenon

(* The first round that passes pays in at least the 100 for each leaf: the *)
(* leaf of the claim shows that its payments are of 100.                   *)
LEMMA FirstRoundPaysIn ==
    ASSUME PaymentsInv, file.kind = "info", Len(coord.trees) = 0,
           NEW deployer \in Accounts, Passes(file, deployer)
    PROVE  DefaultEarnings * Len(RootCall(file).leaves)
             <= FundCall(file).count * FundCall(file).amount
<1>1. file \in Infos /\ CoordOK(coord)
  BY DEF PaymentsInv, TypeOK, NoFile
<1>2. PICK earner, leaves, index :
          /\ earner = file.earners[file.indexToProve + 1]
          /\ leaves = EarnerLeaves(file) /\ index = file.indexToProve
  OBVIOUS
<1>3. index \in 0 .. Len(leaves) - 1 /\ index < Len(file.earners) /\ Leafy(leaves)
      /\ Len(leaves) = file.numPayments /\ Len(leaves) \in Nat
      /\ leaves[index + 1] = EarnerLeaf(earner, Earnings(file))
  <2>1. index \in Nat /\ Len(leaves) = Len(file.earners) /\ Leafy(leaves) /\ Len(leaves) \in Nat
    BY <1>1, <1>2, EarnerLeavesAre
  <2>2. index < Len(file.earners) /\ Len(file.earners) = file.numPayments
    BY <1>2, Zenon DEF Passes, LeavesWritten
  <2>3. index \in 0 .. Len(leaves) - 1 /\ index + 1 \in 1 .. Len(leaves)
    BY <2>1, <2>2
  <2>4. index + 1 \in 1 .. Len(file.earners)
    BY <2>1, <2>3
  <2>5. leaves[index + 1] = EarnerLeaf(earner, Earnings(file))
    BY <1>1, <1>2, <2>4, EarnerLeavesAre, Zenon
  <2>6. QED
    BY <2>1, <2>2, <2>3, <2>5
<1>4. coord.trees = <<>>
  <2>1. RootsOf(coord.roots, coord.trees)
    BY <1>1, RecordKept
  <2>2. QED
    BY <2>1, NoTreesYet
<1>5. /\ Put(leaves, index, EarnerLeaf(earner, file.rootAmount)) = leaves
      /\ file.rootAmount = DefaultEarnings
  <2>1. AllAccepted(coord, Calls(file, deployer)) /\ file.indexToProve < Len(file.earners)
    BY Zenon DEF Passes
  <2>2. /\ Put(EarnerLeaves(file), file.indexToProve,
                EarnerLeaf(file.earners[file.indexToProve + 1], file.rootAmount))
                  = IF coord.trees = <<>> THEN EarnerLeaves(file) ELSE coord.trees[1]
        /\ file.rootAmount = DefaultEarnings
    BY <1>1, <2>1, SimulatedClaim, ClaimVerifies, Zenon
  <2>3. QED
    BY <1>2, <1>4, <2>2
<1>6. EarnerLeaf(earner, DefaultEarnings) = EarnerLeaf(earner, Earnings(file))
  <2>1. Put(leaves, index, EarnerLeaf(earner, file.rootAmount))[index + 1]
          = EarnerLeaf(earner, file.rootAmount)
    BY <1>3, PutIs DEF Leafy
  <2>2. QED
    BY <1>3, <1>5, <2>1, Zenon
<1>7. Earnings(file) = DefaultEarnings
  <2>1. TokenRoot(DefaultEarnings) = TokenRoot(Earnings(file))
    <3>1. /\ EarnerLeaf(earner, DefaultEarnings).earnerTokenRoot = TokenRoot(DefaultEarnings)
          /\ EarnerLeaf(earner, Earnings(file)).earnerTokenRoot = TokenRoot(Earnings(file))
      BY EarnerLeafIs, Zenon
    <3>2. QED
      BY <1>6, <3>1, Zenon
  <2>2. QED
    BY <2>1, TokenRootTellsAmount
<1>8. PICK amount : amount = file.amountPerPayment
  OBVIOUS
<1>9. amount \in Nat
  <2>1. amount \in Amounts
    BY <1>1, <1>8, InfoFields, Zenon DEF Infos
  <2>2. QED
    BY <2>1, PaymentsAssumption
<1>10. DefaultEarnings \in Nat /\ DefaultEarnings <= amount
  <2>1. amount % Uint32 = DefaultEarnings
    BY <1>7, <1>8 DEF Earnings
  <2>2. amount % Uint32 <= amount
    BY <1>9, PaymentsAssumption
  <2>3. QED
    BY <2>1, <2>2, PaymentsAssumption
<1>11. PICK n \in Nat : n = Len(leaves)
  BY <1>3
<1>12. DefaultEarnings * n <= n * amount
  BY <1>9, <1>10, AtLeast
<1>13. /\ RootCall(file).leaves = leaves
       /\ FundCall(file).count = n /\ FundCall(file).amount = amount
  BY <1>2, <1>3, <1>8, <1>11 DEF RootCall, FundCall
<1>14. QED
  BY <1>11, <1>12, <1>13

LEMMA FundingInit == Init => FundingInv
<1> SUFFICES ASSUME Init PROVE FundingInv
  OBVIOUS
<1>1. /\ Len(coord.trees) = 0 /\ coord.claimed \in [Earners -> {0}] /\ plan = <<>>
  BY DEF Init, CoordInits
<1>2. ~WholePlan(plan) /\ ~FundPlan(plan) /\ ~RootPlan(plan)
  BY <1>1, NoRootLeft
<1>3. FundingOK(plan, coord)
  BY <1>1, <1>2 DEF FundingOK
<1>4. QED
  BY <1>3, PaymentsInit DEF FundingInv

(* Of a plan only what is still to be paid in matters.                     *)
LEMMA PlanDropped ==
    ASSUME NEW p, NEW q, NEW c, FundingOK(p, c), ~WholePlan(q), ~FundPlan(q), ~RootPlan(q)
    PROVE  FundingOK(q, c)
BY DEF FundingOK

LEMMA RunFunding ==
    ASSUME NEW deployer \in Accounts, FundingInv, Run(deployer)
    PROVE  FundingInv'
<1>1. PaymentsInv /\ FundingOK(plan, coord) /\ plan = <<>> /\ coord' = coord
  BY DEF FundingInv, Run
<1>2. CASE plan' = <<>>
  <2>1. FundingOK(plan', coord)
    BY <1>1, <1>2, NoRootLeft, PlanDropped
  <2>2. QED
    BY <1>1, <2>1, RunInv DEF FundingInv, FundingOK, WholePlan, FundPlan, RootPlan, Earner
<1>3. CASE Passes(file, deployer) /\ plan' = Calls(file, deployer)
  <2>1. PICK p : p = plan'
    OBVIOUS
  <2>2. p[2] = FundCall(file) /\ p[3] = RootCall(file) /\ Len(p) = 4
    BY <1>3, <2>1 DEF Calls
  <2>3. ~RootPlan(p) /\ ~FundPlan(p)
    <3>1. (RootPlan(p) => Len(p) = 2) /\ (FundPlan(p) => Len(p) = 3)
      BY PlanLengths, Zenon
    <3>2. QED
      BY <2>2, <3>1
  <2>4. file.kind = "info"
    BY DEF Run
  <2>5. Len(coord.trees) = 0 => DefaultEarnings * Len(p[3].leaves) <= p[2].count * p[2].amount
    BY <1>1, <1>3, <2>2, <2>4, FirstRoundPaysIn
  <2>6. FundingOK(p, coord)
    BY <1>1, <2>3, <2>5 DEF FundingOK
  <2>7. QED
    BY <1>1, <2>1, <2>6, RunInv DEF FundingInv, FundingOK, WholePlan, FundPlan, RootPlan, Earner
<1>4. QED
  BY <1>2, <1>3 DEF Run

LEMMA UpdaterBroadcast ==
    ASSUME NEW p, NEW c, WholePlan(p), CoordOK(c), FundingOK(p, c)
    PROVE  FundingOK(Tail(p), After(c, Head(p)))
<1>1. PICK updater, fund, root, claim :
          /\ UpdaterLike(updater) /\ FundLike(fund) /\ RootLike(root) /\ ClaimLike(claim)
          /\ p = <<updater, fund, root, claim>>
  BY DEF WholePlan
<1>2. PICK rest, d : rest = Tail(p) /\ d = After(c, Head(p))
  OBVIOUS
<1>3. /\ rest = <<fund, root, claim>> /\ rest[1] = fund /\ rest[2] = root
      /\ Head(p) = updater /\ p[2] = fund /\ p[3] = root /\ Len(rest) = 3
  BY <1>1, <1>2
<1>4. ~WholePlan(rest) /\ ~RootPlan(rest)
  BY <1>3, PlanLengths
<1>5. d.trees = c.trees /\ d.claimed = c.claimed /\ d.funded = c.funded
  BY <1>1, <1>2, <1>3, UpdatedCoord
<1>6. QED
  BY <1>2, <1>3, <1>4, <1>5 DEF FundingOK

LEMMA FundBroadcast ==
    ASSUME NEW p, NEW c, FundPlan(p), CoordOK(c), FundingOK(p, c)
    PROVE  FundingOK(Tail(p), After(c, Head(p)))
<1>1. PICK fund, root, claim : /\ FundLike(fund) /\ RootLike(root) /\ ClaimLike(claim)
                               /\ p = <<fund, root, claim>>
  BY DEF FundPlan
<1>2. PICK rest, d : rest = Tail(p) /\ d = After(c, Head(p))
  OBVIOUS
<1>3. /\ rest = <<root, claim>> /\ rest[1] = root /\ Head(p) = fund
      /\ p[1] = fund /\ p[2] = root /\ Len(rest) = 2
  BY <1>1, <1>2
<1>4. ~WholePlan(rest) /\ ~FundPlan(rest)
  BY <1>3, PlanLengths
<1>5. PICK paid : paid = fund.count * fund.amount
  OBVIOUS
<1>6. paid \in Nat
  BY <1>1, <1>5 DEF FundLike
<1>7. /\ d.trees = c.trees /\ d.claimed = c.claimed /\ d.funded = c.funded + paid
      /\ c.funded \in Nat
  BY <1>1, <1>2, <1>3, <1>5, FundedCoord DEF CoordOK
<1>8. CASE Len(c.trees) = 0
  <2>1. PICK due : due = DefaultEarnings * Len(root.leaves)
    OBVIOUS
  <2>2. due <= paid /\ \A e \in Earners : c.claimed[e] = 0
    BY <1>3, <1>5, <1>8, <2>1 DEF FundingOK
  <2>3. due \in Nat
    <3>1. Len(root.leaves) \in Nat
      BY <1>1, ListLength DEF RootLike, Leafy
    <3>2. QED
      BY <2>1, <3>1, PaymentsAssumption
  <2>4. due <= d.funded
    BY <1>6, <1>7, <2>2, <2>3
  <2>5. QED
    BY <1>2, <1>3, <1>4, <1>7, <1>8, <2>1, <2>2, <2>4 DEF FundingOK
<1>9. CASE Len(c.trees) > 0
  <2>1. PICK due : due = DefaultEarnings * Len(c.trees[1])
    OBVIOUS
  <2>2. due <= c.funded /\ \A e \in Earners : c.claimed[e] # 0 => Earner(c.trees, e)
    BY <1>9, <2>1 DEF FundingOK
  <2>3. due \in Nat
    <3>1. Leafy(c.trees[1])
      BY <1>9, FirstRoot DEF CoordOK
    <3>2. Len(c.trees[1]) \in Nat
      BY <3>1, ListLength DEF Leafy
    <3>3. QED
      BY <2>1, <3>2, PaymentsAssumption
  <2>4. due <= d.funded
    BY <1>6, <1>7, <2>2, <2>3
  <2>5. QED
    BY <1>2, <1>7, <1>9, <2>1, <2>2, <2>4 DEF FundingOK
<1>10. QED
  <2>1. Len(c.trees) \in Nat
    BY CoordTyped
  <2>2. QED
    BY <1>8, <1>9, <2>1

LEMMA RootBroadcast ==
    ASSUME NEW p, NEW c, RootPlan(p), CoordOK(c), FundingOK(p, c)
    PROVE  FundingOK(Tail(p), After(c, Head(p)))
<1>1. PICK root, claim : RootLike(root) /\ ClaimLike(claim) /\ p = <<root, claim>>
  BY DEF RootPlan
<1>2. PICK rest, d : rest = Tail(p) /\ d = After(c, Head(p))
  OBVIOUS
<1>3. Head(p) = root /\ p[1] = root
  BY <1>1
<1>4. ~WholePlan(rest) /\ ~FundPlan(rest) /\ ~RootPlan(rest)
  BY <1>2, PlanTails, NoRootLeft
<1>5. d.trees = Append(c.trees, root.leaves) /\ d.funded = c.funded /\ d.claimed = c.claimed
  BY <1>1, <1>2, <1>3, RootedCoord
<1>6. PICK n \in Nat : n = Len(c.trees)
  BY CoordTyped
<1>7. /\ Len(d.trees) = n + 1 /\ d.trees[n + 1] = root.leaves
      /\ \A k \in 1 .. n : d.trees[k] = c.trees[k]
  BY <1>5, <1>6, ListAppended DEF CoordOK, RootsOf
<1>8. CASE n = 0
  <2>1. d.trees[1] = root.leaves
    BY <1>7, <1>8
  <2>2. DefaultEarnings * Len(root.leaves) <= c.funded /\ \A e \in Earners : c.claimed[e] = 0
    BY <1>3, <1>6, <1>8 DEF FundingOK
  <2>3. Len(d.trees) > 0 /\ Len(d.trees) # 0
    BY <1>6, <1>7
  <2>4. QED
    BY <1>2, <1>5, <2>1, <2>2, <2>3 DEF FundingOK
<1>9. CASE n > 0
  <2>1. d.trees[1] = c.trees[1]
    BY <1>6, <1>7, <1>9
  <2>2. Len(d.trees) > 0 /\ Len(d.trees) # 0 /\ Len(c.trees) > 0
    BY <1>6, <1>7, <1>9
  <2>3. QED
    BY <1>2, <1>5, <2>1, <2>2 DEF FundingOK, Earner
<1>10. QED
  BY <1>6, <1>8, <1>9

LEMMA ClaimBroadcast ==
    ASSUME NEW p, NEW c, ClaimPlan(p), CoordOK(c), FundingOK(p, c), Accepts(c, Head(p))
    PROVE  FundingOK(Tail(p), After(c, Head(p)))
<1>1. PICK claim : ClaimLike(claim) /\ p = <<claim>>
  BY DEF ClaimPlan
<1>2. PICK rest, d : rest = Tail(p) /\ d = After(c, Head(p))
  OBVIOUS
<1>3. Head(p) = claim /\ Accepts(c, claim)
  BY <1>1
<1>4. ~WholePlan(rest) /\ ~FundPlan(rest) /\ ~RootPlan(rest)
  BY <1>2, PlanTails, NoRootLeft
<1>5. /\ d.trees = c.trees /\ d.funded = c.funded
      /\ \A e \in Earners : e # claim.leaf.earner => d.claimed[e] = c.claimed[e]
  BY <1>1, <1>2, <1>3, ClaimedCoord
<1>6. PICK n \in Nat : n = Len(c.trees) /\ n = Len(c.roots)
  BY CoordTyped
<1>7. claim.kind = "claim" /\ claim.rootIndex = 0
  BY <1>1 DEF ClaimLike
<1>8. /\ n > 0
      /\ verifyInclusionKeccak(claim.proof, c.roots[1], claim.leaf, claim.index)
  <2>1. /\ claim.rootIndex < Len(c.roots)
        /\ verifyInclusionKeccak(claim.proof, c.roots[claim.rootIndex + 1], claim.leaf, claim.index)
    BY <1>3, <1>7 DEF Accepts
  <2>2. 0 + 1 = 1
    OBVIOUS
  <2>3. QED
    BY <1>6, <1>7, <2>1, <2>2
<1>9. Earner(c.trees, claim.leaf.earner)
  <2>1. claim.leaf = EarnerLeaf(claim.leaf.earner, DefaultEarnings)
    <3>1. PICK earner, amount, earned :
              /\ claim.leaf = EarnerLeaf(earner, amount)
              /\ claim.tokenProof = generateMerkleProof(<<TokenLeaf(earned)>>, 0)
      BY <1>1 DEF ClaimLike
    <3>2. claim.leaf.earner = earner /\ claim.leaf.earnerTokenRoot = TokenRoot(amount)
      BY <3>1, EarnerLeafIs
    <3>3. verifyInclusionKeccak(claim.tokenProof, claim.leaf.earnerTokenRoot, claim.tokenLeaf, 0)
      BY <1>3, <1>7 DEF Accepts
    <3>4. verifyInclusionKeccak(generateMerkleProof(<<TokenLeaf(earned)>>, 0), TokenRoot(amount),
                                TokenLeaf(DefaultEarnings), 0)
      BY <1>1, <3>1, <3>2, <3>3 DEF ClaimLike
    <3>5. amount = DefaultEarnings
      BY <3>4, TokenProof
    <3>6. QED
      BY <3>1, <3>2, <3>5
  <2>2. Leafy(c.trees[1]) /\ c.roots[1] = merkleizeKeccak(c.trees[1])
    BY <1>6, <1>8, FirstRoot DEF CoordOK
  <2>3. PICK leaves : /\ Leafy(leaves) /\ claim.index \in 0 .. Len(leaves) - 1
                      /\ claim.proof = generateMerkleProof(leaves, claim.index)
    BY <1>1 DEF ClaimLike
  <2>4. claim.leaf.kind = "earnerLeaf"
    BY <1>1 DEF ClaimLike
  <2>5. Put(leaves, claim.index, claim.leaf) = c.trees[1]
    BY <1>8, <2>2, <2>3, <2>4, ProofOfTree
  <2>6. Len(c.trees[1]) = Len(leaves) /\ c.trees[1][claim.index + 1] = claim.leaf
    BY <2>3, <2>5, PutIs DEF Leafy
  <2>7. claim.index + 1 \in 1 .. Len(c.trees[1])
    <3>1. Len(leaves) \in Nat
      BY <2>3, ListLength DEF Leafy
    <3>2. QED
      BY <2>3, <2>6, <3>1
  <2>8. QED
    BY <2>1, <2>6, <2>7, Zenon DEF Earner
<1>10. Len(c.trees) > 0 /\ Len(c.trees) # 0
  BY <1>6, <1>8
<1>11. \A e \in Earners : d.claimed[e] # 0 => Earner(d.trees, e)
  BY <1>5, <1>9, <1>10 DEF FundingOK
<1>12. QED
  BY <1>2, <1>5, <1>10, <1>11 DEF FundingOK

LEMMA BroadcastFunding == FundingInv /\ Broadcast => FundingInv'
<1> SUFFICES ASSUME FundingInv, Broadcast PROVE FundingInv'
  OBVIOUS
<1>1. PICK rest, next : rest = Tail(plan) /\ next = After(coord, Head(plan))
  OBVIOUS
<1>2. /\ Accepts(coord, Head(plan)) /\ plan # <<>> /\ coord' = next /\ plan' = rest
  BY <1>1 DEF Broadcast
<1>3. PaymentsInv /\ CoordOK(coord) /\ PlanInOrder(plan) /\ FundingOK(plan, coord)
  BY DEF FundingInv, PaymentsInv
<1>4. WholePlan(plan) \/ FundPlan(plan) \/ RootPlan(plan) \/ ClaimPlan(plan)
  BY <1>2, <1>3 DEF PlanInOrder
<1>5. FundingOK(rest, next)
  BY <1>1, <1>2, <1>3, <1>4, UpdaterBroadcast, FundBroadcast, RootBroadcast, ClaimBroadcast
<1>6. FundingOK(plan, coord)'
  BY <1>2, <1>5 DEF FundingOK, WholePlan, FundPlan, RootPlan, Earner
<1>7. QED
  BY <1>3, <1>6, BroadcastInv DEF FundingInv

LEMMA OthersFunding == FundingInv /\ (WriteInfo \/ BroadcastStops \/ UNCHANGED vars) => FundingInv'
<1> SUFFICES ASSUME FundingInv, WriteInfo \/ BroadcastStops \/ UNCHANGED vars PROVE FundingInv'
  OBVIOUS
<1>1. coord' = coord /\ (plan' = <<>> \/ plan' = plan)
  BY DEF WriteInfo, BroadcastStops, vars
<1>2. PaymentsInv /\ FundingOK(plan, coord)
  BY DEF FundingInv
<1>3. FundingOK(plan', coord)
  BY <1>1, <1>2, NoRootLeft, PlanDropped
<1>4. FundingOK(plan, coord)'
  BY <1>1, <1>3 DEF FundingOK, WholePlan, FundPlan, RootPlan, Earner
<1>5. QED
  BY <1>2, <1>4, WriteInfoInv, StopsInv DEF FundingInv

LEMMA FundingInvariant == Spec => []FundingInv
<1>1. FundingInv /\ [Next]_vars => FundingInv'
  BY RunFunding, BroadcastFunding, OthersFunding DEF Next
<1>2. QED
  BY <1>1, FundingInit, PTL DEF Spec

(* As many elements as places at most.                                     *)
LEMMA Places ==
    ASSUME NEW n \in Nat, NEW S, NEW f, \A x \in S : \E i \in 1 .. n : f[i] = x
    PROVE  Cardinality(S) \in Nat /\ Cardinality(S) <= n
<1>1. PICK T : T = {f[i] : i \in 1 .. n}
  OBVIOUS
<1>2. IsFiniteSet(1 .. n) /\ Cardinality(1 .. n) = n
  <2>1. Cardinality(1 .. n) = IF 1 > n THEN 0 ELSE n - 1 + 1
    BY FS_Interval
  <2>2. QED
    BY <2>1, FS_Interval
<1>3. IsFiniteSet(T) /\ Cardinality(T) <= n
  <2>1. PICK g : g = [i \in 1 .. n |-> f[i]]
    OBVIOUS
  <2>2. g \in Surjection(1 .. n, T)
    BY <1>1, <2>1 DEF Surjection
  <2>3. QED
    BY <1>2, <2>2, FS_Surjection
<1>4. S \subseteq T
  BY <1>1
<1>5. IsFiniteSet(S) /\ Cardinality(S) <= Cardinality(T)
  BY <1>3, <1>4, FS_Subset
<1>6. Cardinality(S) \in Nat /\ Cardinality(T) \in Nat
  BY <1>3, <1>5, FS_CardinalityType
<1>7. QED
  BY <1>3, <1>5, <1>6

(* Nobody claims more than the 100 of a claim, and all claims together are *)
(* covered by what the rewards submissions paid in, wherever runs are cut  *)
(* short.                                                                  *)
THEOREM ClaimsAreCovered == Spec => []ClaimedIsFunded
<1>1. FundingInv => ClaimedIsFunded
  <2> SUFFICES ASSUME FundingInv PROVE ClaimedIsFunded
    OBVIOUS
  <2>1. CoordOK(coord) /\ FundingOK(plan, coord)
    BY DEF FundingInv, PaymentsInv
  <2>2. \A e \in Claimants : coord.claimed[e] = DefaultEarnings
    BY <2>1, RecordKept, PaymentsAssumption DEF Claimants
  <2>3. coord.funded \in Nat /\ Len(coord.trees) \in Nat
    BY <2>1, CoordTyped
  <2>4. \A e \in Claimants : e \in Earners /\ coord.claimed[e] # 0
    BY DEF Claimants
  <2>5. CASE Len(coord.trees) = 0
    <3>1. Claimants = {}
      BY <2>1, <2>4, <2>5 DEF FundingOK
    <3>2. DefaultEarnings * Cardinality(Claimants) = 0
      BY <3>1, FS_EmptySet, PaymentsAssumption
    <3>3. QED
      BY <2>2, <2>3, <3>2 DEF ClaimedIsFunded
  <2>6. CASE Len(coord.trees) > 0
    <3>1. PICK tree : tree = coord.trees[1]
      OBVIOUS
    <3>2. Leafy(tree) /\ Len(tree) \in Nat
      BY <2>1, <2>6, <3>1, FirstRoot, ListLength DEF CoordOK, Leafy
    <3>3. PICK n \in Nat : n = Len(tree)
      BY <3>2
    <3>4. PICK f : f = [i \in 1 .. n |-> tree[i].earner]
      OBVIOUS
    <3>5. ASSUME NEW e \in Claimants PROVE \E i \in 1 .. n : f[i] = e
      <4>1. PICK i \in 1 .. n : tree[i] = EarnerLeaf(e, DefaultEarnings)
        BY <2>1, <2>4, <2>6, <3>1, <3>3 DEF FundingOK, Earner
      <4>2. tree[i].earner = e
        BY <4>1, EarnerLeafIs
      <4>3. QED
        BY <3>4, <4>2
    <3>6. PICK k \in Nat : k = Cardinality(Claimants) /\ k <= n
      BY <3>5, Places
    <3>7. DefaultEarnings * k <= k * DefaultEarnings /\ DefaultEarnings * n <= coord.funded
      BY <2>1, <2>6, <3>1, <3>3, PaymentsAssumption DEF FundingOK
    <3>8. DefaultEarnings * k <= DefaultEarnings * n
      <4>1. k * DefaultEarnings <= DefaultEarnings * n
        BY <3>6, AtLeast, PaymentsAssumption
      <4>2. QED
        BY <3>6, <3>7, <4>1, PaymentsAssumption
    <3>9. DefaultEarnings * k <= coord.funded
      BY <2>3, <3>6, <3>7, <3>8, PaymentsAssumption
    <3>10. QED
      BY <2>2, <3>6, <3>9 DEF ClaimedIsFunded
  <2>7. QED
    BY <2>3, <2>5, <2>6
<1>2. QED
  BY <1>1, FundingInvariant, PTL

(* All claims that were ever paid are claims of the first round: whoever   *)
(* claimed has a leaf of exactly the 100 in the tree of root 0, for rounds *)
(* of any number of payments and amounts.                                  *)
THEOREM ClaimsAreOfTheFirstRound == Spec => []OnlyTheFirstRoundIsClaimed
<1>1. FundingInv => OnlyTheFirstRoundIsClaimed
  <2> SUFFICES ASSUME FundingInv, NEW e \in Claimants
               PROVE  /\ coord.trees # <<>>
                      /\ \E i \in DOMAIN coord.trees[1] :
                            coord.trees[1][i] = EarnerLeaf(e, DefaultEarnings)
    BY Zenon DEF OnlyTheFirstRoundIsClaimed
  <2>1. CoordOK(coord) /\ FundingOK(plan, coord)
    BY DEF FundingInv, PaymentsInv
  <2>2. RootsOf(coord.roots, coord.trees) /\ Len(coord.trees) \in Nat
    BY <2>1, RecordKept, CoordTyped
  <2>3. e \in Earners /\ coord.claimed[e] # 0
    BY DEF Claimants
  <2>4. Len(coord.trees) > 0 /\ Earner(coord.trees, e)
    BY <2>1, <2>2, <2>3 DEF FundingOK
  <2>5. coord.trees # <<>>
    BY <2>2, <2>4, NoTreesYet
  <2>6. DOMAIN coord.trees[1] = 1 .. Len(coord.trees[1])
    <3>1. Leafy(coord.trees[1])
      BY <2>2, <2>4, FirstRoot
    <3>2. QED
      BY <3>1, LenProperties DEF Leafy, IsList
  <2>7. QED
    BY <2>4, <2>5, <2>6 DEF Earner
<1>2. QED
  BY <1>1, FundingInvariant, PTL
=============================================================================
