----------------------------- MODULE MerkleTree -----------------------------
(***************************************************************************)
(* The Merkle trees of SetupPaymentsLib.sol: padLeaves, merkleizeKeccak    *)
(* and generateMerkleProof, with a hash that keeps what was hashed, so     *)
(* that two hashes are equal only when their arguments are.  Indices of    *)
(* leaves count from 0 as in the code, sequences from 1.  What the rewards *)
(* coordinator does with a proof (Merkle.sol of EigenLayer) is external.   *)
(***************************************************************************)
EXTENDS Integers, Sequences

Zero == [kind |-> "zero"]       \* bytes32(0), what Solidity fills arrays with
Keccak(l, r) == [kind |-> "node", left |-> l, right |-> r]

Shifted[k \in Nat] ==           \* 1 << k
    IF k = 0 THEN 1 ELSE 2 * Shifted[k - 1]

(* Trees have at least two leaves.                                         *)
Depth(n) == CHOOSE d \in 1 .. n + 1 : Shifted[d] >= n /\ \A e \in 1 .. d - 1 : Shifted[e] < n

(* Mutant: fills up with the last leaf instead of zeros.                   *)
padLeavesRepeating(leaves) ==
    [i \in 1 .. Shifted[Depth(Len(leaves))] |->
        IF leaves = <<>> THEN Zero
        ELSE IF i <= Len(leaves) THEN leaves[i] ELSE leaves[Len(leaves)]]

padLeaves(leaves) ==
    [i \in 1 .. Shifted[Depth(Len(leaves))] |-> IF i <= Len(leaves) THEN leaves[i] ELSE Zero]

(* The layer above in an array of its own: the hashes of neighbours.       *)
HashPairs(layer) ==
    [i \in 1 .. Len(layer) \div 2 |-> Keccak(layer[2 * i - 1], layer[2 * i])]

(* The first count places of an array, overwritten one after the other     *)
(* with the hashes of neighbours in the same array.  The length of a       *)
(* padded array is a power of two: no node is without a neighbour.         *)
OverwrittenBackwards(array, count) ==    \* mutant: the last place comes first
    LET after[j \in 0 .. count] ==
            IF j = 0 THEN array
            ELSE LET before == after[j - 1]
                     i == count + 1 - j
                 IN  [before EXCEPT ![i] = Keccak(before[2 * i - 1], before[2 * i])]
    IN  after[count]

Overwritten(array, count) ==
    LET after[j \in 0 .. count] ==
            IF j = 0 THEN array
            ELSE LET before == after[j - 1]
                 IN  [before EXCEPT ![j] = Keccak(before[2 * j - 1], before[2 * j])]
    IN  after[count]

(* An array of 1 << d nodes after each round, of which only the first half *)
(* of what the round before it wrote is written.                           *)
Rounds(array, d) ==
    LET arrays[k \in 0 .. d] ==
            IF k = 0 THEN array ELSE Overwritten(arrays[k - 1], Shifted[d - k])
    IN  arrays

(* The leaves are hashed into a new array, and that is overwritten.        *)
merkleizeKeccak(leaves) ==
    LET d == Depth(Len(leaves)) - 1
    IN  Rounds(HashPairs(padLeaves(leaves)), d)[d][1]

(* generateMerkleProof reverts for an index that is not of a leaf.         *)
ProofExists(leaves, index) == index < Len(leaves)

Sibling(index) == IF index % 2 = 0 THEN index + 1 ELSE index - 1

(* The index on each layer on the way up.                                  *)
Way(index) ==
    LET up[k \in Nat] == IF k = 0 THEN index ELSE up[k - 1] \div 2
    IN  up

generateMerkleProof(leaves, index) ==
    LET d == Depth(Len(leaves))
        arrays == Rounds(padLeaves(leaves), d)
    IN  [i \in 1 .. d |-> arrays[i - 1][Sibling(Way(index)[i - 1]) + 1]]

(* What a leaf hashes up to with the siblings of a proof, on the side its  *)
(* index says.                                                             *)
HashedUp(proof, leaf, index) ==
    LET hash[k \in Nat] ==
            IF k = 0 THEN leaf
            ELSE IF Way(index)[k - 1] % 2 = 0 THEN Keccak(hash[k - 1], proof[k])
                                              ELSE Keccak(proof[k], hash[k - 1])
    IN  hash

(* Merkle.verifyInclusionKeccak: the proof is not empty, the index is one  *)
(* of the tree the proof is deep enough for, and what the leaf hashes up   *)
(* to is the root.                                                         *)
verifyInclusionKeccak(proof, root, leaf, index) ==
    /\ proof # <<>>
    /\ index < Shifted[Len(proof)]
    /\ HashedUp(proof, leaf, index)[Len(proof)] = root
=============================================================================
