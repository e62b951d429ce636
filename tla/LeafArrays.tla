----------------------------- MODULE LeafArrays -----------------------------
(***************************************************************************)
(* The arrays of leaves that createPaymentRoot fills one leaf after the    *)
(* other (SetupPaymentsLib.sol:96-115), equal leaves included, and what    *)
(* the trees over them promise.                                            *)
(***************************************************************************)
EXTENDS MerkleTree

CONSTANTS
    LeafNames,      \* distinguishes leaves
    MaxLeaves       \* bound on the length of the array

VARIABLE array      \* the leaves so far

Leaf(name) == [kind |-> "leaf", name |-> name]

Grow ==
    /\ Len(array) < MaxLeaves
    /\ \E name \in LeafNames : array' = Append(array, Leaf(name))

ArraySpec == array = <<>> /\ [][Grow]_array

(* SetupPaymentsLib.t.sol:132 for one array of four leaves, here for every *)
(* array: the proof generateMerkleProof makes of a leaf verifies at the    *)
(* index of that leaf against the root merkleizeKeccak makes, although the *)
(* two pad and hash on their own (SetupPaymentsLib.sol:181, 232); and for  *)
(* another leaf it does not.                                               *)
ProofsVerify ==
    \A i \in 0 .. Len(array) - 1 :
        \A leaf \in {Leaf(name) : name \in LeafNames} :
            verifyInclusionKeccak(generateMerkleProof(array, i),
                                  merkleizeKeccak(array), leaf, i)
            <=> leaf = array[i + 1]

(* Padding (SetupPaymentsLib.sol:257-268) does not make the trees of an    *)
(* array and of a prefix of it the same: a root tells how many payments    *)
(* there were.                                                             *)
RootTellsHowManyLeaves ==
    \A n \in 0 .. Len(array) - 1 :
        merkleizeKeccak(SubSeq(array, 1, n)) # merkleizeKeccak(array)
=============================================================================
