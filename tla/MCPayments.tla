----------------------------- MODULE MCPayments -----------------------------
(* The payment script on rounds of up to three payments, and the Merkle     *)
(* trees of all arrays of leaves up to a length.                            *)
EXTENDS SetupPayments, LeafArrays

(* Either the script is at work, or the array grows.                       *)
MCInit == Init /\ array = <<>>
MCNext ==
    \/ array = <<>> /\ Next /\ UNCHANGED array
    \/ rounds = 0 /\ Grow /\ UNCHANGED vars
MCSpec == MCInit /\ [][MCNext]_<<vars, array>>
=============================================================================
