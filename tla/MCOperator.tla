----------------------------- MODULE MCOperator -----------------------------
(* Small instances of ClaimOperator: the uris of the proofs the operators   *)
(* upload, and the empty one.                                               *)
EXTENDS ClaimOperator

MCProofUris == {NoUri} \cup {<<o, i>> : o \in Operators, i \in 0 .. Uint32Size - 1}
=============================================================================
