--------------------------- MODULE MCRegistration ---------------------------
(* The start of one operator process on small bounds. *)
EXTENDS OperatorRegistration
=============================================================================
