--------------------------- MODULE MCTaskMonitor ---------------------------
(* Small instances of TaskMonitor. *)
EXTENDS TaskMonitor
=============================================================================
