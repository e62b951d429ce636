-------------------------- MODULE OperatorPresence --------------------------
(***************************************************************************)
(* What the system promises of the operators on the registry: an operator  *)
(* begins to listen for claims only at the moment it is registered, once   *)
(* for every registration, and is not registered again while it listens.   *)
(* It may leave the registry at any time, and listens on.                  *)
(***************************************************************************)
CONSTANT Operators

VARIABLES
    registered,     \* operator -> it is on the ECDSAStakeRegistry
    monitoring      \* operator -> it listens

presenceVars == <<registered, monitoring>>

Init ==
    /\ registered = [o \in Operators |-> FALSE]
    /\ monitoring = [o \in Operators |-> FALSE]

(* An operator that dies before it hears of its registration is registered *)
(* and does not listen.                                                    *)
Join(o, listens) ==
    /\ ~registered[o] /\ ~monitoring[o]
    /\ registered' = [registered EXCEPT ![o] = TRUE]
    /\ monitoring' = [monitoring EXCEPT ![o] = listens]

Stop(o) ==
    /\ monitoring[o]
    /\ monitoring' = [monitoring EXCEPT ![o] = FALSE]
    /\ UNCHANGED registered

Leave(o) ==
    /\ registered[o]
    /\ registered' = [registered EXCEPT ![o] = FALSE]
    /\ UNCHANGED monitoring

Next ==
    \E o \in Operators :
        \/ \E listens \in BOOLEAN : Join(o, listens)
        \/ Stop(o)
        \/ Leave(o)

Spec == Init /\ [][Next]_presenceVars
=============================================================================
