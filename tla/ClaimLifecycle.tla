--------------------------- MODULE ClaimLifecycle ---------------------------
(***************************************************************************)
(* What the system promises of a claim, without processes, wallets or      *)
(* transactions: claims are numbered one after the other, and each         *)
(* operator decides a claim at most once.  A rejection is one step; an     *)
(* acceptance is two, because the pool must have approved the spending     *)
(* before the claim is answered with it.                                   *)
(***************************************************************************)
EXTENDS Integers

CONSTANTS Operators, ClaimNumbers

VARIABLES
    created,    \* number of claims created
    outcome     \* operator -> claim number -> what the operator decided

lifecycleVars == <<created, outcome>>

Outcomes == {"open", "spendable", "accepted", "rejected"}

Init ==
    /\ created = 0
    /\ outcome = [o \in Operators |-> [i \in ClaimNumbers |-> "open"]]

Create ==
    /\ created + 1 \in ClaimNumbers
    /\ created' = created + 1
    /\ UNCHANGED outcome

Decide(o, i, from, to) ==
    /\ i < created
    /\ outcome[o][i] = from
    /\ outcome' = [outcome EXCEPT ![o][i] = to]
    /\ UNCHANGED created

ApproveSpending(o, i) == Decide(o, i, "open", "spendable")
Accept(o, i) == Decide(o, i, "spendable", "accepted")
Reject(o, i) == Decide(o, i, "open", "rejected")

Next ==
    \/ Create
    \/ \E o \in Operators, i \in ClaimNumbers :
          ApproveSpending(o, i) \/ Accept(o, i) \/ Reject(o, i)

Spec == Init /\ [][Next]_lifecycleVars
=============================================================================
