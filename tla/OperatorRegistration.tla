------------------------ MODULE OperatorRegistration ------------------------
(***************************************************************************)
(* How one operator process comes up: registerOperator and main of         *)
(* operator/index.ts (program = "ts") and of start_operator.rs             *)
(* (program = "rust").  Two transactions register the operator, first at   *)
(* the DelegationManager and then, with a signature that expires, at the   *)
(* ECDSAStakeRegistry; the process may die anywhere between, and what it   *)
(* broadcast may be mined later.  The EigenLayer contracts, the node and   *)
(* the library call register_as_operator are external.                     *)
(***************************************************************************)
EXTENDS Integers, Sequences

CONSTANTS
    Programs,       \* a subset of {"ts", "rust"}: one of them is run
    Faults,         \* a subset of {"rpc", "crash", "expiry", "deregister"}
    MaxStarts       \* bound on the starts of the process

ASSUME RegistrationAssumption ==
    /\ Programs \subseteq {"ts", "rust"}
    /\ MaxStarts \in Nat

VARIABLES
    program,            \* which program it is
    pc,                 \* where the process is
    starts,             \* number of starts of the process
    coreRegistered,     \* isOperator of the DelegationManager
    avsRegistered,      \* operatorRegistered of the ECDSAStakeRegistry
    mempool,            \* transactions broadcast and not mined, in order
    receipt,            \* of the transaction the process waits for
    estimatesOn,        \* the state the node estimates on, "latest" or "pending"
    hindered,           \* history: the start in which a crash, a failed request
                        \* or an expired signature last hindered the process
    removed             \* history: the operator left the registry while the
                        \* process of this start listened on it

chainVars == <<coreRegistered, avsRegistered>>
vars == <<program, pc, starts, chainVars, mempool, receipt, estimatesOn, hindered, removed>>

WaitSteps == {"coreWait", "avsWait"}
Tx(kind) == [kind |-> kind, start |-> starts]

Init ==
    /\ program \in Programs
    /\ pc = "down"
    /\ starts = 0
    /\ coreRegistered = FALSE
    /\ avsRegistered = FALSE
    /\ mempool = <<>>
    /\ receipt = "none"
    /\ estimatesOn \in {"latest", "pending"}
    /\ hindered = 0
    /\ removed = FALSE

----------------------------------------------------------------------------
(* The chain.  An operator is registered once at the DelegationManager,    *)
(* and then once at the stake registry.                                    *)
Accepted(kind) ==
    IF kind = "core" THEN ~coreRegistered ELSE coreRegistered /\ ~avsRegistered

(* A registration with a signature is too late after its expiry.           *)
MineTx ==
    LET tx == Head(mempool)
    IN  /\ mempool # <<>>
        /\ mempool' = Tail(mempool)
        /\ \E inTime \in IF tx.kind = "avs" /\ "expiry" \in Faults THEN BOOLEAN ELSE {TRUE} :
              LET done == Accepted(tx.kind) /\ inTime
              IN  /\ coreRegistered' = (coreRegistered \/ (done /\ tx.kind = "core"))
                  /\ avsRegistered' = (avsRegistered \/ (done /\ tx.kind = "avs"))
                  /\ receipt' = IF receipt = "pending" /\ tx.start = starts
                                   /\ pc = (IF tx.kind = "core" THEN "coreWait" ELSE "avsWait")
                                THEN IF done THEN "ok" ELSE "reverted"
                                ELSE receipt
                  /\ hindered' = IF inTime \/ tx.start # starts THEN hindered ELSE starts
        /\ UNCHANGED <<program, pc, starts, estimatesOn, removed>>

(* The TypeScript program listens from the receipt of its registration on. *)
Listens ==
    /\ program = "ts"
    /\ pc = "monitoring" \/ (pc = "avsWait" /\ receipt = "ok")

(* The operator leaves the registry, by a call from outside src/ and at    *)
(* any time: the process is not told.                                      *)
Deregister ==
    /\ "deregister" \in Faults
    /\ avsRegistered
    /\ avsRegistered' = FALSE
    /\ removed' = (removed \/ Listens)
    /\ UNCHANGED <<program, pc, starts, coreRegistered, mempool, receipt, estimatesOn,
                   hindered>>

----------------------------------------------------------------------------
Start ==
    /\ pc = "down"
    /\ starts < MaxStarts
    /\ starts' = starts + 1
    /\ pc' = "core"
    /\ removed' = FALSE
    /\ UNCHANGED <<program, chainVars, mempool, receipt, estimatesOn, hindered>>

Crash ==
    /\ "crash" \in Faults
    /\ pc # "down"
    /\ pc' = "down"
    /\ receipt' = "none"
    /\ hindered' = starts
    /\ UNCHANGED <<program, starts, chainVars, mempool, estimatesOn, removed>>

Leave(next) ==
    /\ pc' = next
    /\ receipt' = "none"
    /\ UNCHANGED <<program, starts, chainVars, estimatesOn, removed>>

Goto(next) == Leave(next) /\ UNCHANGED hindered

(* Any request to the node may fail.                                       *)
RequestFails(next) == "rpc" \in Faults /\ Leave(next) /\ hindered' = starts

(* A call is estimated before it is sent, and not sent when it reverts.    *)
(* Nodes differ in whether they estimate it on the latest block or after   *)
(* the transactions that are pending.                                      *)
Pending(kind) == \E k \in 1 .. Len(mempool) : mempool[k].kind = kind
Estimated(kind, done) == done \/ (estimatesOn = "pending" /\ Pending(kind))

EstimatePasses(kind) ==
    IF kind = "core" THEN ~Estimated("core", coreRegistered)
    ELSE Estimated("core", coreRegistered) /\ ~Estimated("avs", avsRegistered)

Send(kind, wait) ==
    /\ mempool' = Append(mempool, Tx(kind))
    /\ pc' = wait
    /\ receipt' = "pending"
    /\ UNCHANGED <<program, starts, chainVars, estimatesOn, hindered, removed>>

(* The node takes the transaction, its answer is lost, the call throws.    *)
SendUnheard(kind, next) ==
    /\ mempool' = Append(mempool, Tx(kind))
    /\ RequestFails(next)

(* index.ts catches the failure of the first registration and goes on;     *)
(* start_operator.rs returns it from main.  The wallet may be registered   *)
(* already: is_operator_registered is asked and its answer not used.       *)
AfterCoreFailureUncaught == "down"    \* mutant: without the try of index.ts

AfterCoreFailure == IF program = "ts" THEN "sign" ELSE "down"

CallCoreIfRegistered ==    \* mutant: is_registered is used, the wrong way round
    /\ pc = "core"
    /\ \/ coreRegistered /\ Send("core", "coreWait")
       \/ ~coreRegistered /\ Goto("down") /\ UNCHANGED mempool

CallCore ==
    /\ pc = "core"
    /\ \/ EstimatePasses("core") /\ Send("core", "coreWait")
       \/ /\ \/ ~EstimatePasses("core") /\ Goto(AfterCoreFailure)
             \/ RequestFails(AfterCoreFailure)
          /\ UNCHANGED mempool
       \/ SendUnheard("core", AfterCoreFailure)

(* Whether the library tells the Rust program of a reverted registration   *)
(* is not known here: both are allowed.                                    *)
CoreReceiptKept ==    \* mutant: the handle of the transaction is not let go
    /\ pc = "coreWait"
    /\ receipt = "ok"
    /\ pc' = "sign"
    /\ UNCHANGED <<program, starts, chainVars, mempool, receipt, estimatesOn, hindered,
                   removed>>

CoreReceipt ==
    /\ pc = "coreWait"
    /\ \/ receipt = "ok" /\ Goto("sign")
       \/ receipt = "reverted" /\ Goto(AfterCoreFailure)
       \/ receipt = "reverted" /\ program = "rust" /\ Goto("sign")
       \/ RequestFails(AfterCoreFailure)
    /\ UNCHANGED mempool

(* The digest is asked of the AVSDirectory; a failure ends both programs.  *)
Sign ==
    /\ pc = "sign"
    /\ Goto("avs") \/ RequestFails("down")
    /\ UNCHANGED mempool

(* The Rust program gives the gas itself, so that nothing is estimated.    *)
CallAvs ==
    /\ pc = "avs"
    /\ \/ (EstimatePasses("avs") \/ program = "rust") /\ Send("avs", "avsWait")
       \/ /\ \/ ~EstimatePasses("avs") /\ program = "ts" /\ Goto("down")
             \/ RequestFails("down")
          /\ UNCHANGED mempool
       \/ SendUnheard("avs", "down")

(* Mutant: the second failure is caught like the first one.                *)
AvsReceiptTsCaught == receipt \in {"ok", "reverted"} /\ Goto("monitoring")

(* wait() of ethers throws for a reverted transaction, and main gives up.  *)
AvsReceiptTs ==
    \/ receipt = "ok" /\ Goto("monitoring")
    \/ receipt = "reverted" /\ Goto("down")

(* get_receipt() returns the receipt of a reverted transaction as well,    *)
(* and only its hash is used.                                              *)
AvsReceiptRust == receipt \in {"ok", "reverted"} /\ Goto("monitoring")

AvsReceiptUnawaited ==    \* mutant: the process does not wait
    /\ pc = "avsWait"
    /\ Goto("monitoring")
    /\ UNCHANGED mempool

AvsReceipt ==
    /\ pc = "avsWait"
    /\ \/ program = "ts" /\ AvsReceiptTs
       \/ program = "rust" /\ AvsReceiptRust
       \/ RequestFails("down")
    /\ UNCHANGED mempool

ProcessStep == CallCore \/ CoreReceipt \/ Sign \/ CallAvs \/ AvsReceipt

Next == Start \/ Crash \/ ProcessStep \/ MineTx \/ Deregister

Spec == Init /\ [][Next]_vars

(* A process that runs goes on, and the chain mines what it was given;     *)
(* nobody has to start a process that is down.                             *)
FairSpec == Spec /\ WF_vars(ProcessStep) /\ WF_vars(MineTx)

----------------------------------------------------------------------------
(* The state holds values of their types, and the process waits for a      *)
(* receipt exactly where it sent a transaction.                            *)
TypeOK ==
    /\ program \in Programs
    /\ pc \in {"down", "core", "coreWait", "sign", "avs", "avsWait", "monitoring"}
    /\ starts \in 0 .. MaxStarts
    /\ coreRegistered \in BOOLEAN
    /\ avsRegistered \in BOOLEAN
    /\ mempool \in Seq([kind: {"core", "avs"}, start: 1 .. MaxStarts])
    /\ receipt \in {"none", "pending", "ok", "reverted"}
    /\ estimatesOn \in {"latest", "pending"}
    /\ hindered \in 0 .. MaxStarts
    /\ removed \in BOOLEAN
    /\ (receipt # "none") <=> (pc \in WaitSteps)

(* The TypeScript program listens only after wait() returned for the       *)
(* second registration (index.ts:226, 250): a process of it that listens   *)
(* is registered, however its transactions and those of its predecessors   *)
(* were mined, until the operator leaves the registry behind its back.     *)
(* The Rust program does not look whether its transaction was reverted     *)
(* (start_operator.rs:217), and this does not hold of it.                  *)
MonitorsOnlyWhenRegistered ==
    program = "ts" /\ pc = "monitoring" => avsRegistered \/ removed

(* When a process listens, nothing its wallet ever broadcast is still to   *)
(* be mined, not even a transaction whose answer was lost or one of a      *)
(* start before: what comes later from the wallet is an answer, the nonces *)
(* of the answers have no gap, and no late transaction puts an operator    *)
(* back on the registry that has left it.                                  *)
NothingLeftPending ==
    pc = "monitoring" => mempool = <<>>

(* An operator nobody has registered, and whose wallet has sent nothing,   *)
(* comes to listen, unless something from outside hinders it.              *)
FreshRegistrationMonitors ==
    \A n \in 1 .. MaxStarts :
        (pc = "core" /\ starts = n /\ ~coreRegistered /\ ~avsRegistered /\ mempool = <<>>)
        ~> (pc = "monitoring" \/ hindered = n)

(* A registration that was cut in two heals: a TypeScript process that is  *)
(* started when the operator is not on the stake registry, and nothing is  *)
(* about to put it there, comes to listen, whatever became of the first of *)
(* its registrations, unless something hinders it again.                   *)
PartialRegistrationHeals ==
    \A n \in 1 .. MaxStarts :
        ( /\ program = "ts"
          /\ pc = "core" /\ starts = n
          /\ ~avsRegistered
          /\ \A k \in 1 .. Len(mempool) : mempool[k].kind = "core" )
        ~> (pc = "monitoring" \/ hindered = n)

(* README.md:13 "All Operators who are registered to the AVS and has       *)
(* staked, delegated assets takes this request": a started process comes   *)
(* to listen, unless something from outside hinders it.                    *)
StartedOperatorMonitors ==
    \A n \in 1 .. MaxStarts :
        (pc = "core" /\ starts = n) ~> (pc = "monitoring" \/ hindered = n)

----------------------------------------------------------------------------
Presence == INSTANCE OperatorPresence WITH
    Operators <- {"self"},
    registered <- [o \in {"self"} |-> avsRegistered],
    monitoring <- [o \in {"self"} |-> Listens]

(* The TypeScript process in all its steps is an operator that begins to   *)
(* listen when its own registration is mined, and at no other time.        *)
ImplementsPresence == Presence!Spec
=============================================================================
