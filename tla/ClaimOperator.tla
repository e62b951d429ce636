--------------------------- MODULE ClaimOperator ---------------------------
(***************************************************************************)
(* The operator process operator/index.ts composed with the contract it    *)
(* answers.  An `await' hands control back to the event loop, so a handler *)
(* of a NewClaimCreated event is a sequence of actions, one per await, and *)
(* the handlers of several claims interleave.  All handlers of an operator *)
(* share one wallet: ethers first reads the nonce of a transaction         *)
(* (getTransactionCount "pending"), and signs and broadcasts it after      *)
(* further awaits.  The node, the proof service (zkFetch, verifyProof) and *)
(* the storage service (pinata) are external.                              *)
(***************************************************************************)
EXTENDS InsuranceServiceManager

CONSTANTS
    Faults,         \* which external faults may occur, a subset of AllFaults
    ProofResults,   \* what zkFetch and verifyProof may find, a subset of AllProofResults
    MaxCrashes      \* bound on the crashes of an operator

AllFaults == {"inputs", "proof", "revert", "rpc", "crash"}
AllProofResults == {"missing", "invalid", "valid"}

(* The uri pinata gives the proof an operator made for a claim. *)
ProofUri(o, i) == <<o, i>>

ASSUME OperatorAssumption ==
    /\ Faults \subseteq AllFaults
    /\ ProofResults \subseteq AllProofResults
    /\ MaxCrashes \in Nat
    /\ \A o \in Operators, i \in Uint32 : ProofUri(o, i) \in ProofUris \ {NoUri}

VARIABLES
    monitoring,     \* operator -> its process runs and listens for events
    registered,     \* operator -> it is registered at the ECDSAStakeRegistry
    crashes,        \* operator -> number of crashes
    inbox,          \* operator -> claim numbers whose event is not handled yet
    handler,        \* operator -> claim number -> state of signAndRespondToClaim
    minedNonce,     \* operator -> number of transactions mined for its wallet
    mempool,        \* operator -> transactions broadcast and not mined, by nonce
    evidence        \* history: operator -> claim number -> what was established

processVars == <<monitoring, registered, crashes, inbox>>
walletVars == <<minedNonce, mempool>>
vars == <<contractVars, processVars, handler, walletVars, evidence>>

(* A handler: where it is, its two local variables that are set on the     *)
(* way, and the transaction it is busy with.                               *)
Idle == [pc |-> "idle", isApproved |-> FALSE, proofUri |-> NoUri,
         fn |-> "none", nonce |-> 0, receipt |-> "none"]

ProofSteps == {"inputs", "fetch", "verify", "upload", "test"}
TxSteps == {"populate", "send", "wait"}
Settled == {"answered", "failed", "abandoned"}
Facts == {"verified", "uploaded", "matched"}

Running(o, i) == handler[o][i].pc \in ProofSteps \cup TxSteps

(* The claim a handler passes on: the one of its event, completed.         *)
LatestClaimAnnounced(i) == newClaimEvents[Len(newClaimEvents)].claim    \* mutant: not its own
ClaimOfEvent(i) == newClaimEvents[i + 1].claim
Answer(o, i) ==
    [ClaimOfEvent(i) EXCEPT !.isApproved = handler[o][i].isApproved,
                            !.proofUri = handler[o][i].proofUri]

Become(o, i, h) == handler' = [handler EXCEPT ![o][i] = h]

(* getTransactionCount("pending") *)
NextNonce(o) == minedNonce[o] + Len(mempool[o])

Init ==
    /\ ContractInit
    /\ monitoring = [o \in Operators |-> FALSE]
    /\ registered = [o \in Operators |-> FALSE]
    /\ crashes = [o \in Operators |-> 0]
    /\ inbox = [o \in Operators |-> <<>>]
    /\ handler = [o \in Operators |-> [i \in Uint32 |-> Idle]]
    /\ minedNonce = [o \in Operators |-> 0]
    /\ mempool = [o \in Operators |-> <<>>]
    /\ evidence = [o \in Operators |-> [i \in Uint32 |-> {}]]

----------------------------------------------------------------------------
(* main: register, then subscribe.  The registration of a wallet that is   *)
(* registered already reverts, and main gives up before it subscribes.     *)
Start(o) ==
    /\ ~monitoring[o]
    /\ ~registered[o]
    /\ registered' = [registered EXCEPT ![o] = TRUE]
    /\ monitoring' = [monitoring EXCEPT ![o] = TRUE]
    /\ UNCHANGED <<contractVars, crashes, inbox, handler, walletVars, evidence>>

(* The process dies: what it had in memory is gone, what it broadcast and  *)
(* what the chain knows of it stays.                                       *)
Crash(o) ==
    /\ "crash" \in Faults
    /\ monitoring[o]
    /\ crashes[o] < MaxCrashes
    /\ crashes' = [crashes EXCEPT ![o] = @ + 1]
    /\ monitoring' = [monitoring EXCEPT ![o] = FALSE]
    /\ inbox' = [inbox EXCEPT ![o] = <<>>]
    /\ handler' = [handler EXCEPT ![o] = [i \in Uint32 |-> Idle]]
    /\ UNCHANGED <<contractVars, registered, walletVars, evidence>>

(* The operator leaves the registry, by a call from outside src/ and at    *)
(* any time: a process that listens is not told.                           *)
Deregister(o) ==
    /\ registered[o]
    /\ registered' = [registered EXCEPT ![o] = FALSE]
    /\ UNCHANGED <<contractVars, monitoring, crashes, inbox, handler, walletVars, evidence>>

(* A claim is created; the event reaches the operators that listen.        *)
ClaimCreated(pool, insured, amount, index) ==
    /\ CreateNewClaim(pool, insured, amount, index)
    /\ inbox' = [o \in Operators |->
                    IF monitoring[o] THEN Append(inbox[o], latestClaimNum) ELSE inbox[o]]
    /\ UNCHANGED <<monitoring, registered, crashes, handler, walletVars, evidence>>

(* The listener of monitorNewClaims starts a handler and does not wait for *)
(* the ones before it.                                                     *)
Deliver(o) ==
    /\ inbox[o] # <<>>
    /\ inbox' = [inbox EXCEPT ![o] = Tail(@)]
    /\ Become(o, Head(inbox[o]), [Idle EXCEPT !.pc = "inputs"])
    /\ UNCHANGED <<contractVars, monitoring, registered, crashes, walletVars, evidence>>

----------------------------------------------------------------------------
(* The steps of signAndRespondToClaim.                                     *)
Unshared == UNCHANGED <<contractVars, processVars, walletVars>>

Goto(o, i, pc) == Become(o, i, [handler[o][i] EXCEPT !.pc = pc])

(* The end of the inner try: `fn' is the first transaction to be sent.     *)
DecideWithoutSpending(o, i, isApproved) ==    \* mutant: approveClaimSpending left out
    Become(o, i, [handler[o][i] EXCEPT
        !.pc = "populate", !.isApproved = isApproved, !.fn = "respondToClaim"])

Decide(o, i, isApproved) ==
    Become(o, i, [handler[o][i] EXCEPT
        !.pc = "populate",
        !.isApproved = isApproved,
        !.fn = IF isApproved THEN "approveClaimSpending" ELSE "respondToClaim"])

Establish(o, i, fact) == evidence' = [evidence EXCEPT ![o][i] = @ \cup {fact}]

(* Sign, read the getters of the pool, decrypt and convert.  The getters   *)
(* of an address without code cannot be decoded.                           *)
GatherInputs(o, i) ==
    /\ handler[o][i].pc = "inputs"
    /\ \/ ClaimOfEvent(i).pool \in Pools /\ Goto(o, i, "fetch")
       \/ (ClaimOfEvent(i).pool \notin Pools \/ "inputs" \in Faults) /\ Goto(o, i, "failed")
    /\ UNCHANGED evidence
    /\ Unshared

FetchProof(o, i) ==
    /\ handler[o][i].pc = "fetch"
    /\ \/ ProofResults \cap {"invalid", "valid"} # {} /\ Goto(o, i, "verify")
       \/ ("missing" \in ProofResults \/ "proof" \in Faults) /\ Decide(o, i, FALSE)
    /\ UNCHANGED evidence
    /\ Unshared

(* An invalid proof ends the handler: nothing is answered. *)
VerifyProofAndGoOn(o, i) ==    \* mutant: no return for an invalid proof
    /\ handler[o][i].pc = "verify"
    /\ \/ "valid" \in ProofResults /\ Goto(o, i, "upload") /\ Establish(o, i, "verified")
       \/ "invalid" \in ProofResults /\ Goto(o, i, "upload") /\ UNCHANGED evidence
       \/ "proof" \in Faults /\ Decide(o, i, FALSE) /\ UNCHANGED evidence
    /\ Unshared

VerifyProof(o, i) ==
    /\ handler[o][i].pc = "verify"
    /\ \/ "valid" \in ProofResults /\ Goto(o, i, "upload") /\ Establish(o, i, "verified")
       \/ "invalid" \in ProofResults /\ Goto(o, i, "abandoned") /\ UNCHANGED evidence
       \/ "proof" \in Faults /\ Decide(o, i, FALSE) /\ UNCHANGED evidence
    /\ Unshared

UploadProof(o, i) ==
    /\ handler[o][i].pc = "upload"
    /\ \/ /\ Become(o, i, [handler[o][i] EXCEPT !.pc = "test", !.proofUri = ProofUri(o, i)])
          /\ Establish(o, i, "uploaded")
       \/ "proof" \in Faults /\ Decide(o, i, FALSE) /\ UNCHANGED evidence
    /\ Unshared

(* The regular expression may match, not match, or be no expression; the   *)
(* last two reject the claim, with the uri of its proof.                   *)
TestValue(o, i) ==
    /\ handler[o][i].pc = "test"
    /\ \/ Decide(o, i, TRUE) /\ Establish(o, i, "matched")
       \/ Decide(o, i, FALSE) /\ UNCHANGED evidence
    /\ Unshared

----------------------------------------------------------------------------
(* Sending a transaction.  populateTransaction reads the nonce and         *)
(* estimates the gas; the estimation of a call that reverts throws.        *)
PopulateBelow(o, i) ==    \* mutant: a nonce of -1 for the first transaction
    /\ handler[o][i].pc = "populate"
    /\ \/ Become(o, i, [handler[o][i] EXCEPT !.pc = "send", !.nonce = NextNonce(o) - 1])
       \/ "revert" \in Faults /\ Goto(o, i, "failed")
    /\ UNCHANGED evidence
    /\ Unshared

Populate(o, i) ==
    /\ handler[o][i].pc = "populate"
    /\ \/ Become(o, i, [handler[o][i] EXCEPT !.pc = "send", !.nonce = NextNonce(o)])
       \/ "revert" \in Faults /\ Goto(o, i, "failed")
    /\ UNCHANGED evidence
    /\ Unshared

Tx(o, i) == [fn |-> handler[o][i].fn, claimIndex |-> i, claim |-> Answer(o, i)]

Sent(o, i) ==
    [handler[o][i] EXCEPT !.pc = "wait", !.nonce = 0, !.receipt = "pending"]

(* The node takes a transaction with the next nonce. *)
Broadcast(o, i) ==
    /\ handler[o][i].pc = "send"
    /\ handler[o][i].nonce = NextNonce(o)
    /\ mempool' = [mempool EXCEPT ![o] = Append(@, Tx(o, i))]
    /\ Become(o, i, Sent(o, i))
    /\ UNCHANGED <<contractVars, processVars, minedNonce, evidence>>

(* The same, but the answer of the node is lost and the call throws. *)
BroadcastUnheard(o, i) ==
    /\ "rpc" \in Faults
    /\ handler[o][i].pc = "send"
    /\ handler[o][i].nonce = NextNonce(o)
    /\ mempool' = [mempool EXCEPT ![o] = Append(@, Tx(o, i))]
    /\ Goto(o, i, "failed")
    /\ UNCHANGED <<contractVars, processVars, minedNonce, evidence>>

(* Another handler used the nonce in the meantime: the node refuses the    *)
(* transaction, the call throws and the handler gives up.                  *)
BroadcastRefusedForEver(o, i) ==    \* mutant: the refused transaction is sent again
    /\ handler[o][i].pc = "send"
    /\ handler[o][i].nonce < NextNonce(o)
    /\ Goto(o, i, "send")
    /\ UNCHANGED evidence
    /\ Unshared

BroadcastRefused(o, i) ==
    /\ handler[o][i].pc = "send"
    /\ handler[o][i].nonce < NextNonce(o)
    /\ Goto(o, i, "failed")
    /\ UNCHANGED evidence
    /\ Unshared

(* Or, when the other transaction is not mined and pays a lower fee, this  *)
(* one takes its place, and the other handler waits for a transaction that *)
(* is never mined.                                                         *)
BroadcastReplaces(o, i) ==
    LET position == handler[o][i].nonce - minedNonce[o] + 1
    IN  /\ handler[o][i].pc = "send"
        /\ position \in 1 .. Len(mempool[o])
        /\ mempool' = [mempool EXCEPT ![o][position] = Tx(o, i)]
        /\ LET other == mempool[o][position].claimIndex
           IN  handler' = [handler EXCEPT ![o] = [j \in Uint32 |->
                    IF j = i THEN Sent(o, i)
                    ELSE IF j = other /\ @[j].pc = "wait"
                         THEN [@[j] EXCEPT !.receipt = "replaced"]
                         ELSE @[j]]]
        /\ UNCHANGED <<contractVars, processVars, minedNonce, evidence>>

(* The transactions of a wallet are mined in the order of their nonces.    *)
(* Its answers encode an operator, a signature and a block: never empty.   *)
MineTx(o) ==
    LET tx == Head(mempool[o])
        h == handler[o][tx.claimIndex]
    IN  /\ mempool[o] # <<>>
        /\ \E accepted \in IF "revert" \in Faults THEN BOOLEAN ELSE {TRUE} :
              /\ IF tx.fn = "approveClaimSpending"
                 THEN ApproveClaimSpending(o, tx.claim, tx.claimIndex, accepted)
                 ELSE \E signature \in Signatures \ {NoBytes} :
                         RespondToClaim(o, tx.claim, tx.claimIndex, signature, accepted)
              /\ IF h.pc = "wait" /\ h.receipt = "pending"
                 THEN Become(o, tx.claimIndex, [h EXCEPT !.receipt =
                          IF CallSucceeds(tx.claim, accepted) THEN "ok" ELSE "reverted"])
                 ELSE UNCHANGED handler
        /\ mempool' = [mempool EXCEPT ![o] = Tail(@)]
        /\ minedNonce' = [minedNonce EXCEPT ![o] = @ + 1]
        /\ UNCHANGED <<processVars, evidence>>

(* After the approval comes the answer, and after the answer nothing. *)
AfterReceipt(o, i) ==
    [handler[o][i] EXCEPT
        !.receipt = "none",
        !.pc = IF handler[o][i].fn = "approveClaimSpending"
               THEN "populate" ELSE "answered",
        !.fn = "respondToClaim"]

(* wait() returns for a mined transaction and throws for a reverted one.   *)
(* For one that was replaced it does neither: the response of a method of  *)
(* a Contract has no block to look for a replacement from (ethers v6).     *)
ConfirmedAnyway(o, i) ==    \* mutant: the status of the receipt is not looked at
    /\ handler[o][i].pc = "wait"
    /\ handler[o][i].receipt \in {"ok", "reverted"}
    /\ Become(o, i, AfterReceipt(o, i))
    /\ UNCHANGED evidence
    /\ Unshared

Confirmed(o, i) ==
    /\ handler[o][i].pc = "wait"
    /\ \/ /\ handler[o][i].receipt = "ok"
          /\ Become(o, i, AfterReceipt(o, i))
       \/ handler[o][i].receipt = "reverted" /\ Goto(o, i, "failed")
    /\ UNCHANGED evidence
    /\ Unshared

(* Any request of a handler to the node may throw. *)
RpcErrorRetried(o, i) ==    \* mutant: the transaction is sent again after an error
    /\ "rpc" \in Faults
    /\ handler[o][i].pc \in TxSteps
    /\ Goto(o, i, "populate")
    /\ UNCHANGED evidence
    /\ Unshared

RpcError(o, i) ==
    /\ "rpc" \in Faults
    /\ handler[o][i].pc \in TxSteps
    /\ Goto(o, i, "failed")
    /\ UNCHANGED evidence
    /\ Unshared

----------------------------------------------------------------------------
HandlerStep(o, i) ==
    \/ GatherInputs(o, i) \/ FetchProof(o, i) \/ VerifyProof(o, i)
    \/ UploadProof(o, i) \/ TestValue(o, i)
    \/ Populate(o, i) \/ Broadcast(o, i) \/ BroadcastRefused(o, i)
    \/ BroadcastReplaces(o, i) \/ Confirmed(o, i)

Next ==
    \/ \E pool \in Addresses, insured \in Insureds, amount \in Amounts, index \in Indexes :
          ClaimCreated(pool, insured, amount, index)
    \/ \E o \in Operators : Start(o) \/ Crash(o) \/ Deregister(o) \/ Deliver(o) \/ MineTx(o)
    \/ \E o \in Operators, i \in Uint32 :
          HandlerStep(o, i) \/ BroadcastUnheard(o, i) \/ RpcError(o, i)

Spec == Init /\ [][Next]_vars

(* The event loop runs every callback that is due, every external request  *)
(* is answered or fails, and the chain mines what it was given.  A lost     *)
(* answer of the node (BroadcastUnheard, RpcError) is never forced.        *)
Fairness ==
    \A o \in Operators :
        /\ WF_vars(Deliver(o))
        /\ WF_vars(MineTx(o))
        /\ \A i \in Uint32 : WF_vars(HandlerStep(o, i))

FairSpec == Spec /\ Fairness

----------------------------------------------------------------------------
HandlerState ==
    [pc: ProofSteps \cup TxSteps \cup Settled \cup {"idle"}, isApproved: BOOLEAN,
     proofUri: ProofUris, fn: {"none", "approveClaimSpending", "respondToClaim"},
     nonce: Nat, receipt: {"none", "pending", "ok", "reverted", "replaced"}]

Transaction ==
    [fn: {"approveClaimSpending", "respondToClaim"}, claimIndex: Uint32, claim: Claim]

(* The state of the operators holds values of their types. *)
TypeOK ==
    /\ ContractTypeOK
    /\ monitoring \in [Operators -> BOOLEAN]
    /\ registered \in [Operators -> BOOLEAN]
    /\ crashes \in [Operators -> 0 .. MaxCrashes]
    /\ inbox \in [Operators -> Seq(Uint32)]
    /\ handler \in [Operators -> [Uint32 -> HandlerState]]
    /\ minedNonce \in [Operators -> Nat]
    /\ mempool \in [Operators -> Seq(Transaction)]
    /\ evidence \in [Operators -> [Uint32 -> SUBSET Facts]]

Calls == 1 .. Len(poolCalls)
IsApproval(k) == poolCalls[k].fn = "approveClaimSpending"

(* Every claim that reaches a pool, in either call and from any handler,   *)
(* is the claim that was created under the number it is answered for, only *)
(* completed with a verdict and a uri.                                     *)
CallsCarryTheCreatedClaim ==
    \A k \in Calls :
        LET call == poolCalls[k]
            created == ClaimOfEvent(call.claimIndex)
        IN  /\ call.claimIndex < latestClaimNum
            /\ call.pool = created.pool
            /\ \E uri \in ProofUris, verdict \in BOOLEAN :
                  call.claim = SubmittedClaim([created EXCEPT !.proofUri = uri,
                                                              !.isApproved = verdict])

(* An operator has spending approved only for a claim whose proof it       *)
(* verified, uploaded and matched, under the uri of that very proof.       *)
SpendingRestsOnEvidence ==
    \A k \in Calls : IsApproval(k) =>
        /\ evidence[poolCalls[k].sender][poolCalls[k].claimIndex] = Facts
        /\ poolCalls[k].claim.isApproved
        /\ poolCalls[k].claim.proofUri = ProofUri(poolCalls[k].sender, poolCalls[k].claimIndex)

(* A pool hears a positive answer only after it approved the spending of   *)
(* the very same claim for the same operator, and never a negative one     *)
(* before or after that: handlers that interleave, reverted, replaced and  *)
(* lost transactions, crashes and restarts do not mix the two up.          *)
AnswersFollowSpending ==
    \A k \in Calls : ~IsApproval(k) =>
        LET approvals == {j \in Calls : /\ IsApproval(j)
                                        /\ poolCalls[j].sender = poolCalls[k].sender
                                        /\ poolCalls[j].claimIndex = poolCalls[k].claimIndex}
        IN  IF poolCalls[k].claim.isApproved
            THEN \E j \in approvals : j < k /\ poolCalls[j].claim = poolCalls[k].claim
            ELSE approvals = {}

(* No operator has the spending of a claim approved twice, or answers it   *)
(* twice, although nothing on the chain forbids it.                        *)
NothingSaidTwice ==
    \A j, k \in Calls :
        ( /\ poolCalls[j].fn = poolCalls[k].fn
          /\ poolCalls[j].sender = poolCalls[k].sender
          /\ poolCalls[j].claimIndex = poolCalls[k].claimIndex ) => j = k

HasAnswered(o, i) == allClaimResponses[o][i] # NoBytes

(* Every handler that was started comes to an end: its answer is on the    *)
(* chain, or it ended in its catch or at a proof that does not verify, or  *)
(* its process crashed. Only one whose transaction another handler of its  *)
(* wallet replaced waits for ever (Confirmed); no other handler waits for  *)
(* it, and none for a transaction that was refused, reverted or mined.     *)
HandlersSettleUnlessReplaced ==
    \A o \in Operators, i \in Uint32 :
        Running(o, i) ~> \/ handler[o][i].pc = "answered" /\ HasAnswered(o, i)
                         \/ handler[o][i].pc \in {"failed", "abandoned", "idle"}
                         \/ handler[o][i].receipt = "replaced"

Watched(o, i) == \E k \in 1 .. Len(inbox[o]) : inbox[o][k] = i

(* README.md:14 "Each Operator submits their signed hash back to the       *)
(* Insurance AVS contract": a claim whose event reached an operator is in  *)
(* the end answered by it. Without any fault outside, two claims at a time *)
(* (nonces) break it, and so does one claim whose proof does not verify    *)
(* (the return at index.ts:118).                                           *)
EveryWatchedClaimAnswered ==
    \A o \in Operators, i \in Uint32 : Watched(o, i) ~> HasAnswered(o, i)

----------------------------------------------------------------------------
(* The life of every claim as its pool sees it.                            *)
Heard(o, i, fn, verdict) ==
    \E k \in Calls : /\ poolCalls[k].fn = fn
                     /\ poolCalls[k].sender = o
                     /\ poolCalls[k].claimIndex = i
                     /\ poolCalls[k].claim.isApproved = verdict

Outcome(o, i) ==
    IF Heard(o, i, "respondToClaim", TRUE) THEN "accepted"
    ELSE IF Heard(o, i, "respondToClaim", FALSE) THEN "rejected"
    ELSE IF Heard(o, i, "approveClaimSpending", TRUE) THEN "spendable"
    ELSE "open"

Lifecycle == INSTANCE ClaimLifecycle WITH
    ClaimNumbers <- Uint32,
    created <- latestClaimNum,
    outcome <- [o \in Operators |-> [i \in Uint32 |-> Outcome(o, i)]]

(* The operators and the contract together implement the life of a claim:  *)
(* only a claim that exists is decided, an acceptance follows an approved  *)
(* spending, and no decision is revised, whatever fails or interleaves.    *)
ImplementsLifecycle == Lifecycle!Spec
=============================================================================
