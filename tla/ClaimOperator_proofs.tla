------------------------ MODULE ClaimOperator_proofs ------------------------
(***************************************************************************)
(* Proofs about the operators and the contract together, for any operators,*)
(* claims, faults and bounds.                                              *)
(***************************************************************************)
EXTENDS ClaimOperator, InsuranceServiceManager_proofs

(* The inductive invariant, for what the operators say of a claim: a       *)
(* handler works on a claim that exists and has established what its place *)
(* in the code requires, and a transaction carries the created claim.      *)
Completes(claim, created) ==
    \E uri \in ProofUris, verdict \in BOOLEAN :
        claim = [created EXCEPT !.proofUri = uri, !.isApproved = verdict]

GoodHandler(o, i, h) ==
    /\ h.pc # "idle" => i < latestClaimNum
    /\ h.pc = "upload" => "verified" \in evidence[o][i]
    /\ h.pc = "test" => /\ {"verified", "uploaded"} \subseteq evidence[o][i]
                        /\ h.proofUri = ProofUri(o, i)
    /\ h.isApproved => Facts \subseteq evidence[o][i] /\ h.proofUri = ProofUri(o, i)
    /\ h.pc \in TxSteps => h.fn # "none"
    /\ h.pc \in TxSteps /\ h.fn = "approveClaimSpending" => h.isApproved

GoodTx(o, tx) ==
    /\ tx.claimIndex < latestClaimNum
    /\ Completes(tx.claim, ClaimOfEvent(tx.claimIndex))
    /\ tx.fn = "approveClaimSpending" =>
          /\ Facts \subseteq evidence[o][tx.claimIndex]
          /\ tx.claim.isApproved
          /\ tx.claim.proofUri = ProofUri(o, tx.claimIndex)

GoodCall(call) ==
    /\ call.claimIndex < latestClaimNum
    /\ call.pool = ClaimOfEvent(call.claimIndex).pool
    /\ \E claim \in Claim : /\ Completes(claim, ClaimOfEvent(call.claimIndex))
                            /\ call.claim = SubmittedClaim(claim)
    /\ call.fn = "approveClaimSpending" =>
          /\ Facts \subseteq evidence[call.sender][call.claimIndex]
          /\ call.claim.isApproved
          /\ call.claim.proofUri = ProofUri(call.sender, call.claimIndex)

GoodInbox == \A o \in Operators : \A k \in 1 .. Len(inbox[o]) : inbox[o][k] < latestClaimNum
GoodHandlers == \A o \in Operators, i \in Uint32 : GoodHandler(o, i, handler[o][i])
GoodMempool == \A o \in Operators : \A k \in 1 .. Len(mempool[o]) : GoodTx(o, mempool[o][k])
GoodCalls == \A k \in Calls : GoodCall(poolCalls[k])

OperatorInv ==
    /\ TypeOK
    /\ ClaimsRecordedAsAnnounced
    /\ GoodInbox
    /\ GoodHandlers
    /\ GoodMempool
    /\ GoodCalls

----------------------------------------------------------------------------
(* What every step leaves alone: the claims created before it, and what    *)
(* was established before it.                                              *)
Kept ==
    /\ latestClaimNum <= latestClaimNum'
    /\ \A i \in Uint32 : i < latestClaimNum => ClaimOfEvent(i)' = ClaimOfEvent(i)
    /\ \A o \in Operators, i \in Uint32 : evidence[o][i] \subseteq evidence'[o][i]

LEMMA StillBelow ==
    ASSUME TypeOK, TypeOK', Kept, NEW i \in Uint32, i < latestClaimNum
    PROVE  i < latestClaimNum'
<1>1. Uint32 \subseteq Int
  BY DEF Uint32
<1>2. latestClaimNum \in Uint32
  <2>1. ContractTypeOK
    BY Zenon DEF TypeOK
  <2>2. QED
    BY <2>1, Zenon DEF ContractTypeOK
<1>3. latestClaimNum' \in Uint32
  <2>1. ContractTypeOK'
    BY Zenon DEF TypeOK
  <2>2. QED
    BY <2>1, Zenon DEF ContractTypeOK
<1>4. latestClaimNum <= latestClaimNum'
  BY DEF Kept
<1>5. i \in Int /\ latestClaimNum \in Int /\ latestClaimNum' \in Int
  BY <1>1, <1>2, <1>3
<1>6. QED
  BY <1>4, <1>5

LEMMA HandlerKept ==
    ASSUME TypeOK, TypeOK', Kept, NEW o \in Operators, NEW i \in Uint32,
           NEW h \in HandlerState, GoodHandler(o, i, h)
    PROVE  GoodHandler(o, i, h)'
<1>1. i < latestClaimNum => i < latestClaimNum'
  BY StillBelow
<1>2. evidence[o][i] \subseteq evidence'[o][i]
  BY DEF Kept
<1>3. QED
  BY <1>1, <1>2 DEF GoodHandler

LEMMA TxKept ==
    ASSUME TypeOK, TypeOK', Kept, NEW o \in Operators,
           NEW tx \in Transaction, GoodTx(o, tx)
    PROVE  GoodTx(o, tx)'
<1>1. tx.claimIndex \in Uint32 /\ tx.claimIndex < latestClaimNum
  BY DEF Transaction, GoodTx
<1>2. tx.claimIndex < latestClaimNum'
  BY <1>1, StillBelow
<1>3. ClaimOfEvent(tx.claimIndex)' = ClaimOfEvent(tx.claimIndex)
  BY <1>1 DEF Kept
<1>4. evidence[o][tx.claimIndex] \subseteq evidence'[o][tx.claimIndex]
  BY <1>1 DEF Kept
<1>5. QED
  BY <1>2, <1>3, <1>4 DEF GoodTx, Completes

LEMMA CallKept ==
    ASSUME TypeOK, TypeOK', Kept, NEW call \in PoolCallRecord, GoodCall(call)
    PROVE  GoodCall(call)'
<1>1. /\ call.claimIndex \in Uint32 /\ call.claimIndex < latestClaimNum
      /\ call.sender \in Operators
  BY DEF PoolCallRecord, GoodCall
<1>2. call.claimIndex < latestClaimNum'
  BY <1>1, StillBelow
<1>3. ClaimOfEvent(call.claimIndex)' = ClaimOfEvent(call.claimIndex)
  BY <1>1 DEF Kept
<1>4. evidence[call.sender][call.claimIndex] \subseteq evidence'[call.sender][call.claimIndex]
  BY <1>1 DEF Kept
<1>5. QED
  BY <1>2, <1>3, <1>4 DEF GoodCall, Completes, SubmittedClaim

(* When a step keeps the claims and the evidence, what is left to show is  *)
(* what it changes.                                                        *)
LEMMA InboxKept ==
    TypeOK /\ TypeOK' /\ Kept /\ GoodInbox /\ UNCHANGED inbox => GoodInbox'
<1> SUFFICES ASSUME TypeOK, TypeOK', Kept, GoodInbox, UNCHANGED inbox,
                    NEW o \in Operators, NEW k \in 1 .. Len(inbox[o])
             PROVE  inbox[o][k] < latestClaimNum'
  BY DEF GoodInbox
<1>1. inbox[o] \in Seq(Uint32)
  BY DEF TypeOK
<1>2. inbox[o][k] \in Uint32
  BY <1>1, ElementOfSeq
<1>3. inbox[o][k] < latestClaimNum
  BY DEF GoodInbox
<1>4. QED
  BY <1>2, <1>3, StillBelow

LEMMA HandlersKept ==
    TypeOK /\ TypeOK' /\ Kept /\ GoodHandlers /\ UNCHANGED handler => GoodHandlers'
<1> SUFFICES ASSUME TypeOK, TypeOK', Kept, GoodHandlers, UNCHANGED handler,
                    NEW o \in Operators, NEW i \in Uint32
             PROVE  GoodHandler(o, i, handler[o][i])'
  BY DEF GoodHandlers
<1>1. handler[o][i] \in HandlerState /\ GoodHandler(o, i, handler[o][i])
  BY DEF TypeOK, GoodHandlers
<1>2. QED
  BY <1>1, HandlerKept DEF GoodHandler

LEMMA MempoolKept ==
    TypeOK /\ TypeOK' /\ Kept /\ GoodMempool /\ UNCHANGED mempool => GoodMempool'
<1> SUFFICES ASSUME TypeOK, TypeOK', Kept, GoodMempool, UNCHANGED mempool,
                    NEW o \in Operators, NEW k \in 1 .. Len(mempool[o])
             PROVE  GoodTx(o, mempool[o][k])'
  BY DEF GoodMempool
<1>1. mempool[o] \in Seq(Transaction)
  BY DEF TypeOK
<1>2. mempool[o][k] \in Transaction /\ GoodTx(o, mempool[o][k])
  BY <1>1, ElementOfSeq DEF GoodMempool
<1>3. QED
  BY <1>2, TxKept DEF GoodTx

LEMMA CallsKept ==
    TypeOK /\ TypeOK' /\ Kept /\ GoodCalls /\ UNCHANGED poolCalls => GoodCalls'
<1> SUFFICES ASSUME TypeOK, TypeOK', Kept, GoodCalls, UNCHANGED poolCalls,
                    NEW k \in Calls
             PROVE  GoodCall(poolCalls[k])'
  BY DEF GoodCalls, Calls
<1>1. poolCalls \in Seq(PoolCallRecord)
  BY DEF TypeOK, ContractTypeOK
<1>2. poolCalls[k] \in PoolCallRecord /\ GoodCall(poolCalls[k])
  BY <1>1, ElementOfSeq DEF GoodCalls, Calls
<1>3. QED
  BY <1>2, CallKept DEF GoodCall

----------------------------------------------------------------------------
(* The claim of a created number, and what a handler sends of it.          *)
LEMMA CreatedClaim ==
    ASSUME TypeOK, ClaimsRecordedAsAnnounced, NEW i \in Uint32, i < latestClaimNum
    PROVE  ClaimOfEvent(i) \in Claim
<1>1. newClaimEvents \in Seq(NewClaimEvent)
  BY DEF TypeOK, ContractTypeOK
<1>2. i + 1 \in 1 .. Len(newClaimEvents)
  BY <1>1, LenProperties DEF ClaimsRecordedAsAnnounced, Uint32
<1>3. newClaimEvents[i + 1] \in NewClaimEvent
  BY <1>1, <1>2, ElementOfSeq
<1>4. QED
  BY <1>3 DEF ClaimOfEvent, NewClaimEvent

LEMMA AnswerCompletes ==
    ASSUME OperatorInv, NEW o \in Operators, NEW i \in Uint32, handler[o][i].pc = "send"
    PROVE  /\ Answer(o, i) \in Claim
           /\ Completes(Answer(o, i), ClaimOfEvent(i))
           /\ Answer(o, i).isApproved = handler[o][i].isApproved
           /\ Answer(o, i).proofUri = handler[o][i].proofUri
<1>1. handler[o][i] \in HandlerState /\ GoodHandler(o, i, handler[o][i])
  BY DEF OperatorInv, TypeOK, GoodHandlers
<1>2. ClaimOfEvent(i) \in Claim
  BY <1>1, CreatedClaim DEF OperatorInv, GoodHandler
<1>3. handler[o][i].isApproved \in BOOLEAN /\ handler[o][i].proofUri \in ProofUris
  BY <1>1 DEF HandlerState
<1>4. QED
  BY <1>2, <1>3 DEF Answer, Completes, Claim

(* The transaction a handler has signed is good, and of the right type.    *)
LEMMA SignedTx ==
    ASSUME OperatorInv, NEW o \in Operators, NEW i \in Uint32, handler[o][i].pc = "send"
    PROVE  /\ Tx(o, i) \in Transaction
           /\ GoodTx(o, Tx(o, i))
<1>1. handler[o][i] \in HandlerState /\ GoodHandler(o, i, handler[o][i])
  BY DEF OperatorInv, TypeOK, GoodHandlers
<1>2. handler[o][i].fn \in {"approveClaimSpending", "respondToClaim"}
  BY <1>1 DEF HandlerState, GoodHandler, TxSteps
<1>3. Tx(o, i) \in Transaction
  BY <1>2, AnswerCompletes DEF Tx, Transaction
<1>4. /\ i < latestClaimNum
      /\ handler[o][i].fn = "approveClaimSpending" =>
            /\ Facts \subseteq evidence[o][i]
            /\ handler[o][i].isApproved
            /\ handler[o][i].proofUri = ProofUri(o, i)
  BY <1>1 DEF GoodHandler, TxSteps
<1>5. GoodTx(o, Tx(o, i))
  BY <1>4, AnswerCompletes DEF GoodTx, Tx
<1>6. QED
  BY <1>3, <1>5

(* What becomes of the handlers when one of them changes.                  *)
LEMMA OneHandler ==
    ASSUME TypeOK, NEW o \in Operators, NEW i \in Uint32, NEW h \in HandlerState,
           Become(o, i, h)
    PROVE  /\ handler' \in [Operators -> [Uint32 -> HandlerState]]
           /\ handler'[o][i] = h
           /\ \A p \in Operators, j \in Uint32 :
                 p # o \/ j # i => handler'[p][j] = handler[p][j]
<1>1. handler \in [Operators -> [Uint32 -> HandlerState]]
  BY DEF TypeOK
<1>2. QED
  BY <1>1 DEF Become

LEMMA OneEvidence ==
    ASSUME TypeOK, NEW o \in Operators, NEW i \in Uint32, NEW fact \in Facts,
           Establish(o, i, fact)
    PROVE  /\ evidence' \in [Operators -> [Uint32 -> SUBSET Facts]]
           /\ evidence'[o][i] = evidence[o][i] \cup {fact}
           /\ \A p \in Operators, j \in Uint32 : evidence[p][j] \subseteq evidence'[p][j]
<1>1. evidence \in [Operators -> [Uint32 -> SUBSET Facts]]
  BY DEF TypeOK
<1>2. evidence[o][i] \cup {fact} \in SUBSET Facts
  BY <1>1
<1>3. QED
  BY <1>1, <1>2 DEF Establish

(* Steps that leave the contract alone keep its invariants.                *)
LEMMA ContractUnchanged ==
    ASSUME TypeOK, ClaimsRecordedAsAnnounced, UNCHANGED contractVars
    PROVE  /\ ContractTypeOK'
           /\ ClaimsRecordedAsAnnounced'
           /\ (\A p \in Operators, j \in Uint32 : evidence[p][j] \subseteq evidence'[p][j])
                => Kept
<1>1. ContractTypeOK'
  BY DEF TypeOK, ContractTypeOK, contractVars, claimVars, answerVars, configVars
<1>2. ClaimsRecordedAsAnnounced'
  BY DEF ClaimsRecordedAsAnnounced, Hash, contractVars, claimVars
<1>3. latestClaimNum <= latestClaimNum'
  BY DEF TypeOK, ContractTypeOK, contractVars, claimVars, Uint32
<1>4. QED
  BY <1>1, <1>2, <1>3 DEF Kept, ClaimOfEvent, contractVars, claimVars

(* A handler that moves on without touching the mempool preserves the      *)
(* invariant when its own next state is good.                              *)
LEMMA HandlerMoves ==
    ASSUME OperatorInv, NEW o \in Operators, NEW i \in Uint32, NEW h \in HandlerState,
           Become(o, i, h), Unshared,
           evidence' \in [Operators -> [Uint32 -> SUBSET Facts]],
           \A p \in Operators, j \in Uint32 : evidence[p][j] \subseteq evidence'[p][j],
           GoodHandler(o, i, h)'
    PROVE  OperatorInv'
<1>1. /\ UNCHANGED contractVars /\ UNCHANGED inbox /\ UNCHANGED mempool /\ UNCHANGED poolCalls
      /\ UNCHANGED <<monitoring, registered, crashes, minedNonce>>
  BY DEF Unshared, contractVars, answerVars, processVars, walletVars
<1>2. TypeOK'
  BY <1>1, OneHandler, ContractUnchanged DEF TypeOK, OperatorInv
<1>3. ClaimsRecordedAsAnnounced' /\ Kept
  BY <1>1, ContractUnchanged DEF OperatorInv
<1>4. GoodInbox' /\ GoodMempool' /\ GoodCalls'
  BY <1>1, <1>2, <1>3, InboxKept, MempoolKept, CallsKept DEF OperatorInv
<1>5. ASSUME NEW p \in Operators, NEW j \in Uint32
      PROVE  GoodHandler(p, j, handler[p][j])'
  <2>1. CASE p = o /\ j = i
    BY <2>1, OneHandler DEF OperatorInv, GoodHandler
  <2>2. CASE p # o \/ j # i
    <3>1. handler'[p][j] = handler[p][j]
      BY <2>2, OneHandler DEF OperatorInv
    <3>2. handler[p][j] \in HandlerState /\ GoodHandler(p, j, handler[p][j])
      BY DEF OperatorInv, TypeOK, GoodHandlers
    <3>3. QED
      BY <1>2, <1>3, <3>1, <3>2, HandlerKept DEF OperatorInv, GoodHandler
  <2>3. QED
    BY <2>1, <2>2
<1>6. QED
  BY <1>2, <1>3, <1>4, <1>5 DEF OperatorInv, GoodHandlers

(* Going on to a place that requires nothing more, also to give up.        *)
LEMMA GoesTo ==
    ASSUME OperatorInv, NEW o \in Operators, NEW i \in Uint32,
           NEW pc \in {"fetch", "verify", "failed", "abandoned"},
           handler[o][i].pc # "idle", Goto(o, i, pc), Unshared, UNCHANGED evidence
    PROVE  OperatorInv'
<1>1. handler[o][i] \in HandlerState /\ GoodHandler(o, i, handler[o][i])
  BY DEF OperatorInv, TypeOK, GoodHandlers
<1>2. PICK h : h = [handler[o][i] EXCEPT !.pc = pc]
  OBVIOUS
<1>3. h \in HandlerState /\ Become(o, i, h)
  BY <1>1, <1>2 DEF Goto, HandlerState, ProofSteps, TxSteps, Settled
<1>4. latestClaimNum' = latestClaimNum
  BY DEF Unshared, contractVars, claimVars
<1>5. GoodHandler(o, i, h)'
  BY <1>1, <1>2, <1>4 DEF GoodHandler, TxSteps, HandlerState
<1>6. QED
  BY <1>3, <1>5, HandlerMoves DEF OperatorInv, TypeOK

LEMMA Decides ==
    ASSUME OperatorInv, NEW o \in Operators, NEW i \in Uint32, NEW verdict \in BOOLEAN,
           handler[o][i].pc # "idle", Decide(o, i, verdict), Unshared,
           evidence' \in [Operators -> [Uint32 -> SUBSET Facts]],
           \A p \in Operators, j \in Uint32 : evidence[p][j] \subseteq evidence'[p][j],
           verdict => Facts \subseteq evidence'[o][i]
                        /\ handler[o][i].proofUri = ProofUri(o, i)
    PROVE  OperatorInv'
<1>1. handler[o][i] \in HandlerState /\ GoodHandler(o, i, handler[o][i])
  BY DEF OperatorInv, TypeOK, GoodHandlers
<1>2. PICK h : h = [handler[o][i] EXCEPT
        !.pc = "populate", !.isApproved = verdict,
        !.fn = IF verdict THEN "approveClaimSpending" ELSE "respondToClaim"]
  OBVIOUS
<1>3. h \in HandlerState /\ Become(o, i, h)
  BY <1>1, <1>2 DEF Decide, HandlerState, ProofSteps, TxSteps, Settled
<1>4. latestClaimNum' = latestClaimNum
  BY DEF Unshared, contractVars, claimVars
<1>5. GoodHandler(o, i, h)'
  BY <1>1, <1>2, <1>4 DEF GoodHandler, TxSteps, HandlerState
<1>6. QED
  BY <1>3, <1>5, HandlerMoves DEF OperatorInv, TypeOK

----------------------------------------------------------------------------
(* The steps of a handler before it sends anything.                        *)
LEMMA GatherInputsInv ==
    ASSUME OperatorInv, NEW o \in Operators, NEW i \in Uint32, GatherInputs(o, i)
    PROVE  OperatorInv'
<1>1. Goto(o, i, "fetch") \/ Goto(o, i, "failed")
  BY DEF GatherInputs
<1>2. handler[o][i].pc # "idle" /\ Unshared /\ UNCHANGED evidence
  BY DEF GatherInputs
<1>3. QED
  BY <1>1, <1>2, GoesTo

LEMMA FetchProofInv ==
    ASSUME OperatorInv, NEW o \in Operators, NEW i \in Uint32, FetchProof(o, i)
    PROVE  OperatorInv'
<1>1. Goto(o, i, "verify") \/ Decide(o, i, FALSE)
  BY DEF FetchProof
<1>2. handler[o][i].pc # "idle" /\ Unshared /\ UNCHANGED evidence
  BY DEF FetchProof
<1>3. QED
  BY <1>1, <1>2, GoesTo, Decides DEF OperatorInv, TypeOK

LEMMA VerifyProofInv ==
    ASSUME OperatorInv, NEW o \in Operators, NEW i \in Uint32, VerifyProof(o, i)
    PROVE  OperatorInv'
<1>1. handler[o][i].pc # "idle" /\ Unshared
  BY DEF VerifyProof
<1>2. CASE Goto(o, i, "upload") /\ Establish(o, i, "verified")
  <2>1. handler[o][i] \in HandlerState /\ GoodHandler(o, i, handler[o][i])
    BY DEF OperatorInv, TypeOK, GoodHandlers
  <2>2. PICK h : h = [handler[o][i] EXCEPT !.pc = "upload"]
    OBVIOUS
  <2>3. h \in HandlerState /\ Become(o, i, h)
    BY <1>2, <2>1, <2>2 DEF Goto, HandlerState, ProofSteps
  <2>4. /\ evidence' \in [Operators -> [Uint32 -> SUBSET Facts]]
        /\ evidence'[o][i] = evidence[o][i] \cup {"verified"}
        /\ \A p \in Operators, j \in Uint32 : evidence[p][j] \subseteq evidence'[p][j]
    BY <1>2, OneEvidence DEF OperatorInv, Facts
  <2>5. latestClaimNum' = latestClaimNum
    BY <1>1 DEF Unshared, contractVars, claimVars
  <2>6. GoodHandler(o, i, h)'
    BY <1>1, <2>1, <2>2, <2>4, <2>5 DEF GoodHandler, TxSteps, HandlerState
  <2>7. QED
    BY <1>1, <2>3, <2>4, <2>6, HandlerMoves
<1>3. CASE Goto(o, i, "abandoned") /\ UNCHANGED evidence
  BY <1>1, <1>3, GoesTo
<1>4. CASE Decide(o, i, FALSE) /\ UNCHANGED evidence
  BY <1>1, <1>4, Decides DEF OperatorInv, TypeOK
<1>5. QED
  BY <1>2, <1>3, <1>4 DEF VerifyProof

LEMMA UploadProofInv ==
    ASSUME OperatorInv, NEW o \in Operators, NEW i \in Uint32, UploadProof(o, i)
    PROVE  OperatorInv'
<1>1. handler[o][i].pc = "upload" /\ Unshared
  BY DEF UploadProof
<1>2. CASE /\ Become(o, i, [handler[o][i] EXCEPT !.pc = "test", !.proofUri = ProofUri(o, i)])
           /\ Establish(o, i, "uploaded")
  <2>1. handler[o][i] \in HandlerState /\ GoodHandler(o, i, handler[o][i])
    BY DEF OperatorInv, TypeOK, GoodHandlers
  <2>2. PICK h : h = [handler[o][i] EXCEPT !.pc = "test", !.proofUri = ProofUri(o, i)]
    OBVIOUS
  <2>3. h \in HandlerState /\ Become(o, i, h)
    BY <1>2, <2>1, <2>2, OperatorAssumption DEF HandlerState, ProofSteps
  <2>4. /\ evidence' \in [Operators -> [Uint32 -> SUBSET Facts]]
        /\ evidence'[o][i] = evidence[o][i] \cup {"uploaded"}
        /\ \A p \in Operators, j \in Uint32 : evidence[p][j] \subseteq evidence'[p][j]
    BY <1>2, OneEvidence DEF OperatorInv, Facts
  <2>5. latestClaimNum' = latestClaimNum
    BY <1>1 DEF Unshared, contractVars, claimVars
  <2>6. GoodHandler(o, i, h)'
    BY <1>1, <2>1, <2>2, <2>4, <2>5 DEF GoodHandler, TxSteps, HandlerState
  <2>7. QED
    BY <1>1, <2>3, <2>4, <2>6, HandlerMoves
<1>3. CASE Decide(o, i, FALSE) /\ UNCHANGED evidence
  BY <1>1, <1>3, Decides DEF OperatorInv, TypeOK
<1>4. QED
  BY <1>2, <1>3 DEF UploadProof

LEMMA TestValueInv ==
    ASSUME OperatorInv, NEW o \in Operators, NEW i \in Uint32, TestValue(o, i)
    PROVE  OperatorInv'
<1>1. handler[o][i].pc = "test" /\ Unshared
  BY DEF TestValue
<1>2. CASE Decide(o, i, TRUE) /\ Establish(o, i, "matched")
  <2>1. /\ {"verified", "uploaded"} \subseteq evidence[o][i]
        /\ handler[o][i].proofUri = ProofUri(o, i)
    BY <1>1 DEF OperatorInv, GoodHandlers, GoodHandler
  <2>2. /\ evidence' \in [Operators -> [Uint32 -> SUBSET Facts]]
        /\ evidence'[o][i] = evidence[o][i] \cup {"matched"}
        /\ \A p \in Operators, j \in Uint32 : evidence[p][j] \subseteq evidence'[p][j]
    BY <1>2, OneEvidence DEF OperatorInv, Facts
  <2>3. Facts \subseteq evidence'[o][i]
    BY <2>1, <2>2 DEF Facts
  <2>4. QED
    BY <1>1, <1>2, <2>1, <2>2, <2>3, Decides
<1>3. CASE Decide(o, i, FALSE) /\ UNCHANGED evidence
  BY <1>1, <1>3, Decides DEF OperatorInv, TypeOK
<1>4. QED
  BY <1>2, <1>3 DEF TestValue

----------------------------------------------------------------------------
(* The steps around a transaction that leave the mempool alone.            *)
LEMMA NextNonceType == ASSUME TypeOK, NEW o \in Operators PROVE NextNonce(o) \in Nat
<1>1. mempool[o] \in Seq(Transaction) /\ minedNonce[o] \in Nat
  BY DEF TypeOK
<1>2. QED
  BY <1>1, LenProperties DEF NextNonce

LEMMA PopulateInv ==
    ASSUME OperatorInv, NEW o \in Operators, NEW i \in Uint32, Populate(o, i)
    PROVE  OperatorInv'
<1>1. handler[o][i].pc = "populate" /\ Unshared /\ UNCHANGED evidence
  BY DEF Populate
<1>2. CASE Become(o, i, [handler[o][i] EXCEPT !.pc = "send", !.nonce = NextNonce(o)])
  <2>1. handler[o][i] \in HandlerState /\ GoodHandler(o, i, handler[o][i])
    BY DEF OperatorInv, TypeOK, GoodHandlers
  <2>2. PICK h : h = [handler[o][i] EXCEPT !.pc = "send", !.nonce = NextNonce(o)]
    OBVIOUS
  <2>3. h \in HandlerState /\ Become(o, i, h)
    BY <1>2, <2>1, <2>2, NextNonceType DEF HandlerState, TxSteps, OperatorInv
  <2>4. latestClaimNum' = latestClaimNum
    BY <1>1 DEF Unshared, contractVars, claimVars
  <2>5. GoodHandler(o, i, h)'
    BY <1>1, <2>1, <2>2, <2>4 DEF GoodHandler, TxSteps, HandlerState
  <2>6. QED
    BY <1>1, <2>3, <2>5, HandlerMoves DEF OperatorInv, TypeOK
<1>3. CASE Goto(o, i, "failed")
  BY <1>1, <1>3, GoesTo
<1>4. QED
  BY <1>2, <1>3 DEF Populate

LEMMA BroadcastRefusedInv ==
    ASSUME OperatorInv, NEW o \in Operators, NEW i \in Uint32, BroadcastRefused(o, i)
    PROVE  OperatorInv'
<1>1. /\ handler[o][i].pc # "idle" /\ Goto(o, i, "failed")
      /\ Unshared /\ UNCHANGED evidence
  BY DEF BroadcastRefused
<1>2. QED
  BY <1>1, GoesTo

LEMMA RpcErrorInv ==
    ASSUME OperatorInv, NEW o \in Operators, NEW i \in Uint32, RpcError(o, i)
    PROVE  OperatorInv'
<1>1. /\ handler[o][i].pc # "idle" /\ Goto(o, i, "failed")
      /\ Unshared /\ UNCHANGED evidence
  BY DEF RpcError, TxSteps
<1>2. QED
  BY <1>1, GoesTo

LEMMA ConfirmedInv ==
    ASSUME OperatorInv, NEW o \in Operators, NEW i \in Uint32, Confirmed(o, i)
    PROVE  OperatorInv'
<1>1. handler[o][i].pc = "wait" /\ Unshared /\ UNCHANGED evidence
  BY DEF Confirmed
<1>2. CASE Become(o, i, AfterReceipt(o, i))
  <2>1. handler[o][i] \in HandlerState /\ GoodHandler(o, i, handler[o][i])
    BY DEF OperatorInv, TypeOK, GoodHandlers
  <2>2. PICK h : h = AfterReceipt(o, i)
    OBVIOUS
  <2>3. h \in HandlerState /\ Become(o, i, h)
    BY <1>2, <2>1, <2>2 DEF HandlerState, AfterReceipt, TxSteps, Settled
  <2>4. latestClaimNum' = latestClaimNum
    BY <1>1 DEF Unshared, contractVars, claimVars
  <2>5. GoodHandler(o, i, h)'
    BY <1>1, <2>1, <2>2, <2>4 DEF GoodHandler, TxSteps, HandlerState, AfterReceipt
  <2>6. QED
    BY <1>1, <2>3, <2>5, HandlerMoves DEF OperatorInv, TypeOK
<1>3. CASE Goto(o, i, "failed")
  BY <1>1, <1>3, GoesTo
<1>4. QED
  BY <1>2, <1>3 DEF Confirmed

----------------------------------------------------------------------------
(* The steps that put a transaction into the mempool: its handler goes to  *)
(* "wait" or "failed", and the one of another handler may be replaced.     *)
LEMMA SendsInv ==
    ASSUME OperatorInv, NEW o \in Operators,
           UNCHANGED <<contractVars, processVars, minedNonce, evidence>>,
           handler' \in [Operators -> [Uint32 -> HandlerState]],
           mempool' \in [Operators -> Seq(Transaction)],
           \A p \in Operators, j \in Uint32 :
              /\ handler'[p][j].pc # "idle" => handler[p][j].pc # "idle"
              /\ handler'[p][j].pc \notin {"upload", "test"}
                    \/ handler'[p][j] = handler[p][j]
              /\ handler'[p][j].pc \in TxSteps => handler[p][j].pc \in TxSteps
              /\ handler'[p][j].fn = handler[p][j].fn
              /\ handler'[p][j].isApproved = handler[p][j].isApproved
              /\ handler'[p][j].proofUri = handler[p][j].proofUri,
           \A p \in Operators : \A k \in 1 .. Len(mempool'[p]) : GoodTx(p, mempool'[p][k])
    PROVE  OperatorInv'
<1>1. /\ UNCHANGED contractVars /\ UNCHANGED inbox /\ UNCHANGED poolCalls
      /\ UNCHANGED <<monitoring, registered, crashes, minedNonce, evidence>>
      /\ UNCHANGED latestClaimNum /\ UNCHANGED newClaimEvents
  BY DEF contractVars, answerVars, claimVars, processVars
<1>2. ClaimsRecordedAsAnnounced' /\ Kept /\ ContractTypeOK'
  BY <1>1, ContractUnchanged DEF OperatorInv
<1>3. TypeOK'
  BY <1>1, <1>2 DEF TypeOK, OperatorInv
<1>4. GoodInbox' /\ GoodCalls'
  BY <1>1, <1>2, <1>3, InboxKept, CallsKept DEF OperatorInv
<1>5. ASSUME NEW p \in Operators, NEW j \in Uint32
      PROVE  GoodHandler(p, j, handler[p][j])'
  <2>1. GoodHandler(p, j, handler[p][j])
    BY DEF OperatorInv, GoodHandlers
  <2>2. QED
    BY <1>1, <2>1 DEF GoodHandler
<1>6. GoodMempool'
  <2> SUFFICES ASSUME NEW p \in Operators, NEW k \in 1 .. Len(mempool'[p])
               PROVE  GoodTx(p, mempool[p][k])'
    BY DEF GoodMempool
  <2>1. PICK tx : tx = mempool'[p][k]
    OBVIOUS
  <2>2. GoodTx(p, tx)
    BY <2>1
  <2>3. GoodTx(p, tx)'
    BY <1>1, <2>2 DEF GoodTx, Completes, ClaimOfEvent
  <2>4. QED
    BY <2>1, <2>3 DEF GoodTx
<1>7. QED
  BY <1>2, <1>3, <1>4, <1>5, <1>6 DEF OperatorInv, GoodHandlers

(* A broadcast transaction is the last one of its wallet.                  *)
LEMMA AppendsTx ==
    ASSUME OperatorInv, NEW o \in Operators, NEW i \in Uint32, handler[o][i].pc = "send",
           mempool' = [mempool EXCEPT ![o] = Append(@, Tx(o, i))]
    PROVE  /\ mempool' \in [Operators -> Seq(Transaction)]
           /\ \A p \in Operators : \A k \in 1 .. Len(mempool'[p]) : GoodTx(p, mempool'[p][k])
<1>1. Tx(o, i) \in Transaction /\ GoodTx(o, Tx(o, i))
  BY SignedTx
<1>2. PICK tx : tx = Tx(o, i)
  OBVIOUS
<1>3. mempool \in [Operators -> Seq(Transaction)] /\ mempool[o] \in Seq(Transaction)
  BY DEF OperatorInv, TypeOK
<1>4. PICK seq : seq = Append(mempool[o], tx)
  OBVIOUS
<1>5. /\ seq \in Seq(Transaction) /\ Len(seq) = Len(mempool[o]) + 1
      /\ Len(mempool[o]) \in Nat
      /\ seq[Len(mempool[o]) + 1] = tx
      /\ \A k \in 1 .. Len(mempool[o]) : seq[k] = mempool[o][k]
  BY <1>1, <1>2, <1>3, <1>4, AppendProperties, LenProperties
<1>6. mempool' = [mempool EXCEPT ![o] = seq]
  BY <1>2, <1>4
<1>7. mempool' \in [Operators -> Seq(Transaction)]
  BY <1>3, <1>5, <1>6
<1>8. ASSUME NEW k \in 1 .. Len(seq) PROVE GoodTx(o, seq[k])
  <2>1. CASE k = Len(mempool[o]) + 1
    BY <2>1, <1>1, <1>2, <1>5
  <2>2. CASE k \in 1 .. Len(mempool[o])
    BY <2>2, <1>5 DEF OperatorInv, GoodMempool
  <2>3. QED
    BY <2>1, <2>2, <1>5
<1>9. \A p \in Operators : mempool'[p] = IF p = o THEN seq ELSE mempool[p]
  BY <1>3, <1>6
<1>10. QED
  BY <1>7, <1>8, <1>9 DEF OperatorInv, GoodMempool

LEMMA BroadcastInv ==
    ASSUME OperatorInv, NEW o \in Operators, NEW i \in Uint32,
           Broadcast(o, i) \/ BroadcastUnheard(o, i)
    PROVE  OperatorInv'
<1>1. /\ handler[o][i].pc = "send"
      /\ mempool' = [mempool EXCEPT ![o] = Append(@, Tx(o, i))]
      /\ UNCHANGED <<contractVars, processVars, minedNonce, evidence>>
  BY DEF Broadcast, BroadcastUnheard
<1>2. handler[o][i] \in HandlerState
  BY DEF OperatorInv, TypeOK
<1>3. PICK h : h = IF Broadcast(o, i) THEN Sent(o, i) ELSE [handler[o][i] EXCEPT !.pc = "failed"]
  OBVIOUS
<1>4. h \in HandlerState /\ Become(o, i, h)
  BY <1>2, <1>3 DEF Broadcast, BroadcastUnheard, Goto, Sent, HandlerState, TxSteps, Settled
<1>5. /\ h.pc \in {"wait", "failed"} /\ h.fn = handler[o][i].fn
      /\ h.isApproved = handler[o][i].isApproved /\ h.proofUri = handler[o][i].proofUri
  BY <1>2, <1>3 DEF Sent, HandlerState
<1>6. /\ handler' \in [Operators -> [Uint32 -> HandlerState]]
      /\ handler'[o][i] = h
      /\ \A p \in Operators, j \in Uint32 : p # o \/ j # i => handler'[p][j] = handler[p][j]
  BY <1>4, OneHandler DEF OperatorInv
<1>7. \A p \in Operators, j \in Uint32 :
        /\ handler'[p][j].pc # "idle" => handler[p][j].pc # "idle"
        /\ handler'[p][j].pc \notin {"upload", "test"} \/ handler'[p][j] = handler[p][j]
        /\ handler'[p][j].pc \in TxSteps => handler[p][j].pc \in TxSteps
        /\ handler'[p][j].fn = handler[p][j].fn
        /\ handler'[p][j].isApproved = handler[p][j].isApproved
        /\ handler'[p][j].proofUri = handler[p][j].proofUri
  BY <1>1, <1>5, <1>6 DEF TxSteps
<1>8. QED
  BY <1>1, <1>6, <1>7, AppendsTx, SendsInv

LEMMA BroadcastReplacesInv ==
    ASSUME OperatorInv, NEW o \in Operators, NEW i \in Uint32, BroadcastReplaces(o, i)
    PROVE  OperatorInv'
<1> DEFINE position == handler[o][i].nonce - minedNonce[o] + 1
           other == mempool[o][position].claimIndex
<1>2. /\ handler[o][i].pc = "send" /\ position \in 1 .. Len(mempool[o])
      /\ mempool' = [mempool EXCEPT ![o][position] = Tx(o, i)]
      /\ UNCHANGED <<contractVars, processVars, minedNonce, evidence>>
  BY DEF BroadcastReplaces
<1>3. handler' = [handler EXCEPT ![o] = [j \in Uint32 |->
                    IF j = i THEN Sent(o, i)
                    ELSE IF j = other /\ handler[o][j].pc = "wait"
                         THEN [handler[o][j] EXCEPT !.receipt = "replaced"]
                         ELSE handler[o][j]]]
  BY DEF BroadcastReplaces
<1> HIDE DEF position, other
<1>4. handler \in [Operators -> [Uint32 -> HandlerState]]
  BY DEF OperatorInv, TypeOK
<1>5. Sent(o, i) \in HandlerState
  <2>1. handler[o][i] \in HandlerState
    BY <1>4
  <2>2. QED
    BY <2>1 DEF Sent, HandlerState, TxSteps
<1>6. ASSUME NEW j \in Uint32
      PROVE  [handler[o][j] EXCEPT !.receipt = "replaced"] \in HandlerState
  <2>1. handler[o][j] \in HandlerState
    BY <1>4
  <2>2. QED
    BY <2>1 DEF HandlerState
<1>7. handler' \in [Operators -> [Uint32 -> HandlerState]]
  BY <1>3, <1>4, <1>5, <1>6
<1>8. ASSUME NEW p \in Operators, NEW j \in Uint32
      PROVE  \/ handler'[p][j] = handler[p][j]
             \/ p = o /\ j = i /\ handler'[p][j] = Sent(o, i)
             \/ /\ handler[p][j].pc = "wait"
                /\ handler'[p][j] = [handler[p][j] EXCEPT !.receipt = "replaced"]
  BY <1>3, <1>4
<1>9. ASSUME NEW p \in Operators, NEW j \in Uint32
      PROVE  /\ handler'[p][j].pc # "idle" => handler[p][j].pc # "idle"
             /\ handler'[p][j].pc \notin {"upload", "test"} \/ handler'[p][j] = handler[p][j]
             /\ handler'[p][j].pc \in TxSteps => handler[p][j].pc \in TxSteps
             /\ handler'[p][j].fn = handler[p][j].fn
             /\ handler'[p][j].isApproved = handler[p][j].isApproved
             /\ handler'[p][j].proofUri = handler[p][j].proofUri
  <2>1. handler[p][j] \in HandlerState
    BY <1>4
  <2>2. CASE handler'[p][j] = handler[p][j]
    BY <2>2
  <2>3. CASE p = o /\ j = i /\ handler'[p][j] = Sent(o, i)
    BY <2>1, <2>3, <1>2 DEF Sent, HandlerState, TxSteps
  <2>4. CASE /\ handler[p][j].pc = "wait"
             /\ handler'[p][j] = [handler[p][j] EXCEPT !.receipt = "replaced"]
    BY <2>1, <2>4 DEF HandlerState, TxSteps
  <2>5. QED
    BY <2>2, <2>3, <2>4, <1>8
<1>10. PICK tx : tx = Tx(o, i)
  OBVIOUS
<1>11. tx \in Transaction /\ GoodTx(o, tx)
  BY <1>2, <1>10, SignedTx
<1>12. mempool \in [Operators -> Seq(Transaction)] /\ mempool[o] \in Seq(Transaction)
  BY DEF OperatorInv, TypeOK
<1>13. PICK seq : seq = [mempool[o] EXCEPT ![position] = tx]
  OBVIOUS
<1>14. /\ seq \in Seq(Transaction) /\ Len(seq) = Len(mempool[o])
       /\ \A k \in 1 .. Len(mempool[o]) : seq[k] = IF k = position THEN tx ELSE mempool[o][k]
  BY <1>2, <1>11, <1>12, <1>13, ExceptSeq
<1>15. mempool' = [mempool EXCEPT ![o] = seq]
  BY <1>2, <1>10, <1>13
<1>16. /\ mempool' \in [Operators -> Seq(Transaction)]
       /\ \A p \in Operators : mempool'[p] = IF p = o THEN seq ELSE mempool[p]
  BY <1>12, <1>14, <1>15
<1>17. \A p \in Operators : \A k \in 1 .. Len(mempool'[p]) : GoodTx(p, mempool'[p][k])
  BY <1>11, <1>14, <1>16 DEF OperatorInv, GoodMempool
<1>18. QED
  BY <1>2, <1>7, <1>9, <1>16, <1>17, SendsInv

----------------------------------------------------------------------------
(* What a pool hears from a mined transaction.                             *)
LEMMA MinedCalls ==
    ASSUME OperatorInv, NEW o \in Operators, NEW tx \in Transaction, GoodTx(o, tx),
           NEW accepted \in BOOLEAN,
           \/ /\ tx.fn = "approveClaimSpending"
              /\ ApproveClaimSpending(o, tx.claim, tx.claimIndex, accepted)
           \/ /\ tx.fn = "respondToClaim"
              /\ \E signature \in Signatures :
                    RespondToClaim(o, tx.claim, tx.claimIndex, signature, accepted)
    PROVE  /\ ContractTypeOK'
           /\ UNCHANGED <<claimVars, configVars, blockNumber>>
           /\ \A k \in 1 .. Len(poolCalls') : GoodCall(poolCalls'[k])
<1>1. tx.claim \in Claim /\ tx.claimIndex \in Uint32
  BY DEF Transaction
<1>2. ContractTypeOK' /\ UNCHANGED <<claimVars, configVars, blockNumber>>
  BY <1>1, ApproveClaimSpendingType, RespondToClaimType
     DEF OperatorInv, TypeOK, ApproveClaimSpending, RespondToClaim
<1>3. PICK call : call =
        [fn |-> tx.fn, pool |-> tx.claim.pool, claim |-> SubmittedClaim(tx.claim),
         sender |-> o, claimIndex |-> tx.claimIndex]
  OBVIOUS
<1>4. \/ poolCalls' = poolCalls
      \/ tx.claim.pool \in Pools /\ poolCalls' = Append(poolCalls, call)
  <2>1. CASE /\ tx.fn = "approveClaimSpending"
             /\ ApproveClaimSpending(o, tx.claim, tx.claimIndex, accepted)
    BY <2>1, <1>3 DEF ApproveClaimSpending, PoolCall, CallSucceeds
  <2>2. ASSUME tx.fn = "respondToClaim", NEW signature \in Signatures,
               RespondToClaim(o, tx.claim, tx.claimIndex, signature, accepted)
        PROVE  \/ poolCalls' = poolCalls
               \/ tx.claim.pool \in Pools /\ poolCalls' = Append(poolCalls, call)
    BY <2>2, <1>3 DEF RespondToClaim, PoolCall, CallSucceeds, answerVars
  <2>3. QED
    BY <2>1, <2>2
<1>5. CASE poolCalls' = poolCalls
  BY <1>2, <1>5 DEF OperatorInv, GoodCalls, Calls
<1>6. CASE tx.claim.pool \in Pools /\ poolCalls' = Append(poolCalls, call)
  <2>1. poolCalls \in Seq(PoolCallRecord)
    BY DEF OperatorInv, TypeOK, ContractTypeOK
  <2>2. call \in PoolCallRecord
    BY <1>1, <1>3, <1>6 DEF PoolCallRecord, SubmittedClaim, Claim, Transaction
  <2>3. /\ Len(poolCalls) \in Nat
        /\ Len(poolCalls') = Len(poolCalls) + 1
        /\ poolCalls'[Len(poolCalls) + 1] = call
        /\ \A k \in 1 .. Len(poolCalls) : poolCalls'[k] = poolCalls[k]
    BY <2>1, <2>2, <1>6, Appended
  <2>4. ClaimOfEvent(tx.claimIndex) \in Claim
    BY <1>1, CreatedClaim DEF OperatorInv, GoodTx
  <2>5. tx.claim.pool = ClaimOfEvent(tx.claimIndex).pool
    BY <2>4 DEF GoodTx, Completes, Claim
  <2>6. GoodCall(call)
    BY <1>1, <1>3, <2>5 DEF GoodTx, GoodCall, SubmittedClaim
  <2>7. QED
    BY <1>2, <2>3, <2>6 DEF OperatorInv, GoodCalls, Calls
<1>7. QED
  BY <1>4, <1>5, <1>6

LEMMA MineTxInv ==
    ASSUME OperatorInv, NEW o \in Operators, MineTx(o)
    PROVE  OperatorInv'
<1>1. PICK tx : tx = Head(mempool[o])
  OBVIOUS
<1>2. mempool \in [Operators -> Seq(Transaction)] /\ mempool[o] \in Seq(Transaction)
  BY DEF OperatorInv, TypeOK
<1>3. mempool[o] # <<>> /\ mempool' = [mempool EXCEPT ![o] = Tail(@)]
  BY DEF MineTx
<1>4. /\ Len(mempool[o]) \in Nat \ {0}
      /\ tx = mempool[o][1]
      /\ Tail(mempool[o]) \in Seq(Transaction)
      /\ Len(Tail(mempool[o])) = Len(mempool[o]) - 1
      /\ \A k \in 1 .. Len(mempool[o]) - 1 : Tail(mempool[o])[k] = mempool[o][k + 1]
  BY <1>1, <1>2, <1>3
<1>5. tx \in Transaction /\ GoodTx(o, tx)
  BY <1>2, <1>4, ElementOfSeq DEF OperatorInv, GoodMempool
<1>6. PICK accepted \in BOOLEAN :
        /\ IF tx.fn = "approveClaimSpending"
           THEN ApproveClaimSpending(o, tx.claim, tx.claimIndex, accepted)
           ELSE \E signature \in Signatures :
                   RespondToClaim(o, tx.claim, tx.claimIndex, signature, accepted)
        /\ IF handler[o][tx.claimIndex].pc = "wait" /\ handler[o][tx.claimIndex].receipt = "pending"
           THEN Become(o, tx.claimIndex, [handler[o][tx.claimIndex] EXCEPT !.receipt =
                    IF CallSucceeds(tx.claim, accepted) THEN "ok" ELSE "reverted"])
           ELSE UNCHANGED handler
  BY <1>1 DEF MineTx
<1>7. \/ /\ tx.fn = "approveClaimSpending"
         /\ ApproveClaimSpending(o, tx.claim, tx.claimIndex, accepted)
      \/ /\ tx.fn = "respondToClaim"
         /\ \E signature \in Signatures :
               RespondToClaim(o, tx.claim, tx.claimIndex, signature, accepted)
  BY <1>5, <1>6 DEF Transaction
<1>8. /\ ContractTypeOK'
      /\ UNCHANGED <<claimVars, configVars, blockNumber>>
      /\ \A k \in 1 .. Len(poolCalls') : GoodCall(poolCalls'[k])
  BY <1>5, <1>7, MinedCalls
<1>9. /\ UNCHANGED <<monitoring, registered, crashes, inbox, evidence>>
      /\ UNCHANGED <<latestClaimNum, allClaimHashes, newClaimEvents>>
      /\ minedNonce' = [minedNonce EXCEPT ![o] = @ + 1]
  BY <1>8 DEF MineTx, processVars, claimVars
<1>10. ClaimsRecordedAsAnnounced'
  BY <1>9 DEF OperatorInv, ClaimsRecordedAsAnnounced, Hash
<1>11. Kept
  BY <1>9 DEF OperatorInv, TypeOK, ContractTypeOK, Kept, ClaimOfEvent, Uint32
<1>12. /\ handler' \in [Operators -> [Uint32 -> HandlerState]]
       /\ \A p \in Operators, j \in Uint32 :
             /\ handler'[p][j].pc = handler[p][j].pc
             /\ handler'[p][j].fn = handler[p][j].fn
             /\ handler'[p][j].isApproved = handler[p][j].isApproved
             /\ handler'[p][j].proofUri = handler[p][j].proofUri
  <2>1. CASE UNCHANGED handler
    BY <2>1 DEF OperatorInv, TypeOK
  <2>2. ASSUME NEW receipt \in {"ok", "reverted"},
               Become(o, tx.claimIndex, [handler[o][tx.claimIndex] EXCEPT !.receipt = receipt])
        PROVE  <1>12!2 /\ handler' \in [Operators -> [Uint32 -> HandlerState]]
    <3>1. tx.claimIndex \in Uint32 /\ handler[o][tx.claimIndex] \in HandlerState
      BY <1>5 DEF OperatorInv, TypeOK, Transaction
    <3>2. PICK h : h = [handler[o][tx.claimIndex] EXCEPT !.receipt = receipt]
      OBVIOUS
    <3>3. h \in HandlerState /\ Become(o, tx.claimIndex, h)
      BY <2>2, <3>1, <3>2 DEF HandlerState
    <3>4. /\ h.pc = handler[o][tx.claimIndex].pc /\ h.fn = handler[o][tx.claimIndex].fn
          /\ h.isApproved = handler[o][tx.claimIndex].isApproved
          /\ h.proofUri = handler[o][tx.claimIndex].proofUri
      BY <3>1, <3>2 DEF HandlerState
    <3>5. TypeOK
      BY DEF OperatorInv
    <3>6. /\ handler' \in [Operators -> [Uint32 -> HandlerState]]
          /\ handler'[o][tx.claimIndex] = h
          /\ \A p \in Operators, j \in Uint32 :
                p # o \/ j # tx.claimIndex => handler'[p][j] = handler[p][j]
      BY <3>1, <3>3, <3>5, OneHandler
    <3>7. QED
      BY <3>4, <3>6
  <2>3. QED
    BY <1>6, <2>1, <2>2
<1>13. /\ mempool' \in [Operators -> Seq(Transaction)]
       /\ \A p \in Operators : mempool'[p] = IF p = o THEN Tail(mempool[o]) ELSE mempool[p]
  BY <1>2, <1>3, <1>4
<1>14. TypeOK'
  <2>1. minedNonce' \in [Operators -> Nat]
    BY <1>9 DEF OperatorInv, TypeOK
  <2>2. QED
    BY <2>1, <1>8, <1>9, <1>12, <1>13 DEF OperatorInv, TypeOK
<1>15. GoodInbox'
  BY <1>9, <1>11, <1>14, InboxKept DEF OperatorInv
<1>16. GoodHandlers'
  BY <1>9, <1>12 DEF OperatorInv, GoodHandlers, GoodHandler
<1>17. ASSUME NEW p \in Operators, NEW k \in 1 .. Len(mempool'[p])
       PROVE  GoodTx(p, mempool[p][k])'
  <2>1. GoodTx(p, mempool'[p][k])
    <3>1. CASE p = o
      <4>1. mempool'[p] = Tail(mempool[o])
        BY <3>1, <1>13
      <4>2. k \in 1 .. Len(mempool[o]) - 1
        BY <4>1, <1>4
      <4>3. k + 1 \in 1 .. Len(mempool[o]) /\ mempool'[p][k] = mempool[o][k + 1]
        BY <4>1, <4>2, <1>4
      <4>4. QED
        BY <3>1, <4>3 DEF OperatorInv, GoodMempool
    <3>2. CASE p # o
      BY <3>2, <1>13 DEF OperatorInv, GoodMempool
    <3>3. QED
      BY <3>1, <3>2
  <2>2. QED
    BY <2>1, <1>9 DEF GoodTx, Completes, ClaimOfEvent
<1>18. ASSUME NEW k \in Calls'
       PROVE  GoodCall(poolCalls[k])'
  <2>1. GoodCall(poolCalls'[k])
    BY <1>8, <1>18 DEF Calls
  <2>2. QED
    BY <2>1, <1>9 DEF GoodCall, Completes, ClaimOfEvent, SubmittedClaim
<1>19. QED
  BY <1>10, <1>14, <1>15, <1>16, <1>17, <1>18 DEF OperatorInv, GoodMempool, GoodCalls

----------------------------------------------------------------------------
(* The steps of the process and of the chain around it.                    *)
LEMMA ClaimCreatedKept ==
    ASSUME OperatorInv,
           NEW pool \in Addresses, NEW insured \in Insureds,
           NEW amount \in Amounts, NEW index \in Indexes,
           ClaimCreated(pool, insured, amount, index)
    PROVE  Kept
<1>1. latestClaimNum' = latestClaimNum + 1 /\ UNCHANGED evidence
  BY DEF ClaimCreated, CreateNewClaim
<1>2. latestClaimNum \in Uint32 /\ latestClaimNum \in Nat
  BY ConstantsAssumption DEF OperatorInv, TypeOK, ContractTypeOK, Uint32
<1>3. /\ newClaimEvents \in Seq(NewClaimEvent)
      /\ latestClaimNum = Len(newClaimEvents)
  BY DEF OperatorInv, TypeOK, ContractTypeOK, ClaimsRecordedAsAnnounced
<1>4. PICK event \in NewClaimEvent : newClaimEvents' = Append(newClaimEvents, event)
  BY <1>2, NewClaimType DEF OperatorInv, TypeOK, NewClaimEvent, ClaimCreated, CreateNewClaim
<1>5. \A k \in 1 .. Len(newClaimEvents) : newClaimEvents'[k] = newClaimEvents[k]
  BY <1>3, <1>4, Appended
<1>6. ASSUME NEW i \in Uint32, i < latestClaimNum
      PROVE  ClaimOfEvent(i)' = ClaimOfEvent(i)
  <2>1. i + 1 \in 1 .. Len(newClaimEvents)
    BY <1>3, <1>6, <1>2 DEF Uint32
  <2>2. QED
    BY <1>5, <2>1 DEF ClaimOfEvent
<1>7. latestClaimNum <= latestClaimNum'
  BY <1>1, <1>2
<1>8. evidence' = evidence
  BY <1>1
<1>9. QED
  BY <1>6, <1>7, <1>8, Zenon DEF Kept

LEMMA ClaimCreatedInv ==
    ASSUME OperatorInv,
           NEW pool \in Addresses, NEW insured \in Insureds,
           NEW amount \in Amounts, NEW index \in Indexes,
           ClaimCreated(pool, insured, amount, index)
    PROVE  OperatorInv'
<1>1. /\ CreateNewClaim(pool, insured, amount, index)
      /\ UNCHANGED <<monitoring, registered, crashes, handler, minedNonce, mempool, evidence>>
      /\ UNCHANGED poolCalls
      /\ latestClaimNum' = latestClaimNum + 1
  BY DEF ClaimCreated, walletVars, CreateNewClaim, answerVars
<1>2. ContractTypeOK' /\ ClaimsRecordedAsAnnounced'
  BY <1>1, CreateNewClaimType, RecordCreate DEF OperatorInv, TypeOK
<1>3. latestClaimNum \in Uint32 /\ latestClaimNum \in Nat
  BY ConstantsAssumption DEF OperatorInv, TypeOK, ContractTypeOK, Uint32
<1>4. ASSUME NEW o \in Operators
      PROVE  /\ inbox'[o] \in Seq(Uint32)
             /\ \A k \in 1 .. Len(inbox'[o]) : inbox'[o][k] < latestClaimNum'
  <2>1. inbox[o] \in Seq(Uint32)
    BY DEF OperatorInv, TypeOK
  <2>2. inbox'[o] = inbox[o] \/ inbox'[o] = Append(inbox[o], latestClaimNum)
    BY DEF ClaimCreated
  <2>3. \A k \in 1 .. Len(inbox[o]) : inbox[o][k] < latestClaimNum'
    <3> TAKE k \in 1 .. Len(inbox[o])
    <3>1. inbox[o][k] \in Uint32 /\ inbox[o][k] < latestClaimNum
      BY <2>1, ElementOfSeq DEF OperatorInv, GoodInbox
    <3>2. QED
      BY <3>1, <1>1, <1>3 DEF Uint32
  <2>4. CASE inbox'[o] = inbox[o]
    BY <2>1, <2>3, <2>4
  <2>5. CASE inbox'[o] = Append(inbox[o], latestClaimNum)
    <3>1. /\ Append(inbox[o], latestClaimNum) \in Seq(Uint32)
          /\ Len(inbox[o]) \in Nat
          /\ Len(Append(inbox[o], latestClaimNum)) = Len(inbox[o]) + 1
          /\ Append(inbox[o], latestClaimNum)[Len(inbox[o]) + 1] = latestClaimNum
          /\ \A k \in 1 .. Len(inbox[o]) : Append(inbox[o], latestClaimNum)[k] = inbox[o][k]
      BY <2>1, <1>3, AppendProperties, LenProperties
    <3>2. QED
      BY <2>3, <2>5, <3>1, <1>1, <1>3
  <2>6. QED
    BY <2>2, <2>4, <2>5
<1>5. inbox' \in [Operators -> Seq(Uint32)]
  <2>1. PICK f : f = [o \in Operators |-> inbox'[o]]
    OBVIOUS
  <2>2. inbox' = f
    BY <2>1 DEF ClaimCreated
  <2>3. QED
    BY <2>1, <2>2, <1>4
<1>6. TypeOK'
  BY <1>1, <1>2, <1>5 DEF OperatorInv, TypeOK
<1>7. Kept
  BY ClaimCreatedKept
<1>8. GoodHandlers' /\ GoodMempool' /\ GoodCalls'
  BY <1>1, <1>6, <1>7, HandlersKept, MempoolKept, CallsKept DEF OperatorInv
<1>9. QED
  BY <1>2, <1>4, <1>6, <1>8 DEF OperatorInv, GoodInbox

LEMMA StartInv ==
    ASSUME OperatorInv, NEW o \in Operators, Start(o) \/ Deregister(o)
    PROVE  OperatorInv'
<1>1. UNCHANGED <<contractVars, crashes, inbox, handler, minedNonce, mempool, evidence>>
  BY DEF Start, Deregister, walletVars
<1>2. ContractTypeOK' /\ ClaimsRecordedAsAnnounced' /\ Kept
  BY <1>1, ContractUnchanged DEF OperatorInv
<1>3. /\ registered' \in [Operators -> BOOLEAN]
      /\ monitoring' \in [Operators -> BOOLEAN]
  BY DEF Start, Deregister, OperatorInv, TypeOK
<1>4. TypeOK'
  BY <1>1, <1>2, <1>3 DEF OperatorInv, TypeOK
<1>5. UNCHANGED poolCalls
  BY <1>1 DEF contractVars, answerVars
<1>6. QED
  BY <1>1, <1>2, <1>4, <1>5, InboxKept, HandlersKept, MempoolKept, CallsKept DEF OperatorInv

LEMMA CrashInv ==
    ASSUME OperatorInv, NEW o \in Operators, Crash(o)
    PROVE  OperatorInv'
<1>1. UNCHANGED <<contractVars, registered, minedNonce, mempool, evidence>>
  BY DEF Crash, walletVars
<1>2. ContractTypeOK' /\ ClaimsRecordedAsAnnounced' /\ Kept /\ UNCHANGED poolCalls
  BY <1>1, ContractUnchanged DEF OperatorInv, contractVars, answerVars
<1>3. Idle \in HandlerState
  BY ConstantsAssumption DEF Idle, HandlerState
<1>4. handler' = [handler EXCEPT ![o] = [i \in Uint32 |-> Idle]]
  BY DEF Crash
<1>5. handler \in [Operators -> [Uint32 -> HandlerState]]
  BY DEF OperatorInv, TypeOK
<1>6. /\ handler' \in [Operators -> [Uint32 -> HandlerState]]
      /\ \A p \in Operators, i \in Uint32 :
            handler'[p][i] = Idle \/ handler'[p][i] = handler[p][i]
  BY <1>3, <1>4, <1>5
<1>7. /\ inbox' \in [Operators -> Seq(Uint32)]
      /\ \A p \in Operators : inbox'[p] = inbox[p] \/ inbox'[p] = <<>>
  BY EmptySeq DEF Crash, OperatorInv, TypeOK
<1>8. crashes' \in [Operators -> 0 .. MaxCrashes] /\ monitoring' \in [Operators -> BOOLEAN]
  BY OperatorAssumption DEF Crash, OperatorInv, TypeOK
<1>9. TypeOK'
  BY <1>1, <1>2, <1>6, <1>7, <1>8 DEF OperatorInv, TypeOK
<1>10. GoodMempool' /\ GoodCalls'
  BY <1>1, <1>2, <1>9, MempoolKept, CallsKept DEF OperatorInv
<1>11. ASSUME NEW p \in Operators, NEW i \in Uint32
       PROVE  GoodHandler(p, i, handler[p][i])'
  <2>1. CASE handler'[p][i] = Idle
    BY <2>1 DEF GoodHandler, Idle, TxSteps
  <2>2. CASE handler'[p][i] = handler[p][i]
    BY <2>2, <1>5, <1>2, <1>9, HandlerKept DEF OperatorInv, GoodHandlers, GoodHandler
  <2>3. QED
    BY <2>1, <2>2, <1>6
<1>12. latestClaimNum' = latestClaimNum
  BY <1>1 DEF contractVars, claimVars
<1>13. ASSUME NEW p \in Operators, NEW k \in 1 .. Len(inbox'[p])
       PROVE  inbox'[p][k] < latestClaimNum'
  <2>1. inbox'[p] = inbox[p]
    BY <1>7
  <2>2. QED
    BY <2>1, <1>12 DEF OperatorInv, GoodInbox
<1>14. QED
  BY <1>2, <1>9, <1>10, <1>11, <1>13 DEF OperatorInv, GoodHandlers, GoodInbox

LEMMA DeliverInv ==
    ASSUME OperatorInv, NEW o \in Operators, Deliver(o)
    PROVE  OperatorInv'
<1>1. /\ UNCHANGED <<contractVars, monitoring, registered, crashes, minedNonce, mempool, evidence>>
      /\ inbox[o] # <<>> /\ inbox' = [inbox EXCEPT ![o] = Tail(@)]
  BY DEF Deliver, walletVars
<1>2. ContractTypeOK' /\ ClaimsRecordedAsAnnounced' /\ Kept /\ UNCHANGED poolCalls
  BY <1>1, ContractUnchanged DEF OperatorInv, contractVars, answerVars
<1>3. latestClaimNum' = latestClaimNum
  BY <1>1 DEF contractVars, claimVars
<1>4. inbox \in [Operators -> Seq(Uint32)] /\ inbox[o] \in Seq(Uint32)
  BY DEF OperatorInv, TypeOK
<1>5. PICK i : i = Head(inbox[o])
  OBVIOUS
<1>6. /\ Len(inbox[o]) \in Nat \ {0}
      /\ i = inbox[o][1]
      /\ Tail(inbox[o]) \in Seq(Uint32)
      /\ Len(Tail(inbox[o])) = Len(inbox[o]) - 1
      /\ \A k \in 1 .. Len(inbox[o]) - 1 : Tail(inbox[o])[k] = inbox[o][k + 1]
  BY <1>1, <1>4, <1>5
<1>7. i \in Uint32 /\ i < latestClaimNum
  BY <1>4, <1>6, ElementOfSeq DEF OperatorInv, GoodInbox
<1>8. PICK h : h = [Idle EXCEPT !.pc = "inputs"]
  OBVIOUS
<1>9. h \in HandlerState /\ Become(o, i, h)
  BY <1>5, <1>8, ConstantsAssumption DEF Deliver, Idle, HandlerState, ProofSteps
<1>10. /\ handler' \in [Operators -> [Uint32 -> HandlerState]]
       /\ handler'[o][i] = h
       /\ \A p \in Operators, j \in Uint32 : p # o \/ j # i => handler'[p][j] = handler[p][j]
  BY <1>7, <1>9, OneHandler DEF OperatorInv
<1>11. /\ inbox' \in [Operators -> Seq(Uint32)]
       /\ \A p \in Operators : inbox'[p] = IF p = o THEN Tail(inbox[o]) ELSE inbox[p]
  BY <1>1, <1>4, <1>6
<1>12. TypeOK'
  BY <1>1, <1>2, <1>10, <1>11 DEF OperatorInv, TypeOK
<1>13. GoodMempool' /\ GoodCalls'
  BY <1>1, <1>2, <1>12, MempoolKept, CallsKept DEF OperatorInv
<1>14. ASSUME NEW p \in Operators, NEW j \in Uint32
       PROVE  GoodHandler(p, j, handler[p][j])'
  <2>1. CASE p = o /\ j = i
    BY <2>1, <1>3, <1>7, <1>8, <1>10 DEF GoodHandler, Idle, TxSteps
  <2>2. CASE p # o \/ j # i
    <3>1. handler'[p][j] = handler[p][j]
      BY <2>2, <1>10
    <3>2. handler[p][j] \in HandlerState /\ GoodHandler(p, j, handler[p][j])
      BY DEF OperatorInv, TypeOK, GoodHandlers
    <3>3. QED
      BY <1>2, <1>12, <3>1, <3>2, HandlerKept DEF OperatorInv, GoodHandler
  <2>3. QED
    BY <2>1, <2>2
<1>15. ASSUME NEW p \in Operators, NEW k \in 1 .. Len(inbox'[p])
       PROVE  inbox'[p][k] < latestClaimNum'
  <2>1. CASE p = o
    <3>1. inbox'[p] = Tail(inbox[o])
      BY <2>1, <1>11
    <3>2. k \in 1 .. Len(inbox[o]) - 1
      BY <3>1, <1>6
    <3>3. k + 1 \in 1 .. Len(inbox[o]) /\ inbox'[p][k] = inbox[o][k + 1]
      BY <3>1, <3>2, <1>6
    <3>4. QED
      BY <3>3, <1>3 DEF OperatorInv, GoodInbox
  <2>2. CASE p # o
    BY <2>2, <1>3, <1>11 DEF OperatorInv, GoodInbox
  <2>3. QED
    BY <2>1, <2>2
<1>16. QED
  BY <1>2, <1>12, <1>13, <1>14, <1>15 DEF OperatorInv, GoodHandlers, GoodInbox

----------------------------------------------------------------------------
LEMMA OperatorInvInit == Init => OperatorInv
<1> SUFFICES ASSUME Init PROVE OperatorInv
  OBVIOUS
<1>1. ContractTypeOK /\ ClaimsRecordedAsAnnounced
  BY ContractInitType, RecordInit DEF Init
<1>2. Idle \in HandlerState
  BY ConstantsAssumption DEF Idle, HandlerState
<1>3. handler \in [Operators -> [Uint32 -> HandlerState]]
  BY <1>2 DEF Init
<1>4. inbox \in [Operators -> Seq(Uint32)] /\ mempool \in [Operators -> Seq(Transaction)]
  BY EmptySeq DEF Init
<1>5. TypeOK
  BY <1>1, <1>3, <1>4, OperatorAssumption DEF Init, TypeOK
<1>6. GoodInbox /\ GoodMempool /\ GoodCalls
  BY DEF Init, ContractInit, GoodInbox, GoodMempool, GoodCalls, Calls
<1>7. GoodHandlers
  BY DEF Init, GoodHandlers, GoodHandler, Idle, TxSteps
<1>8. QED
  BY <1>1, <1>5, <1>6, <1>7 DEF OperatorInv

LEMMA OperatorInvStep == OperatorInv /\ [Next]_vars => OperatorInv'
<1> SUFFICES ASSUME OperatorInv, [Next]_vars PROVE OperatorInv'
  OBVIOUS
<1>1. CASE UNCHANGED vars
  <2>1. /\ UNCHANGED <<contractVars, inbox, handler, mempool, evidence>>
        /\ UNCHANGED <<monitoring, registered, crashes, minedNonce>>
    BY <1>1 DEF vars, processVars, walletVars
  <2>2. ContractTypeOK' /\ ClaimsRecordedAsAnnounced' /\ Kept /\ UNCHANGED poolCalls
    BY <2>1, ContractUnchanged DEF OperatorInv, contractVars, answerVars
  <2>3. TypeOK'
    BY <2>1, <2>2 DEF OperatorInv, TypeOK
  <2>4. QED
    BY <2>1, <2>2, <2>3, InboxKept, HandlersKept, MempoolKept, CallsKept DEF OperatorInv
<1>2. ASSUME NEW pool \in Addresses, NEW insured \in Insureds,
             NEW amount \in Amounts, NEW index \in Indexes,
             ClaimCreated(pool, insured, amount, index)
      PROVE  OperatorInv'
  BY <1>2, ClaimCreatedInv
<1>3. ASSUME NEW o \in Operators,
             Start(o) \/ Crash(o) \/ Deregister(o) \/ Deliver(o) \/ MineTx(o)
      PROVE  OperatorInv'
  BY <1>3, StartInv, CrashInv, DeliverInv, MineTxInv
<1>4. ASSUME NEW o \in Operators, NEW i \in Uint32,
             HandlerStep(o, i) \/ BroadcastUnheard(o, i) \/ RpcError(o, i)
      PROVE  OperatorInv'
  BY <1>4, GatherInputsInv, FetchProofInv, VerifyProofInv, UploadProofInv, TestValueInv,
     PopulateInv, BroadcastInv, BroadcastRefusedInv, BroadcastReplacesInv, ConfirmedInv,
     RpcErrorInv DEF HandlerStep
<1>5. QED
  BY <1>1, <1>2, <1>3, <1>4 DEF Next

LEMMA OperatorInvariant == Spec => []OperatorInv
  BY OperatorInvInit, OperatorInvStep, PTL DEF Spec

(* Types hold, in particular of what a pool is handed: a handler never     *)
(* reads the event of a claim that does not exist.                         *)
THEOREM OperatorTypeCorrect == Spec => []TypeOK
<1>1. OperatorInv => TypeOK
  BY DEF OperatorInv
<1>2. QED
  BY <1>1, OperatorInvariant, PTL

LEMMA GoodCallsCarry == OperatorInv => CallsCarryTheCreatedClaim
<1> SUFFICES ASSUME OperatorInv, NEW k \in Calls
             PROVE  LET call == poolCalls[k]
                        created == ClaimOfEvent(call.claimIndex)
                    IN  /\ call.claimIndex < latestClaimNum
                        /\ call.pool = created.pool
                        /\ \E uri \in ProofUris, verdict \in BOOLEAN :
                              call.claim = SubmittedClaim([created EXCEPT !.proofUri = uri,
                                                                  !.isApproved = verdict])
  BY DEF CallsCarryTheCreatedClaim
<1>1. GoodCall(poolCalls[k])
  BY DEF OperatorInv, GoodCalls
<1>2. QED
  BY <1>1 DEF GoodCall, Completes

LEMMA GoodCallsRest == OperatorInv => SpendingRestsOnEvidence
<1> SUFFICES ASSUME OperatorInv, NEW k \in Calls, IsApproval(k)
             PROVE  /\ evidence[poolCalls[k].sender][poolCalls[k].claimIndex] = Facts
                    /\ poolCalls[k].claim.isApproved
                    /\ poolCalls[k].claim.proofUri =
                          ProofUri(poolCalls[k].sender, poolCalls[k].claimIndex)
  BY DEF SpendingRestsOnEvidence
<1>1. GoodCall(poolCalls[k]) /\ poolCalls[k].fn = "approveClaimSpending"
  BY DEF OperatorInv, GoodCalls, IsApproval
<1>2. poolCalls \in Seq(PoolCallRecord)
  BY DEF OperatorInv, TypeOK, ContractTypeOK
<1>3. poolCalls[k] \in PoolCallRecord
  BY <1>2, ElementOfSeq DEF Calls
<1>4. poolCalls[k].sender \in Operators /\ poolCalls[k].claimIndex \in Uint32
  BY <1>3 DEF PoolCallRecord
<1>5. evidence[poolCalls[k].sender][poolCalls[k].claimIndex] \in SUBSET Facts
  BY <1>4 DEF OperatorInv, TypeOK
<1>6. QED
  BY <1>1, <1>5 DEF GoodCall

(* No interleaving of handlers, no replaced or lost transaction and no     *)
(* restart makes an operator answer one claim with another's.              *)
THEOREM CallsCarryCreatedClaims == Spec => []CallsCarryTheCreatedClaim
  BY OperatorInvariant, GoodCallsCarry, PTL

(* Spending is approved on evidence alone, for any operators and faults.   *)
THEOREM SpendingIsEvidenced == Spec => []SpendingRestsOnEvidence
  BY OperatorInvariant, GoodCallsRest, PTL

----------------------------------------------------------------------------
(* The order of what an operator says of a claim: nothing is said twice,   *)
(* and a positive answer follows the spending it rests on.                 *)
Ap == "approveClaimSpending"
Re == "respondToClaim"

(* What the pools have heard of claim i from operator o, and what is still *)
(* to be mined of it.                                                      *)
IsCall(k, o, i) == poolCalls[k].sender = o /\ poolCalls[k].claimIndex = i
Called(o, i, fn) == \E k \in Calls : IsCall(k, o, i) /\ poolCalls[k].fn = fn
CalledWith(o, i, claim) ==
    \E k \in Calls : IsCall(k, o, i) /\ IsApproval(k) /\ poolCalls[k].claim = claim

Queue(o) == 1 .. Len(mempool[o])
Queued(o, i, fn) == \E k \in Queue(o) : mempool[o][k].claimIndex = i /\ mempool[o][k].fn = fn
NoneQueued(o, i) == \A k \in Queue(o) : mempool[o][k].claimIndex # i
NoneCalled(o, i) == \A k \in Calls : ~IsCall(k, o, i)
NothingSaid(o, i) == NoneQueued(o, i) /\ NoneCalled(o, i)

AnswerOf(i, h) ==
    [ClaimOfEvent(i) EXCEPT !.isApproved = h.isApproved, !.proofUri = h.proofUri]

(* Before its first transaction a handler has said nothing; between its    *)
(* two transactions its approval, and nothing else, has been heard.        *)
HandlerOrder(o, i, h) ==
    /\ h.pc \in ProofSteps => NothingSaid(o, i)
    /\ h.pc \in {"populate", "send"} /\ (h.fn = Ap \/ ~h.isApproved) => NothingSaid(o, i)
    /\ \/ h.pc \in {"populate", "send"} /\ h.fn = Re /\ h.isApproved
       \/ h.pc = "wait" /\ h.fn = Ap /\ h.receipt = "ok"
       => /\ CalledWith(o, i, SubmittedClaim(AnswerOf(i, h)))
          /\ ~Called(o, i, Re)
          /\ NoneQueued(o, i)
    /\ h.pc = "wait" /\ h.fn = Ap /\ h.receipt = "pending" =>
          /\ NoneCalled(o, i)
          /\ \A k \in Queue(o) : mempool[o][k].claimIndex = i =>
                mempool[o][k].fn = Ap /\ mempool[o][k].claim = AnswerOf(i, h)

HandlersOrder == \A o \in Operators, i \in Uint32 : HandlerOrder(o, i, handler[o][i])

(* A claim that is not delivered yet is delivered once, to an idle handler,*)
(* and nothing was said of it.                                             *)
InboxOrder ==
    \A o \in Operators : \A k \in 1 .. Len(inbox[o]) :
        /\ handler[o][inbox[o][k]].pc = "idle"
        /\ NothingSaid(o, inbox[o][k])
        /\ \A l \in 1 .. Len(inbox[o]) : inbox[o][k] = inbox[o][l] => k = l

(* No two transactions of a wallet, mined or not, say the same.            *)
QueueDistinct ==
    \A o \in Operators : \A k \in Queue(o) :
        /\ \A l \in Queue(o) : /\ mempool[o][k].fn = mempool[o][l].fn
                               /\ mempool[o][k].claimIndex = mempool[o][l].claimIndex
                               => k = l
        /\ ~Called(o, mempool[o][k].claimIndex, mempool[o][k].fn)

(* What a transaction that answers rests on.                               *)
TxFollows(o, tx) ==
    tx.fn = Re =>
        IF tx.claim.isApproved
        THEN CalledWith(o, tx.claimIndex, SubmittedClaim(tx.claim))
        ELSE ~Called(o, tx.claimIndex, Ap) /\ ~Queued(o, tx.claimIndex, Ap)

QueueFollows == \A o \in Operators : \A k \in Queue(o) : TxFollows(o, mempool[o][k])

(* A negative answer that was heard is followed by no approval.            *)
RejectionsFinal ==
    \A k \in Calls : ~IsApproval(k) /\ ~poolCalls[k].claim.isApproved =>
        ~Queued(poolCalls[k].sender, poolCalls[k].claimIndex, Ap)

OrderInv ==
    /\ HandlersOrder
    /\ InboxOrder
    /\ QueueDistinct
    /\ QueueFollows
    /\ RejectionsFinal
    /\ NothingSaidTwice
    /\ AnswersFollowSpending

----------------------------------------------------------------------------
(* What a step leaves alone: the calls that were heard stay, and of a      *)
(* claim the step is not about nothing is said anew.                       *)
CallsKeep == \A k \in Calls : k \in Calls' /\ poolCalls'[k] = poolCalls[k]
NoNewCall(o, i) == \A k \in Calls' : IsCall(k, o, i)' => k \in Calls
NoNewTx(o, i) ==
    \A k \in Queue(o)' : mempool'[o][k].claimIndex = i =>
        \E l \in Queue(o) : mempool'[o][k] = mempool[o][l]

LEMMA CallsStay ==
    ASSUME CallsKeep, NEW o, NEW i, NEW claim, CalledWith(o, i, claim)
    PROVE  CalledWith(o, i, claim)'
<1>1. PICK k \in Calls : IsCall(k, o, i) /\ IsApproval(k) /\ poolCalls[k].claim = claim
  BY DEF CalledWith
<1>2. k \in Calls' /\ poolCalls'[k] = poolCalls[k]
  BY DEF CallsKeep
<1>3. QED
  BY <1>1, <1>2 DEF CalledWith, IsCall, IsApproval

LEMMA NoneCalledKept ==
    ASSUME CallsKeep, NEW o, NEW i, NoNewCall(o, i)
    PROVE  /\ NoneCalled(o, i) => NoneCalled(o, i)'
           /\ \A fn : Called(o, i, fn)' => Called(o, i, fn)
<1>1. ASSUME NEW k \in Calls', IsCall(k, o, i)'
      PROVE  k \in Calls /\ poolCalls'[k] = poolCalls[k]
  BY <1>1 DEF CallsKeep, NoNewCall
<1>2. QED
  BY <1>1 DEF NoneCalled, Called, IsCall

LEMMA NoneQueuedKept ==
    ASSUME NEW o, NEW i, NoNewTx(o, i)
    PROVE  /\ NoneQueued(o, i) => NoneQueued(o, i)'
           /\ \A fn : Queued(o, i, fn)' => Queued(o, i, fn)
BY DEF NoNewTx, NoneQueued, Queued

LEMMA HandlerOrderKept ==
    ASSUME NEW o \in Operators, NEW i \in Uint32, NEW h \in HandlerState,
           HandlerOrder(o, i, h), CallsKeep, NoNewCall(o, i), NoNewTx(o, i),
           h.pc # "idle" => ClaimOfEvent(i)' = ClaimOfEvent(i)
    PROVE  HandlerOrder(o, i, h)'
<1>1. NothingSaid(o, i) => NothingSaid(o, i)'
  BY NoneCalledKept, NoneQueuedKept DEF NothingSaid
<1>2. /\ NoneQueued(o, i) => NoneQueued(o, i)'
      /\ NoneCalled(o, i) => NoneCalled(o, i)'
      /\ ~Called(o, i, Re) => ~Called(o, i, Re)'
  BY NoneCalledKept, NoneQueuedKept
<1>3. h.pc # "idle" => AnswerOf(i, h)' = AnswerOf(i, h)
  BY DEF AnswerOf
<1>4. h.pc # "idle" /\ CalledWith(o, i, SubmittedClaim(AnswerOf(i, h)))
        => CalledWith(o, i, SubmittedClaim(AnswerOf(i, h)))'
  <2> SUFFICES ASSUME h.pc # "idle", CalledWith(o, i, SubmittedClaim(AnswerOf(i, h)))
               PROVE  CalledWith(o, i, SubmittedClaim(AnswerOf(i, h)))'
    OBVIOUS
  <2>1. PICK claim : claim = SubmittedClaim(AnswerOf(i, h))
    OBVIOUS
  <2>2. CalledWith(o, i, claim)'
    BY <2>1, CallsStay
  <2>3. SubmittedClaim(AnswerOf(i, h))' = claim
    BY <2>1, <1>3 DEF SubmittedClaim
  <2>4. QED
    BY <2>2, <2>3 DEF CalledWith, IsCall, IsApproval
<1>5. ASSUME h.pc # "idle",
             \A k \in Queue(o) : mempool[o][k].claimIndex = i =>
                mempool[o][k].fn = Ap /\ mempool[o][k].claim = AnswerOf(i, h)
      PROVE  \A k \in Queue(o)' : mempool'[o][k].claimIndex = i =>
                mempool'[o][k].fn = Ap /\ mempool'[o][k].claim = AnswerOf(i, h)'
  BY <1>3, <1>5 DEF NoNewTx
<1>6. QED
  BY <1>1, <1>2, <1>4, <1>5 DEF HandlerOrder, ProofSteps

(* A handler that moves on without sending keeps the order when its own    *)
(* next state is in order.                                                 *)
LEMMA OrderKeptBelow ==
    ASSUME OrderInv, UNCHANGED <<poolCalls, mempool>>
    PROVE  /\ QueueDistinct' /\ QueueFollows' /\ RejectionsFinal'
           /\ NothingSaidTwice' /\ AnswersFollowSpending'
           /\ CallsKeep /\ \A o, i : NoNewCall(o, i) /\ NoNewTx(o, i)
<1>1. CallsKeep /\ \A o, i : NoNewCall(o, i) /\ NoNewTx(o, i)
  BY DEF CallsKeep, NoNewCall, NoNewTx, Calls, Queue
<1>2. QueueDistinct' /\ QueueFollows' /\ RejectionsFinal'
  BY DEF OrderInv, QueueDistinct, QueueFollows, RejectionsFinal, TxFollows, Called, Queued,
         CalledWith, Queue, Calls, IsCall, IsApproval
<1>3. NothingSaidTwice' /\ AnswersFollowSpending'
  BY DEF OrderInv, NothingSaidTwice, AnswersFollowSpending, Calls, IsApproval
<1>4. QED
  BY <1>1, <1>2, <1>3

LEMMA NotAwaited ==
    ASSUME OrderInv, NEW o \in Operators, NEW i \in Uint32, handler[o][i].pc # "idle"
    PROVE  \A k \in 1 .. Len(inbox[o]) : inbox[o][k] # i
BY DEF OrderInv, InboxOrder

LEMMA QuietStep ==
    ASSUME OperatorInv, OrderInv, NEW o \in Operators, NEW i \in Uint32,
           NEW h \in HandlerState, Become(o, i, h), handler[o][i].pc # "idle",
           Unshared, HandlerOrder(o, i, h)
    PROVE  OrderInv'
<1>1. UNCHANGED <<poolCalls, mempool, inbox, newClaimEvents>>
  BY DEF Unshared, contractVars, answerVars, claimVars, processVars, walletVars
<1>2. /\ handler'[o][i] = h
      /\ \A p \in Operators, j \in Uint32 : p # o \/ j # i => handler'[p][j] = handler[p][j]
  BY OneHandler DEF OperatorInv
<1>3. CallsKeep /\ \A p, j : NoNewCall(p, j) /\ NoNewTx(p, j)
  BY <1>1, OrderKeptBelow
<1>4. HandlersOrder'
  <2> SUFFICES ASSUME NEW p \in Operators, NEW j \in Uint32
               PROVE  HandlerOrder(p, j, handler[p][j])'
    BY DEF HandlersOrder
  <2>0. handler[p][j] \in HandlerState /\ HandlerOrder(p, j, handler[p][j])
    BY DEF OperatorInv, OrderInv, HandlersOrder, TypeOK
  <2>1. PICK g \in HandlerState : g = handler'[p][j] /\ HandlerOrder(p, j, g)
    <3>1. CASE p = o /\ j = i
      BY <1>2, <3>1
    <3>2. CASE p # o \/ j # i
      BY <1>2, <2>0, <3>2
    <3>3. QED
      BY <3>1, <3>2
  <2>2. ClaimOfEvent(j)' = ClaimOfEvent(j)
    BY <1>1 DEF ClaimOfEvent
  <2>3. HandlerOrder(p, j, g)'
    BY <1>3, <2>1, <2>2, HandlerOrderKept
  <2>4. QED
    BY <2>1, <2>3 DEF HandlerOrder, AnswerOf
<1>5. InboxOrder'
  <2> SUFFICES ASSUME NEW p \in Operators, NEW k \in 1 .. Len(inbox[p])
               PROVE  /\ handler'[p][inbox[p][k]].pc = "idle"
                      /\ NothingSaid(p, inbox[p][k])'
                      /\ \A l \in 1 .. Len(inbox[p]) : inbox[p][k] = inbox[p][l] => k = l
    BY <1>1 DEF InboxOrder, NothingSaid, NoneQueued, NoneCalled, Queue, Calls, IsCall
  <2>1. inbox[p] \in Seq(Uint32)
    BY DEF OperatorInv, TypeOK
  <2>2. PICK j \in Uint32 : j = inbox[p][k]
    BY <2>1, ElementOfSeq
  <2>3. /\ handler[p][j].pc = "idle" /\ NothingSaid(p, j)
        /\ \A l \in 1 .. Len(inbox[p]) : inbox[p][k] = inbox[p][l] => k = l
    BY <2>2 DEF OrderInv, InboxOrder
  <2>4. p # o \/ j # i
    BY <2>3
  <2>5. NothingSaid(p, j)'
    BY <1>3, <2>3, NoneCalledKept, NoneQueuedKept DEF NothingSaid
  <2>6. NothingSaid(p, inbox[p][k])'
    BY <1>1, <2>2, <2>5 DEF NothingSaid, NoneQueued, NoneCalled, IsCall
  <2>7. QED
    BY <1>2, <2>2, <2>3, <2>4, <2>6
<1>6. QED
  BY <1>1, <1>4, <1>5, OrderKeptBelow DEF OrderInv

(* The steps of a handler that send nothing.                               *)
LEMMA QuietGoto ==
    ASSUME OperatorInv, OrderInv, NEW o \in Operators, NEW i \in Uint32,
           NEW pc \in ProofSteps \cup Settled, handler[o][i].pc # "idle",
           pc \in ProofSteps => handler[o][i].pc \in ProofSteps,
           Goto(o, i, pc), Unshared
    PROVE  OrderInv'
<1>1. handler[o][i] \in HandlerState /\ HandlerOrder(o, i, handler[o][i])
  BY DEF OperatorInv, OrderInv, HandlersOrder, TypeOK
<1>2. PICK h : h = [handler[o][i] EXCEPT !.pc = pc]
  OBVIOUS
<1>3. h \in HandlerState /\ Become(o, i, h) /\ h.pc = pc
  BY <1>1, <1>2 DEF Goto, HandlerState, ProofSteps, TxSteps, Settled
<1>4. HandlerOrder(o, i, h)
  BY <1>1, <1>3 DEF HandlerOrder, ProofSteps, Settled
<1>5. QED
  BY <1>3, <1>4, QuietStep

LEMMA QuietDecide ==
    ASSUME OperatorInv, OrderInv, NEW o \in Operators, NEW i \in Uint32,
           NEW verdict \in BOOLEAN, handler[o][i].pc \in ProofSteps,
           Decide(o, i, verdict), Unshared
    PROVE  OrderInv'
<1>1. /\ handler[o][i] \in HandlerState /\ HandlerOrder(o, i, handler[o][i])
      /\ handler[o][i].pc # "idle"
  BY DEF OperatorInv, OrderInv, HandlersOrder, TypeOK, ProofSteps
<1>2. PICK h : h = [handler[o][i] EXCEPT
        !.pc = "populate", !.isApproved = verdict,
        !.fn = IF verdict THEN "approveClaimSpending" ELSE "respondToClaim"]
  OBVIOUS
<1>3. /\ h \in HandlerState /\ Become(o, i, h)
      /\ h.pc = "populate" /\ h.isApproved = verdict /\ (h.fn = Re => ~verdict)
  BY <1>1, <1>2 DEF Decide, HandlerState, ProofSteps, TxSteps, Settled, Re
<1>4. HandlerOrder(o, i, h)
  BY <1>1, <1>3 DEF HandlerOrder, ProofSteps
<1>5. QED
  BY <1>1, <1>3, <1>4, QuietStep

LEMMA ProofStepsOrder ==
    ASSUME OperatorInv, OrderInv, NEW o \in Operators, NEW i \in Uint32,
           GatherInputs(o, i) \/ FetchProof(o, i) \/ VerifyProof(o, i)
             \/ UploadProof(o, i) \/ TestValue(o, i)
    PROVE  OrderInv'
<1>1. CASE GatherInputs(o, i)
  BY <1>1, QuietGoto DEF GatherInputs, ProofSteps, Settled
<1>2. CASE FetchProof(o, i)
  BY <1>2, QuietGoto, QuietDecide DEF FetchProof, ProofSteps
<1>3. CASE VerifyProof(o, i)
  BY <1>3, QuietGoto, QuietDecide DEF VerifyProof, ProofSteps, Settled
<1>4. CASE UploadProof(o, i)
  <2>1. handler[o][i] \in HandlerState /\ HandlerOrder(o, i, handler[o][i])
    BY DEF OperatorInv, OrderInv, HandlersOrder, TypeOK
  <2>2. ProofUri(o, i) \in ProofUris
    BY OperatorAssumption
  <2>3. PICK h : h = [handler[o][i] EXCEPT !.pc = "test", !.proofUri = ProofUri(o, i)]
    OBVIOUS
  <2>4. h \in HandlerState /\ h.pc = "test"
    BY <2>1, <2>2, <2>3 DEF HandlerState, ProofSteps
  <2>5. HandlerOrder(o, i, h)
    BY <1>4, <2>1, <2>4 DEF UploadProof, HandlerOrder, ProofSteps
  <2>6. CASE Become(o, i, h)
    BY <1>4, <2>4, <2>5, <2>6, QuietStep DEF UploadProof
  <2>7. CASE Decide(o, i, FALSE)
    BY <1>4, <2>7, QuietDecide DEF UploadProof, ProofSteps
  <2>8. QED
    BY <1>4, <2>3, <2>6, <2>7 DEF UploadProof
<1>5. CASE TestValue(o, i)
  BY <1>5, QuietDecide DEF TestValue, ProofSteps
<1>6. QED
  BY <1>1, <1>2, <1>3, <1>4, <1>5

LEMMA QuietTxStepsOrder ==
    ASSUME OperatorInv, OrderInv, NEW o \in Operators, NEW i \in Uint32,
           Populate(o, i) \/ BroadcastRefused(o, i) \/ Confirmed(o, i) \/ RpcError(o, i)
    PROVE  OrderInv'
<1>0. handler[o][i] \in HandlerState /\ HandlerOrder(o, i, handler[o][i])
  BY DEF OperatorInv, OrderInv, HandlersOrder, TypeOK
<1>1. CASE Populate(o, i)
  <2>1. NextNonce(o) \in Nat
    BY NextNonceType DEF OperatorInv
  <2>2. PICK h : h = [handler[o][i] EXCEPT !.pc = "send", !.nonce = NextNonce(o)]
    OBVIOUS
  <2>3. h \in HandlerState
    BY <1>0, <2>1, <2>2 DEF HandlerState, TxSteps
  <2>4. /\ h.pc = "send" /\ h.fn = handler[o][i].fn
        /\ h.isApproved = handler[o][i].isApproved /\ h.proofUri = handler[o][i].proofUri
    BY <1>0, <2>2 DEF HandlerState
  <2>5. HandlerOrder(o, i, h)
    BY <1>0, <1>1, <2>4 DEF Populate, HandlerOrder, ProofSteps, AnswerOf
  <2>6. CASE Become(o, i, h)
    BY <1>1, <2>3, <2>5, <2>6, QuietStep DEF Populate
  <2>7. CASE Goto(o, i, "failed")
    BY <1>1, <2>7, QuietGoto DEF Populate, Settled, ProofSteps
  <2>8. QED
    BY <1>1, <2>2, <2>6, <2>7 DEF Populate
<1>2. CASE BroadcastRefused(o, i)
  BY <1>2, QuietGoto DEF BroadcastRefused, Settled, ProofSteps
<1>3. CASE RpcError(o, i)
  BY <1>3, QuietGoto DEF RpcError, Settled, ProofSteps, TxSteps
<1>4. CASE Confirmed(o, i)
  <2>1. CASE Goto(o, i, "failed")
    BY <1>4, <2>1, QuietGoto DEF Confirmed, Settled, ProofSteps
  <2>2. CASE handler[o][i].receipt = "ok" /\ Become(o, i, AfterReceipt(o, i))
    <3>1. PICK h : h = AfterReceipt(o, i)
      OBVIOUS
    <3>2. h \in HandlerState
      BY <1>0, <3>1 DEF AfterReceipt, HandlerState, TxSteps, Settled
    <3>3. /\ h.pc = IF handler[o][i].fn = Ap THEN "populate" ELSE "answered"
          /\ h.fn = Re
          /\ h.isApproved = handler[o][i].isApproved /\ h.proofUri = handler[o][i].proofUri
      BY <1>0, <3>1 DEF AfterReceipt, HandlerState, Ap, Re
    <3>4. handler[o][i].fn = Ap => handler[o][i].isApproved
      BY <1>4 DEF OperatorInv, GoodHandlers, GoodHandler, Confirmed, TxSteps, Ap
    <3>5. HandlerOrder(o, i, h)
      BY <1>0, <1>4, <2>2, <3>3, <3>4 DEF Confirmed, HandlerOrder, ProofSteps, AnswerOf, Ap, Re
    <3>6. QED
      BY <1>4, <2>2, <3>1, <3>2, <3>5, QuietStep DEF Confirmed
  <2>3. QED
    BY <1>4, <2>1, <2>2 DEF Confirmed
<1>5. QED
  BY <1>1, <1>2, <1>3, <1>4

----------------------------------------------------------------------------
(* Sending: a handler puts its transaction at the n-th place of the queue  *)
(* of its wallet, and waits for it, or does not hear of it.                *)
Sends(o, i, n) ==
    /\ n \in Queue(o)' /\ mempool'[o][n] = Tx(o, i)
    /\ \A k \in Queue(o)' : k # n => k \in Queue(o) /\ mempool'[o][k] = mempool[o][k]
    /\ \A p \in Operators : p # o => mempool'[p] = mempool[p]
    /\ UNCHANGED <<poolCalls, inbox, newClaimEvents>>
    /\ handler'[o][i] = Sent(o, i) \/ handler'[o][i].pc = "failed"

Replaced(h) == [h EXCEPT !.receipt = "replaced"]

OthersWait(o, i) ==
    \A p \in Operators, j \in Uint32 : p # o \/ j # i =>
        \/ handler'[p][j] = handler[p][j]
        \/ handler[p][j].pc = "wait" /\ handler'[p][j] = Replaced(handler[p][j])

(* What is known of the claim of a transaction that is to be sent.         *)
LEMMA BeforeSending ==
    ASSUME OperatorInv, OrderInv, NEW o \in Operators, NEW i \in Uint32,
           handler[o][i].pc = "send"
    PROVE  /\ NoneQueued(o, i)
           /\ Tx(o, i).fn \in {Ap, Re} /\ Tx(o, i).claimIndex = i
           /\ Tx(o, i).claim = AnswerOf(i, handler[o][i])
           /\ Tx(o, i).fn = Ap => NoneCalled(o, i)
           /\ Tx(o, i).fn = Re =>
                 IF Tx(o, i).claim.isApproved
                 THEN /\ CalledWith(o, i, SubmittedClaim(Tx(o, i).claim))
                      /\ ~Called(o, i, Re)
                 ELSE NoneCalled(o, i)
<1>1. /\ handler[o][i] \in HandlerState /\ HandlerOrder(o, i, handler[o][i])
      /\ GoodHandler(o, i, handler[o][i])
  BY DEF OperatorInv, OrderInv, HandlersOrder, TypeOK, GoodHandlers
<1>2. i < latestClaimNum
  BY <1>1 DEF GoodHandler
<1>3. Answer(o, i) = AnswerOf(i, handler[o][i])
  BY DEF Answer, AnswerOf
<1>4. ClaimOfEvent(i) \in Claim
  BY <1>2, CreatedClaim DEF OperatorInv
<1>5. Answer(o, i).isApproved = handler[o][i].isApproved
  BY <1>1, <1>4 DEF Answer, Claim, HandlerState
<1>6. handler[o][i].fn \in {Ap, Re}
  BY <1>1 DEF GoodHandler, HandlerState, TxSteps, Ap, Re
<1>7. /\ Tx(o, i).fn = handler[o][i].fn /\ Tx(o, i).claimIndex = i
      /\ Tx(o, i).claim = Answer(o, i)
  BY DEF Tx
<1>8. CASE handler[o][i].fn = Ap \/ ~handler[o][i].isApproved
  <2>1. NothingSaid(o, i)
    BY <1>1, <1>8 DEF HandlerOrder
  <2>2. handler[o][i].fn = Re => ~Tx(o, i).claim.isApproved
    BY <1>5, <1>7, <1>8 DEF Ap, Re
  <2>3. QED
    BY <2>1, <2>2, <1>3, <1>6, <1>7 DEF NothingSaid
<1>9. CASE handler[o][i].fn = Re /\ handler[o][i].isApproved
  <2>1. /\ CalledWith(o, i, SubmittedClaim(AnswerOf(i, handler[o][i])))
        /\ ~Called(o, i, Re) /\ NoneQueued(o, i)
    BY <1>1, <1>9 DEF HandlerOrder
  <2>2. QED
    BY <2>1, <1>3, <1>5, <1>7, <1>9 DEF Ap, Re
<1>10. QED
  BY <1>1, <1>6, <1>8, <1>9 DEF HandlerState

(* What is said elsewhere is not touched by a transaction that is sent.    *)
LEMMA SendsElsewhere ==
    ASSUME OperatorInv, NEW o \in Operators, NEW i \in Uint32, NEW n, Sends(o, i, n)
    PROVE  /\ CallsKeep
           /\ \A p, j : NoNewCall(p, j)
           /\ \A p \in Operators : \A j : p # o \/ j # i => NoNewTx(p, j)
           /\ \A j \in Uint32 : ClaimOfEvent(j)' = ClaimOfEvent(j)
<1>1. UNCHANGED <<poolCalls, newClaimEvents>>
  BY DEF Sends
<1>2. CallsKeep /\ \A p, j : NoNewCall(p, j)
  BY <1>1 DEF CallsKeep, NoNewCall, Calls
<1>3. ASSUME NEW p \in Operators, NEW j, p # o \/ j # i PROVE NoNewTx(p, j)
  <2>1. CASE p # o
    <3>1. mempool'[p] = mempool[p]
      BY <2>1 DEF Sends
    <3>2. QED
      BY <3>1 DEF NoNewTx, Queue
  <2>2. CASE p = o /\ j # i
    <3> SUFFICES ASSUME NEW k \in Queue(o)', mempool'[o][k].claimIndex = j
                 PROVE  \E l \in Queue(o) : mempool'[o][k] = mempool[o][l]
      BY <2>2 DEF NoNewTx
    <3>1. k # n
      BY <2>2 DEF Sends, Tx
    <3>2. QED
      BY <3>1 DEF Sends
  <2>3. QED
    BY <1>3, <2>1, <2>2
<1>4. ASSUME NEW j \in Uint32 PROVE ClaimOfEvent(j)' = ClaimOfEvent(j)
  BY <1>1 DEF ClaimOfEvent
<1>5. QED
  BY <1>2, <1>3, <1>4

LEMMA SendsHandlers ==
    ASSUME OperatorInv, OrderInv, NEW o \in Operators, NEW i \in Uint32, NEW n,
           handler[o][i].pc = "send", Sends(o, i, n), OthersWait(o, i)
    PROVE  HandlersOrder'
<1> SUFFICES ASSUME NEW p \in Operators, NEW j \in Uint32
             PROVE  HandlerOrder(p, j, handler[p][j])'
  BY DEF HandlersOrder
<1>1. handler[p][j] \in HandlerState /\ HandlerOrder(p, j, handler[p][j])
  BY DEF OperatorInv, OrderInv, HandlersOrder, TypeOK
<1>2. CASE p = o /\ j = i
  <2>1. handler[o][i] \in HandlerState
    BY <1>1, <1>2
  <2>2. CASE handler'[o][i].pc = "failed"
    BY <1>2, <2>2 DEF HandlerOrder, ProofSteps
  <2>3. CASE handler'[o][i] = Sent(o, i)
    <3>1. PICK h : h = handler'[o][i]
      OBVIOUS
    <3>2. /\ h.pc = "wait" /\ h.receipt = "pending" /\ h.fn = handler[o][i].fn
          /\ h.isApproved = handler[o][i].isApproved /\ h.proofUri = handler[o][i].proofUri
      BY <2>1, <2>3, <3>1 DEF Sent, HandlerState
    <3>3. AnswerOf(i, h)' = AnswerOf(i, handler[o][i])
      BY <3>2, SendsElsewhere DEF AnswerOf
    <3>4. Tx(o, i).fn = h.fn
      BY <3>2 DEF Tx
    <3>5. h.fn = Ap => NoneCalled(o, i)'
      BY <3>4, BeforeSending, SendsElsewhere, NoneCalledKept
    <3>6. ASSUME NEW k \in Queue(o)', mempool'[o][k].claimIndex = i
          PROVE  mempool'[o][k] = Tx(o, i)
      BY <3>6, BeforeSending DEF Sends, NoneQueued
    <3>7. h.fn = Ap => \A k \in Queue(o)' : mempool'[o][k].claimIndex = i =>
            mempool'[o][k].fn = Ap /\ mempool'[o][k].claim = AnswerOf(i, h)'
      BY <3>3, <3>4, <3>6, BeforeSending
    <3>8. HandlerOrder(o, i, h)'
      BY <3>2, <3>5, <3>7 DEF HandlerOrder, ProofSteps
    <3>9. QED
      BY <1>2, <3>1, <3>8 DEF HandlerOrder, AnswerOf
  <2>4. QED
    BY <2>2, <2>3 DEF Sends
<1>3. CASE (p # o \/ j # i) /\ handler'[p][j] = handler[p][j]
  <2>1. PICK h \in HandlerState : h = handler[p][j]
    BY <1>1
  <2>2. HandlerOrder(p, j, h)'
    BY <1>1, <1>3, <2>1, SendsElsewhere, HandlerOrderKept
  <2>3. QED
    BY <1>3, <2>1, <2>2 DEF HandlerOrder, AnswerOf
<1>4. CASE handler[p][j].pc = "wait" /\ handler'[p][j] = Replaced(handler[p][j])
  <2>1. handler'[p][j].pc = "wait" /\ handler'[p][j].receipt = "replaced"
    BY <1>1, <1>4 DEF Replaced, HandlerState
  <2>2. QED
    BY <2>1 DEF HandlerOrder, ProofSteps
<1>5. QED
  BY <1>2, <1>3, <1>4 DEF OthersWait

LEMMA SendsInbox ==
    ASSUME OperatorInv, OrderInv, NEW o \in Operators, NEW i \in Uint32, NEW n,
           handler[o][i].pc = "send", Sends(o, i, n), OthersWait(o, i)
    PROVE  InboxOrder'
<1> SUFFICES ASSUME NEW p \in Operators, NEW k \in 1 .. Len(inbox[p])
             PROVE  /\ handler'[p][inbox[p][k]].pc = "idle"
                    /\ NothingSaid(p, inbox[p][k])'
                    /\ \A l \in 1 .. Len(inbox[p]) : inbox[p][k] = inbox[p][l] => k = l
  BY DEF InboxOrder, Sends, NothingSaid, NoneQueued, NoneCalled, Queue, Calls, IsCall
<1>1. inbox[p] \in Seq(Uint32)
  BY DEF OperatorInv, TypeOK
<1>2. PICK j \in Uint32 : j = inbox[p][k]
  BY <1>1, ElementOfSeq
<1>3. /\ handler[p][j].pc = "idle" /\ NothingSaid(p, j)
      /\ \A l \in 1 .. Len(inbox[p]) : inbox[p][k] = inbox[p][l] => k = l
  BY <1>2 DEF OrderInv, InboxOrder
<1>4. p # o \/ j # i
  BY <1>3
<1>5. handler'[p][j].pc = "idle"
  BY <1>3, <1>4 DEF OthersWait
<1>6. NothingSaid(p, j)'
  BY <1>3, <1>4, SendsElsewhere, NoneCalledKept, NoneQueuedKept DEF NothingSaid
<1>7. UNCHANGED inbox
  BY DEF Sends
<1>8. NothingSaid(p, inbox[p][k])'
  BY <1>2, <1>6, <1>7 DEF NothingSaid, NoneQueued, NoneCalled, IsCall
<1>9. QED
  BY <1>2, <1>3, <1>5, <1>8

LEMMA CallTyped ==
    ASSUME OperatorInv, NEW k \in Calls
    PROVE  /\ poolCalls[k] \in PoolCallRecord
           /\ poolCalls[k].sender \in Operators /\ poolCalls[k].claimIndex \in Uint32
           /\ poolCalls[k].fn \in {Ap, Re}
<1>1. poolCalls \in Seq(PoolCallRecord)
  BY DEF OperatorInv, TypeOK, ContractTypeOK
<1>2. poolCalls[k] \in PoolCallRecord
  BY <1>1, ElementOfSeq DEF Calls
<1>3. QED
  BY <1>2 DEF PoolCallRecord, Ap, Re

LEMMA SendsQueue ==
    ASSUME OperatorInv, OrderInv, NEW o \in Operators, NEW i \in Uint32, NEW n,
           handler[o][i].pc = "send", Sends(o, i, n)
    PROVE  QueueDistinct' /\ QueueFollows' /\ RejectionsFinal'
<1>1. \A p, j, fn : Called(p, j, fn)' => Called(p, j, fn)
  BY SendsElsewhere, NoneCalledKept
<1>2. \A p \in Operators : \A j, fn : (p # o \/ j # i) /\ Queued(p, j, fn)' => Queued(p, j, fn)
  BY SendsElsewhere, NoneQueuedKept
<1>3. \A p, j, claim : CalledWith(p, j, claim) => CalledWith(p, j, claim)'
  BY SendsElsewhere, CallsStay
<1>4. NoneCalled(o, i) => \A fn : ~Called(o, i, fn)
  BY DEF NoneCalled, Called
<1>5. \A k \in Queue(o) : mempool[o][k].claimIndex # i
  BY BeforeSending DEF NoneQueued
<1>6. \A fn : Queued(o, i, fn)' => Tx(o, i).fn = fn
  BY <1>5 DEF Queued, Sends
<1>7. ASSUME NEW p \in Operators, NEW k \in Queue(p)', p # o \/ k # n
      PROVE  /\ k \in Queue(p) /\ mempool'[p][k] = mempool[p][k]
             /\ p # o \/ mempool[p][k].claimIndex # i
  BY <1>5, <1>7 DEF Sends, Queue
<1>8. n \in Queue(o)' /\ mempool'[o][n] = Tx(o, i)
  BY DEF Sends
<1>9. QueueDistinct'
  <2> SUFFICES ASSUME NEW p \in Operators, NEW k \in Queue(p)', NEW tx, tx = mempool'[p][k]
               PROVE  /\ \A l \in Queue(p)' :
                            /\ tx.fn = mempool'[p][l].fn
                            /\ tx.claimIndex = mempool'[p][l].claimIndex
                            => k = l
                      /\ ~Called(p, tx.claimIndex, tx.fn)'
    BY DEF QueueDistinct, Called, Queue, IsCall
  <2>1. CASE p = o /\ k = n
    <3>1. tx = Tx(o, i) /\ tx.claimIndex = i
      BY <1>8, <2>1 DEF Tx
    <3>2. ~Called(o, i, tx.fn)
      BY <1>4, <3>1, BeforeSending
    <3>3. ~Called(o, i, tx.fn)'
      BY <1>1, <3>2
    <3>4. QED
      BY <1>7, <2>1, <3>1, <3>3
  <2>2. CASE p # o \/ k # n
    <3>1. k \in Queue(p) /\ tx = mempool[p][k]
      BY <1>7, <2>2
    <3>2. ~Called(p, tx.claimIndex, tx.fn)
      BY <3>1 DEF OrderInv, QueueDistinct
    <3>3. ~Called(p, tx.claimIndex, tx.fn)'
      BY <1>1, <3>2
    <3>4. ASSUME NEW l \in Queue(p)', tx.fn = mempool'[p][l].fn,
                 tx.claimIndex = mempool'[p][l].claimIndex
          PROVE  k = l
      <4>1. CASE p = o /\ l = n
        BY <1>7, <1>8, <2>2, <3>4, <4>1 DEF Tx
      <4>2. CASE p # o \/ l # n
        <5>1. l \in Queue(p) /\ mempool'[p][l] = mempool[p][l]
          BY <1>7, <4>2
        <5>2. QED
          BY <3>1, <3>4, <5>1 DEF OrderInv, QueueDistinct
      <4>3. QED
        BY <4>1, <4>2
    <3>5. QED
      BY <3>3, <3>4
  <2>3. QED
    BY <2>1, <2>2
<1>10. QueueFollows'
  <2> SUFFICES ASSUME NEW p \in Operators, NEW k \in Queue(p)', NEW tx, tx = mempool'[p][k]
               PROVE  TxFollows(p, tx)'
    BY DEF QueueFollows, TxFollows, CalledWith, Called, Queued, Queue, IsCall, IsApproval
  <2>1. CASE p = o /\ k = n
    <3>1. tx = Tx(o, i) /\ tx.claimIndex = i
      BY <1>8, <2>1 DEF Tx
    <3>2. tx.fn = Re => ~Queued(o, i, Ap)'
      BY <1>6, <3>1 DEF Ap, Re
    <3>3. tx.fn = Re /\ ~tx.claim.isApproved => ~Called(o, i, Ap)'
      BY <1>1, <1>4, <3>1, BeforeSending
    <3>4. tx.fn = Re /\ tx.claim.isApproved => CalledWith(o, i, SubmittedClaim(tx.claim))
      BY <3>1, BeforeSending
    <3>5. tx.fn = Re /\ tx.claim.isApproved => CalledWith(o, i, SubmittedClaim(tx.claim))'
      <4> DEFINE claim == SubmittedClaim(tx.claim)
      <4>1. CalledWith(o, i, claim) => CalledWith(o, i, claim)'
        BY <1>3
      <4>2. QED
        BY <3>4, <4>1
    <3>6. QED
      BY <2>1, <3>1, <3>2, <3>3, <3>5 DEF TxFollows
  <2>2. CASE p # o \/ k # n
    <3>1. k \in Queue(p) /\ tx = mempool[p][k] /\ (p # o \/ tx.claimIndex # i)
      BY <1>7, <2>2
    <3>2. TxFollows(p, tx)
      BY <3>1 DEF OrderInv, QueueFollows
    <3>3. Queued(p, tx.claimIndex, Ap)' => Queued(p, tx.claimIndex, Ap)
      BY <1>2, <3>1
    <3>4. Called(p, tx.claimIndex, Ap)' => Called(p, tx.claimIndex, Ap)
      BY <1>1
    <3>5. CalledWith(p, tx.claimIndex, SubmittedClaim(tx.claim))
            => CalledWith(p, tx.claimIndex, SubmittedClaim(tx.claim))'
      BY <1>3
    <3>6. QED
      BY <3>2, <3>3, <3>4, <3>5 DEF TxFollows
  <2>3. QED
    BY <2>1, <2>2
<1>11. RejectionsFinal'
  <2>1. UNCHANGED poolCalls
    BY DEF Sends
  <2> SUFFICES ASSUME NEW k \in Calls, ~IsApproval(k), ~poolCalls[k].claim.isApproved
               PROVE  ~Queued(poolCalls[k].sender, poolCalls[k].claimIndex, Ap)'
    BY <2>1 DEF RejectionsFinal, Calls, IsApproval, Queued, Queue
  <2>2. poolCalls[k].sender \in Operators /\ poolCalls[k].claimIndex \in Uint32
    BY CallTyped
  <2>3. PICK p \in Operators, j \in Uint32 : p = poolCalls[k].sender /\ j = poolCalls[k].claimIndex
    BY <2>2
  <2>4. ~Queued(p, j, Ap)
    BY <2>3 DEF OrderInv, RejectionsFinal
  <2>5. ~Queued(p, j, Ap)'
    <3>1. CASE p = o /\ j = i
      <4>1. ~NoneCalled(o, i)
        BY <2>3, <3>1 DEF NoneCalled, IsCall
      <4>2. Tx(o, i).fn # Ap
        BY <4>1, BeforeSending
      <4>3. QED
        BY <1>6, <3>1, <4>2
    <3>2. CASE p # o \/ j # i
      BY <1>2, <2>4, <3>2
    <3>3. QED
      BY <3>1, <3>2
  <2>6. QED
    BY <2>1, <2>3, <2>5 DEF Queued
<1>12. QED
  BY <1>9, <1>10, <1>11

LEMMA SendsOrder ==
    ASSUME OperatorInv, OrderInv, NEW o \in Operators, NEW i \in Uint32, NEW n,
           handler[o][i].pc = "send", Sends(o, i, n), OthersWait(o, i)
    PROVE  OrderInv'
<1>1. UNCHANGED poolCalls
  BY DEF Sends
<1>2. NothingSaidTwice' /\ AnswersFollowSpending'
  BY <1>1 DEF OrderInv, NothingSaidTwice, AnswersFollowSpending, Calls, IsApproval
<1>3. QED
  BY <1>2, SendsHandlers, SendsInbox, SendsQueue DEF OrderInv

LEMMA BroadcastOrder ==
    ASSUME OperatorInv, OrderInv, NEW o \in Operators, NEW i \in Uint32,
           Broadcast(o, i) \/ BroadcastUnheard(o, i)
    PROVE  OrderInv'
<1>1. /\ handler[o][i].pc = "send"
      /\ mempool' = [mempool EXCEPT ![o] = Append(@, Tx(o, i))]
      /\ UNCHANGED <<poolCalls, inbox, newClaimEvents>>
  BY DEF Broadcast, BroadcastUnheard, contractVars, answerVars, claimVars, processVars
<1>2. handler[o][i] \in HandlerState
  BY DEF OperatorInv, TypeOK
<1>3. PICK h : h = IF Broadcast(o, i) THEN Sent(o, i) ELSE [handler[o][i] EXCEPT !.pc = "failed"]
  OBVIOUS
<1>4. h \in HandlerState /\ Become(o, i, h)
  BY <1>2, <1>3 DEF Broadcast, BroadcastUnheard, Goto, Sent, HandlerState, TxSteps, Settled
<1>5. h = Sent(o, i) \/ h.pc = "failed"
  BY <1>2, <1>3 DEF HandlerState
<1>6. /\ handler'[o][i] = h
      /\ \A p \in Operators, j \in Uint32 : p # o \/ j # i => handler'[p][j] = handler[p][j]
  BY <1>4, OneHandler DEF OperatorInv
<1>7. PICK tx : tx = Tx(o, i)
  OBVIOUS
<1>8. tx \in Transaction
  BY <1>1, <1>7, SignedTx
<1>9. mempool \in [Operators -> Seq(Transaction)] /\ mempool[o] \in Seq(Transaction)
  BY DEF OperatorInv, TypeOK
<1>10. PICK n : n = Len(mempool[o]) + 1
  OBVIOUS
<1>11. /\ n \in 1 .. Len(Append(mempool[o], tx))
       /\ Append(mempool[o], tx)[n] = tx
       /\ \A k \in 1 .. Len(Append(mempool[o], tx)) :
             k # n => k \in 1 .. Len(mempool[o]) /\ Append(mempool[o], tx)[k] = mempool[o][k]
  BY <1>8, <1>9, <1>10, AppendProperties, LenProperties
<1>12. \A p \in Operators :
         mempool'[p] = IF p = o THEN Append(mempool[o], tx) ELSE mempool[p]
  BY <1>1, <1>7, <1>9
<1>13. Sends(o, i, n)
  BY <1>1, <1>5, <1>6, <1>7, <1>11, <1>12 DEF Sends, Queue
<1>14. QED
  BY <1>1, <1>6, <1>13, SendsOrder DEF OthersWait

LEMMA BroadcastReplacesOrder ==
    ASSUME OperatorInv, OrderInv, NEW o \in Operators, NEW i \in Uint32,
           BroadcastReplaces(o, i)
    PROVE  OrderInv'
<1> DEFINE position == handler[o][i].nonce - minedNonce[o] + 1
           other == mempool[o][position].claimIndex
<1>1. /\ handler[o][i].pc = "send" /\ position \in 1 .. Len(mempool[o])
      /\ mempool' = [mempool EXCEPT ![o][position] = Tx(o, i)]
      /\ UNCHANGED <<poolCalls, inbox, newClaimEvents>>
  BY DEF BroadcastReplaces, contractVars, answerVars, claimVars, processVars
<1>2. handler' = [handler EXCEPT ![o] = [j \in Uint32 |->
                    IF j = i THEN Sent(o, i)
                    ELSE IF j = other /\ handler[o][j].pc = "wait"
                         THEN Replaced(handler[o][j])
                         ELSE handler[o][j]]]
  BY DEF BroadcastReplaces, Replaced
<1> HIDE DEF position, other
<1>3. handler \in [Operators -> [Uint32 -> HandlerState]]
  BY DEF OperatorInv, TypeOK
<1>4. handler'[o][i] = Sent(o, i) /\ OthersWait(o, i)
  BY <1>2, <1>3 DEF OthersWait
<1>5. PICK tx : tx = Tx(o, i)
  OBVIOUS
<1>6. tx \in Transaction
  BY <1>1, <1>5, SignedTx
<1>7. mempool \in [Operators -> Seq(Transaction)] /\ mempool[o] \in Seq(Transaction)
  BY DEF OperatorInv, TypeOK
<1>8. PICK seq : seq = [mempool[o] EXCEPT ![position] = tx]
  OBVIOUS
<1>9. /\ Len(seq) = Len(mempool[o])
      /\ \A k \in 1 .. Len(mempool[o]) : seq[k] = IF k = position THEN tx ELSE mempool[o][k]
  BY <1>1, <1>6, <1>7, <1>8, ExceptSeq
<1>10. mempool' = [mempool EXCEPT ![o] = seq]
  BY <1>1, <1>5, <1>8
<1>11. \A p \in Operators : mempool'[p] = IF p = o THEN seq ELSE mempool[p]
  BY <1>7, <1>10
<1>12. Sends(o, i, position)
  BY <1>1, <1>4, <1>5, <1>9, <1>11 DEF Sends, Queue
<1>13. QED
  BY <1>1, <1>4, <1>12, SendsOrder

----------------------------------------------------------------------------
(* Mining: the first transaction of a wallet leaves its queue, and is heard*)
(* by its pool when it succeeds.                                           *)
NewCall == Len(poolCalls) + 1

Hears(o, tx, ok) ==
    IF ok
    THEN /\ NewCall \notin Calls
         /\ Calls' = Calls \cup {NewCall}
         /\ poolCalls'[NewCall] =
               [fn |-> tx.fn, pool |-> tx.claim.pool, claim |-> SubmittedClaim(tx.claim),
                sender |-> o, claimIndex |-> tx.claimIndex]
         /\ \A k \in Calls : poolCalls'[k] = poolCalls[k] /\ k < NewCall
    ELSE UNCHANGED poolCalls

WithReceipt(h, ok) == [h EXCEPT !.receipt = IF ok THEN "ok" ELSE "reverted"]

Mines(o, tx, ok) ==
    /\ 1 \in Queue(o) /\ tx = mempool[o][1]
    /\ \A k \in Queue(o)' : k + 1 \in Queue(o) /\ k # 0 /\ mempool'[o][k] = mempool[o][k + 1]
    /\ \A p \in Operators : p # o => mempool'[p] = mempool[p]
    /\ UNCHANGED <<inbox, newClaimEvents>>
    /\ Hears(o, tx, ok)
    /\ LET h == handler[o][tx.claimIndex]
       IN  handler'[o][tx.claimIndex] =
             IF h.pc = "wait" /\ h.receipt = "pending" THEN WithReceipt(h, ok) ELSE h
    /\ \A p \in Operators, j \in Uint32 :
          p # o \/ j # tx.claimIndex => handler'[p][j] = handler[p][j]

LEMMA MinesElsewhere ==
    ASSUME OperatorInv, NEW o \in Operators, NEW tx, NEW ok \in BOOLEAN, Mines(o, tx, ok)
    PROVE  /\ CallsKeep
           /\ \A p, j : p # o \/ j # tx.claimIndex => NoNewCall(p, j)
           /\ \A p, j, fn : Called(p, j, fn)' =>
                 Called(p, j, fn) \/ (p = o /\ j = tx.claimIndex /\ fn = tx.fn)
           /\ \A p \in Operators : \A j : NoNewTx(p, j)
           /\ \A j \in Uint32 : ClaimOfEvent(j)' = ClaimOfEvent(j)
<1>1. Hears(o, tx, ok) /\ UNCHANGED newClaimEvents
  BY DEF Mines
<1>2. CallsKeep
  BY <1>1 DEF Hears, CallsKeep, Calls
<1>3. ASSUME NEW k \in Calls', k \notin Calls
      PROVE  /\ poolCalls'[k].sender = o /\ poolCalls'[k].claimIndex = tx.claimIndex
             /\ poolCalls'[k].fn = tx.fn
  BY <1>1, <1>3 DEF Hears, Calls
<1>4. \A p, j : p # o \/ j # tx.claimIndex => NoNewCall(p, j)
  BY <1>3 DEF NoNewCall, IsCall
<1>5. ASSUME NEW p, NEW j, NEW fn, Called(p, j, fn)'
      PROVE  Called(p, j, fn) \/ (p = o /\ j = tx.claimIndex /\ fn = tx.fn)
  <2>1. PICK k \in Calls' : IsCall(k, p, j)' /\ poolCalls'[k].fn = fn
    BY <1>5 DEF Called
  <2>2. CASE k \in Calls
    BY <1>2, <2>1, <2>2 DEF Called, CallsKeep, IsCall
  <2>3. CASE k \notin Calls
    BY <1>3, <2>1, <2>3 DEF IsCall
  <2>4. QED
    BY <2>2, <2>3
<1>6. ASSUME NEW p \in Operators, NEW j PROVE NoNewTx(p, j)
  <2>1. CASE p = o
    BY <2>1 DEF Mines, NoNewTx
  <2>2. CASE p # o
    BY <2>2 DEF Mines, NoNewTx, Queue
  <2>3. QED
    BY <2>1, <2>2
<1>7. ASSUME NEW j \in Uint32 PROVE ClaimOfEvent(j)' = ClaimOfEvent(j)
  BY <1>1 DEF ClaimOfEvent
<1>8. QED
  BY <1>2, <1>4, <1>5, <1>6, <1>7

(* What is known of the claim of a transaction that is mined.              *)
LEMMA BeforeMining ==
    ASSUME OperatorInv, OrderInv, NEW o \in Operators, NEW tx, NEW ok \in BOOLEAN,
           Mines(o, tx, ok)
    PROVE  /\ tx \in Transaction
           /\ ~NoneQueued(o, tx.claimIndex)
           /\ Queued(o, tx.claimIndex, tx.fn)
           /\ ~Queued(o, tx.claimIndex, tx.fn)'
           /\ ~Called(o, tx.claimIndex, tx.fn)
           /\ TxFollows(o, tx)
<1>1. 1 \in Queue(o) /\ tx = mempool[o][1]
  BY DEF Mines
<1>2. mempool[o] \in Seq(Transaction)
  BY DEF OperatorInv, TypeOK
<1>3. tx \in Transaction
  BY <1>1, <1>2, ElementOfSeq DEF Queue
<1>4. ~NoneQueued(o, tx.claimIndex) /\ Queued(o, tx.claimIndex, tx.fn)
  BY <1>1 DEF NoneQueued, Queued
<1>5. ~Called(o, tx.claimIndex, tx.fn) /\ TxFollows(o, tx)
  BY <1>1 DEF OrderInv, QueueDistinct, QueueFollows
<1>6. ASSUME NEW k \in Queue(o)', mempool'[o][k].claimIndex = tx.claimIndex,
             mempool'[o][k].fn = tx.fn
      PROVE  FALSE
  <2>1. k + 1 \in Queue(o) /\ k # 0 /\ mempool'[o][k] = mempool[o][k + 1]
    BY DEF Mines
  <2>2. k + 1 = 1
    BY <1>1, <1>6, <2>1 DEF OrderInv, QueueDistinct
  <2>3. k \in Int
    BY DEF Queue
  <2>4. QED
    BY <2>1, <2>2, <2>3
<1>7. ~Queued(o, tx.claimIndex, tx.fn)'
  BY <1>6 DEF Queued
<1>8. QED
  BY <1>3, <1>4, <1>5, <1>7

LEMMA MinesHandlers ==
    ASSUME OperatorInv, OrderInv, NEW o \in Operators, NEW tx, NEW ok \in BOOLEAN,
           Mines(o, tx, ok)
    PROVE  HandlersOrder'
<1> SUFFICES ASSUME NEW p \in Operators, NEW j \in Uint32
             PROVE  HandlerOrder(p, j, handler[p][j])'
  BY DEF HandlersOrder
<1>1. /\ handler[p][j] \in HandlerState /\ HandlerOrder(p, j, handler[p][j])
      /\ GoodHandler(p, j, handler[p][j])
  BY DEF OperatorInv, OrderInv, HandlersOrder, TypeOK, GoodHandlers
<1>2. CASE p = o /\ j = tx.claimIndex
  <2>1. ~NoneQueued(o, j) /\ ~NothingSaid(o, j)
    BY <1>2, BeforeMining DEF NothingSaid
  <2>2. handler[o][j].pc \in Settled \cup {"idle", "wait"}
    BY <1>1, <1>2, <2>1
       DEF HandlerOrder, GoodHandler, HandlerState, ProofSteps, TxSteps, Ap, Re
  <2>3. handler[o][j].pc = "wait" /\ handler[o][j].fn = Ap => handler[o][j].receipt # "ok"
    BY <1>1, <1>2, <2>1 DEF HandlerOrder
  <2>4. CASE handler[o][j].pc = "wait" /\ handler[o][j].receipt = "pending"
    <3>1. handler'[o][j] = WithReceipt(handler[o][j], ok)
      BY <1>2, <2>4 DEF Mines
    <3>2. PICK h : h = handler'[o][j]
      OBVIOUS
    <3>3. /\ h.pc = "wait" /\ h.receipt = IF ok THEN "ok" ELSE "reverted"
          /\ h.fn = handler[o][j].fn
          /\ h.isApproved = handler[o][j].isApproved /\ h.proofUri = handler[o][j].proofUri
      BY <1>1, <1>2, <2>4, <3>1, <3>2 DEF WithReceipt, HandlerState
    <3>4. CASE h.fn = Ap /\ ok
      <4>1. /\ NoneCalled(o, j)
            /\ \A k \in Queue(o) : mempool[o][k].claimIndex = j =>
                  mempool[o][k].fn = Ap /\ mempool[o][k].claim = AnswerOf(j, handler[o][j])
        BY <1>1, <1>2, <2>4, <3>3, <3>4 DEF HandlerOrder
      <4>2. tx.fn = Ap /\ tx.claim = AnswerOf(j, handler[o][j])
        BY <1>2, <4>1 DEF Mines
      <4>3. AnswerOf(j, h)' = tx.claim
        <5>1. ClaimOfEvent(j)' = ClaimOfEvent(j)
          BY MinesElsewhere
        <5>2. QED
          BY <3>3, <4>2, <5>1 DEF AnswerOf
      <4>4. PICK claim : claim = SubmittedClaim(tx.claim)
        OBVIOUS
      <4>5. /\ NewCall \in Calls'
            /\ poolCalls'[NewCall].fn = Ap /\ poolCalls'[NewCall].sender = o
            /\ poolCalls'[NewCall].claimIndex = j /\ poolCalls'[NewCall].claim = claim
        <5>1. Hears(o, tx, ok)
          BY DEF Mines
        <5>2. PICK c : c = NewCall
          OBVIOUS
        <5>3. /\ Calls' = Calls \cup {c}
              /\ poolCalls'[c] =
                    [fn |-> tx.fn, pool |-> tx.claim.pool, claim |-> SubmittedClaim(tx.claim),
                     sender |-> o, claimIndex |-> tx.claimIndex]
          BY <3>4, <5>1, <5>2 DEF Hears
        <5>4. /\ poolCalls'[c].fn = tx.fn /\ poolCalls'[c].sender = o
              /\ poolCalls'[c].claimIndex = tx.claimIndex
              /\ poolCalls'[c].claim = SubmittedClaim(tx.claim)
          BY <5>3
        <5>5. QED
          BY <1>2, <4>2, <4>4, <5>2, <5>3, <5>4
      <4>6. CalledWith(o, j, claim)'
        <5>1. PICK c : c = NewCall
          OBVIOUS
        <5>2. IsCall(c, o, j)' /\ IsApproval(c)' /\ c \in Calls' /\ poolCalls'[c].claim = claim
          BY <4>5, <5>1 DEF IsCall, IsApproval, Ap
        <5>3. QED
          BY <5>2 DEF CalledWith
      <4>7. ~Called(o, j, Re)'
        <5>1. ~Called(o, j, Re)
          BY <4>1 DEF NoneCalled, Called
        <5>2. QED
          BY <4>2, <5>1, MinesElsewhere DEF Ap, Re
      <4>8. NoneQueued(o, j)'
        <5>1. ~Queued(o, j, Ap)'
          BY <1>2, <4>2, BeforeMining
        <5>2. \A k \in Queue(o)' : mempool'[o][k].claimIndex = j => mempool'[o][k].fn = Ap
          BY <4>1 DEF Mines
        <5>3. QED
          BY <5>1, <5>2 DEF NoneQueued, Queued
      <4>9. SubmittedClaim(AnswerOf(j, h))' = claim
        BY <4>3, <4>4 DEF SubmittedClaim
      <4>10. CalledWith(o, j, SubmittedClaim(AnswerOf(j, h)))'
        BY <4>6, <4>9 DEF CalledWith, IsCall, IsApproval
      <4>11. HandlerOrder(o, j, h)'
        BY <3>3, <4>7, <4>8, <4>10 DEF HandlerOrder, ProofSteps
      <4>12. QED
        BY <1>2, <3>2, <4>11 DEF HandlerOrder, AnswerOf
    <3>5. CASE ~(h.fn = Ap /\ ok)
      <4>1. HandlerOrder(o, j, h)'
        BY <3>3, <3>5 DEF HandlerOrder, ProofSteps
      <4>2. QED
        BY <1>2, <3>2, <4>1 DEF HandlerOrder, AnswerOf
    <3>6. QED
      BY <3>4, <3>5
  <2>5. CASE ~(handler[o][j].pc = "wait" /\ handler[o][j].receipt = "pending")
    <3>1. handler'[o][j] = handler[o][j]
      BY <1>2, <2>5 DEF Mines
    <3>2. QED
      BY <1>2, <2>2, <2>3, <2>5, <3>1 DEF HandlerOrder, ProofSteps, Settled
  <2>6. QED
    BY <2>4, <2>5
<1>3. CASE p # o \/ j # tx.claimIndex
  <2>1. handler'[p][j] = handler[p][j]
    BY <1>3 DEF Mines
  <2>2. PICK h \in HandlerState : h = handler[p][j]
    BY <1>1
  <2>3. HandlerOrder(p, j, h)'
    BY <1>1, <1>3, <2>2, MinesElsewhere, HandlerOrderKept
  <2>4. QED
    BY <2>1, <2>2, <2>3 DEF HandlerOrder, AnswerOf
<1>4. QED
  BY <1>2, <1>3

LEMMA MinesInbox ==
    ASSUME OperatorInv, OrderInv, NEW o \in Operators, NEW tx, NEW ok \in BOOLEAN,
           Mines(o, tx, ok)
    PROVE  InboxOrder'
<1>0. UNCHANGED inbox
  BY DEF Mines
<1> SUFFICES ASSUME NEW p \in Operators, NEW k \in 1 .. Len(inbox[p])
             PROVE  /\ handler'[p][inbox[p][k]].pc = "idle"
                    /\ NothingSaid(p, inbox[p][k])'
                    /\ \A l \in 1 .. Len(inbox[p]) : inbox[p][k] = inbox[p][l] => k = l
  BY <1>0 DEF InboxOrder, NothingSaid, NoneQueued, NoneCalled, Queue, Calls, IsCall
<1>1. inbox[p] \in Seq(Uint32)
  BY DEF OperatorInv, TypeOK
<1>2. PICK j \in Uint32 : j = inbox[p][k]
  BY <1>1, ElementOfSeq
<1>3. /\ handler[p][j].pc = "idle" /\ NothingSaid(p, j)
      /\ \A l \in 1 .. Len(inbox[p]) : inbox[p][k] = inbox[p][l] => k = l
  BY <1>2 DEF OrderInv, InboxOrder
<1>4. p # o \/ j # tx.claimIndex
  BY <1>3, BeforeMining DEF NothingSaid
<1>5. handler'[p][j].pc = "idle"
  BY <1>3, <1>4 DEF Mines
<1>6. NothingSaid(p, j)'
  BY <1>3, <1>4, MinesElsewhere, NoneCalledKept, NoneQueuedKept DEF NothingSaid
<1>7. NothingSaid(p, inbox[p][k])'
  BY <1>0, <1>2, <1>6 DEF NothingSaid, NoneQueued, NoneCalled, IsCall
<1>8. QED
  BY <1>2, <1>3, <1>5, <1>7

LEMMA MinesQueue ==
    ASSUME OperatorInv, OrderInv, NEW o \in Operators, NEW tx, NEW ok \in BOOLEAN,
           Mines(o, tx, ok)
    PROVE  QueueDistinct' /\ QueueFollows' /\ RejectionsFinal'
<1>1. \A p, j, fn : Called(p, j, fn)' =>
         Called(p, j, fn) \/ (p = o /\ j = tx.claimIndex /\ fn = tx.fn)
  BY MinesElsewhere
<1>2. \A p \in Operators : \A j, fn : Queued(p, j, fn)' => Queued(p, j, fn)
  BY MinesElsewhere, NoneQueuedKept
<1>3. \A p, j, claim : CalledWith(p, j, claim) => CalledWith(p, j, claim)'
  BY MinesElsewhere, CallsStay
<1>4. ~Queued(o, tx.claimIndex, tx.fn)' /\ Queued(o, tx.claimIndex, tx.fn)
  BY BeforeMining
<1>5. ASSUME NEW p \in Operators, NEW k \in Queue(p)', NEW u, u = mempool'[p][k]
      PROVE  /\ \E l \in Queue(p) : u = mempool[p][l]
             /\ Queued(p, u.claimIndex, u.fn)'
  <2>1. CASE p = o
    BY <1>5, <2>1 DEF Mines, Queued
  <2>2. CASE p # o
    BY <1>5, <2>2 DEF Mines, Queued, Queue
  <2>3. QED
    BY <2>1, <2>2
<1>6. QueueDistinct'
  <2> SUFFICES ASSUME NEW p \in Operators, NEW k \in Queue(p)', NEW u, u = mempool'[p][k]
               PROVE  /\ \A l \in Queue(p)' :
                            u.fn = mempool'[p][l].fn /\ u.claimIndex = mempool'[p][l].claimIndex
                            => k = l
                      /\ ~Called(p, u.claimIndex, u.fn)'
    BY DEF QueueDistinct, Called, Queue, IsCall
  <2>1. ~Called(p, u.claimIndex, u.fn)'
    <3>1. ~Called(p, u.claimIndex, u.fn)
      BY <1>5 DEF OrderInv, QueueDistinct
    <3>2. Queued(p, u.claimIndex, u.fn)'
      BY <1>5
    <3>3. ~(p = o /\ u.claimIndex = tx.claimIndex /\ u.fn = tx.fn)
      BY <1>4, <3>2
    <3>4. QED
      BY <1>1, <3>1, <3>3
  <2>2. ASSUME NEW l \in Queue(p)', u.fn = mempool'[p][l].fn,
               u.claimIndex = mempool'[p][l].claimIndex
        PROVE  k = l
    <3>1. CASE p = o
      <4>1. /\ k + 1 \in Queue(o) /\ l + 1 \in Queue(o)
            /\ u = mempool[o][k + 1] /\ mempool'[o][l] = mempool[o][l + 1]
        BY <3>1 DEF Mines
      <4>2. k + 1 = l + 1
        BY <2>2, <3>1, <4>1 DEF OrderInv, QueueDistinct
      <4>3. k \in Int /\ l \in Int
        BY DEF Queue
      <4>4. QED
        BY <4>2, <4>3
    <3>2. CASE p # o
      <4>1. mempool'[p] = mempool[p]
        BY <3>2 DEF Mines
      <4>2. QED
        BY <2>2, <4>1 DEF OrderInv, QueueDistinct, Queue
    <3>3. QED
      BY <3>1, <3>2
  <2>3. QED
    BY <2>1, <2>2
<1>7. QueueFollows'
  <2> SUFFICES ASSUME NEW p \in Operators, NEW k \in Queue(p)', NEW u, u = mempool'[p][k]
               PROVE  TxFollows(p, u)'
    BY DEF QueueFollows, TxFollows, CalledWith, Called, Queued, Queue, IsCall, IsApproval
  <2>1. TxFollows(p, u)
    BY <1>5 DEF OrderInv, QueueFollows
  <2>2. ~Queued(p, u.claimIndex, Ap) => ~Queued(p, u.claimIndex, Ap)'
    BY <1>2
  <2>3. ~Called(p, u.claimIndex, Ap) /\ ~Queued(p, u.claimIndex, Ap)
          => ~Called(p, u.claimIndex, Ap)'
    BY <1>1, <1>4
  <2>4. CalledWith(p, u.claimIndex, SubmittedClaim(u.claim))
          => CalledWith(p, u.claimIndex, SubmittedClaim(u.claim))'
    BY <1>3
  <2>5. QED
    BY <2>1, <2>2, <2>3, <2>4 DEF TxFollows
<1>8. RejectionsFinal'
  <2> SUFFICES ASSUME NEW k \in Calls', ~IsApproval(k)', ~poolCalls'[k].claim.isApproved,
                      NEW p, p = poolCalls'[k].sender, NEW j, j = poolCalls'[k].claimIndex
               PROVE  ~Queued(p, j, Ap)'
    BY DEF RejectionsFinal, Queued, Queue
  <2>1. CASE k \in Calls
    <3>1. poolCalls'[k] = poolCalls[k]
      BY <2>1, MinesElsewhere DEF CallsKeep
    <3>2. ~Queued(p, j, Ap)
      BY <2>1, <3>1 DEF OrderInv, RejectionsFinal, IsApproval
    <3>3. p \in Operators
      BY <2>1, <3>1, CallTyped
    <3>4. QED
      BY <1>2, <3>2, <3>3
  <2>2. CASE k \notin Calls
    <3>1. /\ p = o /\ j = tx.claimIndex /\ tx.fn # Ap
          /\ poolCalls'[k].claim = SubmittedClaim(tx.claim)
      BY <2>2 DEF Mines, Hears, Calls, IsApproval, Ap
    <3>2. ~tx.claim.isApproved
      BY <3>1 DEF SubmittedClaim
    <3>3. tx.fn = Re
      BY <3>1, BeforeMining DEF Transaction, Ap, Re
    <3>4. ~Queued(o, j, Ap)
      BY <3>1, <3>2, <3>3, BeforeMining DEF TxFollows
    <3>5. QED
      BY <1>2, <3>1, <3>4
  <2>3. QED
    BY <2>1, <2>2
<1>9. QED
  BY <1>6, <1>7, <1>8

LEMMA MinesCalls ==
    ASSUME OperatorInv, OrderInv, NEW o \in Operators, NEW tx, NEW ok \in BOOLEAN,
           Mines(o, tx, ok)
    PROVE  NothingSaidTwice' /\ AnswersFollowSpending'
<1>1. CASE ~ok
  <2>1. UNCHANGED poolCalls
    BY <1>1 DEF Mines, Hears
  <2>2. QED
    BY <2>1 DEF OrderInv, NothingSaidTwice, AnswersFollowSpending, Calls, IsApproval
<1>2. CASE ok
  <2>1. PICK c : c = NewCall
    OBVIOUS
  <2>2. /\ c \notin Calls /\ Calls' = Calls \cup {c}
        /\ poolCalls'[c] =
              [fn |-> tx.fn, pool |-> tx.claim.pool, claim |-> SubmittedClaim(tx.claim),
               sender |-> o, claimIndex |-> tx.claimIndex]
        /\ \A k \in Calls : poolCalls'[k] = poolCalls[k] /\ k < c
    BY <1>2, <2>1 DEF Mines, Hears
  <2>3. /\ poolCalls'[c].fn = tx.fn /\ poolCalls'[c].sender = o
        /\ poolCalls'[c].claimIndex = tx.claimIndex
        /\ poolCalls'[c].claim = SubmittedClaim(tx.claim)
        /\ poolCalls'[c].claim.isApproved = tx.claim.isApproved
    BY <2>2 DEF SubmittedClaim
  <2>4. ASSUME NEW k \in Calls, poolCalls[k].fn = tx.fn, poolCalls[k].sender = o,
               poolCalls[k].claimIndex = tx.claimIndex
        PROVE  FALSE
    BY <2>4, BeforeMining DEF Called, IsCall
  <2>5. NothingSaidTwice'
    <3> SUFFICES ASSUME NEW k \in Calls', NEW l \in Calls',
                        poolCalls'[k].fn = poolCalls'[l].fn,
                        poolCalls'[k].sender = poolCalls'[l].sender,
                        poolCalls'[k].claimIndex = poolCalls'[l].claimIndex
                 PROVE  k = l
      BY DEF NothingSaidTwice
    <3>1. CASE k \in Calls /\ l \in Calls
      BY <2>2, <3>1 DEF OrderInv, NothingSaidTwice
    <3>2. CASE k = c /\ l \in Calls
      BY <2>2, <2>3, <2>4, <3>2
    <3>3. CASE l = c /\ k \in Calls
      BY <2>2, <2>3, <2>4, <3>3
    <3>4. QED
      BY <2>2, <3>1, <3>2, <3>3
  <2>6. AnswersFollowSpending'
    <3> DEFINE approvals(k) == {j \in Calls : /\ IsApproval(j)
                                              /\ poolCalls[j].sender = poolCalls[k].sender
                                              /\ poolCalls[j].claimIndex = poolCalls[k].claimIndex}
               approvalsAfter(k) == {j \in Calls' : /\ poolCalls'[j].fn = Ap
                                              /\ poolCalls'[j].sender = poolCalls'[k].sender
                                              /\ poolCalls'[j].claimIndex = poolCalls'[k].claimIndex}
    <3> SUFFICES ASSUME NEW k \in Calls', poolCalls'[k].fn # Ap
                 PROVE  IF poolCalls'[k].claim.isApproved
                        THEN \E j \in approvalsAfter(k) :
                                j < k /\ poolCalls'[j].claim = poolCalls'[k].claim
                        ELSE approvalsAfter(k) = {}
      BY DEF AnswersFollowSpending, IsApproval, Ap
    <3>1. CASE k \in Calls
      <4>1. poolCalls'[k] = poolCalls[k] /\ ~IsApproval(k)
        BY <2>2, <3>1 DEF IsApproval, Ap
      <4>2. IF poolCalls[k].claim.isApproved
            THEN \E j \in approvals(k) : j < k /\ poolCalls[j].claim = poolCalls[k].claim
            ELSE approvals(k) = {}
        BY <3>1, <4>1 DEF OrderInv, AnswersFollowSpending
      <4>3. CASE poolCalls[k].claim.isApproved
        <5>1. PICK j \in approvals(k) : j < k /\ poolCalls[j].claim = poolCalls[k].claim
          BY <4>2, <4>3
        <5>2. j \in Calls' /\ poolCalls'[j] = poolCalls[j]
          BY <2>2, <5>1
        <5>3. j \in approvalsAfter(k)
          BY <4>1, <5>1, <5>2 DEF IsApproval, Ap
        <5>4. QED
          BY <4>1, <4>3, <5>1, <5>2, <5>3
      <4>4. CASE ~poolCalls[k].claim.isApproved
        <5>1. approvals(k) = {}
          BY <4>2, <4>4
        <5>2. ~Queued(poolCalls[k].sender, poolCalls[k].claimIndex, Ap)
          BY <3>1, <4>1, <4>4 DEF OrderInv, RejectionsFinal
        <5>3. ~(tx.fn = Ap /\ o = poolCalls[k].sender /\ tx.claimIndex = poolCalls[k].claimIndex)
          BY <5>2, BeforeMining
        <5>4. ASSUME NEW j \in approvalsAfter(k) PROVE FALSE
          <6>1. CASE j \in Calls
            BY <2>2, <4>1, <5>1, <6>1 DEF IsApproval, Ap
          <6>2. CASE j = c
            BY <2>3, <4>1, <5>3, <6>2
          <6>3. QED
            BY <2>2, <6>1, <6>2
        <5>5. QED
          BY <4>1, <4>4, <5>4
      <4>5. QED
        BY <4>3, <4>4
    <3>2. CASE k = c
      <4>1. tx.fn = Re
        BY <2>3, <3>2, BeforeMining DEF Transaction, Ap, Re
      <4>2. CASE tx.claim.isApproved
        <5>1. CalledWith(o, tx.claimIndex, SubmittedClaim(tx.claim))
          BY <4>1, <4>2, BeforeMining DEF TxFollows
        <5>2. PICK j \in Calls : /\ IsCall(j, o, tx.claimIndex) /\ IsApproval(j)
                                 /\ poolCalls[j].claim = SubmittedClaim(tx.claim)
          BY <5>1 DEF CalledWith
        <5>3. j \in Calls' /\ poolCalls'[j] = poolCalls[j] /\ j < c
          BY <2>2
        <5>4. j \in approvalsAfter(k)
          BY <2>3, <3>2, <5>2, <5>3 DEF IsCall, IsApproval, Ap
        <5>5. QED
          BY <2>3, <3>2, <4>2, <5>2, <5>3, <5>4
      <4>3. CASE ~tx.claim.isApproved
        <5>1. ~Called(o, tx.claimIndex, Ap)
          BY <4>1, <4>3, BeforeMining DEF TxFollows
        <5>2. ASSUME NEW j \in approvalsAfter(k) PROVE FALSE
          <6>1. CASE j \in Calls
            BY <2>2, <2>3, <3>2, <5>1, <5>2, <6>1 DEF Called, IsCall
          <6>2. CASE j = c
            BY <3>2, <5>2, <6>2
          <6>3. QED
            BY <2>2, <6>1, <6>2
        <5>3. QED
          BY <2>3, <3>2, <4>3, <5>2
      <4>4. QED
        BY <4>2, <4>3
    <3>3. QED
      BY <2>2, <3>1, <3>2
  <2>7. QED
    BY <2>5, <2>6
<1>3. QED
  BY <1>1, <1>2

LEMMA MineTxMines ==
    ASSUME OperatorInv, OrderInv, NEW o \in Operators, MineTx(o)
    PROVE  \E tx : \E ok \in BOOLEAN : Mines(o, tx, ok)
<1>1. PICK tx : tx = Head(mempool[o])
  OBVIOUS
<1>2. mempool \in [Operators -> Seq(Transaction)] /\ mempool[o] \in Seq(Transaction)
  BY DEF OperatorInv, TypeOK
<1>3. mempool[o] # <<>> /\ mempool' = [mempool EXCEPT ![o] = Tail(@)]
  BY DEF MineTx
<1>4. PICK rest : rest = Tail(mempool[o])
  OBVIOUS
<1>5. /\ 1 \in 1 .. Len(mempool[o]) /\ tx = mempool[o][1]
      /\ \A k \in 1 .. Len(rest) :
            k + 1 \in 1 .. Len(mempool[o]) /\ k # 0 /\ rest[k] = mempool[o][k + 1]
  BY <1>1, <1>2, <1>3, <1>4
<1>6. \A p \in Operators : mempool'[p] = IF p = o THEN rest ELSE mempool[p]
  BY <1>2, <1>3, <1>4
<1>7. tx \in Transaction /\ GoodTx(o, tx)
  BY <1>2, <1>5, ElementOfSeq DEF OperatorInv, GoodMempool
<1>8. tx.claimIndex \in Uint32 /\ tx.claim \in Claim
  BY <1>7 DEF Transaction
<1>9. PICK accepted \in BOOLEAN :
        /\ IF tx.fn = "approveClaimSpending"
           THEN ApproveClaimSpending(o, tx.claim, tx.claimIndex, accepted)
           ELSE \E signature \in Signatures :
                   RespondToClaim(o, tx.claim, tx.claimIndex, signature, accepted)
        /\ IF handler[o][tx.claimIndex].pc = "wait" /\ handler[o][tx.claimIndex].receipt = "pending"
           THEN Become(o, tx.claimIndex, [handler[o][tx.claimIndex] EXCEPT !.receipt =
                    IF CallSucceeds(tx.claim, accepted) THEN "ok" ELSE "reverted"])
           ELSE UNCHANGED handler
  BY <1>1 DEF MineTx
<1>10. PICK ok \in BOOLEAN : ok = CallSucceeds(tx.claim, accepted)
  BY DEF CallSucceeds
<1>11. UNCHANGED <<inbox, newClaimEvents>>
  BY <1>9 DEF MineTx, processVars, claimVars, ApproveClaimSpending, RespondToClaim
<1>12. Hears(o, tx, ok)
  <2>1. PICK call : call =
        [fn |-> tx.fn, pool |-> tx.claim.pool, claim |-> SubmittedClaim(tx.claim),
         sender |-> o, claimIndex |-> tx.claimIndex]
    OBVIOUS
  <2>2. IF ok THEN poolCalls' = Append(poolCalls, call) ELSE UNCHANGED poolCalls
    <3>1. CASE tx.fn = "approveClaimSpending"
      BY <1>9, <1>10, <2>1, <3>1 DEF ApproveClaimSpending, PoolCall
    <3>2. CASE tx.fn = "respondToClaim"
      BY <1>9, <1>10, <2>1, <3>2 DEF RespondToClaim, PoolCall, answerVars
    <3>3. QED
      BY <1>7, <3>1, <3>2 DEF Transaction
  <2>3. CASE ok
    <3>1. poolCalls \in Seq(PoolCallRecord)
      BY DEF OperatorInv, TypeOK, ContractTypeOK
    <3>2. call \in PoolCallRecord
      BY <1>7, <1>8, <1>10, <2>1, <2>3
         DEF CallSucceeds, PoolCallRecord, SubmittedClaim, Claim, Transaction
    <3>3. /\ Len(poolCalls) \in Nat
          /\ Len(poolCalls') = Len(poolCalls) + 1
          /\ poolCalls'[Len(poolCalls) + 1] = call
          /\ \A k \in 1 .. Len(poolCalls) : poolCalls'[k] = poolCalls[k]
      BY <2>2, <2>3, <3>1, <3>2, Appended
    <3>4. /\ NewCall \notin Calls /\ Calls' = Calls \cup {NewCall}
          /\ \A k \in Calls : k < NewCall
      BY <3>3 DEF NewCall, Calls
    <3>5. QED
      BY <2>1, <2>3, <3>3, <3>4 DEF Hears, NewCall, Calls
  <2>4. QED
    BY <2>2, <2>3 DEF Hears
<1>13. /\ handler'[o][tx.claimIndex] =
             IF /\ handler[o][tx.claimIndex].pc = "wait"
                /\ handler[o][tx.claimIndex].receipt = "pending"
             THEN WithReceipt(handler[o][tx.claimIndex], ok)
             ELSE handler[o][tx.claimIndex]
       /\ \A p \in Operators, j \in Uint32 :
             p # o \/ j # tx.claimIndex => handler'[p][j] = handler[p][j]
  <2>1. handler[o][tx.claimIndex] \in HandlerState
    BY <1>8 DEF OperatorInv, TypeOK
  <2>2. WithReceipt(handler[o][tx.claimIndex], ok) \in HandlerState
    BY <2>1 DEF WithReceipt, HandlerState
  <2>3. CASE handler[o][tx.claimIndex].pc = "wait" /\ handler[o][tx.claimIndex].receipt = "pending"
    <3>1. PICK h \in HandlerState : h = WithReceipt(handler[o][tx.claimIndex], ok)
      BY <2>2
    <3>2. Become(o, tx.claimIndex, h)
      BY <1>9, <1>10, <2>3, <3>1 DEF WithReceipt
    <3>3. QED
      BY <1>8, <2>3, <3>1, <3>2, OneHandler DEF OperatorInv
  <2>4. CASE ~(handler[o][tx.claimIndex].pc = "wait" /\ handler[o][tx.claimIndex].receipt = "pending")
    BY <1>9, <2>4
  <2>5. QED
    BY <2>3, <2>4
<1>14. Mines(o, tx, ok)
  BY <1>5, <1>6, <1>11, <1>12, <1>13 DEF Mines, Queue
<1>15. QED
  BY <1>14

LEMMA MineTxOrder ==
    ASSUME OperatorInv, OrderInv, NEW o \in Operators, MineTx(o)
    PROVE  OrderInv'
<1>1. PICK tx, ok : ok \in BOOLEAN /\ Mines(o, tx, ok)
  BY MineTxMines
<1>2. QED
  BY <1>1, MinesHandlers, MinesInbox, MinesQueue, MinesCalls DEF OrderInv

----------------------------------------------------------------------------
(* The process and the chain around the handlers: nothing is sent or mined,*)
(* a handler starts on a claim of which nothing was said, or is gone.      *)
LEMMA ProcessOrder ==
    ASSUME OperatorInv, OrderInv, Kept, UNCHANGED <<poolCalls, mempool>>,
           \A p \in Operators, j \in Uint32 :
              \/ handler'[p][j] = handler[p][j]
              \/ handler'[p][j].pc = "idle"
              \/ handler'[p][j].pc = "inputs" /\ NothingSaid(p, j),
           \A p \in Operators : \A k \in 1 .. Len(inbox'[p]) :
              /\ handler'[p][inbox'[p][k]].pc = "idle"
              /\ NothingSaid(p, inbox'[p][k])
              /\ \A l \in 1 .. Len(inbox'[p]) : inbox'[p][k] = inbox'[p][l] => k = l
    PROVE  OrderInv'
<1>1. CallsKeep /\ \A p, j : NoNewCall(p, j) /\ NoNewTx(p, j)
  BY OrderKeptBelow
<1>2. \A p, j : NothingSaid(p, j) => NothingSaid(p, j)'
  BY <1>1, NoneCalledKept, NoneQueuedKept DEF NothingSaid
<1>3. ASSUME NEW p \in Operators, NEW j \in Uint32
      PROVE  HandlerOrder(p, j, handler[p][j])'
  <2>1. /\ handler[p][j] \in HandlerState /\ HandlerOrder(p, j, handler[p][j])
        /\ GoodHandler(p, j, handler[p][j])
    BY DEF OperatorInv, OrderInv, HandlersOrder, TypeOK, GoodHandlers
  <2>2. CASE handler'[p][j] = handler[p][j]
    <3>1. PICK h \in HandlerState : h = handler[p][j]
      BY <2>1
    <3>2. h.pc # "idle" => ClaimOfEvent(j)' = ClaimOfEvent(j)
      BY <2>1, <3>1 DEF GoodHandler, Kept
    <3>3. HandlerOrder(p, j, h)'
      BY <1>1, <2>1, <3>1, <3>2, HandlerOrderKept
    <3>4. QED
      BY <2>2, <3>1, <3>3 DEF HandlerOrder, AnswerOf
  <2>3. CASE handler'[p][j].pc = "idle"
    BY <2>3 DEF HandlerOrder, ProofSteps
  <2>4. CASE handler'[p][j].pc = "inputs" /\ NothingSaid(p, j)
    <3>1. NothingSaid(p, j)'
      BY <1>2, <2>4
    <3>2. QED
      BY <2>4, <3>1 DEF HandlerOrder, ProofSteps
  <2>5. QED
    BY <2>2, <2>3, <2>4
<1>4. InboxOrder'
  BY DEF InboxOrder, NothingSaid, NoneQueued, NoneCalled, Queue, Calls, IsCall
<1>5. QED
  BY <1>3, <1>4, OrderKeptBelow DEF OrderInv, HandlersOrder

LEMMA ClaimCreatedOrder ==
    ASSUME OperatorInv, OrderInv, NEW pool \in Addresses, NEW insured \in Insureds,
           NEW amount \in Amounts, NEW index \in Indexes,
           ClaimCreated(pool, insured, amount, index), Kept
    PROVE  OrderInv'
<1>1. UNCHANGED <<handler, mempool, poolCalls>>
  BY DEF ClaimCreated, walletVars, CreateNewClaim, answerVars
<1>2. latestClaimNum \in Uint32 /\ latestClaimNum \in Nat
  BY ConstantsAssumption DEF OperatorInv, TypeOK, ContractTypeOK, Uint32
<1>3. ASSUME NEW p \in Operators
      PROVE  handler[p][latestClaimNum].pc = "idle" /\ NothingSaid(p, latestClaimNum)
  <2>1. handler[p][latestClaimNum].pc = "idle"
    BY <1>2 DEF OperatorInv, GoodHandlers, GoodHandler
  <2>2. NoneQueued(p, latestClaimNum)
    BY <1>2 DEF OperatorInv, GoodMempool, GoodTx, NoneQueued, Queue
  <2>3. NoneCalled(p, latestClaimNum)
    BY <1>2 DEF OperatorInv, GoodCalls, GoodCall, NoneCalled, IsCall
  <2>4. QED
    BY <2>1, <2>2, <2>3 DEF NothingSaid
<1>4. ASSUME NEW p \in Operators, NEW k \in 1 .. Len(inbox'[p])
      PROVE  /\ handler'[p][inbox'[p][k]].pc = "idle"
             /\ NothingSaid(p, inbox'[p][k])
             /\ \A l \in 1 .. Len(inbox'[p]) : inbox'[p][k] = inbox'[p][l] => k = l
  <2>1. inbox[p] \in Seq(Uint32)
    BY DEF OperatorInv, TypeOK
  <2>2. \A l \in 1 .. Len(inbox[p]) : inbox[p][l] # latestClaimNum
    BY <1>2 DEF OperatorInv, GoodInbox
  <2>3. \A m \in 1 .. Len(inbox[p]) :
          /\ handler[p][inbox[p][m]].pc = "idle" /\ NothingSaid(p, inbox[p][m])
          /\ \A l \in 1 .. Len(inbox[p]) : inbox[p][m] = inbox[p][l] => m = l
    BY DEF OrderInv, InboxOrder
  <2>4. CASE inbox'[p] = inbox[p]
    BY <1>1, <2>3, <2>4
  <2>5. CASE inbox'[p] = Append(inbox[p], latestClaimNum)
    <3>1. PICK seq : seq = inbox'[p]
      OBVIOUS
    <3>2. /\ Len(inbox[p]) \in Nat /\ Len(seq) = Len(inbox[p]) + 1
          /\ seq[Len(inbox[p]) + 1] = latestClaimNum
          /\ \A m \in 1 .. Len(inbox[p]) : seq[m] = inbox[p][m]
      BY <1>2, <2>1, <2>5, <3>1, AppendProperties, LenProperties
    <3>3. \A m \in 1 .. Len(seq) : m \in 1 .. Len(inbox[p]) \/ m = Len(inbox[p]) + 1
      BY <3>2
    <3>4. handler[p][seq[k]].pc = "idle" /\ NothingSaid(p, seq[k])
      BY <1>3, <2>3, <3>1, <3>2, <3>3
    <3>5. \A l \in 1 .. Len(seq) : seq[k] = seq[l] => k = l
      <4> SUFFICES ASSUME NEW l \in 1 .. Len(seq), seq[k] = seq[l] PROVE k = l
        OBVIOUS
      <4>1. CASE k \in 1 .. Len(inbox[p]) /\ l \in 1 .. Len(inbox[p])
        BY <2>3, <3>2, <4>1
      <4>2. CASE k \in 1 .. Len(inbox[p]) /\ l = Len(inbox[p]) + 1
        BY <2>2, <3>2, <4>2
      <4>3. CASE k = Len(inbox[p]) + 1 /\ l \in 1 .. Len(inbox[p])
        BY <2>2, <3>2, <4>3
      <4>4. QED
        BY <3>1, <3>3, <4>1, <4>2, <4>3
    <3>6. QED
      BY <1>1, <3>1, <3>4, <3>5
  <2>6. QED
    BY <2>4, <2>5 DEF ClaimCreated
<1>5. QED
  BY <1>1, <1>4, ProcessOrder

LEMMA StartOrder ==
    ASSUME OperatorInv, OrderInv, Kept, UNCHANGED <<poolCalls, mempool, handler, inbox>>
    PROVE  OrderInv'
<1>1. \A p \in Operators : \A k \in 1 .. Len(inbox'[p]) :
        /\ handler'[p][inbox'[p][k]].pc = "idle"
        /\ NothingSaid(p, inbox'[p][k])
        /\ \A l \in 1 .. Len(inbox'[p]) : inbox'[p][k] = inbox'[p][l] => k = l
  BY DEF OrderInv, InboxOrder
<1>2. QED
  BY <1>1, ProcessOrder

LEMMA CrashOrder ==
    ASSUME OperatorInv, OrderInv, NEW o \in Operators, Crash(o), Kept
    PROVE  OrderInv'
<1>1. UNCHANGED <<poolCalls, mempool>>
  BY DEF Crash, contractVars, answerVars, walletVars
<1>2. handler \in [Operators -> [Uint32 -> HandlerState]]
  BY DEF OperatorInv, TypeOK
<1>3. \A p \in Operators, i \in Uint32 :
         handler'[p][i] = IF p = o THEN Idle ELSE handler[p][i]
  BY <1>2 DEF Crash
<1>4. inbox \in [Operators -> Seq(Uint32)]
  BY DEF OperatorInv, TypeOK
<1>5. \A p \in Operators : inbox'[p] = IF p = o THEN <<>> ELSE inbox[p]
  BY <1>4 DEF Crash
<1>6. ASSUME NEW p \in Operators, NEW k \in 1 .. Len(inbox'[p])
      PROVE  /\ handler'[p][inbox'[p][k]].pc = "idle"
             /\ NothingSaid(p, inbox'[p][k])
             /\ \A l \in 1 .. Len(inbox'[p]) : inbox'[p][k] = inbox'[p][l] => k = l
  <2>1. p # o /\ inbox'[p] = inbox[p]
    BY <1>5
  <2>2. inbox[p][k] \in Uint32
    BY <1>4, <2>1, ElementOfSeq
  <2>3. QED
    BY <1>3, <2>1, <2>2 DEF OrderInv, InboxOrder
<1>7. \A p \in Operators, j \in Uint32 :
         handler'[p][j] = handler[p][j] \/ handler'[p][j].pc = "idle"
  BY <1>3 DEF Idle
<1>8. QED
  BY <1>1, <1>6, <1>7, ProcessOrder

LEMMA DeliverOrder ==
    ASSUME OperatorInv, OrderInv, NEW o \in Operators, Deliver(o), Kept
    PROVE  OrderInv'
<1>1. /\ UNCHANGED <<poolCalls, mempool>>
      /\ inbox[o] # <<>> /\ inbox' = [inbox EXCEPT ![o] = Tail(@)]
  BY DEF Deliver, contractVars, answerVars, walletVars
<1>2. inbox \in [Operators -> Seq(Uint32)] /\ inbox[o] \in Seq(Uint32)
  BY DEF OperatorInv, TypeOK
<1>3. PICK i, rest : i = Head(inbox[o]) /\ rest = Tail(inbox[o])
  OBVIOUS
<1>4. /\ 1 \in 1 .. Len(inbox[o]) /\ i = inbox[o][1]
      /\ \A k \in 1 .. Len(rest) :
            k + 1 \in 1 .. Len(inbox[o]) /\ k \in Nat \ {0} /\ rest[k] = inbox[o][k + 1]
  BY <1>1, <1>2, <1>3
<1>5. i \in Uint32
  BY <1>2, <1>4, ElementOfSeq
<1>6. PICK h : h = [Idle EXCEPT !.pc = "inputs"]
  OBVIOUS
<1>7. h \in HandlerState /\ h.pc = "inputs" /\ Become(o, i, h)
  BY <1>3, <1>6, ConstantsAssumption DEF Deliver, Idle, HandlerState, ProofSteps
<1>8. /\ handler'[o][i] = h
      /\ \A p \in Operators, j \in Uint32 : p # o \/ j # i => handler'[p][j] = handler[p][j]
  BY <1>5, <1>7, OneHandler DEF OperatorInv
<1>9. \A p \in Operators : inbox'[p] = IF p = o THEN rest ELSE inbox[p]
  BY <1>1, <1>2, <1>3
<1>10. NothingSaid(o, i)
  BY <1>4 DEF OrderInv, InboxOrder
<1>11. ASSUME NEW p \in Operators, NEW k \in 1 .. Len(inbox'[p])
       PROVE  /\ handler'[p][inbox'[p][k]].pc = "idle"
              /\ NothingSaid(p, inbox'[p][k])
              /\ \A l \in 1 .. Len(inbox'[p]) : inbox'[p][k] = inbox'[p][l] => k = l
  <2>1. CASE p = o
    <3>1. inbox'[p] = rest
      BY <1>9, <2>1
    <3>2. k + 1 \in 1 .. Len(inbox[o]) /\ k \in Nat \ {0} /\ rest[k] = inbox[o][k + 1]
      BY <1>4, <3>1
    <3>3. /\ handler[o][rest[k]].pc = "idle" /\ NothingSaid(o, rest[k])
          /\ \A l \in 1 .. Len(inbox[o]) : rest[k] = inbox[o][l] => k + 1 = l
      BY <3>2 DEF OrderInv, InboxOrder
    <3>4. rest[k] # i /\ rest[k] \in Uint32
      BY <1>2, <1>4, <3>2, <3>3, ElementOfSeq
    <3>5. ASSUME NEW l \in 1 .. Len(rest), rest[k] = rest[l] PROVE k = l
      <4>1. l + 1 \in 1 .. Len(inbox[o]) /\ l \in Nat /\ rest[l] = inbox[o][l + 1]
        BY <1>4
      <4>2. k + 1 = l + 1
        BY <3>3, <3>5, <4>1
      <4>3. QED
        BY <3>2, <4>1, <4>2
    <3>6. QED
      BY <1>8, <2>1, <3>1, <3>3, <3>4, <3>5
  <2>2. CASE p # o
    <3>1. inbox'[p] = inbox[p]
      BY <1>9, <2>2
    <3>2. inbox[p][k] \in Uint32
      BY <1>2, <3>1, ElementOfSeq
    <3>3. QED
      BY <1>8, <2>2, <3>1, <3>2 DEF OrderInv, InboxOrder
  <2>3. QED
    BY <2>1, <2>2
<1>12. \A p \in Operators, j \in Uint32 :
         \/ handler'[p][j] = handler[p][j]
         \/ handler'[p][j].pc = "inputs" /\ NothingSaid(p, j)
  BY <1>7, <1>8, <1>10
<1>13. QED
  BY <1>1, <1>11, <1>12, ProcessOrder

----------------------------------------------------------------------------
LEMMA OrderInvInit == Init => OrderInv
<1> SUFFICES ASSUME Init PROVE OrderInv
  OBVIOUS
<1>1. HandlersOrder
  BY DEF Init, HandlersOrder, HandlerOrder, Idle, ProofSteps
<1>2. InboxOrder /\ QueueDistinct /\ QueueFollows
  BY DEF Init, InboxOrder, QueueDistinct, QueueFollows, Queue
<1>3. RejectionsFinal /\ NothingSaidTwice /\ AnswersFollowSpending
  BY DEF Init, ContractInit, RejectionsFinal, NothingSaidTwice, AnswersFollowSpending, Calls
<1>4. QED
  BY <1>1, <1>2, <1>3 DEF OrderInv

LEMMA OrderInvStep == OperatorInv /\ OrderInv /\ [Next]_vars => OrderInv'
<1> SUFFICES ASSUME OperatorInv, OrderInv, [Next]_vars PROVE OrderInv'
  OBVIOUS
<1>1. ASSUME UNCHANGED <<contractVars, evidence>> PROVE Kept
  BY <1>1, ContractUnchanged DEF OperatorInv
<1>2. CASE UNCHANGED vars
  <2>1. UNCHANGED <<contractVars, evidence, poolCalls, mempool, handler, inbox>>
    BY <1>2 DEF vars, contractVars, answerVars, processVars, walletVars
  <2>2. QED
    BY <1>1, <2>1, StartOrder
<1>3. ASSUME NEW pool \in Addresses, NEW insured \in Insureds,
             NEW amount \in Amounts, NEW index \in Indexes,
             ClaimCreated(pool, insured, amount, index)
      PROVE  OrderInv'
  BY <1>3, ClaimCreatedKept, ClaimCreatedOrder
<1>4. ASSUME NEW o \in Operators, Start(o) \/ Deregister(o)
      PROVE  OrderInv'
  <2>1. UNCHANGED <<contractVars, evidence, poolCalls, mempool, handler, inbox>>
    BY <1>4 DEF Start, Deregister, contractVars, answerVars, walletVars
  <2>2. QED
    BY <1>1, <2>1, StartOrder
<1>5. ASSUME NEW o \in Operators, Crash(o) \/ Deliver(o)
      PROVE  OrderInv'
  <2>1. Kept
    BY <1>1, <1>5 DEF Crash, Deliver
  <2>2. QED
    BY <1>5, <2>1, CrashOrder, DeliverOrder
<1>6. ASSUME NEW o \in Operators, MineTx(o)
      PROVE  OrderInv'
  BY <1>6, MineTxOrder
<1>7. ASSUME NEW o \in Operators, NEW i \in Uint32,
             HandlerStep(o, i) \/ BroadcastUnheard(o, i) \/ RpcError(o, i)
      PROVE  OrderInv'
  BY <1>7, ProofStepsOrder, QuietTxStepsOrder, BroadcastOrder, BroadcastReplacesOrder
     DEF HandlerStep
<1>8. QED
  BY <1>2, <1>3, <1>4, <1>5, <1>6, <1>7 DEF Next

LEMMA OrderInvariant == Spec => []OrderInv
  BY OperatorInvariant, OrderInvInit, OrderInvStep, PTL DEF Spec

(* No operator says the same of a claim twice, although the contract would *)
(* take it: every transaction a handler sends is the only one of its kind. *)
THEOREM OperatorsSayNothingTwice == Spec => []NothingSaidTwice
<1>1. OrderInv => NothingSaidTwice
  BY DEF OrderInv
<1>2. QED
  BY <1>1, OrderInvariant, PTL

(* A pool hears a positive answer only after the approval of the spending  *)
(* of the very same claim, and a negative one only without any approval,   *)
(* whatever is replaced, reverted, lost or crashes in between.             *)
THEOREM OperatorsAnswerAfterSpending == Spec => []AnswersFollowSpending
<1>1. OrderInv => AnswersFollowSpending
  BY DEF OrderInv
<1>2. QED
  BY <1>1, OrderInvariant, PTL

----------------------------------------------------------------------------
(* The life of a claim: what the pool heard of it tells how far it is.     *)
LEMMA OutcomeType ==
    ASSUME NEW o, NEW i
    PROVE  Outcome(o, i) \in {"open", "spendable", "accepted", "rejected"}
BY DEF Outcome

LEMMA OutcomesStay ==
    ASSUME UNCHANGED <<poolCalls, latestClaimNum>>
    PROVE  UNCHANGED Lifecycle!lifecycleVars
<1>1. \A o, i : Outcome(o, i)' = Outcome(o, i)
  BY DEF Outcome, Heard, Calls
<1>2. QED
  BY <1>1 DEF Lifecycle!lifecycleVars

LEMMA HeardCalled ==
    ASSUME NEW o, NEW i, NEW fn, NEW verdict, Heard(o, i, fn, verdict)
    PROVE  Called(o, i, fn)
BY DEF Heard, Called, IsCall

(* What was heard before a transaction is mined that succeeds.             *)
LEMMA OutcomeBefore ==
    ASSUME OperatorInv, OrderInv, NEW o \in Operators, NEW tx, Mines(o, tx, TRUE)
    PROVE  /\ tx.claimIndex \in Uint32 /\ tx.claimIndex < latestClaimNum
           /\ tx.fn \in {Ap, Re} /\ tx.claim.isApproved \in BOOLEAN
           /\ tx.fn = Ap => tx.claim.isApproved
           /\ Outcome(o, tx.claimIndex) =
                 IF tx.fn = Re /\ tx.claim.isApproved THEN "spendable" ELSE "open"
<1>1. /\ tx \in Transaction /\ Queued(o, tx.claimIndex, tx.fn)
      /\ ~Called(o, tx.claimIndex, tx.fn) /\ TxFollows(o, tx)
  BY BeforeMining
<1>2. GoodTx(o, tx)
  BY DEF Mines, OperatorInv, GoodMempool, Queue
<1>3. /\ tx.claimIndex \in Uint32 /\ tx.claimIndex < latestClaimNum
      /\ tx.fn \in {Ap, Re} /\ tx.claim.isApproved \in BOOLEAN
      /\ tx.fn = Ap => tx.claim.isApproved
  BY <1>1, <1>2 DEF GoodTx, Transaction, Claim, Ap, Re
<1>4. CASE tx.fn = Ap
  <2>1. \A verdict : ~Heard(o, tx.claimIndex, Ap, verdict)
    BY <1>1, <1>4, HeardCalled
  <2>2. ASSUME NEW k \in Calls, IsCall(k, o, tx.claimIndex), poolCalls[k].fn = Re
        PROVE  FALSE
    <3>1. ~IsApproval(k)
      BY <2>2 DEF IsApproval, Re
    <3>2. CASE poolCalls[k].claim.isApproved
      BY <1>1, <1>4, <2>2, <3>1, <3>2
         DEF OrderInv, AnswersFollowSpending, Called, IsCall, IsApproval, Ap
    <3>3. CASE ~poolCalls[k].claim.isApproved
      BY <1>1, <1>4, <2>2, <3>1, <3>3 DEF OrderInv, RejectionsFinal, IsCall
    <3>4. QED
      BY <3>2, <3>3
  <2>3. \A verdict : ~Heard(o, tx.claimIndex, Re, verdict)
    BY <2>2 DEF Heard, IsCall
  <2>4. QED
    BY <1>3, <1>4, <2>1, <2>3 DEF Outcome, Ap, Re
<1>5. CASE tx.fn = Re
  <2>1. \A verdict : ~Heard(o, tx.claimIndex, Re, verdict)
    BY <1>1, <1>5, HeardCalled
  <2>2. CASE tx.claim.isApproved
    <3>1. PICK k \in Calls : /\ IsCall(k, o, tx.claimIndex) /\ IsApproval(k)
                             /\ poolCalls[k].claim = SubmittedClaim(tx.claim)
      BY <1>1, <1>5, <2>2 DEF TxFollows, CalledWith
    <3>2. poolCalls[k].claim.isApproved = TRUE
      BY <1>3, <2>2, <3>1 DEF SubmittedClaim
    <3>3. Heard(o, tx.claimIndex, Ap, TRUE)
      BY <3>1, <3>2 DEF Heard, IsCall, IsApproval, Ap
    <3>4. QED
      BY <1>3, <1>5, <2>1, <2>2, <3>3 DEF Outcome, Ap, Re
  <2>3. CASE ~tx.claim.isApproved
    <3>1. \A verdict : ~Heard(o, tx.claimIndex, Ap, verdict)
      BY <1>1, <1>5, <2>3, HeardCalled DEF TxFollows
    <3>2. QED
      BY <1>3, <1>5, <2>1, <2>3, <3>1 DEF Outcome, Ap, Re
  <2>4. QED
    BY <2>2, <2>3
<1>6. QED
  BY <1>3, <1>4, <1>5

(* And after it.                                                           *)
LEMMA OutcomeAfter ==
    ASSUME OperatorInv, OrderInv, NEW o \in Operators, NEW tx, Mines(o, tx, TRUE)
    PROVE  /\ Outcome(o, tx.claimIndex)' =
                 IF tx.fn = Ap THEN "spendable"
                 ELSE IF tx.claim.isApproved THEN "accepted" ELSE "rejected"
           /\ \A p, j : p # o \/ j # tx.claimIndex => Outcome(p, j)' = Outcome(p, j)
<1>1. PICK c : c = NewCall
  OBVIOUS
<1>2. /\ c \notin Calls /\ Calls' = Calls \cup {c}
      /\ poolCalls'[c] =
            [fn |-> tx.fn, pool |-> tx.claim.pool, claim |-> SubmittedClaim(tx.claim),
             sender |-> o, claimIndex |-> tx.claimIndex]
      /\ \A k \in Calls : poolCalls'[k] = poolCalls[k]
  BY <1>1 DEF Mines, Hears
<1>3. /\ poolCalls'[c].fn = tx.fn /\ poolCalls'[c].sender = o
      /\ poolCalls'[c].claimIndex = tx.claimIndex
      /\ poolCalls'[c].claim.isApproved = tx.claim.isApproved
  BY <1>2 DEF SubmittedClaim
<1>4. ASSUME NEW p, NEW j, NEW fn, NEW verdict
      PROVE  Heard(p, j, fn, verdict)' <=>
               \/ Heard(p, j, fn, verdict)
               \/ /\ p = o /\ j = tx.claimIndex /\ fn = tx.fn
                  /\ verdict = tx.claim.isApproved
  <2>1. Heard(p, j, fn, verdict)' <=>
          \E k \in Calls \cup {c} : /\ poolCalls'[k].fn = fn /\ poolCalls'[k].sender = p
                                     /\ poolCalls'[k].claimIndex = j
                                     /\ poolCalls'[k].claim.isApproved = verdict
    BY <1>2 DEF Heard
  <2>2. QED
    BY <1>2, <1>3, <2>1 DEF Heard
<1>5. /\ tx.fn \in {Ap, Re} /\ tx.claim.isApproved \in BOOLEAN
      /\ tx.fn = Ap => tx.claim.isApproved
      /\ Outcome(o, tx.claimIndex) =
                 IF tx.fn = Re /\ tx.claim.isApproved THEN "spendable" ELSE "open"
  BY OutcomeBefore
<1>6. /\ ~Heard(o, tx.claimIndex, Re, TRUE) /\ ~Heard(o, tx.claimIndex, Re, FALSE)
      /\ Heard(o, tx.claimIndex, Ap, TRUE) <=> (tx.fn = Re /\ tx.claim.isApproved)
  BY <1>5 DEF Outcome, Ap, Re
<1>7. Outcome(o, tx.claimIndex)' =
        IF tx.fn = Ap THEN "spendable"
        ELSE IF tx.claim.isApproved THEN "accepted" ELSE "rejected"
  <2>1. /\ Heard(o, tx.claimIndex, Re, TRUE)' <=> tx.fn = Re /\ tx.claim.isApproved
        /\ Heard(o, tx.claimIndex, Re, FALSE)' <=> tx.fn = Re /\ ~tx.claim.isApproved
        /\ Heard(o, tx.claimIndex, Ap, TRUE)' <=>
              tx.fn = Ap \/ (tx.fn = Re /\ tx.claim.isApproved)
    BY <1>4, <1>5, <1>6 DEF Ap, Re
  <2>2. QED
    BY <1>5, <2>1 DEF Outcome, Ap, Re
<1>8. ASSUME NEW p, NEW j, p # o \/ j # tx.claimIndex
      PROVE  Outcome(p, j)' = Outcome(p, j)
  <2>1. \A fn, verdict : Heard(p, j, fn, verdict)' <=> Heard(p, j, fn, verdict)
    BY <1>4, <1>8
  <2>2. QED
    BY <2>1 DEF Outcome
<1>9. QED
  BY <1>7, <1>8

LEMMA MineTxLifecycle ==
    ASSUME OperatorInv, OrderInv, NEW o \in Operators, MineTx(o)
    PROVE  [Lifecycle!Next]_(Lifecycle!lifecycleVars)
<1>1. PICK tx, ok : ok \in BOOLEAN /\ Mines(o, tx, ok)
  BY MineTxMines
<1>2. UNCHANGED latestClaimNum
  BY DEF MineTx, ApproveClaimSpending, RespondToClaim, claimVars
<1>3. CASE ~ok
  <2>1. UNCHANGED poolCalls
    BY <1>1, <1>3 DEF Mines, Hears
  <2>2. QED
    BY <1>2, <2>1, OutcomesStay
<1>4. CASE ok
  <2>1. Mines(o, tx, TRUE)
    BY <1>1, <1>4
  <2>2. PICK i \in Uint32 : i = tx.claimIndex
    BY <2>1, OutcomeBefore
  <2>3. PICK before, after : before = Outcome(o, i) /\ after = Outcome(o, i)'
    OBVIOUS
  <2>0. \A p, j : p # o \/ j # i => Outcome(p, j)' = Outcome(p, j)
    <3>1. \A p, j : p # o \/ j # tx.claimIndex => Outcome(p, j)' = Outcome(p, j)
      BY <2>1, OutcomeAfter, Zenon
    <3>2. QED
      BY <2>2, <3>1, Zenon
  <2>4. [p \in Operators |-> [j \in Uint32 |-> Outcome(p, j)]]' =
          [[p \in Operators |-> [j \in Uint32 |-> Outcome(p, j)]] EXCEPT ![o][i] = after]
    <3>1. PICK f, g : /\ f = [p \in Operators |-> [j \in Uint32 |-> Outcome(p, j)]]
                      /\ g = [p \in Operators |-> [j \in Uint32 |-> Outcome(p, j)']]
      OBVIOUS
    <3>2. \A p \in Operators, j \in Uint32 :
            Outcome(p, j)' = IF p = o /\ j = i THEN after ELSE Outcome(p, j)
      <4> SUFFICES ASSUME NEW p \in Operators, NEW j \in Uint32
                   PROVE  Outcome(p, j)' = IF p = o /\ j = i THEN after ELSE Outcome(p, j)
        OBVIOUS
      <4>1. CASE p = o /\ j = i
        BY <2>3, <4>1
      <4>2. CASE p # o \/ j # i
        <5>1. Outcome(p, j)' = Outcome(p, j)
          BY <2>0, <4>2
        <5>2. QED
          BY <4>2, <5>1
      <4>3. QED
        BY <4>1, <4>2
    <3>3. g = [p \in Operators |-> [j \in Uint32 |->
                  IF p = o /\ j = i THEN after ELSE f[p][j]]]
      BY <3>1, <3>2
    <3>4. g = [f EXCEPT ![o][i] = after]
      BY <3>1, <3>3
    <3>5. QED
      BY <3>1, <3>4
  <2>5. i < latestClaimNum
    BY <2>1, <2>2, OutcomeBefore
  <2>6. Lifecycle!Decide(o, i, before, after)
    BY <1>2, <2>3, <2>4, <2>5 DEF Lifecycle!Decide
  <2>7. \/ before = "open" /\ after \in {"spendable", "rejected"}
        \/ before = "spendable" /\ after = "accepted"
    BY <2>1, <2>2, <2>3, OutcomeBefore, OutcomeAfter DEF Ap, Re
  <2>8. QED
    BY <2>6, <2>7
       DEF Lifecycle!Next, Lifecycle!ApproveSpending, Lifecycle!Accept, Lifecycle!Reject
<1>5. QED
  BY <1>3, <1>4

LEMMA StepIsLifecycleStep ==
    ASSUME OperatorInv, OrderInv, [Next]_vars
    PROVE  [Lifecycle!Next]_(Lifecycle!lifecycleVars)
<1>1. CASE UNCHANGED vars
  BY <1>1, OutcomesStay DEF vars, contractVars, claimVars, answerVars
<1>2. ASSUME NEW pool \in Addresses, NEW insured \in Insureds,
             NEW amount \in Amounts, NEW index \in Indexes,
             ClaimCreated(pool, insured, amount, index)
      PROVE  [Lifecycle!Next]_(Lifecycle!lifecycleVars)
  <2>1. /\ latestClaimNum + 1 \in Uint32 /\ latestClaimNum' = latestClaimNum + 1
        /\ UNCHANGED poolCalls
    BY <1>2 DEF ClaimCreated, CreateNewClaim, answerVars
  <2>2. \A o, i : Outcome(o, i)' = Outcome(o, i)
    BY <2>1 DEF Outcome, Heard, Calls
  <2>3. Lifecycle!Create
    BY <2>1, <2>2 DEF Lifecycle!Create
  <2>4. QED
    BY <2>3 DEF Lifecycle!Next
<1>3. ASSUME NEW o \in Operators, Start(o) \/ Crash(o) \/ Deregister(o) \/ Deliver(o)
      PROVE  [Lifecycle!Next]_(Lifecycle!lifecycleVars)
  BY <1>3, OutcomesStay DEF Start, Crash, Deregister, Deliver, contractVars, claimVars, answerVars
<1>4. ASSUME NEW o \in Operators, MineTx(o)
      PROVE  [Lifecycle!Next]_(Lifecycle!lifecycleVars)
  BY <1>4, MineTxLifecycle
<1>5. ASSUME NEW o \in Operators, NEW i \in Uint32,
             HandlerStep(o, i) \/ BroadcastUnheard(o, i) \/ RpcError(o, i)
      PROVE  [Lifecycle!Next]_(Lifecycle!lifecycleVars)
  <2>1. UNCHANGED contractVars
    BY <1>5 DEF HandlerStep, GatherInputs, FetchProof, VerifyProof, UploadProof, TestValue,
                Populate, Broadcast, BroadcastUnheard, BroadcastRefused, BroadcastReplaces,
                Confirmed, RpcError, Unshared
  <2>2. QED
    BY <2>1, OutcomesStay DEF contractVars, claimVars, answerVars
<1>6. QED
  BY <1>1, <1>2, <1>3, <1>4, <1>5 DEF Next

(* The operators and the contract implement ClaimLifecycle: every mined    *)
(* call takes one claim one step further, and no step takes one back.      *)
THEOREM OperatorsImplementLifecycle == Spec => ImplementsLifecycle
<1>1. Init => Lifecycle!Init
  BY DEF Init, ContractInit, Lifecycle!Init, Outcome, Heard, Calls
<1>2. OperatorInv /\ OrderInv /\ [Next]_vars => [Lifecycle!Next]_(Lifecycle!lifecycleVars)
  BY StepIsLifecycleStep
<1>3. QED
  BY <1>1, <1>2, OperatorInvariant, OrderInvariant, PTL
     DEF Spec, ImplementsLifecycle, Lifecycle!Spec
=============================================================================
