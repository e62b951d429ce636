------------------- MODULE InsuranceServiceManager_proofs -------------------
(* Proofs about the contract, for any pools, operators, claims and width of *)
(* the counter.  The calls are lemmas, so that a system the contract is a   *)
(* part of can use them too.                                                *)
EXTENDS InsuranceServiceManager, SequenceTheorems, TLAPS

LEMMA NewClaimType ==
    ASSUME ContractTypeOK,
           NEW pool \in Addresses, NEW insured \in Insureds,
           NEW amount \in Amounts, NEW index \in Indexes
    PROVE  NewClaim(pool, insured, amount, index) \in Claim
<1>1. blockNumber % Uint32Size \in Uint32
  BY ConstantsAssumption DEF ContractTypeOK, Uint32
<1>2. QED
  BY <1>1, ConstantsAssumption DEF NewClaim, Claim

LEMMA PoolCallType ==
    ASSUME ContractTypeOK,
           NEW fn \in {"approveClaimSpending", "respondToClaim"}, NEW sender \in Operators,
           NEW claim \in Claim, NEW ref \in Uint32, NEW accepted \in BOOLEAN,
           CallSucceeds(claim, accepted), PoolCall(fn, sender, claim, ref)
    PROVE  poolCalls' \in Seq(PoolCallRecord)
<1>1. [fn |-> fn, pool |-> claim.pool, claim |-> SubmittedClaim(claim),
       sender |-> sender, claimIndex |-> ref] \in PoolCallRecord
  BY DEF PoolCallRecord, SubmittedClaim, Claim, CallSucceeds
<1>2. QED
  BY <1>1 DEF PoolCall, ContractTypeOK

LEMMA CreateNewClaimType ==
    ASSUME ContractTypeOK,
           NEW pool \in Addresses, NEW insured \in Insureds,
           NEW amount \in Amounts, NEW index \in Indexes,
           CreateNewClaim(pool, insured, amount, index)
    PROVE  ContractTypeOK'
<1>1. NewClaim(pool, insured, amount, index) \in Claim
  BY NewClaimType
<1>2. Hash(NewClaim(pool, insured, amount, index)) \in Addresses \X Insureds
  BY DEF Hash, NewClaim
<1>3. [claimIndex |-> latestClaimNum, claim |-> NewClaim(pool, insured, amount, index)]
        \in NewClaimEvent
  BY <1>1 DEF NewClaimEvent, ContractTypeOK
<1>4. QED
  BY <1>2, <1>3 DEF CreateNewClaim, ContractTypeOK, answerVars, configVars

LEMMA ApproveClaimSpendingType ==
    ASSUME ContractTypeOK,
           NEW sender \in Operators, NEW claim \in Claim, NEW ref \in Uint32,
           NEW accepted \in BOOLEAN,
           ApproveClaimSpending(sender, claim, ref, accepted)
    PROVE  ContractTypeOK'
<1>1. poolCalls' \in Seq(PoolCallRecord)
  BY PoolCallType DEF ApproveClaimSpending, ContractTypeOK
<1>2. QED
  BY <1>1 DEF ApproveClaimSpending, ContractTypeOK, claimVars, configVars

LEMMA RespondToClaimType ==
    ASSUME ContractTypeOK,
           NEW sender \in Operators, NEW claim \in Claim, NEW ref \in Uint32,
           NEW signature \in Signatures, NEW accepted \in BOOLEAN,
           RespondToClaim(sender, claim, ref, signature, accepted)
    PROVE  ContractTypeOK'
<1>1. poolCalls' \in Seq(PoolCallRecord)
  BY PoolCallType DEF RespondToClaim, ContractTypeOK, answerVars
<1>2. Len(poolCalls) + 1 \in Nat
  BY LenProperties DEF ContractTypeOK
<1>3. respondedEvents' \in Seq(RespondedEvent)
  <2> DEFINE event == [claimIndex |-> ref, claim |-> claim, operator |-> sender,
                       call |-> Len(poolCalls) + 1, signature |-> signature]
  <2>1. event \in RespondedEvent
    BY <1>2 DEF RespondedEvent
  <2>2. \/ respondedEvents' = respondedEvents
        \/ respondedEvents' = Append(respondedEvents, event)
    BY DEF RespondToClaim, answerVars
  <2> HIDE DEF event
  <2>3. respondedEvents \in Seq(RespondedEvent)
    BY DEF ContractTypeOK
  <2>4. Append(respondedEvents, event) \in Seq(RespondedEvent)
    BY <2>1, <2>3, AppendProperties
  <2>5. QED
    BY <2>2, <2>3, <2>4
<1>4. allClaimResponses' \in [Operators -> [Uint32 -> Signatures]]
  <2>1. \/ allClaimResponses' = allClaimResponses
        \/ allClaimResponses' = [allClaimResponses EXCEPT ![sender][ref] = signature]
    BY DEF RespondToClaim, answerVars
  <2>2. allClaimResponses \in [Operators -> [Uint32 -> Signatures]]
    BY DEF ContractTypeOK
  <2>3. [allClaimResponses EXCEPT ![sender][ref] = signature]
            \in [Operators -> [Uint32 -> Signatures]]
    BY <2>2
  <2>4. QED
    BY <2>1, <2>2, <2>3
<1>5. QED
  BY <1>1, <1>3, <1>4 DEF RespondToClaim, ContractTypeOK, claimVars, configVars

LEMMA ContractStepType == ContractTypeOK /\ [ContractNext]_contractVars => ContractTypeOK'
<1> SUFFICES ASSUME ContractTypeOK, [ContractNext]_contractVars PROVE ContractTypeOK'
  OBVIOUS
<1>1. ASSUME NEW newFactory \in Factories, NEW newKey \in PublicKeys,
             Initialize(newFactory, newKey)
      PROVE  ContractTypeOK'
  BY <1>1 DEF Initialize, ContractTypeOK, claimVars, answerVars
<1>2. CASE MineBlock
  BY <1>2, ConstantsAssumption DEF MineBlock, ContractTypeOK, claimVars, answerVars, configVars
<1>3. CASE UNCHANGED contractVars
  BY <1>3 DEF ContractTypeOK, contractVars, claimVars, answerVars, configVars
<1>4. QED
  BY <1>1, <1>2, <1>3, CreateNewClaimType, ApproveClaimSpendingType, RespondToClaimType
     DEF ContractNext

LEMMA ContractInitType == ContractInit => ContractTypeOK
  BY ConstantsAssumption DEF ContractInit, ContractTypeOK, Uint32

(* Types are preserved by every call anybody makes. *)
THEOREM ContractTypeCorrect == ContractSpec => []ContractTypeOK
  BY ContractInitType, ContractStepType, PTL DEF ContractSpec

----------------------------------------------------------------------------
(* The record of the claims: it is inductive together with the types.      *)
LEMMA RecordInit == ContractInit => ClaimsRecordedAsAnnounced
  BY DEF ContractInit, ClaimsRecordedAsAnnounced

LEMMA RecordCreate ==
    ASSUME ContractTypeOK, ClaimsRecordedAsAnnounced,
           NEW pool \in Addresses, NEW insured \in Insureds,
           NEW amount \in Amounts, NEW index \in Indexes,
           CreateNewClaim(pool, insured, amount, index)
    PROVE  ClaimsRecordedAsAnnounced'
<1> DEFINE claim == NewClaim(pool, insured, amount, index)
           event == [claimIndex |-> latestClaimNum, claim |-> claim]
<1>1. claim \in Claim /\ newClaimEvents \in Seq(NewClaimEvent) /\ event \in NewClaimEvent
  BY NewClaimType DEF ContractTypeOK, NewClaimEvent
<1>2. newClaimEvents' = Append(newClaimEvents, event)
  BY DEF CreateNewClaim
<1> HIDE DEF claim, event
<1>3. /\ Len(newClaimEvents') = Len(newClaimEvents) + 1
      /\ Len(newClaimEvents) \in Nat
      /\ newClaimEvents'[Len(newClaimEvents) + 1] = event
      /\ \A k \in 1 .. Len(newClaimEvents) : newClaimEvents'[k] = newClaimEvents[k]
  BY <1>1, <1>2, AppendProperties, LenProperties
<1>4. /\ latestClaimNum \in Uint32 /\ latestClaimNum' = latestClaimNum + 1
      /\ latestClaimNum = Len(newClaimEvents)
  BY DEF CreateNewClaim, ContractTypeOK, ClaimsRecordedAsAnnounced
<1>5. \A i \in Uint32 :
        allClaimHashes'[i] = IF i = latestClaimNum THEN Hash(claim) ELSE allClaimHashes[i]
  BY DEF CreateNewClaim, ContractTypeOK, claim
<1>6. event.claimIndex = latestClaimNum /\ event.claim = claim
  BY DEF event
<1>7. ASSUME NEW k \in 1 .. Len(newClaimEvents')
      PROVE  /\ newClaimEvents'[k].claimIndex = k - 1
             /\ allClaimHashes'[k - 1] = Hash(newClaimEvents'[k].claim)
  <2>1. k - 1 \in Uint32
    BY <1>3, <1>4, ConstantsAssumption DEF Uint32
  <2>2. CASE k = Len(newClaimEvents) + 1
    BY <2>1, <2>2, <1>3, <1>4, <1>5, <1>6
  <2>3. CASE k \in 1 .. Len(newClaimEvents)
    BY <2>1, <2>3, <1>3, <1>4, <1>5 DEF ClaimsRecordedAsAnnounced
  <2>4. QED
    BY <2>2, <2>3, <1>3
<1>8. \A i \in Uint32 : i >= latestClaimNum' => allClaimHashes'[i] = NoHash
  BY <1>4, <1>5, ConstantsAssumption DEF ClaimsRecordedAsAnnounced, Uint32
<1>9. QED
  BY <1>3, <1>4, <1>7, <1>8 DEF ClaimsRecordedAsAnnounced, Hash

LEMMA RecordStep ==
    ContractTypeOK /\ ClaimsRecordedAsAnnounced /\ [ContractNext]_contractVars
        => ClaimsRecordedAsAnnounced'
<1> SUFFICES ASSUME ContractTypeOK, ClaimsRecordedAsAnnounced, [ContractNext]_contractVars
             PROVE  ClaimsRecordedAsAnnounced'
  OBVIOUS
<1>1. UNCHANGED claimVars => ClaimsRecordedAsAnnounced'
  BY DEF claimVars, ClaimsRecordedAsAnnounced, Hash
<1>2. CASE UNCHANGED claimVars
  BY <1>1, <1>2
<1>3. ASSUME NEW pool \in Addresses, NEW insured \in Insureds,
             NEW amount \in Amounts, NEW index \in Indexes,
             CreateNewClaim(pool, insured, amount, index)
      PROVE  ClaimsRecordedAsAnnounced'
  BY <1>3, RecordCreate
<1>4. QED
  BY <1>2, <1>3 DEF ContractNext, Initialize, ApproveClaimSpending, RespondToClaim,
                    MineBlock, contractVars

(* Claims are numbered without gaps, and what is stored under a number is  *)
(* the hash of the claim that was announced with it, up to the last number *)
(* a counter of any width allows.                                          *)
THEOREM ClaimsAreRecorded == ContractSpec => []ClaimsRecordedAsAnnounced
  BY ContractTypeCorrect, RecordInit, RecordStep, PTL DEF ContractSpec

(* No step replaces the hash of a claim: the only one that writes hashes   *)
(* writes beyond the claims recorded so far.                               *)
THEOREM HashesAreFinal == ContractSpec => ClaimHashWrittenOnce
<1>1. ContractTypeOK /\ ClaimsRecordedAsAnnounced /\ [ContractNext]_contractVars
        => [\A i \in Uint32 : allClaimHashes[i] # NoHash
                => allClaimHashes'[i] = allClaimHashes[i]]_contractVars
  <2> SUFFICES ASSUME ContractTypeOK, ClaimsRecordedAsAnnounced, ContractNext,
                      NEW i \in Uint32, allClaimHashes[i] # NoHash
               PROVE  allClaimHashes'[i] = allClaimHashes[i]
    OBVIOUS
  <2>1. i # latestClaimNum
    BY DEF ClaimsRecordedAsAnnounced, Uint32
  <2>2. QED
    BY <2>1 DEF ContractNext, CreateNewClaim, Initialize, ApproveClaimSpending,
                RespondToClaim, MineBlock, claimVars, ContractTypeOK
<1>2. QED
  BY <1>1, ContractTypeCorrect, ClaimsAreRecorded, PTL DEF ContractSpec, ClaimHashWrittenOnce

----------------------------------------------------------------------------
(* The answers: AnswersAgreeWithPools is inductive together with the types. *)
LEMMA AgreeInit == ContractInit => AnswersAgreeWithPools
  BY DEF ContractInit, AnswersAgreeWithPools, AnswersOf

(* What appending a call or an event does to the histories.                *)
LEMMA Appended ==
    ASSUME NEW S, NEW seq \in Seq(S), NEW e \in S
    PROVE  /\ Len(seq) \in Nat
           /\ Len(Append(seq, e)) = Len(seq) + 1
           /\ Append(seq, e)[Len(seq) + 1] = e
           /\ \A k \in 1 .. Len(seq) : Append(seq, e)[k] = seq[k]
  BY AppendProperties, LenProperties

LEMMA AgreeApprove ==
    ASSUME ContractTypeOK, AnswersAgreeWithPools,
           NEW sender \in Operators, NEW claim \in Claim, NEW ref \in Uint32,
           NEW accepted \in BOOLEAN, CallSucceeds(claim, accepted),
           ApproveClaimSpending(sender, claim, ref, accepted)
    PROVE  AnswersAgreeWithPools'
<1> DEFINE call == [fn |-> "approveClaimSpending", pool |-> claim.pool,
                    claim |-> SubmittedClaim(claim), sender |-> sender, claimIndex |-> ref]
<1>1. poolCalls \in Seq(PoolCallRecord) /\ call \in PoolCallRecord
  BY DEF ContractTypeOK, PoolCallRecord, SubmittedClaim, Claim, CallSucceeds
<1>2. /\ poolCalls' = Append(poolCalls, call)
      /\ respondedEvents' = respondedEvents
      /\ allClaimResponses' = allClaimResponses
      /\ call.fn # "respondToClaim"
  BY DEF ApproveClaimSpending, PoolCall
<1> HIDE DEF call
<1>3. /\ Len(poolCalls) \in Nat
      /\ Len(poolCalls') = Len(poolCalls) + 1
      /\ poolCalls'[Len(poolCalls) + 1] = call
      /\ \A k \in 1 .. Len(poolCalls) : poolCalls'[k] = poolCalls[k]
  BY <1>1, <1>2, Appended
<1>4. QED
  BY <1>2, <1>3 DEF AnswersAgreeWithPools, AnswersOf, SubmittedClaim

LEMMA AgreeRespond ==
    ASSUME ContractTypeOK, AnswersAgreeWithPools,
           NEW sender \in Operators, NEW claim \in Claim, NEW ref \in Uint32,
           NEW signature \in Signatures, NEW accepted \in BOOLEAN,
           CallSucceeds(claim, accepted),
           RespondToClaim(sender, claim, ref, signature, accepted)
    PROVE  AnswersAgreeWithPools'
<1> DEFINE call == [fn |-> "respondToClaim", pool |-> claim.pool,
                    claim |-> SubmittedClaim(claim), sender |-> sender, claimIndex |-> ref]
           event == [claimIndex |-> ref, claim |-> claim, operator |-> sender,
                     call |-> Len(poolCalls) + 1, signature |-> signature]
<1>1. poolCalls \in Seq(PoolCallRecord) /\ call \in PoolCallRecord
  BY DEF ContractTypeOK, PoolCallRecord, SubmittedClaim, Claim, CallSucceeds
<1>2. respondedEvents \in Seq(RespondedEvent) /\ event \in RespondedEvent
  BY LenProperties DEF ContractTypeOK, RespondedEvent
<1>3. /\ poolCalls' = Append(poolCalls, call)
      /\ respondedEvents' = Append(respondedEvents, event)
      /\ allClaimResponses' = [allClaimResponses EXCEPT ![sender][ref] = signature]
  BY DEF RespondToClaim, PoolCall
<1>4. /\ call = [fn |-> "respondToClaim", pool |-> event.claim.pool,
                 claim |-> SubmittedClaim(event.claim),
                 sender |-> event.operator, claimIndex |-> event.claimIndex]
      /\ call.fn = "respondToClaim"
      /\ event.call = Len(poolCalls) + 1
      /\ event.operator = sender /\ event.claimIndex = ref
      /\ event.signature = signature
  OBVIOUS
<1> HIDE DEF call, event
<1>5. /\ Len(poolCalls) \in Nat
      /\ Len(poolCalls') = Len(poolCalls) + 1
      /\ poolCalls'[Len(poolCalls) + 1] = call
      /\ \A k \in 1 .. Len(poolCalls) : poolCalls'[k] = poolCalls[k]
  BY <1>1, <1>3, Appended
<1>6. /\ Len(respondedEvents) \in Nat
      /\ Len(respondedEvents') = Len(respondedEvents) + 1
      /\ respondedEvents'[Len(respondedEvents) + 1] = event
      /\ \A k \in 1 .. Len(respondedEvents) : respondedEvents'[k] = respondedEvents[k]
  BY <1>2, <1>3, Appended
<1>7. ASSUME NEW k \in 1 .. Len(respondedEvents')
      PROVE  /\ respondedEvents'[k].call \in 1 .. Len(poolCalls')
             /\ poolCalls'[respondedEvents'[k].call] =
                    [fn |-> "respondToClaim", pool |-> respondedEvents'[k].claim.pool,
                     claim |-> SubmittedClaim(respondedEvents'[k].claim),
                     sender |-> respondedEvents'[k].operator,
                     claimIndex |-> respondedEvents'[k].claimIndex]
  <2>1. CASE k = Len(respondedEvents) + 1
    BY <2>1, <1>4, <1>5, <1>6
  <2>2. CASE k \in 1 .. Len(respondedEvents)
    <3>1. /\ respondedEvents'[k] = respondedEvents[k]
          /\ respondedEvents[k].call \in 1 .. Len(poolCalls)
      BY <2>2, <1>6 DEF AnswersAgreeWithPools
    <3>2. QED
      BY <2>2, <3>1, <1>5 DEF AnswersAgreeWithPools
  <2>3. QED
    BY <2>1, <2>2, <1>6
<1>8. ASSUME NEW j \in 1 .. Len(respondedEvents'), NEW k \in 1 .. Len(respondedEvents'), j < k
      PROVE  respondedEvents'[j].call < respondedEvents'[k].call
  <2>1. j \in 1 .. Len(respondedEvents)
    BY <1>6, <1>8
  <2>2. respondedEvents'[j] = respondedEvents[j] /\ respondedEvents[j].call \in 1 .. Len(poolCalls)
    BY <2>1, <1>6 DEF AnswersAgreeWithPools
  <2>3. CASE k = Len(respondedEvents) + 1
    BY <2>2, <2>3, <1>4, <1>5, <1>6
  <2>4. CASE k \in 1 .. Len(respondedEvents)
    BY <2>1, <2>2, <2>4, <1>6, <1>8 DEF AnswersAgreeWithPools
  <2>5. QED
    BY <2>3, <2>4, <1>6
<1>9. ASSUME NEW j \in 1 .. Len(poolCalls'), poolCalls'[j].fn = "respondToClaim"
      PROVE  \E k \in 1 .. Len(respondedEvents') : respondedEvents'[k].call = j
  <2>1. CASE j = Len(poolCalls) + 1
    BY <2>1, <1>4, <1>6
  <2>2. CASE j \in 1 .. Len(poolCalls)
    <3>1. PICK k \in 1 .. Len(respondedEvents) : respondedEvents[k].call = j
      BY <2>2, <1>5, <1>9 DEF AnswersAgreeWithPools
    <3>2. QED
      BY <3>1, <1>6
  <2>3. QED
    BY <2>1, <2>2, <1>5
<1>10. ASSUME NEW o \in Operators, NEW i \in Uint32
       PROVE  \/ AnswersOf(o, i)' = {} /\ allClaimResponses'[o][i] = NoBytes
              \/ \E k \in AnswersOf(o, i)' :
                    /\ \A j \in AnswersOf(o, i)' : j <= k
                    /\ allClaimResponses'[o][i] = respondedEvents'[k].signature
  <2>1. allClaimResponses'[o][i] = IF o = sender /\ i = ref THEN signature
                                                           ELSE allClaimResponses[o][i]
    BY <1>3 DEF ContractTypeOK
  <2>2. AnswersOf(o, i)' = IF o = sender /\ i = ref
                           THEN AnswersOf(o, i) \cup {Len(respondedEvents) + 1}
                           ELSE AnswersOf(o, i)
    BY <1>4, <1>6 DEF AnswersOf
  <2>3. AnswersOf(o, i) \subseteq 1 .. Len(respondedEvents)
    BY DEF AnswersOf
  <2>4. CASE o = sender /\ i = ref
    <3>1. \A j \in AnswersOf(o, i)' : j <= Len(respondedEvents) + 1
      BY <2>2, <2>3, <1>6
    <3>2. QED
      BY <2>1, <2>2, <2>4, <3>1, <1>4, <1>6
  <2>5. CASE ~(o = sender /\ i = ref)
    <3>1. AnswersOf(o, i)' = AnswersOf(o, i)
      BY <2>2, <2>5
    <3>2. allClaimResponses'[o][i] = allClaimResponses[o][i]
      BY <2>1, <2>5
    <3>3. \A k \in AnswersOf(o, i) : respondedEvents'[k] = respondedEvents[k]
      BY <2>3, <1>6
    <3>4. QED
      BY <3>1, <3>2, <3>3 DEF AnswersAgreeWithPools
  <2>6. QED
    BY <2>4, <2>5
<1>11. QED
  BY <1>7, <1>8, <1>9, <1>10 DEF AnswersAgreeWithPools, SubmittedClaim

LEMMA AgreeStep ==
    ContractTypeOK /\ AnswersAgreeWithPools /\ [ContractNext]_contractVars
        => AnswersAgreeWithPools'
<1> SUFFICES ASSUME ContractTypeOK, AnswersAgreeWithPools, [ContractNext]_contractVars
             PROVE  AnswersAgreeWithPools'
  OBVIOUS
<1>1. CASE UNCHANGED answerVars
  BY <1>1 DEF answerVars, AnswersAgreeWithPools, AnswersOf, SubmittedClaim
<1>2. ASSUME NEW sender \in Operators, NEW claim \in Claim, NEW ref \in Uint32,
             NEW accepted \in BOOLEAN, ApproveClaimSpending(sender, claim, ref, accepted)
      PROVE  AnswersAgreeWithPools'
  BY <1>1, <1>2, AgreeApprove DEF ApproveClaimSpending, answerVars
<1>3. ASSUME NEW sender \in Operators, NEW claim \in Claim, NEW ref \in Uint32,
             NEW signature \in Signatures, NEW accepted \in BOOLEAN,
             RespondToClaim(sender, claim, ref, signature, accepted)
      PROVE  AnswersAgreeWithPools'
  BY <1>1, <1>3, AgreeRespond DEF RespondToClaim
<1>4. QED
  BY <1>1, <1>2, <1>3 DEF ContractNext, CreateNewClaim, Initialize, MineBlock, contractVars

(* Storage, events and pools never disagree on what was answered, whichever *)
(* bytes an answer carries and whichever calls the pools revert.            *)
THEOREM AnswersAgree == ContractSpec => []AnswersAgreeWithPools
  BY ContractTypeCorrect, AgreeInit, AgreeStep, PTL DEF ContractSpec
=============================================================================
