---------------------- MODULE InsuranceServiceManager ----------------------
(***************************************************************************)
(* The contract contracts/src/InsuranceServiceManager.sol.  A transaction  *)
(* is atomic, so every external function is one action.  A call into an    *)
(* insurance pool either returns or reverts: `accepted' is that outcome,   *)
(* and a revert rolls the whole transaction back.  The pools themselves    *)
(* are not in the repository (only IInsurancePool.sol is); they are        *)
(* represented by the calls they accepted.                                 *)
(***************************************************************************)
EXTENDS Integers, Sequences

CONSTANTS
    Pools,          \* addresses with the code of an insurance pool
    Others,         \* addresses without code (a claim may name one as its pool)
    Insureds,       \* insured parties
    Amounts,        \* claimed amounts
    Indexes,        \* indices of a claim inside its pool
    Operators,      \* accounts that answer claims
    ProofUris,      \* values of Claim.proofUri, the empty one included
    NoUri,          \* the empty proofUri
    Signatures,     \* the bytes an answer may carry, the empty ones included
    NoBytes,        \* an empty `bytes' value
    NoHash,         \* the zero bytes32
    Factories,      \* values of `factory', the zero address included
    PublicKeys,     \* values of `operatorPublicKey', the empty string included
    NoAddress,      \* the zero address
    NoKey,          \* the empty string
    Uint32Size,     \* the number of values of a uint32 (2^32 in the code)
    MaxBlock,       \* bound on block.number
    MaxCalls        \* bound on the calls the pools accept

ASSUME ConstantsAssumption ==
    /\ Uint32Size \in Nat \ {0}
    /\ MaxBlock \in Nat
    /\ MaxCalls \in Nat
    /\ Pools \cap Others = {}
    /\ NoUri \in ProofUris
    /\ NoBytes \in Signatures
    /\ NoAddress \in Factories
    /\ NoKey \in PublicKeys

ASSUME NoHashAssumption == NoHash \notin (Pools \cup Others) \X Insureds

VARIABLES
    latestClaimNum,     \* number of the next claim
    allClaimHashes,     \* claim number -> hash of the claim
    allClaimResponses,  \* operator -> claim number -> bytes answered
    factory,
    operatorPublicKey,
    blockNumber,        \* block.number
    newClaimEvents,     \* history: the NewClaimCreated events, in order
    respondedEvents,    \* history: the ClaimResponded events, in order, each with
                        \* the number of the pool call before it and the bytes
                        \* of the call that emitted it
    poolCalls           \* history: the calls the pools accepted, in order

claimVars == <<latestClaimNum, allClaimHashes, newClaimEvents>>
answerVars == <<allClaimResponses, respondedEvents, poolCalls>>
configVars == <<factory, operatorPublicKey>>
contractVars == <<claimVars, answerVars, configVars, blockNumber>>

Uint32 == 0 .. Uint32Size - 1
Addresses == Pools \cup Others

Claim == [pool: Addresses, insured: Insureds, amount: Amounts, index: Indexes,
          proofUri: ProofUris, claimCreatedBlock: Uint32, isApproved: BOOLEAN]

(* keccak256(abi.encode(pool, insured)), taken to be injective. *)
Hash(claim) == <<claim.pool, claim.insured>>

(* IInsurancePool.Claim: what of a claim is handed to its pool. *)
SubmittedClaim(claim) ==
    [insured |-> claim.insured, amount |-> claim.amount, index |-> claim.index,
     proofUri |-> claim.proofUri, isApproved |-> claim.isApproved]

NewClaim(pool, insured, amount, index) ==
    [pool |-> pool, insured |-> insured, amount |-> amount, index |-> index,
     proofUri |-> NoUri, claimCreatedBlock |-> blockNumber % Uint32Size,
     isApproved |-> FALSE]

----------------------------------------------------------------------------
ContractInit ==
    /\ latestClaimNum = 0
    /\ allClaimHashes = [i \in Uint32 |-> NoHash]
    /\ allClaimResponses = [o \in Operators |-> [i \in Uint32 |-> NoBytes]]
    /\ factory = NoAddress
    /\ operatorPublicKey = NoKey
    /\ blockNumber = 0
    /\ newClaimEvents = <<>>
    /\ respondedEvents = <<>>
    /\ poolCalls = <<>>

(* Mutants of createNewClaim: the unchecked additions of older compilers   *)
(* (the counter leaves its type, or wraps around), and counting first.     *)
CreateNewClaimUnchecked(pool, insured, amount, index) ==
    LET claim == NewClaim(pool, insured, amount, index)
    IN  /\ latestClaimNum \in Uint32
        /\ allClaimHashes' = [allClaimHashes EXCEPT ![latestClaimNum] = Hash(claim)]
        /\ newClaimEvents' = Append(newClaimEvents,
                               [claimIndex |-> latestClaimNum, claim |-> claim])
        /\ latestClaimNum' = latestClaimNum + 1
        /\ UNCHANGED <<answerVars, configVars, blockNumber>>

CreateNewClaimWrapping(pool, insured, amount, index) ==
    LET claim == NewClaim(pool, insured, amount, index)
    IN  /\ Len(newClaimEvents) <= Uint32Size
        /\ allClaimHashes' = [allClaimHashes EXCEPT ![latestClaimNum] = Hash(claim)]
        /\ newClaimEvents' = Append(newClaimEvents,
                               [claimIndex |-> latestClaimNum, claim |-> claim])
        /\ latestClaimNum' = (latestClaimNum + 1) % Uint32Size
        /\ UNCHANGED <<answerVars, configVars, blockNumber>>

CreateNewClaimCountedFirst(pool, insured, amount, index) ==
    LET claim == NewClaim(pool, insured, amount, index)
    IN  /\ latestClaimNum + 1 \in Uint32
        /\ latestClaimNum' = latestClaimNum + 1
        /\ allClaimHashes' = [allClaimHashes EXCEPT ![latestClaimNum'] = Hash(claim)]
        /\ newClaimEvents' = Append(newClaimEvents,
                               [claimIndex |-> latestClaimNum, claim |-> claim])
        /\ UNCHANGED <<answerVars, configVars, blockNumber>>

(* The checked addition of 0.8.9 reverts a claim that would overflow the   *)
(* counter, whose store and event are then undone.                         *)
CreateNewClaim(pool, insured, amount, index) ==
    LET claim == NewClaim(pool, insured, amount, index)
    IN  /\ latestClaimNum + 1 \in Uint32
        /\ allClaimHashes' = [allClaimHashes EXCEPT ![latestClaimNum] = Hash(claim)]
        /\ newClaimEvents' = Append(newClaimEvents,
                               [claimIndex |-> latestClaimNum, claim |-> claim])
        /\ latestClaimNum' = latestClaimNum + 1
        /\ UNCHANGED <<answerVars, configVars, blockNumber>>

Initialize(newFactory, newKey) ==
    /\ factory' = newFactory
    /\ operatorPublicKey' = newKey
    /\ UNCHANGED <<claimVars, answerVars, blockNumber>>

(* A call to an address without code reverts whatever it is asked. *)
CallSucceeds(claim, accepted) == accepted /\ claim.pool \in Pools

PoolCall(fn, sender, claim, ref) ==
    poolCalls' = Append(poolCalls,
                    [fn |-> fn, pool |-> claim.pool, claim |-> SubmittedClaim(claim),
                     sender |-> sender, claimIndex |-> ref])

ApproveClaimSpending(sender, claim, ref, accepted) ==
    /\ IF CallSucceeds(claim, accepted)
       THEN PoolCall("approveClaimSpending", sender, claim, ref)
       ELSE UNCHANGED poolCalls
    /\ UNCHANGED <<claimVars, allClaimResponses, respondedEvents, configVars, blockNumber>>

(* Mutant: the reverting pool is caught, after the answer was stored.      *)
RespondToClaimCatching(sender, claim, ref, signature, accepted) ==
    /\ allClaimResponses' = [allClaimResponses EXCEPT ![sender][ref] = signature]
    /\ IF CallSucceeds(claim, accepted)
       THEN /\ PoolCall("respondToClaim", sender, claim, ref)
            /\ respondedEvents' = Append(respondedEvents,
                    [claimIndex |-> ref, claim |-> claim, operator |-> sender,
                     call |-> Len(poolCalls) + 1, signature |-> signature])
       ELSE UNCHANGED <<poolCalls, respondedEvents>>
    /\ UNCHANGED <<claimVars, configVars, blockNumber>>

RespondToClaim(sender, claim, ref, signature, accepted) ==
    /\ IF CallSucceeds(claim, accepted)
       THEN /\ allClaimResponses' = [allClaimResponses EXCEPT ![sender][ref] = signature]
            /\ PoolCall("respondToClaim", sender, claim, ref)
            /\ respondedEvents' = Append(respondedEvents,
                    [claimIndex |-> ref, claim |-> claim, operator |-> sender,
                     call |-> Len(poolCalls) + 1, signature |-> signature])
       ELSE UNCHANGED answerVars
    /\ UNCHANGED <<claimVars, configVars, blockNumber>>

MineBlock ==
    /\ blockNumber < MaxBlock
    /\ blockNumber' = blockNumber + 1
    /\ UNCHANGED <<claimVars, answerVars, configVars>>

----------------------------------------------------------------------------
ContractNext ==
    \/ \E pool \in Addresses, insured \in Insureds, amount \in Amounts, index \in Indexes :
          CreateNewClaim(pool, insured, amount, index)
    \/ \E newFactory \in Factories, newKey \in PublicKeys : Initialize(newFactory, newKey)
    \/ /\ Len(poolCalls) < MaxCalls
       /\ \E sender \in Operators, claim \in Claim, ref \in Uint32, accepted \in BOOLEAN :
             ApproveClaimSpending(sender, claim, ref, accepted)
    \/ /\ Len(poolCalls) < MaxCalls
       /\ \E sender \in Operators, claim \in Claim, ref \in Uint32,
             signature \in Signatures, accepted \in BOOLEAN :
             RespondToClaim(sender, claim, ref, signature, accepted)
    \/ MineBlock

ContractSpec == ContractInit /\ [][ContractNext]_contractVars

----------------------------------------------------------------------------
NewClaimEvent == [claimIndex: Uint32, claim: Claim]
RespondedEvent == [claimIndex: Uint32, claim: Claim, operator: Operators, call: Nat,
                   signature: Signatures]
PoolCallRecord ==
    [fn: {"approveClaimSpending", "respondToClaim"}, pool: Pools,
     claim: [insured: Insureds, amount: Amounts, index: Indexes,
             proofUri: ProofUris, isApproved: BOOLEAN],
     sender: Operators, claimIndex: Uint32]

(* The storage and the histories hold values of their types. *)
ContractTypeOK ==
    /\ latestClaimNum \in Uint32
    /\ allClaimHashes \in [Uint32 -> (Addresses \X Insureds) \cup {NoHash}]
    /\ allClaimResponses \in [Operators -> [Uint32 -> Signatures]]
    /\ factory \in Factories
    /\ operatorPublicKey \in PublicKeys
    /\ blockNumber \in 0 .. MaxBlock
    /\ newClaimEvents \in Seq(NewClaimEvent)
    /\ respondedEvents \in Seq(RespondedEvent)
    /\ poolCalls \in Seq(PoolCallRecord)

(* createNewClaim numbers the claims 0, 1, 2, ... without a gap or a       *)
(* repetition, the hash stored under a number is the hash of the claim the *)
(* event with this number announced, and nothing is stored beyond them.    *)
ClaimsRecordedAsAnnounced ==
    /\ latestClaimNum = Len(newClaimEvents)
    /\ \A k \in 1 .. Len(newClaimEvents) :
          /\ newClaimEvents[k].claimIndex = k - 1
          /\ allClaimHashes[k - 1] = Hash(newClaimEvents[k].claim)
    /\ \A i \in Uint32 : i >= latestClaimNum => allClaimHashes[i] = NoHash

(* No call ever replaces the hash of a claim: the counter of claims does   *)
(* not wrap around at the end of its type (createNewClaim, line 88).       *)
ClaimHashWrittenOnce ==
    [][\A i \in Uint32 :
          allClaimHashes[i] # NoHash => allClaimHashes'[i] = allClaimHashes[i]]_contractVars

(* The events that report an answer of `o' to the claim number `i'. *)
AnswersOf(o, i) ==
    {k \in 1 .. Len(respondedEvents) :
        respondedEvents[k].operator = o /\ respondedEvents[k].claimIndex = i}

(* respondToClaim is all or nothing: the ClaimResponded events are, one by *)
(* one and in order, the answers the pools accepted, for the same claim;   *)
(* and the storage holds the bytes of the last answer of every operator to *)
(* every claim number that has such an event and nothing for the others,   *)
(* also when a pool reverts a call and when an answer, empty or not, is    *)
(* given again over an earlier one.                                        *)
AnswersAgreeWithPools ==
    /\ \A k \in 1 .. Len(respondedEvents) :
          LET event == respondedEvents[k]
          IN  /\ event.call \in 1 .. Len(poolCalls)
              /\ poolCalls[event.call] =
                    [fn |-> "respondToClaim", pool |-> event.claim.pool,
                     claim |-> SubmittedClaim(event.claim),
                     sender |-> event.operator, claimIndex |-> event.claimIndex]
    /\ \A j, k \in 1 .. Len(respondedEvents) :
          j < k => respondedEvents[j].call < respondedEvents[k].call
    /\ \A j \in 1 .. Len(poolCalls) :
          poolCalls[j].fn = "respondToClaim"
             => \E k \in 1 .. Len(respondedEvents) : respondedEvents[k].call = j
    /\ \A o \in Operators, i \in Uint32 :
          \/ AnswersOf(o, i) = {} /\ allClaimResponses[o][i] = NoBytes
          \/ \E k \in AnswersOf(o, i) :
                /\ \A j \in AnswersOf(o, i) : j <= k
                /\ allClaimResponses[o][i] = respondedEvents[k].signature

----------------------------------------------------------------------------
(* What the comment at InsuranceServiceManager.sol:34-37 promises: the     *)
(* claim passed with a response is the one hashed when it was created.     *)
ResponsesPassTheActualClaim ==
    \A k \in 1 .. Len(respondedEvents) :
        allClaimHashes[respondedEvents[k].claimIndex] = Hash(respondedEvents[k].claim)
=============================================================================
