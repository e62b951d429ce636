\* One operator, two claims, every fault and one crash, under fairness.
CONSTANTS
    Pools = {p1}
    Others = {x1}
    Insureds = {alice, bob}
    Amounts = {a1}
    Indexes = {i1}
    Operators = {op1}
    ProofUris <- MCProofUris
    NoUri = none
    Signatures = {sig1, noBytes}
    NoBytes = noBytes
    NoHash = noHash
    Factories = {zero}
    PublicKeys = {noKey}
    NoAddress = zero
    NoKey = noKey
    Uint32Size = 3
    MaxBlock = 0
    MaxCalls = 0
    Faults = {"inputs", "proof", "revert", "rpc", "crash"}
    ProofResults = {"missing", "invalid", "valid"}
    MaxCrashes = 1
SPECIFICATION FairSpec
INVARIANTS TypeOK CallsCarryTheCreatedClaim SpendingRestsOnEvidence AnswersFollowSpending NothingSaidTwice
PROPERTIES ImplementsLifecycle HandlersSettleUnlessReplaced
CHECK_DEADLOCK FALSE
