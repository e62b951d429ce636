\* One operator and two claims, no external fault, every proof valid.
CONSTANTS
    Pools = {p1}
    Others = {}
    Insureds = {alice}
    Amounts = {a1}
    Indexes = {i1}
    Operators = {op1}
    ProofUris <- MCProofUris
    NoUri = none
    Signatures = {sig1, noBytes}
    NoBytes = noBytes
    NoHash = noHash
    Factories = {zero}
    PublicKeys = {noKey}
    NoAddress = zero
    NoKey = noKey
    Uint32Size = 3
    MaxBlock = 0
    MaxCalls = 0
    Faults = {}
    ProofResults = {"valid"}
    MaxCrashes = 0
SPECIFICATION FairSpec
PROPERTY EveryWatchedClaimAnswered
CHECK_DEADLOCK FALSE
