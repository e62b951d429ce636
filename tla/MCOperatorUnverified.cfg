\* Two operators and one claim at a time, whose proof may not verify.
CONSTANTS
    Pools = {p1}
    Others = {}
    Insureds = {alice, bob}
    Amounts = {a1}
    Indexes = {i1}
    Operators = {op1, op2}
    ProofUris <- MCProofUris
    NoUri = none
    Signatures = {sig1, noBytes}
    NoBytes = noBytes
    NoHash = noHash
    Factories = {zero}
    PublicKeys = {noKey}
    NoAddress = zero
    NoKey = noKey
    Uint32Size = 2
    MaxBlock = 0
    MaxCalls = 0
    Faults = {}
    ProofResults = {"missing", "invalid", "valid"}
    MaxCrashes = 0
SPECIFICATION FairSpec
PROPERTY EveryWatchedClaimAnswered
CHECK_DEADLOCK FALSE
