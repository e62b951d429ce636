\* Two claim numbers are usable before the counter (three values) is full.
CONSTANTS
    Pools = {p1}
    Others = {x1}
    Insureds = {alice}
    Amounts = {a1}
    Indexes = {i1}
    Operators = {op1, op2}
    ProofUris = {none, uri}
    NoUri = none
    Signatures = {sig1, noBytes}
    NoBytes = noBytes
    NoHash = noHash
    Factories = {zero, f1}
    PublicKeys = {noKey}
    NoAddress = zero
    NoKey = noKey
    Uint32Size = 3
    MaxBlock = 1
    MaxCalls = 2
SPECIFICATION ContractSpec
INVARIANTS ContractTypeOK ClaimsRecordedAsAnnounced AnswersAgreeWithPools
PROPERTY ClaimHashWrittenOnce
