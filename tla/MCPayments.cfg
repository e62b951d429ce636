CONSTANTS
    Earners = {e1, e2}
    Claimable = {e1, e2}
    Amounts = {40, 100, 356}
    DefaultEarnings = 100
    Uint32 = 256
    Accounts = {deployer, other}
    Broadcaster = deployer
    MaxEarners = 3
    MaxRounds = 2
    LeafNames = {a, b}
    MaxLeaves = 9
SPECIFICATION MCSpec
INVARIANTS
    TypeOK
    OnlyTheFirstRoundIsClaimed
    ClaimedIsFunded
    EachFilePaidOnce
    ProofsVerify
    RootTellsHowManyLeaves
CHECK_DEADLOCK FALSE
