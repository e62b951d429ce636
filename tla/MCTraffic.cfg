\* Two ticks of the generator and four transactions accepted.
CONSTANTS
    Contracts = {"binding", "repository"}
    Faults = {"rpc"}
    Names = {"QuickFox", "LazyDog"}
    MaxTicks = 2
    MaxSends = 4
    Payloads <- MCPayloads
SPECIFICATION MCSpec
INVARIANTS
    TypeOK
    TasksGoRoundUnchanged
    AtMostOneStuck
    MessagesArriveAsSent
PROPERTIES
    SendersComeBack
CHECK_DEADLOCK FALSE
