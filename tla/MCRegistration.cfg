CONSTANTS
    Programs = {"ts", "rust"}
    Faults = {"rpc", "crash", "expiry", "deregister"}
    MaxStarts = 4
SPECIFICATION FairSpec
INVARIANTS TypeOK MonitorsOnlyWhenRegistered NothingLeftPending
PROPERTIES FreshRegistrationMonitors PartialRegistrationHeals ImplementsPresence
CHECK_DEADLOCK FALSE
