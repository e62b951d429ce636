CONSTANTS
    Programs = {"ts", "rust"}
    Faults = {"crash"}
    MaxStarts = 3
SPECIFICATION FairSpec
PROPERTY StartedOperatorMonitors
CHECK_DEADLOCK FALSE
