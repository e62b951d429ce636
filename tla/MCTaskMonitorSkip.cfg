CONSTANTS
    Tasks = {t1, t2}
    LastBlock = 4
    MaxSends = 3
SPECIFICATION Spec
INVARIANT NoTaskPassedOver
CHECK_DEADLOCK FALSE
