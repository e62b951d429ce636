CONSTANTS
    Tasks = {t1, t2}
    LastBlock = 4
    MaxSends = 3
SPECIFICATION FairSpec
INVARIANTS TypeOK OnlySkippedBlocksMissed HeardAnswersAreFinal
PROPERTY TasksAheadAreRead
CHECK_DEADLOCK FALSE
