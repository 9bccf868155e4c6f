SPECIFICATION FairSpec
CONSTANTS
    Jobs = 2
    Invocation = {i1}
    BatchSize = 1
    Token = {t1, t2, t3, t4, t5}
    NoToken = NoToken
    MaxAttempts = 1
    MaxRecoveries = 1
    MaxRetries = 0
    MaxRestarts = 1
    MaxCrashes = 1
PROPERTIES LostIsFound QueueMoves
CHECK_DEADLOCK FALSE
