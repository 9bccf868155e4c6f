SPECIFICATION Spec
CONSTANTS
    Jobs = 2
    Invocation = {i1, i2}
    BatchSize = 2
    Token = {t1, t2, t3, t4, t5}
    NoToken = NoToken
    MaxAttempts = 1
    MaxRecoveries = 1
    MaxRetries = 0
    MaxRestarts = 1
    MaxCrashes = 0
INVARIANTS TypeOK RunningIsServed
PROPERTIES FollowsLifecycle
CHECK_DEADLOCK FALSE
