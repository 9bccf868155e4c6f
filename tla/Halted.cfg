SPECIFICATION Spec
CONSTANTS
    w1 = w1
    w2 = w2
    s1 = s1
    s2 = s2
    t1 = t1
    t2 = t2
    t3 = t3
    t4 = t4
    none = none
    NoToken = none
    Token <- ThreeTokens
    Workers <- OneWorker
    Sweepers <- OneSweeper
    MaxAttempts = 1
    MaxRecoveries = 1
    MaxRetries = 1
    Clocks = {"lease", "pulse"}
    FailureCauses = {"transient"}
    Daemons = {"self_recovery"}
    Controls = {"owner_cancelled", "resume"}
PROPERTY HaltedUntilResumed
CHECK_DEADLOCK FALSE
