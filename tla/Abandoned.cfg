SPECIFICATION FairSpec
CONSTANTS
    w1 = w1
    w2 = w2
    s1 = s1
    s2 = s2
    t1 = t1
    t2 = t2
    t3 = t3
    t4 = t4
    none = none
    NoToken = none
    Token <- ThreeTokens
    Workers <- OneWorker
    Sweepers <- OneSweeper
    MaxAttempts = 1
    MaxRecoveries = 0
    MaxRetries = 1
    Clocks = {"lease", "pulse", "beat"}
    FailureCauses = {"transient"}
    Daemons = {"idle", "orphan", "stale_running", "kill_switch"}
    Controls = {"user_cancelled"}
PROPERTIES AbandonedIsRescued
CHECK_DEADLOCK FALSE
