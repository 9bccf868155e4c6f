SPECIFICATION Spec
CONSTANTS
    w1 = w1
    w2 = w2
    s1 = s1
    s2 = s2
    t1 = t1
    t2 = t2
    t3 = t3
    t4 = t4
    none = none
    NoToken = none
    Token <- ThreeTokens
    Workers <- OneWorker
    Sweepers <- OneSweeper
    MaxAttempts = 1
    MaxRecoveries = 1
    MaxRetries = 0
    Clocks = {"lease", "pulse", "cap", "quiet"}
    FailureCauses = {"transient"}
    Daemons = {"orphan", "hard_stop", "kill_switch", "self_recovery",
               "kill_stale", "overage"}
    Controls = {"user_cancelled", "owner_cancelled", "transient", "resume",
                "admin_retry", "reject_ledger"}
SYMMETRY Symmetry
INVARIANTS CheckpointsInPlace FailedIsExplained PersistedIsComplete
PROPERTIES CapIsNeverExtended
CHECK_DEADLOCK FALSE
