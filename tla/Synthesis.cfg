SPECIFICATION FairSpec
CONSTANTS
    Jobs = 2
    Tick = {d1, d2}
    MaxRequests = 1
INVARIANTS TypeOK ReadyIsAudited
PROPERTIES DocumentIsKept SpendEnds OldestIsDecided
CHECK_DEADLOCK FALSE
