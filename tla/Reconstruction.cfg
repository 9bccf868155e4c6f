SPECIFICATION FairSpec
CONSTANTS
    h1 = h1
    a1 = a1
    a2 = a2
    w1 = w1
    w2 = w2
    Attempts = {a1, a2}
    HeldItems = {h1}
    HeldItemOf <- TwoVersions
    ExecutorResult <- PermittedResult
    MaxClaims = 2
    Workers = {w1, w2}
    MaxAdrift = 1
INVARIANTS TypeOK ReportIsTrue CompletedOnce
PROPERTIES EndedByItsHolder NewestCompletesLast EveryItemEnds CompletionIsTakenUp IsAWorkQueue
CHECK_DEADLOCK FALSE
