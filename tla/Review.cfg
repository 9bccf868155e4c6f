SPECIFICATION Spec
CONSTANTS
    o1 = o1  o2 = o2
    e1 = e1  e2 = e2
    d1 = d1  d2 = d2  d3 = d3
    a1 = a1  a2 = a2
    p1 = p1  p2 = p2
    r1 = r1  r2 = r2
    NoId = NoId
    Unstated = Unstated
    NoText = NoText
    Rank <- Ranks
    TextIn <- OwnTexts
    TrustedPathId <- AutoIds
    Opportunities = {o1}
    LocalIds = {d1, a1}
    Editions = {e1, e2}
    ReadyIn <- AllReady
    Texts = {e1, e2}
    Choices = {"accepted", "kept"}
    Tabs = {"t1"}
    AutoRuns = {p1, p2}
    Clients = {"t1", p1, p2}
    Requests = {r1, r2}
    Users = {"author"}
    MaxClock = 2
    MaxVersions = 2
SYMMETRY Swaps
INVARIANTS
    AcceptedWasOffered
    LookupStaysTrue
    AnsweredAsReviewed
PROPERTIES
    SyncsAreAtomic
CHECK_DEADLOCK FALSE
