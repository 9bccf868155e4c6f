SPECIFICATION FairSpec
CONSTANTS
    o1 = o1  o2 = o2
    e1 = e1  e2 = e2
    d1 = d1  d2 = d2  d3 = d3
    a1 = a1  a2 = a2
    p1 = p1  p2 = p2
    r1 = r1  r2 = r2
    NoId = NoId
    Unstated = Unstated
    NoText = NoText
    Rank <- Ranks
    TextIn <- OwnTexts
    TrustedPathId <- AutoIds
    Opportunities = {o1, o2}
    LocalIds = {d1, d2, a1, a2}
    Editions = {e1}
    ReadyIn <- AllReady
    Texts = {e1}
    Choices = {"accepted"}
    Tabs = {"t1"}
    AutoRuns = {p1, p2}
    Clients = {"t1", p1, p2}
    Requests = {}
    Users = {"author"}
    MaxClock = 3
    MaxVersions = 0
INVARIANTS
    TypeOK
PROPERTIES
    DisplacesWhatItSaw
    EverySyncEnds
CHECK_DEADLOCK FALSE
