CONSTANTS
    r = r
    a = a
    b = b
    d = d
    Scopes <- MCScopes
    Root = r
    Parent <- MCParent
    Ancestors <- MCAncestors
    RequestedDeadline <- MCDeadlines
    Reported <- MCReported
    MaxDepth = 3
    MaxLive = 3
    MaxRetained = 0
    MaxTombstones = 1
    MaxTime = 1
SPECIFICATION Spec
INVARIANT
    ReportAgrees
