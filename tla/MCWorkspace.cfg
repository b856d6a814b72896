SPECIFICATION Spec
CONSTANTS
    v = v
    w = w
    None = None
    Client = {c1, c2}
    Version = {v, w}
    Discovered = {v, w}
    Profile <- MCProfile
    Reference = TRUE
    Durable = TRUE
    MaxSessions = 2
    MaxCalls = 6
INVARIANTS
    TypeOK
    DownstreamIsFresh
    CacheIsCurrent
CHECK_DEADLOCK FALSE
