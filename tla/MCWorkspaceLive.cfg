SPECIFICATION FairSpec
CONSTANTS
    v = v
    w = w
    None = None
    Client = {c1, c2}
    Version = {v, w}
    Discovered = {v}
    Profile <- MCProfile
    Reference = TRUE
    Durable = TRUE
    MaxSessions = 1
    MaxCalls = 5
PROPERTIES
    EveryRequestAnswered
CHECK_DEADLOCK FALSE
