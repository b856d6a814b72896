SPECIFICATION Spec
CONSTANTS
    u1 = u1
    u2 = u2
    n1 = n1
    n2 = n2
    o1 = o1
    Nobody = Nobody
    User = {u1, u2}
    FirstPage = {u1}
    Number = {n1}
    Plan <- MCPlan
    MaxAttempts = 2
    MaxPending = 1
    MaxRuns = 2
    PortOrder = {o1}
    CarrierNumber = {n1, n2}
    NumbersOf <- MCNumbersOf
    NumberRefsOf <- MCNumberRefsOf
    MaxAmendments = 1
INVARIANT
    RollbackReleases
CHECK_DEADLOCK FALSE
