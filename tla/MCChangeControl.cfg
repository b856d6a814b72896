SPECIFICATION Spec
CONSTANTS
    None = None
    c1 = c1
    c2 = c2
    p1 = p1
    p2 = p2
    west = west
    east = east
    munich = munich
    number = number
    address = address
    ecbn = ecbn
    bad = bad
    contoso = contoso
    fabrikam = fabrikam
    Client = {c1, c2}
    Estate = {west, east}
    RolesOf <- MCRolesOf
    Principal = {p1, p2}
    Op = {number, address, ecbn, bad}
    Desc <- MCDesc
    PlanChoice <- MCPlans
    Site = {munich}
    Window <- MCWindow
    Target <- MCTarget
    Targets <- MCTargets
    Profiles <- MCProfiles
    Processes <- MCProcesses
    Env <- MCEnv
    MaxTime = 1
    MaxCalls = 6
    MaxRuns = 2
INVARIANTS
    TypeOK
    WrittenAsPreviewed
    EmergencySitesConfirmed
    ChangesRestOnEvidence
    OpenedAsOffered
CHECK_DEADLOCK FALSE
