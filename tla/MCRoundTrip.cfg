SPECIFICATION Spec
CONSTANTS
    None = None
    s1 = s1
    s2 = s2
    n1 = n1
    n2 = n2
    n3 = n3
    u1 = u1
    u2 = u2
    l1 = l1
    l2 = l2
    x1 = x1
    w1 = w1
    w2 = w2
    c1 = c1
    IsE164 <- MCIsE164
    Probed <- MCProbed
    KeyFor <- NaturalKey
    Sources <- MCSources
    InitialTargets <- MCTargets
    EditedTo <- MCEditedTo
    MaxEdits = 1
    MaxRuns = 2
    MaxWaiting = 1
INVARIANTS
    TypeOK
    PassedMeansCarriedOver
    CompletedRunsPass
