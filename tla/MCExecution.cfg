SPECIFICATION FairSpec
CONSTANTS
    k1 = k1
    k2 = k2
    a = a
    b = b
    Absent = Absent
    Run = {r1}
    Key = {k1, k2}
    Value = {a, b}
    NumOps = 3
    KeyOf <- ChainKeyOf
    Desired <- ChainDesired
    DependsOn <- ChainDepends
    MaxAttempts = 2
    ReplicationDelay = 2
    Durable = TRUE
INVARIANTS
    TypeOK
    DependenciesInPlace
    CompletedMeansInPlace
    RollbackRestores
    RerunWritesNothing
PROPERTIES
    AttemptKeepsCheckpoint
    EveryCallEnds
    ImplementsRollout
