SPECIFICATION Spec
CONSTANTS
    k1 = k1
    k2 = k2
    a = a
    b = b
    Absent = Absent
    Run = {r1}
    Key = {k1, k2}
    Value = {a, b}
    NumOps = 3
    KeyOf <- SkipKeyOf
    Desired <- SkipDesired
    DependsOn <- SkipDepends
    MaxAttempts = 2
    ReplicationDelay = 2
    Durable = TRUE
INVARIANTS
    ResumeSkipsOnlyCompleted
