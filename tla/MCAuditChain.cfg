SPECIFICATION Spec
CONSTANTS
    Body = {a, b}
    Genesis = Genesis
    Torn = Torn
    MaxRecords = 4
    MaxDamages = 2
INVARIANTS
    UndamagedLogVerifies
    VerifiedLogIsGenuine
CHECK_DEADLOCK FALSE
