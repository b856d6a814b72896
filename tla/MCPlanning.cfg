SPECIFICATION Spec
CONSTANTS
    None = None
    IsE164 <- MCIsE164
    Probed <- MCProbed
    KeyFor <- MCKeyFor
    Snapshots <- MCSnapshots
    Scenarios <- MCScenarios
    Keys = {1, 2, 3, 4, 5}
    WaveIds <- MCWaveIds
    MaxMoves = 3
INVARIANTS
    TypeOK
    WavesKeepGroupsTogether
    NumbersRestOnOneRule
    SharedNumbersAreReported
    NoDanglingWrites
    OperationsFollowDependencies
