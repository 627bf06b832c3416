SPECIFICATION Spec
CONSTANTS
    Key = {k1, k2, k3}
    NoKey = NoKey
    NotText = {k3}
    IdMod = 3
    MaxRuns = 2
    MaxSamples = 2
    MaxBuf = 2
INVARIANTS TypeOK AckedSurvive FailsOnlyAtTear
PROPERTY ImplementsLog
