\* More sources than IDs in one run.
SPECIFICATION Spec
CONSTANTS
    Key = {k1, k2}
    NoKey = NoKey
    NotText = {}
    IdMod = 1
    MaxRuns = 1
    MaxSamples = 3
    MaxBuf = 2
INVARIANT RightSource
