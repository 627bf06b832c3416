\* A run is killed while it writes a record and another run appends.
SPECIFICATION Spec
CONSTANTS
    Key = {k1}
    NoKey = NoKey
    NotText = {}
    IdMod = 1
    MaxRuns = 2
    MaxSamples = 2
    MaxBuf = 1
INVARIANT ReadsAcrossRuns
