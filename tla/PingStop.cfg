\* Read errors and foreign replies included, and sweeps so far apart that they
\* drop pending probes; the number wraps with every probe.  Small otherwise,
\* because liveness checking is done over the whole behaviour graph.
SPECIFICATION FairSpec
CONSTANTS
    SeqMod = 1
    Timeout = 1
    MinRetention = 3
    Copies = 1
    MaxClock = 5
    MaxAttempts = 2
    MaxReadErr = 1
    MaxForeign = 1
    MaxSweepGap = 5
    MaxLockWait = 0
INVARIANTS NeverOvercounted QuietAfterStop
PROPERTIES ErrorsReported StopTerminates
