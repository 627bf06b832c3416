\* Sparse sweeps: the collector's interval and the ping interval are both
\* longer than Retention - Timeout.
SPECIFICATION Spec
CONSTANTS
    SeqMod = 2
    Timeout = 1
    MinRetention = 3
    Copies = 1
    MaxClock = 6
    MaxAttempts = 2
    MaxReadErr = 0
    MaxForeign = 0
    MaxSweepGap = 6
    MaxLockWait = 1
INVARIANT LossAccounted
