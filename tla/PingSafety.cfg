\* Sweeps at least every Retention - Timeout (= 3): no probe is forgotten
\* while it is pending.
SPECIFICATION Spec
CONSTANTS
    SeqMod = 2
    Timeout = 1
    MinRetention = 3
    Copies = 2
    MaxClock = 5
    MaxAttempts = 3
    MaxReadErr = 0
    MaxForeign = 0
    MaxSweepGap = 3
    MaxLockWait = 1
INVARIANTS TypeOK LossAccounted LateCoveredByLost IntervalMeanWithinMinMax
PROPERTIES OwnReplyNeverStray LateOnlyAfterTimeout
