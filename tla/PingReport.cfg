SPECIFICATION Spec
CONSTANTS
    Interval = 5
    PingInterval = 2
    Durations = {9, 19}
    RTTs = {1, 2}
    OpenErrs = {"denied", "no route"}
    MaxRuns = 2
    MaxSamples = 3
INVARIANT TotalsAreTruth RTTsAreTruth EpisodesAreStretches PointsAreTruth DowntimeNotCharged StarvedIsLate
CHECK_DEADLOCK FALSE
