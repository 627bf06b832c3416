SPECIFICATION Spec
CONSTANTS
    Namespaces = {}
    Ifaces = {"eth0"}
    MaxSeq = 4
    MaxRuns = 2
    MaxEvents = 2
INVARIANT SameFollowed SameSections SameChanging ListedTimes SameSnapshots RatesAreReal TrafficCharted
CHECK_DEADLOCK FALSE
