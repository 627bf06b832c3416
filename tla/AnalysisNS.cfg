\* One namespace besides the root.
SPECIFICATION Spec
CONSTANTS
    Namespaces = {"ns1"}
    Ifaces = {"eth0"}
    MaxSeq = 4
    MaxRuns = 1
    MaxEvents = 1
INVARIANT TrafficCharted
CHECK_DEADLOCK FALSE
