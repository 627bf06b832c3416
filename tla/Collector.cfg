\* Flush every second interval.
SPECIFICATION FairSpec
CONSTANTS
    FlushEveryN = 2
    Pings = {p1, p2}
    VMs = {v1}
    Cgroups = {c1}
    Ifaces = {e1}
    MaxChanges = 2
    MaxSeq = 4
INVARIANTS TypeOK NoGap CrashLosesAtMostN CleanStopKeepsAll MonitorsStopped ListsAreFresh
PROPERTY StopTerminates
