SPECIFICATION Spec
CONSTANTS
    CPUs = {0}
    Modes = {"idle", "guest"}
    VMs = {}
    MaxSnaps = 2
    MaxEvents = 2
INVARIANT PctsAreShares
CHECK_DEADLOCK FALSE
