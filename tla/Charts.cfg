SPECIFICATION Spec
CONSTANTS
    CPUs = {0, 1}
    Modes = {"user", "idle", "softirq"}
    VMs = {101}
    MaxSnaps = 3
    MaxEvents = 3
INVARIANT TypeOK PctsAreShares RatesAreOwn QemuTimeIsReal DropsAreReal StepAveragesAreMeans
CHECK_DEADLOCK FALSE
