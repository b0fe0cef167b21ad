SPECIFICATION FairSpec
CONSTANTS
    s1 = s1
    u1 = u1
    u2 = u2
    Sweeps = {s1}
    Events <- Both
    MaxFaults = 2
    Ops = {"broker", "publish", "sweep_crash"}
    Users = {u1}
    Jobs = {1, 2}
    MaxRetries = 2
    Grouped = TRUE
INVARIANTS NeverStranded
PROPERTIES HandedOver Received
