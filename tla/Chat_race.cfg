SPECIFICATION Spec
CONSTANTS
    s1 = s1
    u1 = u1
    u2 = u2
    Sweeps = {s1}
    Events <- Realtime
    MaxFaults = 1
    Ops = {"publish", "sweep_crash", "crash", "error", "lost"}
    Users = {u1, u2}
    Jobs = {1, 2}
    MaxRetries = 1
    Grouped = FALSE
SYMMETRY Symmetry
INVARIANTS TypeOK PublishedOnce
PROPERTIES ReadIsFinal
