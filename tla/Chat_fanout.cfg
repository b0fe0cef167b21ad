SPECIFICATION FairSpec
CONSTANTS
    s1 = s1
    u1 = u1
    u2 = u2
    Sweeps = {s1}
    Events <- Realtime
    MaxFaults = 1
    Ops = {"crash"}
    Users = {u1}
    Jobs = {1, 2}
    MaxRetries = 1
    Grouped = FALSE
PROPERTIES FanoutExecuted
