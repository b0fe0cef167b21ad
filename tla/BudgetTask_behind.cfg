SPECIFICATION ReviewSpec
CONSTANTS
    a = a
    b = b
    c = c
    admin = admin
    None = None
    Sessions = {s1, s2}
    Users = {a, b}
    Owner = a
    Assigned = a
    Admins = {}
    Chain <- TwoSteps
    Required = 2
    Budget = TRUE
    PoolAdmits = {TRUE}
    MaxRounds = 0
    MaxRecords = 4
    Ops <- ApprovalsOnly
    Named = {}
INVARIANT InSync
CHECK_DEADLOCK FALSE
