SPECIFICATION ModeSpec
CONSTANTS
    a = a
    b = b
    c = c
    admin = admin
    None = None
    Sessions = {s1, s2, s3}
    Users = {a, b, c, admin}
    Owner = a
    Assigned = a
    Admins = {admin}
    Chain <- ThreeSteps
    Required = 3
    Budget = TRUE
    PoolAdmits = {TRUE, FALSE}
    MaxRounds = 2
    MaxRecords = 4
    Ops <- Restricted
    Named = {a, b}
INVARIANTS TypeOK RaceRequestNotAhead RaceStepRecordable
           SerialInSync SerialByDesignated RoundsLockedHadEveryStep
           OverridePointersTogether
PROPERTIES RacePositionKept AloneFollowsChain RequestLifecycle
SYMMETRY Symmetry
CHECK_DEADLOCK FALSE
