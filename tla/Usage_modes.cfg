SPECIFICATION ModeSpec
CONSTANTS
    c1 = c1
    c2 = c2
    w1 = w1
    w2 = w2
    None = None
    Calls = {c1, c2}
    LastMonth = 2
    Plans <- AllPlans
    Estimates = {1, 2}
    Overshoot = 1
    MaxUsed = 4
    Ops = {"switch", "midnight", "log_failure", "crash", "batch", "final", "send_error"}
    Settlers = {w1}
    Unit = 2
SYMMETRY Symmetry
INVARIANTS TypeOK OverageWithin FreeReservedCovers FreeOverrunBounded
           NeverOvercharged MonthlyCreditIsCharged
CHECK_DEADLOCK FALSE
