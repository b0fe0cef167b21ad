SPECIFICATION ModeSpec
CONSTANTS
    c1 = c1
    c2 = c2
    w1 = w1
    w2 = w2
    None = None
    Calls = {c1}
    LastMonth = 1
    Plans <- SmallOnly
    Estimates = {1}
    Overshoot = 4
    MaxUsed = 9
    Ops = {"final"}
    Settlers = {w1, w2}
    Unit = 2
INVARIANTS NeverOvercharged
CHECK_DEADLOCK FALSE
