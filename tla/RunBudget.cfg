SPECIFICATION Spec
CONSTANTS
    r1 = r1
    c1 = c1
    p = p
    q = q
    Run = {r1}
    Child = {c1}
    Caller = {p, q}
    SpecHour = 1
    SpecDay = 2
    OverrideHour <- Absent
    OverrideDay <- Absent
    Hour = 2
    Day = 4
    MaxWait = 1
    MaxTime = 4
    MaxCrashes = 1
    MaxLost = 1
SYMMETRY CallerSymmetry
INVARIANTS RollingBudget ChargedOnce
CHECK_DEADLOCK FALSE
