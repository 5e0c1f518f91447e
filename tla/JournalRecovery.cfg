SPECIFICATION Spec
CONSTANTS
    Openers = {p, q}
    MaxEvents = 5
    MaxFaults = 2
SYMMETRY OpenerSymmetry
INVARIANTS MonotonicSeq AppendedOnce
PROPERTIES RecoverHeals
CHECK_DEADLOCK FALSE
