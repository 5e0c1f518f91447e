SPECIFICATION Spec
CONSTANTS
    Procs = {p, q}
    MaxRecords = 3
    MaxGen = 2
    MaxFaults = 1
SYMMETRY ProcSymmetry
INVARIANTS Parseable CommittedKept FoldOfOneGeneration
PROPERTIES NoSequenceReused
CHECK_DEADLOCK FALSE
