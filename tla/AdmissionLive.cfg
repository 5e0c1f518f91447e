SPECIFICATION LiveSpec
CONSTANTS
    wa = wa
    wb = wb
    p1 = p1
    p2 = p2
    q1 = q1
    c1 = c1
    Workflow = {wa, wb}
    MaxConcurrentRuns <- MCMaxConcurrentRuns
    InstanceMaxParallel = 1
    Run = {p1, p2, q1}
    NoRun = NoRun
    Identity <- MCIdentity
    Child = {}
    Intervened = {}
    MaxGeneration = 1
    MaxOwners = 1
PROPERTIES ParkedParentResumes
CHECK_DEADLOCK FALSE
