SPECIFICATION Spec
CONSTANTS
    wa = wa
    wb = wb
    p1 = p1
    p2 = p2
    q1 = q1
    c1 = c1
    Workflow = {wa, wb}
    MaxConcurrentRuns <- MCMaxConcurrentRuns
    InstanceMaxParallel = 1
    Run = {p1, p2, q1}
    NoRun = NoRun
    Identity <- MCIdentity
    Child = {p2}
    Intervened = {q1}
    MaxGeneration = 2
    MaxOwners = 2
INVARIANTS SlotsMatchOwners OwnersBacked
PROPERTIES TurnKept
