SPECIFICATION JSpec
CONSTANTS
    p1 = p1  p2 = p2  c1 = c1  c2 = c2  c3 = c3  b1 = b1  b2 = b2
    None <- MCNone
    Procs = {p1, p2}
    Callers = {c1, c2, c3}
    Bases = {b1, b2}
    ProcOf <- MCProcOf
    Asks <- MCAsks
    Tenants = {1, 2}
    TenantOf <- MCTenantOf
    LegacyBases = {b1}
    Verdicts = {v1}
    Reuse = 3
    Deadline = 1
    MinimumRemaining = 1
    MaximumConcurrent = 2
    GlobalBurst = 2
    TenantBurst = 1
    MaximumTenantLimiters = 1
    Threshold = 2
    OpenFor = 1
    MaximumAttempts = 2
    MaxTime = 3
    MaxFaults = 1
    MaxCalls = 3
INVARIANTS AnswersAreDurableAndFresh ServiceHoldsItsLimits
PROPERTY ImplementsLedger
SYMMETRY MCSymmetry
CHECK_DEADLOCK FALSE
