SPECIFICATION RSpec
CONSTANTS
    cA = cA  cB = cB  r1 = r1  k1 = k1
    None <- MCNone
    Configs = {cA, cB}
    RunIds = {r1}
    IdentityOf <- MCIdentity
    TTL = 1
    Callers = {c1, c2}
    Queries = {q1, q2}
    Versions = {1, 2}
    Revised = {1}
    Lifecycles = {"candidate"}
    Gate <- MCGate
    Score <- MCScore
    Configured = {"lexical", "vector"}
    Required = {"lexical"}
    IndexesOf <- MCIndexes
    Approximate = {"vector"}
    MinimumScore = 1
    MaximumSelections = 1
    MaximumRows = 1
    MaxEpoch = 2
    RequestTimeout = 0
    MaxTime = 1
    MaxFaults = 1
    MaxCalls = 3
INVARIANTS AnswersAreCommitted AnswersFitTheirRun
PROPERTY ImplementsDecisionLedger
SYMMETRY MCSymmetry
CHECK_DEADLOCK FALSE
