CONSTANTS
  k1 = k1  k2 = k2  t1 = t1  t2 = t2  c1 = c1  c2 = c2  c3 = c3
  Keys = {k1, k2}
  Traces = {t1, t2}
  Contents = {c1, c2, c3}
  TraceOf <- MCTraceOf
  Commands <- MCCommands
  Requests = {r1, r2}
  None = None
  MaxFaults = 1
SPECIFICATION FairSpec
INVARIANT ReceiptComplete
PROPERTIES EveryCommandAnswered ImplementsIngestLedger
