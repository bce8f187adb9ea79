SPECIFICATION OSpec
CONSTANTS
  None = None
  Tenants = {"t1", "t2"}
  Manifests <- MCManifests
  Requests <- MCRequests
  Callers = {c1, c2}
  WindowLength = 1
  AssignmentTTL = 2
  MaxTime = 1
  MaxFaults = 1
  MaxCalls = 3
  Hashes = {h1, h2}
  Contents <- MCContents
  Traces = {"tr"}
  Injections = {"i1"}
  TenantOf <- MCTenantOf
  Goals = {"g"}
  SelectionTTL = 1
  Skew = 0
  MaximumRows = 1
  Purged = Purged
  Audits <- MCAudits
INVARIANTS OutcomesAreRecordedOnce ReservationsHold 
SYMMETRY MCSymmetry
CHECK_DEADLOCK FALSE
