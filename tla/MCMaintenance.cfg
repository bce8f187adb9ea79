SPECIFICATION FairMSpec
CONSTANTS
  v1 = v1
  j1 = j1
  j2 = j2
  None = None
  Versions = {v1}
  Families = {"f"}
  Family <- MCFamily
  Outcomes = {"o1", "o2"}
  Manifests <- MCManifests
  Policies = {"a"}
  Jobs = {j1, j2}
  Processes = {p1, p2}
  Owners = {"worker-1:maintenance"}
  WorkerID <- MCWorkerID
  Rollbacks = {j2}
  BatchSize = 1
  LeaseDuration = 1
  MaximumAttempts = 2
  MaximumBackoff = 1
  MaxSkew = 0
  MaxFaults = 1
PROPERTIES SupersededNeverDecides Delivers EveryJobSettled
