SPECIFICATION Spec
CONSTANTS
  v1 = v1
  v2 = v2
  Versions = {v1, v2}
  Families = {"f"}
  Family <- MCFamily
  Outcomes = {"o1", "o2", "o3", "o4"}
  Manifests <- MCManifests
  Policies = {"a", "b"}
  Jobs = {j1, j2, j3}
  None = None
INVARIANT StateChangesDecided
SYMMETRY JobSymmetry
CHECK_DEADLOCK FALSE
