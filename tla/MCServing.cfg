SPECIFICATION Spec
CONSTANTS
  v1 = v1
  v2 = v2
  Versions = {v1, v2}
  Families = {"f"}
  Family <- MCFamily
  Outcomes = {"o1", "o2", "o3", "o4"}
  Manifests <- MCManifests
  Policies = {"a"}
  Jobs = {j1, j2, j3, j4}
  None = None
INVARIANT ChampionIsActiveHead
PROPERTIES SnapshotsStable TerminalHeadsStay
SYMMETRY JobSymmetry
CHECK_DEADLOCK FALSE
