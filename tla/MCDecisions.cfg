SPECIFICATION MCSpec
CONSTANTS
  Requests <- MCRequests
  Contracts <- MCContracts
  Scale = 20
  MaxInt = 200
  RRFScale = 12
  Replicas = {"r1", "r2", "r3"}
  Checksums = {"a", "b", "c", "x"}
  Binary <- MCBinary
  MaxAttempts = 2
  MaxAborts = 1
  Processes = {p1, p2}
  Provisioners = {o1, o2}
  SearchTexts <- MCSearchTexts
  DocumentTexts <- MCDocumentTexts
  Answers <- MCAnswers
  QuantizationScale = 5
  Distance = "cosine"
  PoolSize = 2
  HitLimit = 1
  MaxEpoch = 2
  MaxVectorFaults = 1
  Stages = {s1}
  Manifests <- MCManifests
  Uses <- MCUses
  MaxLoadFaults = 1
  Workers = {w1, w2}
  Graphs <- MCGraphs
  RebuildInputs <- MCRebuildInputs
  AuthorizedAt = {1, 2}
  None = None
  PublishAttempts = 2
  MaxPublishFaults = 1
INVARIANTS
  SearchIsExhaustive
  
  ProceduresAreFaithful
  LifecycleIsSound
  RankingIsSound
  AmbiguousContextAdmitsNothing
  MigrationsConverge
  VectorChannelIsSound
  StagesReadOneSnapshot
  PublicationsAreWhole
PROPERTY ImplementsGraphStore
SYMMETRY MCSymmetry
CHECK_DEADLOCK FALSE
