SPECIFICATION FairSpec
CONSTANTS
  Workers = {w1, w2}
  MaximumAttempts = 3
  Registries = {"registry-1", "registry-2"}
  MaxFaults = 3
INVARIANTS OneChain ResultPublished
PROPERTY Closes
