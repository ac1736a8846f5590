SPECIFICATION FaultySpec
CONSTANTS
  Chunks = {c1, c2}
  Manifest = manifest
  Values = {v1, v2}
  Base = base
  NoCampaign = none
  MaxGeneration = 2
  FaultKinds = {"torn"}
  FaultFiles = {manifest}
  MaxFaults = 1
SYMMETRY Symmetry
INVARIANT OneGenerationLost
