SPECIFICATION Spec
CONSTANTS
  Chunks = {c1, c2}
  Manifest = manifest
  Values = {v1, v2}
  Base = base
  NoCampaign = none
  MaxGeneration = 3
  FaultKinds = {}
  FaultFiles = {}
  MaxFaults = 0
SYMMETRY Symmetry
INVARIANTS TypeOK Recoverable PreviousRecoverable
PROPERTIES GenerationGrows ImplementsCampaignStore
