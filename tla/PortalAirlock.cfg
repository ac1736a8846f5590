CONSTANTS
  c1 = c1
  c2 = c2
  None = None
  Cells <- Two
  Built <- Nothing
  Kits <- AirlockSet
  Blocks = 1
  MaxId = 5
  Hull = 5
  Vented = 1
  Ready = 4
  Breath = 3
  Pumps <- Slow
  Steps = {1}
  Supply <- AnyDark
  MaxKits = 2
  MaxLoads = 0
SPECIFICATION LiveSpec
INVARIANTS
  TypeOK
  ChamberSafe
  NeverFaults
  SealsShow
PROPERTY CyclesComplete
CHECK_DEADLOCK FALSE
