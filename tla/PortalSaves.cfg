CONSTANTS
  c1 = c1
  c2 = c2
  None = None
  Cells <- Two
  Built <- Base
  Kits <- TwoAirlocks
  Blocks = 0
  MaxId = 9
  Hull = 1
  Vented = 0
  Ready = 1
  Breath = 1
  Pumps <- Quick
  Steps = {1}
  Supply <- ControllersDark
  MaxKits = 0
  MaxLoads = 1
SPECIFICATION Spec
SYMMETRY Anywhere
INVARIANT SavedLoads
PROPERTY ImplementsChambers
CHECK_DEADLOCK FALSE
