CONSTANTS
  w1 = w1
  w2 = w2
  Main = Main
  NoThread = NoThread
  Workers <- One
  Kinds = {"plain", "caller"}
  Count = 5
  Grain = 2
  Throwing <- Nothing
  MaxJobs = 1
SPECIFICATION Spec
PROPERTY ShutdownReturns
CHECK_DEADLOCK FALSE
