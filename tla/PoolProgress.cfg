CONSTANTS
  w1 = w1
  w2 = w2
  Main = Main
  NoThread = NoThread
  Workers <- Two
  Kinds = {"caller"}
  Count = 3
  Grain = 2
  Throwing <- Second
  MaxJobs = 3
SPECIFICATION Spec
INVARIANT NoJobLost
PROPERTIES CallsReturn FuturesResolve
CHECK_DEADLOCK FALSE
