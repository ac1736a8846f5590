CONSTANTS
  w1 = w1
  w2 = w2
  Main = Main
  NoThread = NoThread
  Workers <- Two
  Kinds = {"plain", "caller"}
  Count = 5
  Grain = 2
  Throwing <- Nothing
  MaxJobs = 3
SPECIFICATION SpuriousSpec
INVARIANTS TypeOK Synchronous EachIndexOnce NoLostWakeup
CHECK_DEADLOCK FALSE
