CONSTANTS
  w1 = w1
  w2 = w2
  r1 = r1
  r2 = r2
  NoWorker = NoWorker
  Workers = {w1, w2}
  Resources = {r1, r2}
  Keys = {1}
  Definitions <- Both
  Orders = {1}
  Order <- Maintain
  Lease = 1
  MaxJobs = 2
  MaxStock = 1
SPECIFICATION Spec
INVARIANTS TypeOK ClaimsAgree ClaimantsPresent
PROPERTIES LeasesRespected WorkKept ImplementsClaims WorkDrains Replenishes
CHECK_DEADLOCK FALSE
