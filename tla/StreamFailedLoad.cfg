SPECIFICATION FailingSpec
CONSTANTS
  Slots <- Pair
  Index <- PairIndex
  Cells <- PairCells
  Owner <- PairOwner
  Beside <- PairBeside
  Diagonal <- PairDiagonal
  Blocks = {0, 1}
  Base = 0
  NoBlock = NoBlock
  Planets = {p1}
  Places <- Here
  Close <- HereClose
  Rank <- PairRankHere
  HighDetailBudget = 1
  NearFieldBudget = 1
  PrefetchBudget = 1
  MaxResidentChunks = 1
  MaxPending = 1
  MaxRevision = 3
  Editable <- PairCells
  Placed = {0, 1}
INVARIANTS ReadsAuthoritative
