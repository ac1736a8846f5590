SPECIFICATION Spec
CONSTANTS
  Slots <- Corner
  Index <- CornerIndex
  Cells <- CornerCells
  Owner <- CornerOwner
  Beside <- CornerBeside
  Diagonal <- CornerDiagonal
  Blocks = {0, 1, 2}
  Base = 0
  NoBlock = NoBlock
  Planets = {p1}
  Places <- Apart
  Close <- ApartClose
  Rank <- CornerRankApart
  HighDetailBudget = 1
  NearFieldBudget = 1
  PrefetchBudget = 1
  MaxResidentChunks = 1
  MaxPending = 1
  MaxRevision = 2
  Editable <- CornerEditable
  Placed = {1}
INVARIANTS TypeOK ReadsAuthoritative ReadyShowsPlanet FrontierHolds
PROPERTY Settles
