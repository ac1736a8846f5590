SPECIFICATION Spec
CONSTANTS
  p1 = p1
  p2 = p2
  Planets = {p1, p2}
  Announcement = 1
  Pause = 1
  MaxSquad = 2
  MaxActions = 2
  MaxFailures = 1
  MaxSurvivors = 1
INVARIANTS
  TypeOK
  RegisterNeedsClaim
  StateRestores
  WavesApart
PROPERTIES
  WavesBeaten
  NamesFresh
  ActionsEnd
CHECK_DEADLOCK TRUE
