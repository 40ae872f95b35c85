SPECIFICATION Spec
CONSTANTS
  Objs = {o1, o2}
  PageSize = 2
  MaxAttempts = 2
  Game = Game
  None = None
  Nodes <- MCNodes
  Forbidden <- MCForbidden
  AslrSize = 4
  RegionEnd <- MCRegionEnd
  Threads = {t1, t2}
  Requests <- MCRequests
  GameConcurrent = TRUE
  MoveAssigned = TRUE
SYMMETRY MCSymmetry
INVARIANTS
  AliasShowsItsCode
CHECK_DEADLOCK FALSE
