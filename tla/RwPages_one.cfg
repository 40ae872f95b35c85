SPECIFICATION FairSpec
CONSTANTS
  Objs = {o1, o2}
  PageSize = 2
  MaxAttempts = 2
  Game = Game
  None = None
  Nodes <- MCNodes
  Forbidden <- MCForbidden
  AslrSize = 5
  RegionEnd <- MCRegionEnd
  Threads = {t1}
  Requests <- MCCrossing
  GameConcurrent = FALSE
  MoveAssigned = FALSE
INVARIANTS
  TypeOK
  AliasShowsItsCode
  AliasesStayReserved
  KernelNeverRefuses
  ViewsAgree
PROPERTIES
  Exclusive
  SearchEnds
CHECK_DEADLOCK FALSE
