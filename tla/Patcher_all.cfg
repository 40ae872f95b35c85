SPECIFICATION Spec
CONSTANTS
  Size = 4
  Stream = {s}
  Random = {r}
  Widths = {1, 2}
  Targets <- Functions
  Span = 10
  DataLine <- DataLines
  InstLine <- InstLines
  NoBranch = NoBranch
INVARIANTS
  TypeOK
  StaleIsPending
  BranchesLand
