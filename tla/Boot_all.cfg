SPECIFICATION FairSpec
CONSTANTS
  Spaces <- MCSpaces
  Kernels <- MCKernels
  MaxModules = 3
  Clients = {loader, game}
  Loader = loader
  Invalid = Invalid
  Ours = Ours
  Leftover = Leftover
INVARIANTS
  ModulesFound
  RegionsAgree
  HandleIsOurs
  ExchangedOnce
  ServerOnLiveStack
  OrdinaryStarts
PROPERTY StartUpEnds
CHECK_DEADLOCK FALSE
