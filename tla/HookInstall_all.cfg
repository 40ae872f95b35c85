SPECIFICATION Spec
CONSTANTS
  near = near
  far = far
  odd = odd
  i1 = i1
  i2 = i2
  cbA = cbA
  cbB = cbB
  cbC = cbC
  cbD = cbD
  cbE = cbE
  cbF = cbF
  None = None
  Funcs <- MCFuncs
  Far <- MCFar
  Misaligned <- MCMisaligned
  EntryMax = 3
  Installers = {i1, i2}
  Callers = {t1}
  Plans <- MCPlans
  HookMax = 4
INVARIANTS
  TypeOK
  CallsRunEveryHook
  NoWildJump
  NothingRunsUnpublished
  SlotsDistinct
CHECK_DEADLOCK FALSE
