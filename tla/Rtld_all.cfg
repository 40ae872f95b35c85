SPECIFICATION Spec
CONSTANTS
  lib = lib
  late = late
  Self = self
  Modules = {self, lib, late}
  Base <- MCBase
  Chain <- MCChain
  Manual <- MCManual
  Images <- MCImages
  Threads = {t1, t2}
SYMMETRY MCSymmetry
INVARIANTS
  WordsLinked
  CallsArrive
CHECK_DEADLOCK FALSE
