SPECIFICATION Spec
CONSTANTS
  Sites <- MCSites
  BranchSpan = 256
  CondSpan = 128
  TestSpan = 64
  AdrSpan = 512
  PageWords = 16
  WrapWords = 65536
INVARIANTS
  JumpsKept
  OperandsKept
  FlowKept
  FitsTrampoline
  LiteralsAligned
CHECK_DEADLOCK FALSE
