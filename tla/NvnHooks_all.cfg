SPECIFICATION HooksSpec
CONSTANTS
  Loaders = {t1}
  Sizes = {1, 2}
  MaxFrames = 3
INVARIANTS
  NeverAborts
  LastFrameComplete
  DrawsInitialized
