SPECIFICATION MenuSpec
CONSTANTS
  MaxMoves = 2
  MaxPlace = 2
  MaxFlips = 2
INVARIANT FramesFindMenu
PROPERTIES
  CameraTakesOver
  CameraLooksAhead
CHECK_DEADLOCK FALSE
