SPECIFICATION Spec
CONSTANTS
  Requests <- MCRequests
INVARIANTS
  WordsSayWhatWasAsked
CHECK_DEADLOCK FALSE
