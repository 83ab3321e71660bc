SPECIFICATION MCSpec
CONSTANTS
  w1 = w1
  w2 = w2
  w3 = w3
  Window <- MCWindow
  None = None
  Least <- MCLeast
SYMMETRY Symmetry
INVARIANTS TreeAgrees UndefinedOnlyByMisuse NumberShown
CHECK_DEADLOCK FALSE
