SPECIFICATION Spec
CONSTANTS
  IndexBits = 4
  Asks = {4}
  Wants = {1, 2, 3}
  ReadsTwice = FALSE
  MaxBytes = 20
INVARIANTS Intact
PROPERTY ImplementsByteFifo
CHECK_DEADLOCK FALSE
