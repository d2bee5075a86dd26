\* A two-byte element in a build that reads the other side's index twice.
SPECIFICATION Spec
CONSTANTS
  IndexBits = 4
  Asks = {3, 4, 6, 8}
  Wants = {2}
  ReadsTwice = TRUE
  MaxBytes = 24
INVARIANTS RoundsUp WholeElements NoOverrun
CHECK_DEADLOCK FALSE
