SPECIFICATION FairSpec
CONSTANTS
  Threads = {t1, t2}
  Names = {p}
  Globals = {g}
  Objects = {a, b}
  Null = Null
INVARIANTS
  CountExact
  NoDangling
  UnheldIsFreed
PROPERTIES
  Lifecycle
  DeadAreFreed
