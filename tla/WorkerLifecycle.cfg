\* Three clients, four tasks, each with or without a pointer to the worker.
SPECIFICATION FairSpec
CONSTANTS
  Clients = {owner, c1, c2}
  Owner = owner
  Worker = worker
  Nobody = nobody
  MaxPushes = 4
INVARIANTS
  QueueInUse
  TaskKeepsWorker
  NothingLeft
  RunawayOnlyByCapture
PROPERTIES
  DestroyedEnds
CHECK_DEADLOCK FALSE
