\* Liveness; a wait need not time out unless the property says so.
SPECIFICATION FairSpec
CONSTANTS
  Clients = {owner}
  Owner = owner
  Worker = worker
  NoThread = none
  MaxPushes = 2
PROPERTIES
  TasksGetDone
  StopEndsThread
  CallsReturn
