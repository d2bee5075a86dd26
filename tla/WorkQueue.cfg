\* Two pushing clients, one of them the owner, and three tasks.
SPECIFICATION Spec
CONSTANTS
  Clients = {owner, c1}
  Owner = owner
  Worker = worker
  NoThread = none
  MaxPushes = 3
INVARIANTS
  NoLostWakeup
  RunsInOrder
  Accounting
  BusyStopDrains
PROPERTIES
  ImplementsTaskQueue
