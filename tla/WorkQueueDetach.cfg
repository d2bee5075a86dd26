\* The comment on detach(): all work in the queue will be done.
SPECIFICATION Spec
CONSTANTS
  Clients = {owner}
  Owner = owner
  Worker = worker
  NoThread = none
  MaxPushes = 1
INVARIANTS
  DetachDrains
