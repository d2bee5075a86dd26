\* create() when memory or the kernel fails it.
SPECIFICATION Spec
CONSTANTS
  Clients = {owner}
  Owner = owner
  Worker = worker
  Nobody = nobody
  MaxPushes = 1
INVARIANTS
  CreateAnswers
CHECK_DEADLOCK FALSE
