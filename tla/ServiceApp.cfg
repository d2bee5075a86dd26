SPECIFICATION Spec
CONSTANTS Consoles={c1,c2} Tids={t1,t2} MaxMsgs=2 MaxStops=1 NULL=NULL
INVARIANTS InOrder ReachesListener
PROPERTIES SentSettles
CHECK_DEADLOCK FALSE
