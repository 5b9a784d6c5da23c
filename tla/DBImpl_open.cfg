SPECIFICATION Spec
CONSTANTS
 Threads = {w1,w2}
 w1=w1
 w2=w2
 r1=r1
 Readers = {r1}
 Budget = 5
 BufferWrites = 1
 CompactionTrigger = 1
 SlowdownTrigger = 1
 StopTrigger = 2
PROPERTY ErrorsReflected
CHECK_DEADLOCK FALSE
