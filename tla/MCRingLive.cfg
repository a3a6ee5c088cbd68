\* Liveness: a producer fills a ring of two cells and parks, the consumer
\* parks on an empty one, and the owner closes and reopens.
CONSTANTS
    Producers = {p1}
    Consumers = {c1}
    Owners    = {o1}
    NoThread  = NoThread
    Modes     = {"SPSC", "MPMC"}
    Tries     = {FALSE, TRUE}
    Capacity  = 2
    MaxPush   = 4
SPECIFICATION FairSpec
PROPERTIES PushReturns FramesTaken CloseEndsPops
CHECK_DEADLOCK FALSE
