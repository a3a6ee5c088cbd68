\* Two producers and two consumers; three pushes go once round a ring of two
\* cells and reuse the first.
CONSTANTS
    Producers = {p1, p2}
    Consumers = {c1, c2}
    Owners    = {o1}
    NoThread  = NoThread
    Modes     = {"SPSC", "MPSC", "SPMC"}
    Tries     = {FALSE, TRUE}
    Capacity  = 2
    MaxPush   = 3
SPECIFICATION Spec
SYMMETRY Symmetry
INVARIANTS TypeOK RingInv NoSlotRace WaitersCounted DrainComplete
PROPERTY IsFifo
CHECK_DEADLOCK FALSE
