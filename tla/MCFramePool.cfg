\* Three threads and two frames.
CONSTANTS
    Threads = {t1, t2, t3}
    Size = 2
    MaxAcquires = 4
SPECIFICATION FairSpec
INVARIANTS OneOwner ListInv
PROPERTIES IsStack SleeperServed CloseEndsWaits
CHECK_DEADLOCK FALSE
