\* One keyed submit against shutdown.
CONSTANTS
    NWorkers   = 1
    Capacity   = 2
    Submitters = {s1}
    Callers    = {c1}
    Owner      = c1
    Apis       = {"keyed"}
    CallbackDestroys = FALSE
    EnableSupervisor = FALSE
    MaxCalls   = 1
SPECIFICATION FairSpec
PROPERTY KeyedReturns
CHECK_DEADLOCK FALSE
