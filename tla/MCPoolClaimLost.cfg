\* One claim against shutdown.
CONSTANTS
    NWorkers   = 1
    Capacity   = 2
    Submitters = {s1}
    Callers    = {c1}
    Owner      = c1
    Apis       = {"claim"}
    CallbackDestroys = FALSE
    EnableSupervisor = FALSE
    MaxCalls   = 1
SPECIFICATION Spec
INVARIANT NoFrameLost
CHECK_DEADLOCK FALSE
