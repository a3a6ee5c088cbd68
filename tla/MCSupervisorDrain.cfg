\* One worker, two submits, a stall and a shutdown.
CONSTANTS
    NWorkers   = 1
    Capacity   = 2
    Submitters = {s1}
    Callers    = {c1}
    Owner      = c1
    Apis       = {"submit"}
    CallbackDestroys = FALSE
    EnableSupervisor = TRUE
    MaxCalls   = 2
SPECIFICATION SupSpec
INVARIANT CleanDrain
CHECK_DEADLOCK FALSE
