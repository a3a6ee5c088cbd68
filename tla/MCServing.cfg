\* One worker that may be stuck in process() and four submits: the fourth
\* parks on a full ring, and nobody calls shutdown.
CONSTANTS
    NWorkers   = 1
    Capacity   = 2
    Submitters = {s1}
    Callers    = {c1}
    Owner      = c1
    Apis       = {"submit"}
    CallbackDestroys = FALSE
    EnableSupervisor = TRUE
    MaxCalls   = 4
SPECIFICATION ServingSpec
PROPERTIES ParkedWakes ExitedReplaced CreateEnds
CHECK_DEADLOCK FALSE
