\* process() and the next submits, one worker.
CONSTANTS
    NWorkers   = 1
    Capacity   = 2
    Submitters = {s1}
    Callers    = {c1}
    Owner      = c1
    Apis       = {"submit"}
    CallbackDestroys = FALSE
    EnableSupervisor = FALSE
    MaxCalls   = 3
SPECIFICATION Spec
PROPERTY FrameStable
CHECK_DEADLOCK FALSE
