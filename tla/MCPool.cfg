\* Two submitters share one worker with a ring of two cells; the owner shuts
\* down or destroys while a second caller shuts down too.
CONSTANTS
    NWorkers   = 1
    Capacity   = 2
    Submitters = {s1, s2}
    Callers    = {c1, c2}
    Owner      = c1
    Apis       = {"submit"}
    CallbackDestroys = TRUE
    EnableSupervisor = FALSE
    MaxCalls   = 3
SPECIFICATION Spec
SYMMETRY Symmetry
INVARIANTS CleanMeansJoined TypeOK NoFrameLost NoDrops NoUseAfterFree SingleConsumer RefsCounted
PROPERTY AdmissionEnds
CHECK_DEADLOCK FALSE
