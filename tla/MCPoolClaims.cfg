\* All four admission calls: a claim may never be committed, a frame may find
\* its worker gone, and the fourth submit parks while process() is stuck. Or two
\* threads call shutdown at once while a claim is inside.
CONSTANTS
    NWorkers   = 1
    Capacity   = 2
    Submitters = {s1}
    Callers    = {c1, c2}
    Owner      = c1
    Apis       = {"claim", "keyed", "submit"}
    CallbackDestroys = FALSE
    EnableSupervisor = FALSE
    MaxCalls   = 4
SPECIFICATION JointSpec
INVARIANTS NoUseAfterFree RefsCounted
PROPERTIES ShutdownReturns DestroyEnds SubmitReturns
CHECK_DEADLOCK FALSE
