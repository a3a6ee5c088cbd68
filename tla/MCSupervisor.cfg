\* Two workers, one submitter, the owner: the supervisor races shutdown,
\* destroy and the rollback of create.
CONSTANTS
    NWorkers   = 2
    Capacity   = 2
    Submitters = {s1}
    Callers    = {c1}
    Owner      = c1
    Apis       = {"submit"}
    CallbackDestroys = FALSE
    EnableSupervisor = TRUE
    MaxCalls   = 1
SPECIFICATION SupSpec
INVARIANTS SupTypeOK SingleConsumer CleanMeansJoined SupNoUseAfterFree RestartAlone RingsReclosed
           NoForgottenWorker
CHECK_DEADLOCK FALSE
