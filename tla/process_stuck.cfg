\* Is a draining process being shut down?
SPECIFICATION Spec
CONSTANTS
    None = None
    Boot = boot
    Threads = {boot, c1, c2}
    Workers = {}
    RegistryFails = TRUE
INVARIANTS
    DrainingIsInProgress
\* The process ends when its threads do.
CHECK_DEADLOCK FALSE
