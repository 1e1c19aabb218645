\* Three tasks shut one process down; the registry may fail at every call.
SPECIFICATION FairSpec
CONSTANTS
    None = None
    Boot = boot
    Threads = {boot, c1, c2, c3}
    Workers = {w1}
    RegistryFails = TRUE
INVARIANTS
    NodeMatchesProcess
PROPERTIES
    NodeOnlyAgesOnce
    ShutdownStops
\* The process ends when its threads do.
CHECK_DEADLOCK FALSE
