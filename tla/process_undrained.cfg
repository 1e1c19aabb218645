\* Is a stopped process done with its actions?
SPECIFICATION Spec
CONSTANTS
    None = None
    Boot = boot
    Threads = {boot, c1, c2}
    Workers = {w1}
    RegistryFails = FALSE
INVARIANTS
    StoppedIsQuiet
\* The process ends when its threads do.
CHECK_DEADLOCK FALSE
