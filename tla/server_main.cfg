\* Every environment at a usize of five bits; two tasks beside main.
SPECIFICATION MainFairSpec
CONSTANTS
    None = None
    Boot = boot
    Main = main
    Threads = {boot, main, t1, t2}
    Workers = {}
    RegistryFails = FALSE
    Width = 5
    DefaultCapacity = 2
INVARIANTS
    MainTypeOK
    ExitTellsAll
    OverrideHonoured
PROPERTIES
    InterruptEnds
\* The process ends when main returns.
CHECK_DEADLOCK FALSE
