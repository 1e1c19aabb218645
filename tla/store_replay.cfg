\* A reader pages through a store that grows to three records, is lost at any
\* moment and grows again.  Readers do not interact: one of them is enough.
SPECIFICATION Spec
CONSTANTS
    None = None
    BlankTypes <- MCBlank
    Events <- MCEvents
    Readers = {r1}
    Queries <- MCQueries
    MaxLimit = 2
    MaxStores = 2
INVARIANTS
    TypeOK
    IndexSound
    AckedReadable
    OneAnswer
    CursorsStayGood
    ReplayExact
PROPERTIES
    ImplementsEventLog
\* A replay may be refused and the store be full: nothing is left to do.
CHECK_DEADLOCK FALSE
