\* Two calls, the second a retry of the first or in another session, while a
\* client of the first session comes and goes.
SPECIFICATION FairSpec
CONSTANTS
    None = None
    a1 = a1
    a2 = a2
    s1 = s1
    s2 = s2
    BlankTypes <- NoBlank
    Sessions = {s1, s2}
    Actors = {"u"}
    ActionIds = {a1, a2}
    ActionTypes = {"draw"}
    EventTypes = {"drawn"}
    Calls = {c1, c2}
    Assignments <- Either
    Clients = {k1}
    SessionOf <- InFirst
    Capacity = 1
    MaxBatch <- TwoThenOne
    Now <- Noon
INVARIANTS
    NothingMissed
    RetriesAddUp
PROPERTIES
    Reaches
\* All calls end and the clients leave.
CHECK_DEADLOCK FALSE
