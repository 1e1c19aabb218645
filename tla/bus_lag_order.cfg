\* One publisher, one consumer, three events: is a lag reported before the
\* events queued after it?
SPECIFICATION Spec
CONSTANTS
    None = None
    mine = mine
    other = other
    BlankTypes <- MCBlank
    Publishers = {p1}
    Subscriptions = {s1}
    Events <- OneEvent
    Filters <- OneFilter
    QueueCapacity = 1
    MaxLag = 3
    MaxPublished = 3
PROPERTIES
    GapReportedFirst
\* The program may drop the bus and every subscription, and stop.
CHECK_DEADLOCK FALSE
