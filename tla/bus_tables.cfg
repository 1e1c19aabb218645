\* Two publishers and two subscriptions with different filters: every order
\* of publishing, subscribing, closing, dropping, purging and the end of the bus.
SPECIFICATION Spec
CONSTANTS
    None = None
    mine = mine
    other = other
    BlankTypes <- MCBlank
    Publishers = {p1, p2}
    Subscriptions = {s1, s2}
    Events <- MCEvents
    Filters <- MCFilters
    QueueCapacity = 1
    MaxLag = 2
    MaxPublished = 1
SYMMETRY Symmetric
INVARIANTS
    EventsAccounted
    RegistrationMatchesLife
    EndOnlyWhenBusGone
PROPERTIES
    ImplementsStream
\* The program may drop the bus and every subscription, and stop.
CHECK_DEADLOCK FALSE
