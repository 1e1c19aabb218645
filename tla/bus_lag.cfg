\* Two publishers overrun one consumer whose queue has one place; four
\* events against a counter that saturates at two.  Fair publishers and
\* consumers; no symmetry, which liveness checking excludes.
SPECIFICATION FairSpec
CONSTANTS
    None = None
    mine = mine
    other = other
    BlankTypes <- MCBlank
    Publishers = {p1, p2}
    Subscriptions = {s1}
    Events <- OneEvent
    Filters <- OneFilter
    QueueCapacity = 1
    MaxLag = 2
    MaxPublished = 2
INVARIANTS
    TypeOK
    LagAccounted
    PublisherOrder
    LagReportedSoon
PROPERTIES
    NoLagStorm
    PublishCompletes
    ClosedIsForgotten
    WaiterServed
\* The program may drop the bus and every subscription, and stop.
CHECK_DEADLOCK FALSE
