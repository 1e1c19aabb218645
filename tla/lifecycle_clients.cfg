\* Three threads call the four methods of one lifecycle in every order.
SPECIFICATION ClientSpec
CONSTANTS
    None = None
    Threads = {t1, t2, t3}
INVARIANTS
    HealthAgrees
PROPERTIES
    HealthCycle
