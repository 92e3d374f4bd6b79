SPECIFICATION FairSpec
CONSTANTS
    Producers = {p1, p2, p3}
    Watchdog = dog
    MAX_NOTIFICATIONS = 3
    DRAIN_BATCH = 2
    MaxOffers = 6
INVARIANTS OneDrain NoSilentGap
PROPERTY ImplementsChannel
CHECK_DEADLOCK FALSE
