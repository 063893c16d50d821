\* Mail: two rows of which one can never be sent and sorts first, listed one
\* by one.  Room: two sockets, two events, a right taken away and given back;
\* a room nobody may enter any more has nothing left to do.
SPECIFICATION DeliveriesSpec
CHECK_DEADLOCK FALSE
CONSTANTS
    Workers = {w1, w2}
    Mailers = {w1, w2}
    Deliveries = {1, 2}
    Malformed = {1}
    StaleLock = 1
    MaxDelay = 2
    BackoffCap = 10
    BatchLimit = 1
    DayLength = 2
    Horizon = 2
    MaxFaults = 1
    s1 = s1
    s2 = s2
    ana = ana
    bia = bia
    Sockets = {s1, s2}
    PersonOf <- OwnSocket
    Restless = {ana}
    MaxEvents = 2
    MaxJoins = 2
    MaxChanges = 2
INVARIANTS
    RealtimeInv
PROPERTIES
    EnqueuedIsSent
    NothingAfterRevocation
    EventsReachReaders
