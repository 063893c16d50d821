\* Two deliveries, one malformed, in batches of two: every race for a row, the
\* second claimed long after it was listed, and one fault.  w3 has no SMTP.
SPECIFICATION Spec
CONSTANTS
    w1 = w1
    w2 = w2
    w3 = w3
    Workers = {w1, w2, w3}
    Mailers = {w1, w2}
    Deliveries = {1, 2}
    Malformed = {2}
    StaleLock = 1
    MaxDelay = 2
    BackoffCap = 10
    BatchLimit = 2
    DayLength = 2
    Horizon = 2
    MaxFaults = 1
SYMMETRY Processes
INVARIANTS
    OutboxInv
    OnlyExcusedDuplicates
PROPERTIES
    MailboxPromise
