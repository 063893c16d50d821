\* Two people, one page and two columns it may be pinned by; two requests and
\* two handlers; no reminders, and the clock stands still.
SPECIFICATION Spec
CONSTANTS
    Users = {ana, bia}
    Pages = {page}
    Columns = {due, start}
    Requests = {r1, r2}
    Handlers = {h1, h2}
    Workers = {}
    Day = 1
    MaxTime = 0
    Changes = {"readers", "placed"}
    MaxPins = 1
    Gone = Gone
    Blank = Blank
    None = None
SYMMETRY Interchangeable
INVARIANTS
    SchedulePinsInv
PROPERTIES
    DecidedForGood
    AskedAndAcceptedWithAccess
