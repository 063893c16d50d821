\* One person and one page, pinned directly or by a request; two workers, and
\* a clock that outruns the window of a reminder.
SPECIFICATION Spec
CONSTANTS
    Users = {ana}
    Pages = {page}
    Columns = {due}
    Requests = {}
    Handlers = {h1}
    Workers = {w1, w2}
    Day = 1
    MaxTime = 2
    Changes = {"readers", "members", "date"}
    MaxPins = 2
    Gone = Gone
    Blank = Blank
    None = None
SYMMETRY Interchangeable
INVARIANT
    RemindedOnce
