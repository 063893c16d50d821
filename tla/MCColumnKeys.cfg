\* Two deletions that cross, a repair, and a third column.
SPECIFICATION DeletesSpec
CONSTANTS
    name = name
    other = other
    LabelNames = {name, other}
    Simple <- Simplified
    MaxColumns = 3
    MaxEdits = 3
    OlderColumns <- Older
    Renamings = {r1, r2}
INVARIANT
    NeverRecycled
CHECK_DEADLOCK FALSE
