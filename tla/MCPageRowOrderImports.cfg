\* Two processes import the same view while its array is patched; nothing is
\* created or moved before the view is ready.
SPECIFICATION Spec
CONSTANTS
    Rows = {1, 2, 3}
    Processes = {p1, p2}
    Batch = 1
    Gap = 2
    LegacyOrders <- TwoOrders
    Board = FALSE
    Moves <- SomeMoves
    Removable = {2}
    MaxRevision = 0
PROPERTIES
    RevisionNamesOrder
