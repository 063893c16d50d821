\* Three rows of which one or two exist at first, two processes, any imports,
\* repairs, creations and moves.
SPECIFICATION Spec
CONSTANTS
    Rows = {1, 2, 3}
    Processes = {p1, p2}
    Batch = 1
    Gap = 2
    LegacyOrders <- TwoOrders
    Board = TRUE
    Moves <- SomeMoves
    Removable = {2}
    MaxRevision = 2
SYMMETRY Interchangeable
INVARIANTS
    RowOrderInv
PROPERTIES
    CursorsHold
    ImportKeepsLegacyOrder
    NewRowsLast
    MovesLandBeside
    StaysPaginable
