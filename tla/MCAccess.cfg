\* Sessions: three overlapping requests of one account, two tokens, two
\* logouts that are not lost.
\* Invites: two who may enter and one who keeps the page; a workspace linked to
\* an organization meanwhile, a page that loses its keeper and its scope; older
\* rows included, and two acceptances in progress where they cross.
\* Rights: three people, three nested pages, three changes.
\* Records: two accounts, a database of one column and one row, two
\* transactions, or three of one kind.
SPECIFICATION AllSpec
CONSTANTS
    Focuses = {"sessions", "crossing", "linking", "leaving", "rights", "people", "pages", "agenda", "records"}
    Requests = {r1, r2, r3}
    MaxTokens = 2
    MaxVersion = 2
    Users = {u0, u1, u2}
    Invites = {i1}
    Templates = {reader}
    Organization = organization
    Workspace = workspace
    kept = u0
    Scopes <- ThreeScopes
    Sharing <- Sovereigns
    Linkable <- WorkspaceScopes
    Place <- InWorkspace
    Keeper <- KeptPages
    Limits = {2}
    Acceptances = {a1, a2}
    None = None
    Anyone = Anyone
    ana = ana
    bia = bia
    caio = caio
    root = root
    mid = mid
    leaf = leaf
    other = other
    Persons = {ana, bia, caio}
    Pages = {root, mid, leaf}
    ParentPage <- Nested
    RootPages = {root}
    Owner <- Owners
    Default = Default
    RoleIds = {Default, other}
    Offered <- SomeRoles
    Founding <- Begun
    MaxActs = 3
    Absent = Absent
    Gone = Gone
    Emails = {1, 2}
    Views = {1}
    RequestIds = {1}
    MaxBatches = 4
SYMMETRY Interchangeable
INVARIANTS
    SessionsInv
    InvitesInv
    AccessInv
    RecordsInv
PROPERTIES
    NoRefreshAfterLogout
    AcceptanceReachesAllScopes
    ClosedForGood
    NoReadmission
    NoEscalation
CHECK_DEADLOCK FALSE
