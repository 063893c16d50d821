\* Forms: two users and a visitor, two submissions with one key, two
\* publications and one lock saved.
\* Flows: the documents of four nodes and three lists, one execution, one
\* document, lock and change saved meanwhile.
\* Relations: two rows to one, two properties, two requests that compare all
\* they read or nothing: edits of cells with one change of the column (cells),
\* two changes (settings), two people who see different rows (people), a
\* target that changes (targets, moves).
\* Names: two columns older than their keys and one more, three requests, the
\* view deleted and the data of the page given anew among them.
\* Views: three first catalogues, two views and two columns, four requests.
SPECIFICATION AllSpec
CONSTANTS
    Focuses = {"forms", "flows", "cells", "settings", "people", "targets", "moves", "names", "views"}
    Requests = {r1, r2}
    Colleagues = {u1, u2}
    People = {u1, u2}
    Visitor = Visitor
    Calls = {r1, r2}
    Keys = {1}
    Payloads = {p, q}
    Fields = {x, y}
    Answers <- SomeAnswers
    FlowWrites = {y}
    MaxKeys = 2
    MaxLocks = 1
    Executions = {e1}
    Title = Title
    FlowValues = {"", "ana", "Ana"}
    Values = {"", "ana", "Ana"}
    Empty = ""
    Mailbox <- Box
    NoMail = NoMail
    Contacts = {ana}
    Address <- AnaIs
    Kinds <- Typed
    Filled <- Replied
    Nodes <- Sends
    Drafts <- Offered
    MaxNodes = 9
    MaxSaves = 1
    MaxChanges = 1
    Pages = {a1, a2, b1}
    Databases = {A, B}
    Home <- Rowed
    Properties = {plain, shownAtTarget}
    Given <- Begun
    Editors = {ana, bia}
    Sees <- Readers
    Configurations <- Asked
    Edits = {r1, r2}
    Absent = Absent
    LabelNames = {upper, lower, other}
    Simple <- Simplified
    MaxColumns = 3
    MaxEdits = 3
    OlderColumns <- Older
    Renamings = {r1, r2}
    ViewIds = {v1, v2}
    Shown = {c1, c2}
    Showing = {r1, r2}
    Snapshots <- FirstViews
    MaxViewEdits = 4
    p = p
    q = q
    x = x
    y = y
    a1 = a1
    a2 = a2
    b1 = b1
    A = A
    B = B
    plain = plain
    ana = ana
    bia = bia
    upper = upper
    lower = lower
    other = other
    v1 = v1
    c1 = c1
SYMMETRY Interchangeable
INVARIANTS
    FormsInv
    FlowsInv
    RelationsInv
    KeysInv
    ViewsInv
PROPERTIES
    ClosedFormsAdmitNoVisitor
    LinksOutliveRenames
    OrderIsLeftAlone
    OrderIsWhole
    FiltersNameColumns
CHECK_DEADLOCK FALSE
