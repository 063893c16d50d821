------------------------------- MODULE Records -------------------------------
(***************************************************************************)
(* The rows of the database and the transactions that insert them: what    *)
(* each flow of the application writes together, in which order, under     *)
(* which condition of each statement, and what the references and the      *)
(* unique indexes of the tables (Tables) say to it.                        *)
(*                                                                         *)
(* A controller reads before its transaction what the transaction refers   *)
(* to.  As every row but a few is only ever marked deleted, what it read   *)
(* may have been deleted since, and a transaction refers here to any row,  *)
(* deleted or not, unless its own statements ask.  Rights are in           *)
(* ScopedAccess, the roles and counts of an invite in AccessInvites, and   *)
(* what the columns hold besides references is left out.                   *)
(***************************************************************************)
EXTENDS Tables, Integers, Sequences, FiniteSets
Ext == INSTANCE SequencesExt

CONSTANTS
    Emails,         \* numbers for users.email; the first two are accounts at first
    Views,          \* numbers for the view_id of a publication or a rank
    RequestIds,     \* numbers for clientRequestId and for the key of a reminder
    MaxBatches      \* bound: transactions

ASSUME RecordsAssumption ==
    /\ {1, 2} \subseteq Emails /\ Emails \subseteq Nat
    /\ Views \subseteq Nat \ {0} /\ RequestIds \subseteq Nat \ {0} /\ MaxBatches \in Nat \ {0}

Null       == 0
DefaultKey == -1    \* system_key 'default'
GuestKey   == -2    \* system_key 'workspace_guest'
Room       == 10    \* ids a transaction may take

VARIABLES
    stored,         \* the rows
    batches,        \* how many transactions there were
    broken          \* whether a foreign key refused one

recordsVars == <<stored, batches, broken>>

-----------------------------------------------------------------------------
(* Rows and statements.                                                     *)

Col(row, c) == IF c \in DOMAIN row.val THEN row.val[c] ELSE Null
Is(row, table, id) == row.table = table /\ row.id = id

Names(row, ref, target) ==
    /\ Is(target, ref.table, Col(row, ref.column))
    /\ ref.scope # "" => Col(target, ref.scope) = Col(row, ref.scope)

Dangling(rows, row) ==
    \E ref \in Schema[row.table].refers :
        /\ ref.required \/ Col(row, ref.column) # Null
        /\ ~\E target \in rows : Names(row, ref, target)

\* The rows a unique index holds against row; NULL is equal to nothing.
Clashing(rows, row) ==
    {r \in rows : r.table = row.table /\
        \E unique \in Schema[row.table].unique :
            /\ unique.flags \subseteq r.flags \cap row.flags
            /\ \A c \in unique.columns : Col(r, c) = Col(row, c) /\ Col(row, c) # Null}

Cascaded(rows, gone) ==
    {r \in rows : \E ref \in Schema[r.table].refers : ref.cascade /\ Names(r, ref, gone)}

Entry(table, id, val, flags) == [table |-> table, id |-> id, val |-> val, flags |-> flags]
Statement(do, row) == [do |-> do, row |-> row, needs |-> {}, checked |-> FALSE]

Put(table, id, val) == Statement("insert", Entry(table, id, val, {"live"}))
As(flags, s)        == [s EXCEPT !.row.flags = @ \cup flags]
OrIgnore(s)         == [s EXCEPT !.do = "ignore"]
OrUpdate(s)         == [s EXCEPT !.do = "update"]
If(needs, s)        == [s EXCEPT !.needs = @ \cup needs]
Mark(table, id, val, flags) == Statement("mark", Entry(table, id, val, flags))
Delete(table, id)           == Statement("delete", Entry(table, id, <<>>, {}))

\* The columns of new, and those of old that new does not have.
Over(new, old) ==
    [c \in DOMAIN new \cup DOMAIN old |-> IF c \in DOMAIN new THEN new[c] ELSE old[c]]

\* What a condition of a statement asks for: a row, or one with some flags.
Has(table, id)       == <<table, id, {}>>
Alive(table, id)     == <<table, id, {"live"}>>
Marked(table, id, f) == <<table, id, {f}>>

\* executeMutation, executeMutationAndRead, checkedOrderWrite: after each
\* write, a row that cannot be inserted unless the write changed something.
Checked(batch) == [i \in DOMAIN batch |-> [batch[i] EXCEPT !.checked = TRUE]]

-----------------------------------------------------------------------------
(* Transactions: all of the statements, or none.                            *)

Holding(rows)   == [rows |-> rows, aborted |-> FALSE, broken |-> FALSE]
Abort(out, why) == [rows |-> out.rows, aborted |-> TRUE, broken |-> why]
Skip(out, s)    == IF s.checked THEN Abort(out, FALSE) ELSE out

Merged(row, s)  == Entry(row.table, row.id, Over(s.row.val, row.val), s.row.flags)
Removed(row)    == Entry(row.table, row.id, row.val, row.flags \ {"live"})
Replaced(out, old, new) == Holding((out.rows \ {old}) \cup {new})

Inserted(out, s, clash) ==
    IF clash = {} THEN IF Dangling(out.rows, s.row) THEN Abort(out, TRUE) ELSE Holding(out.rows \cup {s.row})
    ELSE CASE s.do = "update" -> LET old == CHOOSE r \in clash : TRUE IN Replaced(out, old, Merged(old, s))
           [] s.do = "ignore" -> Skip(out, s)
           [] s.do = "insert" -> Abort(out, FALSE)

\* A table with deleted_at keeps what is deleted.
Without(out, left) == IF \E r \in left : Dangling(left, r) THEN Abort(out, TRUE) ELSE Holding(left)

Changed(out, s, old) ==
    IF s.do = "mark" THEN Replaced(out, old, Merged(old, s))
    ELSE IF Schema[old.table].soft THEN Replaced(out, old, Removed(old))
    ELSE Without(out, (out.rows \ {old}) \ Cascaded(out.rows, old))

Met(rows, needs) == \A n \in needs : \E r \in rows : Is(r, n[1], n[2]) /\ n[3] \subseteq r.flags

Perform(out, s) ==
    LET hit == {r \in out.rows : Is(r, s.row.table, s.row.id)}
    IN IF out.aborted THEN out
       ELSE IF ~Met(out.rows, s.needs) THEN Skip(out, s)
       ELSE IF s.do \in {"insert", "ignore", "update"} THEN Inserted(out, s, Clashing(out.rows, s.row))
       ELSE IF hit = {} \/ (s.do = "delete" /\ \A r \in hit : "live" \notin r.flags) THEN Skip(out, s)
       ELSE Changed(out, s, CHOOSE r \in hit : TRUE)

Continue(out, batch) ==
    LET after[i \in 0..Len(batch)] == IF i = 0 THEN out ELSE Perform(after[i - 1], batch[i])
    IN after[Len(batch)]

\* A transaction that aborts leaves nothing.
Ended(rows, out) ==
    [rows |-> IF out.aborted THEN rows ELSE out.rows, aborted |-> out.aborted, broken |-> out.broken]

Run(rows, batch) == Ended(rows, Continue(Holding(rows), batch))

Execute(batch) ==
    /\ batches < MaxBatches /\ batches' = batches + 1
    /\ \E out \in {Run(stored, batch)} :
          /\ out.aborted => out.broken
          /\ stored' = out.rows
          /\ broken' = (broken \/ out.broken)

Id(k) == batches * Room + k

-----------------------------------------------------------------------------
(* What there is.                                                           *)

RowsOf(table) == {r \in stored : r.table = table}
LiveOf(table) == {r \in RowsOf(table) : "live" \in r.flags}
IdsOf(table)  == {r.id : r \in RowsOf(table)}
Accounts      == {u.id : u \in {r \in RowsOf("users") : "verified" \in r.flags}}
Verified(u)   == Marked("users", u, "verified")
EdgesTo(p)    == {e \in RowsOf("page_edges") : e.val.child_id = p}
LivePage(p)   == \E r \in LiveOf("pages") : r.id = p

ScopeKinds == {"organization", "workspace", "page"}
ScopeTable    == [organization |-> "organizations", workspace |-> "workspaces", page |-> "pages"]
RoleTable     == [organization |-> "organization_roles", workspace |-> "workspace_roles", page |-> "page_roles"]
MemberTable   == [organization |-> "organization_members", workspace |-> "workspace_members",
                  page |-> "page_collaborators"]
RequestTable  == [organization |-> "organization_pending_requests", workspace |-> "workspace_pending_requests",
                  page |-> "page_pending_requests"]
ScopeColumn   == [organization |-> "organization_id", workspace |-> "workspace_id", page |-> "page_id"]
MemberRole    == [organization |-> "organization_member_role_id", workspace |-> "workspace_member_role_id",
                  page |-> "page_member_role_id"]

IsMemberOf(s, x, u) == \E m \in LiveOf(MemberTable[s]) : Col(m, ScopeColumn[s]) = x /\ m.val.user_id = u

-----------------------------------------------------------------------------
(* The parts several transactions have in common.                           *)

Of(s, x, val) == Over([c \in {ScopeColumn[s]} |-> x], val)

DefaultRole(s, x, id, needs) ==
    As({"default"}, OrIgnore(If(needs, Put(RoleTable[s], id, Of(s, x, [system_key |-> DefaultKey])))))

KeyedRole(s, x, id, key) == OrIgnore(Put(RoleTable[s], id, Of(s, x, [system_key |-> key])))

Member(s, x, u, role, id) ==
    Put(MemberTable[s], id, Of(s, x, Over([c \in {MemberRole[s]} |-> role], [user_id |-> u])))

\* Whoever enters a workspace gets a page of their own in it.
Entering(s, x, u, role, id) ==
    IF s # "workspace" THEN <<Member(s, x, u, role, id)>>
    ELSE <<Put("pages", id, [owner_id |-> u]),
           Put("workspace_members", id,
               [workspace_id |-> x, user_id |-> u, workspace_member_role_id |-> role, page_root_id |-> id])>>

\* A row of a database: its page, its role, and the edge while the parent is
\* there; with manual order, its rank.
ChildPageEdgeFirst(p, u, id, needs, ranks) ==                           \* mutant
    <<Put("page_edges", id, [parent_id |-> p, child_id |-> id]),
      If(needs, Put("pages", id, [owner_id |-> u])),
      DefaultRole("page", id, id, {})>>
    \o [i \in 1..Len(ranks) |-> OrUpdate(Put("page_view_row_order", id + i,
                                        [edge_id |-> id, view_id |-> ranks[i]]))]
ChildPage(p, u, id, needs, ranks) ==
    <<If(needs, Put("pages", id, [owner_id |-> u])),
      DefaultRole("page", id, id, {}),
      If({Alive("pages", p)}, Put("page_edges", id, [parent_id |-> p, child_id |-> id]))>>
    \o [i \in 1..Len(ranks) |-> If({Has("page_edges", id)},
            OrUpdate(Put("page_view_row_order", id + i, [edge_id |-> id, view_id |-> ranks[i]])))]

\* pageActivityTouchStatement, which changes the page or its parent.
Touchable(p) == LivePage(p) \/ \E e \in EdgesTo(p) : LivePage(e.val.parent_id)

Registration(rows, n, e) ==
    LET known == {r \in rows : r.table = "users" /\ r.val.email = e}
        u     == IF known = {} THEN n + 1 ELSE (CHOOSE r \in known : TRUE).id
        open  == {r \in rows : r.table = "account_verifications" /\ r.val.user_id = u
                               /\ {"live", "pending"} \subseteq r.flags}
    IN (IF known = {} THEN <<Put("users", u, [email |-> e])>> ELSE <<>>)
       \o Ext!SetToSeq({Mark("account_verifications", r.id, <<>>, {"pending"}) : r \in open})
       \o <<As({"pending"}, Put("account_verifications", n + 2, [user_id |-> u, token_hash |-> n + 2]))>>

\* The workspace and its first page have one id.
Activation(n, v) ==
    LET u == v.val.user_id IN
    <<If({<<"account_verifications", v.id, {"live", "pending"}>>}, Mark("users", u, <<>>, {"live", "verified"})),
      If({Verified(u)}, Put("workspaces", n + 1, [created_by_user_id |-> u])),
      If({Has("workspaces", n + 1)}, Put("pages", n + 1, [owner_id |-> u])),
      DefaultRole("workspace", n + 1, n + 2, {Has("workspaces", n + 1)}),
      DefaultRole("page", n + 1, n + 3, {Has("pages", n + 1)}),
      If({Has("workspaces", n + 1)}, Put("workspace_members", n + 4,
            [workspace_id |-> n + 1, user_id |-> u, workspace_member_role_id |-> n + 2, page_root_id |-> n + 1])),
      If({Verified(u)}, Mark("account_verifications", v.id, <<>>, {"live"}))>>

\* The first column of a database.
Column(p, id) == <<If({Has("pages", p)}, Put("page_columns", id, [parent_id |-> p]))>>

\* Two accounts, and in the first a database of one column and one row.
Founded ==
    LET one   == Run({}, Registration({}, -100, 1)).rows
        two   == Run(one, Registration(one, -90, 2)).rows
        three == Run(two, Activation(-80, [id |-> -98, val |-> [user_id |-> -99]])).rows
        four  == Run(three, Activation(-70, [id |-> -88, val |-> [user_id |-> -89]])).rows
        five  == Run(four, ChildPage(-79, -99, -60, {}, <<>>)).rows
    IN Run(five, Column(-79, -50)).rows

RecordsInit == stored = Founded /\ batches = 1 /\ broken = FALSE

-----------------------------------------------------------------------------
(* Accounts, organizations and workspaces.                                  *)

Register(e) ==
    /\ \A u \in RowsOf("users") : u.val.email = e => u.id \notin Accounts
    /\ Execute(Registration(stored, Id(0), e))

Activate == \E v \in LiveOf("account_verifications") : Execute(Activation(Id(0), v))

CreateOrganization(u) ==
    LET o == Id(1) IN
    Execute(<<If({Verified(u)}, Put("organizations", o, [owner_id |-> u])),
              DefaultRole("organization", o, Id(2), {Has("organizations", o)}),
              If({Has("organizations", o)}, KeyedRole("organization", o, Id(3), GuestKey)),
              If({Has("organizations", o)}, Member("organization", o, u, Id(2), Id(4)))>>)

CreateWorkspace(o, u) ==
    LET w == Id(1)
        created == {Has("workspaces", w)} IN
    Execute(<<Put("workspaces", w, [organization_id |-> o, created_by_user_id |-> u]),
              If(created, Put("pages", w, [owner_id |-> u])),
              DefaultRole("workspace", w, Id(2), created),
              DefaultRole("page", w, Id(3), created),
              If(created, Put("workspace_members", Id(4),
                    [workspace_id |-> w, user_id |-> u, page_root_id |-> w]))>>)

\* A request that is pending already stays the only one.
AskToEnter(s, x, u) ==
    /\ ~IsMemberOf(s, x, u)
    /\ Execute(<<If({IF s = "page" THEN Alive("pages", x) ELSE Has(ScopeTable[s], x)},
                   As({"pending"}, OrIgnore(Put(RequestTable[s], Id(1),
                        Of(s, x, [requester_id |-> u])))))>>)

AdmitRequester(s, request, role, by) ==
    LET x == request.val[ScopeColumn[s]]
        u == request.val.requester_id IN
    /\ "pending" \in request.flags
    /\ ~IsMemberOf(s, x, u)
    /\ role.val[ScopeColumn[s]] = x
    /\ Execute(Entering(s, x, u, role.id, Id(1)) \o
               <<Mark(RequestTable[s], request.id,
                      [accepted_by |-> by, decided_by |-> by, role_id |-> role.id], {"live"})>>)

\* The invite takes a copy of the role it was made with.
Invite(s, role, u) ==
    LET x == role.val[ScopeColumn[s]] IN
    Execute((IF s = "organization" THEN <<>> ELSE <<KeyedRole(s, x, Id(2), Id(1))>>) \o
            <<As({"pending"}, Put("access_invites", Id(1),
                  [author_id |-> u, token_hash |-> Id(1), scope |-> s, scope_id |-> x,
                   role_id |-> IF s = "organization" THEN role.id ELSE Id(2)]))>>)

\* The pages above p, and the workspace one of them is the root of.
PagesAbove(p) ==
    LET deep == Cardinality(RowsOf("page_edges"))
        up[d \in 0..deep] ==
            IF d = 0 THEN {p}
            ELSE LET s == up[d - 1]
                 IN s \cup {e.val.parent_id : e \in {f \in RowsOf("page_edges") : f.val.child_id \in s}}
    IN up[deep]

WorkspaceOf(s, x) ==
    CASE s = "workspace"    -> {x}
      [] s = "organization" -> {}
      [] OTHER -> {m.val.workspace_id : m \in {r \in LiveOf("workspace_members") : r.val.page_root_id \in PagesAbove(x)}}

OrganizationOf(w) == {Col(r, "organization_id") : r \in {s \in RowsOf("workspaces") : s.id = w}} \ {Null}

\* Where the scope lies an invite lets in too, by a role of its own there;
\* these roles are ensured just before, and are the only part that is not in
\* the transaction.
AcceptInvite(i, u, w) ==
    LET s == i.val.scope
        x == i.val.scope_id
        o == IF w = Null THEN {} ELSE OrganizationOf(w)
        into(kind, id, role, k) == IF IsMemberOf(kind, id, u) THEN <<>> ELSE Entering(kind, id, u, role, k)
        roleIn(kind, id, fresh) ==
            LET there == {r \in LiveOf(RoleTable[kind]) : r.val[ScopeColumn[kind]] = id /\ Col(r, "system_key") = i.id}
            IN IF there = {} THEN fresh ELSE (CHOOSE r \in there : TRUE).id
    IN /\ "pending" \in i.flags /\ u \in Accounts
       /\ w \in IF WorkspaceOf(s, x) = {} THEN {Null} ELSE WorkspaceOf(s, x)
       /\ Execute(
            (IF w = Null THEN <<>> ELSE <<KeyedRole("workspace", w, Id(1), i.id)>>)
            \o (IF o = {} THEN <<>> ELSE
                  LET org == CHOOSE y \in o : TRUE IN
                  <<KeyedRole("organization", org, Id(2), i.id)>>
                  \o into("organization", org, roleIn("organization", org, Id(2)), Id(3)))
            \o (IF w = Null THEN <<>> ELSE into("workspace", w, roleIn("workspace", w, Id(1)), Id(4)))
            \o (IF s = "workspace" THEN <<>> ELSE into(s, x, i.val.role_id, Id(5)))
            \o <<Put("access_invite_acceptances", Id(6), [invite_id |-> i.id, user_id |-> u])>>)

Dismiss(s, m) == Execute(<<Delete(MemberTable[s], m.id)>>)

-----------------------------------------------------------------------------
(* Pages and databases.                                                     *)

CreatePage(u) ==
    Execute(Checked(<<Put("pages", Id(1), [owner_id |-> u]), DefaultRole("page", Id(1), Id(2), {})>>))

CreateChild(p, u, ranks) == Execute(Checked(ChildPage(p, u, Id(1), {}, ranks)))

DeletePage(p) == Execute(<<Delete("pages", p)>>)

CreateColumn(p) ==
    /\ Touchable(p)
    /\ Execute(<<Put("page_columns", Id(1), [parent_id |-> p])>>)

DeleteColumn(c) == Execute(<<Delete("page_columns", c)>>)

\* A number of its own for each page and column.
CellId(p, c) == p * (Room * (MaxBatches + 11)) + c.id
Cell(p, c)   == Put("page_columns_values", CellId(p, c), [page_id |-> p, page_column_id |-> c.id])

\* A cell is where a column of the parent crosses the page.  The triggers keep
\* a link for each target of the cell that is a page.
WriteCell(e, c, target) ==
    LET p     == e.val.child_id
        links == {l \in RowsOf("page_relation_links") : l.val.source_cell_id = CellId(p, c)}
    IN /\ c.val.parent_id = e.val.parent_id
       /\ Touchable(p)
       /\ Execute(<<OrUpdate(Cell(p, c))>>
                  \o Ext!SetToSeq({Delete("page_relation_links", l.id) : l \in links})
                  \o <<If({Has("pages", target)}, Put("page_relation_links", Id(2),
                            [source_cell_id |-> CellId(p, c), target_page_id |-> target]))>>)

ClearCell(v) ==
    /\ Touchable(v.val.page_id)
    /\ Execute(<<Delete("page_columns_values", v.id)>>)

RankRow(e, view) ==
    Execute(Checked(<<OrUpdate(Put("page_view_row_order", Id(1), [edge_id |-> e.id, view_id |-> view]))>>))

SaveDocument(p) ==
    Execute(<<If({Alive("pages", p)}, OrUpdate(Put("page_blocks", Id(1), [page_id |-> p])))>>)

AddFavorite(u, p) ==
    Execute(<<If({Alive("pages", p)}, OrIgnore(Put("page_favorites", Id(1), [user_id |-> u, page_id |-> p])))>>)

RemoveFavorite(f) == Execute(<<Delete("page_favorites", f.id)>>)

\* publish, or createDraft, on the row that is there.
PublishForm(p, view, u) ==
    Execute(<<OrUpdate(Put("page_form_publications", Id(1),
        [page_id |-> p, view_id |-> view, created_by_user_id |-> u,
         submit_token_hash |-> Id(1), review_token_hash |-> Id(1)]))>>)

\* The response, its cells and the row of the ledger.
SubmitForm(f, key, columns) ==
    Execute(Checked(
        ChildPage(f.val.page_id, f.val.created_by_user_id, Id(1), {Has("page_form_publications", f.id)}, <<>>)
        \o Ext!SetToSeq({Cell(Id(1), c) : c \in columns})
        \o <<Put("page_form_submissions", Id(1),
                 [publication_id |-> f.id, response_page_id |-> Id(1), client_request_id |-> key])>>))

-----------------------------------------------------------------------------
(* The agenda.                                                              *)

\* A date is a column of the database the page is a row of.
DateOf(e, c) == c.val.parent_id = e.val.parent_id

Pin(w, u, e, c) ==
    /\ DateOf(e, c)
    /\ Execute(<<OrUpdate(Put("pinned_schedule_pages", Id(1),
            [workspace_id |-> w, page_id |-> e.val.child_id, pinned_by_user_id |-> u,
             date_column_id |-> c.id]))>>)

Unpin(pin) == Execute(<<Delete("pinned_schedule_pages", pin.id)>>)

Notice(w, u, by, key, id) ==
    Put("notifications", id, [workspace_id |-> w, recipient_user_id |-> u, actor_user_id |-> by, dedupe_key |-> key])
Delivery(notice, id) ==
    Put("notification_deliveries", id, [notification_id |-> notice, channel |-> 1])

RequestPin(w, u, v, e, c) ==
    /\ u # v /\ DateOf(e, c)
    /\ Execute(<<If({Alive("pages", e.val.child_id), Alive("page_columns", c.id)},
                   As({"pending"}, OrIgnore(Put("schedule_pin_requests", Id(1),
                        [workspace_id |-> w, page_id |-> e.val.child_id, requested_by_user_id |-> u,
                         recipient_user_id |-> v, date_column_id |-> c.id])))),
                 If({Has("schedule_pin_requests", Id(1))}, Notice(w, v, u, Id(1), Id(1))),
                 If({Has("notifications", Id(1))}, Delivery(Id(1), Id(1)))>>)

DecidePin(request) ==
    Execute(<<If({<<"schedule_pin_requests", request.id, {"pending"}>>},
                 Mark("schedule_pin_requests", request.id, <<>>, {"live"}))>>)

\* A reminder is enqueued once for its key, with one delivery.
Enqueue(w, u, key) ==
    LET known  == {n \in RowsOf("notifications") : n.val.dedupe_key = -key}
        notice == IF known = {} THEN Id(1) ELSE (CHOOSE n \in known : TRUE).id
    IN Execute(<<OrIgnore(Notice(w, u, Null, -key, Id(1))),
                 If({Has("notifications", notice)}, OrIgnore(Delivery(notice, Id(1))))>>)

-----------------------------------------------------------------------------
OfPeople ==
    \/ \E e \in Emails : Register(e)
    \/ Activate
    \/ \E u \in Accounts :
          \/ CreateOrganization(u)
          \/ \E o \in IdsOf("organizations") : CreateWorkspace(o, u)
          \/ \E s \in ScopeKinds :
                \/ \E x \in IdsOf(ScopeTable[s]) : AskToEnter(s, x, u)
                \/ \E role \in LiveOf(RoleTable[s]) :
                      \/ Invite(s, role, u)
                      \/ \E request \in LiveOf(RequestTable[s]) : AdmitRequester(s, request, role, u)
          \/ \E i \in LiveOf("access_invites"), w \in IdsOf("workspaces") \cup {Null} : AcceptInvite(i, u, w)
    \/ \E s \in ScopeKinds : \E m \in LiveOf(MemberTable[s]) : Dismiss(s, m)

OfPages ==
    \/ \E u \in Accounts :
          \/ CreatePage(u)
          \/ \E p \in IdsOf("pages") :
                \/ AddFavorite(u, p)
                \/ \E ranks \in {<<>>} \cup {<<view>> : view \in Views} : CreateChild(p, u, ranks)
                \/ \E view \in Views : PublishForm(p, view, u)
    \/ \E p \in IdsOf("pages") : DeletePage(p) \/ CreateColumn(p) \/ SaveDocument(p)
    \/ \E c \in LiveOf("page_columns") :
          \/ DeleteColumn(c.id)
          \/ \E e \in RowsOf("page_edges"), target \in {Null} \cup IdsOf("pages") : WriteCell(e, c, target)
    \/ \E v \in RowsOf("page_columns_values") : ClearCell(v)
    \/ \E e \in RowsOf("page_edges"), view \in Views : RankRow(e, view)
    \/ \E f \in RowsOf("page_favorites") : RemoveFavorite(f)
    \/ \E f \in RowsOf("page_form_publications"), key \in RequestIds :
          \E columns \in {{}, {c \in LiveOf("page_columns") : c.val.parent_id = f.val.page_id}} :
              SubmitForm(f, key, columns)

OfAgenda ==
    \/ \E w \in IdsOf("workspaces"), u \in Accounts :
          \/ \E key \in RequestIds : Enqueue(w, u, key)
          \/ \E e \in RowsOf("page_edges"), c \in RowsOf("page_columns") :
                Pin(w, u, e, c) \/ \E v \in Accounts : RequestPin(w, u, v, e, c)
    \/ \E pin \in RowsOf("pinned_schedule_pages") : Unpin(pin)
    \/ \E request \in RowsOf("schedule_pin_requests") : DecidePin(request)

RecordsNext == OfPeople \/ OfPages \/ OfAgenda

RecordsSpec == RecordsInit /\ [][RecordsNext]_recordsVars

-----------------------------------------------------------------------------
(* Properties.                                                              *)

\* Rows are of the tables there are, with flags these have, and ids are theirs.
RecordsTypeOK ==
    /\ batches \in 1..MaxBatches /\ broken \in BOOLEAN
    /\ \A r \in stored : r.table \in DOMAIN Schema /\ r.flags \subseteq {"live", "pending", "default", "verified"}
    /\ \A r, s \in stored : r.table = s.table /\ r.id = s.id => r = s

\* No transaction is ever refused for naming a row that is not there, whatever
\* was deleted since its controller read: what is referred to is only marked,
\* and a batch inserts each row before the rows that name it.
NothingIsMissing == ~broken

\* What is written together is found together: a response has its place below
\* the database of its form, a member of a workspace a root page of their own,
\* an organization, a workspace and the row of a database a default role to
\* give, a request for a pin its notice with a delivery, and a cell stays where
\* a column of the parent crosses a page.
RowsAreWhole ==
    /\ \A f \in RowsOf("page_form_submissions") :
          \E e \in EdgesTo(f.val.response_page_id), form \in RowsOf("page_form_publications") :
              form.id = f.val.publication_id /\ e.val.parent_id = form.val.page_id
    /\ \A m \in RowsOf("workspace_members") :
          \E p \in RowsOf("pages") : p.id = m.val.page_root_id /\ p.val.owner_id = m.val.user_id
    /\ \A s \in {"organization", "workspace"} : \A x \in IdsOf(ScopeTable[s]) :
          \E r \in LiveOf(RoleTable[s]) : r.val[ScopeColumn[s]] = x /\ "default" \in r.flags
    /\ \A e \in RowsOf("page_edges") : \E r \in LiveOf("page_roles") : r.val.page_id = e.val.child_id
    /\ \A n \in RowsOf("schedule_pin_requests") :
          \E d \in RowsOf("notification_deliveries") : \E m \in RowsOf("notifications") :
              d.val.notification_id = m.id /\ m.val.dedupe_key = n.id
    /\ \A v \in RowsOf("page_columns_values") : \E e \in EdgesTo(v.val.page_id), c \in RowsOf("page_columns") :
          c.id = v.val.page_column_id /\ c.val.parent_id = e.val.parent_id

\* Pages form a forest: no page is above itself.
PagesFormAForest ==
    \A e \in RowsOf("page_edges") : e.val.child_id \notin PagesAbove(e.val.parent_id)

\* What every reachable state of the tables satisfies.
RecordsInv == RecordsTypeOK /\ NothingIsMissing /\ RowsAreWhole /\ PagesFormAForest
==============================================================================
