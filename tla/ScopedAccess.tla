----------------------------- MODULE ScopedAccess -----------------------------
(***************************************************************************)
(* Who may do what in an organization, in one of its workspaces and in the *)
(* tree of pages below it (scoped-access-repository.ts), and the changes   *)
(* of roles and members that are authorized by it (role-repository.ts,     *)
(* membership-request-repository.ts, organization-repository.ts).          *)
(*                                                                         *)
(* Each change is one statement, or one transaction, that asks for the     *)
(* rights of its actor itself; what a controller asked before is repeated  *)
(* there, so a change is one step.  The page every new member of a         *)
(* workspace gets, names, and the e-mails to approvers are left out;       *)
(* invites are in AccessInvites.                                           *)
(***************************************************************************)
EXTENDS Integers, FiniteSets

CONSTANTS
    Persons,
    Organization, Workspace,
    Pages,
    ParentPage,     \* by page: its parent, or Absent
    RootPages,      \* the page_root_id of the members of the workspace
    Owner,          \* by scope: owner_id, created_by_user_id
    RoleIds, Default,
    Offered,        \* by kind of scope: what a role may be given
    Founding,       \* the roles, members and requests there are at first
    MaxActs,        \* bound: changes
    Absent, Gone    \* no row; a row with deleted_at

AccessScopes == {Organization, Workspace} \cup Pages

Kind(x) == CASE x = Organization -> "organization" [] x = Workspace -> "workspace" [] OTHER -> "page"

ReadActions == [organization |-> {"view", "workspaces", "members", "roles"},
                workspace    |-> {"view", "members", "roles"},
                page         |-> {"view", "subpages", "members", "roles"}]

Members == {"add_members", "remove_members", "promote_members"}

WriteActions ==
    [organization |-> Members \cup {"update", "create", "create_org_roles", "manage_workspaces"},
     workspace    |-> Members \cup {"update", "create", "create_wk_roles", "manage_pages"},
     page         |-> Members \cup {"update", "create", "edit_subpages", "delete",
                                    "create_page_roles", "lock_columns"}]

Catalog(x) == ReadActions[Kind(x)] \cup WriteActions[Kind(x)]

Permissions == UNION {Catalog(x) : x \in AccessScopes}

RoleManagement ==
    [organization |-> "create_org_roles", workspace |-> "create_wk_roles", page |-> "create_page_roles"]

\* parsePermissions: what a role given by a client must hold together.
WellFormed(set) ==
    /\ set # {} => "view" \in set
    /\ "edit_subpages" \in set => {"update", "subpages"} \subseteq set
    /\ "lock_columns" \in set => "update" \in set

ASSUME ScopedAccessAssumption ==
    /\ ParentPage \in [Pages -> Pages \cup {Absent}] /\ RootPages \subseteq Pages
    /\ \E depth \in [Pages -> 0 .. Cardinality(Pages)] : \A p \in Pages :
          ParentPage[p] # Absent => depth[ParentPage[p]] < depth[p]
    /\ Owner \in [AccessScopes -> Persons] /\ Default \in RoleIds
    /\ Organization \notin Pages /\ Workspace \notin Pages /\ Organization # Workspace
    /\ \A x \in AccessScopes : \A set \in Offered[Kind(x)] :
          set \notin {Absent, Gone} /\ set \subseteq Catalog(x) /\ WellFormed(set)
    /\ Founding.given \in [AccessScopes -> [RoleIds -> {Absent, Gone} \cup SUBSET Permissions]]
    /\ Founding.member \in [AccessScopes -> [Persons -> {Absent} \cup RoleIds]]
    /\ \A x \in AccessScopes, u \in Persons :
          Founding.member[x][u] # Absent => Founding.given[x][Founding.member[x][u]] \notin {Absent, Gone}
    /\ \A x \in AccessScopes, r \in RoleIds :
          Founding.given[x][r] \notin {Absent, Gone} => Founding.given[x][r] \subseteq Catalog(x)
    /\ Founding.asked \in [AccessScopes -> [Persons -> {"none", "pending"}]]
    /\ MaxActs \in Nat
    /\ {Absent, Gone} \cap (RoleIds \cup Persons \cup AccessScopes) = {} /\ Absent # Gone

VARIABLES
    given,          \* *_roles: by scope and role, what it allows
    membership,     \* by scope and person: the role of the membership, or Absent
    linked,         \* whether the workspace is the organization's
    deleted,        \* pages with deleted_at
    asked,          \* *_pending_requests: by scope and person, the last one
    last,           \* who made the last change, where, and of what
    acts            \* how many there were

accessVars == <<given, membership, linked, deleted, asked, last, acts>>

Quietly == [by |-> Absent, at |-> Absent, what |-> "nothing", of |-> Absent]

-----------------------------------------------------------------------------
(* Rights.                                                                  *)

Live(x)        == {r \in RoleIds : given[x][r] \notin {Absent, Gone}}
IsMember(x, u) == membership[x][u] # Absent
Held(x, u)     == IF IsMember(x, u) /\ membership[x][u] \in Live(x) THEN given[x][membership[x][u]] ELSE {}

\* A role without "view" allows nothing.
Granted(x, u) == IF "view" \in Held(x, u) THEN Held(x, u) ELSE {}

WorkspaceOwner(u) == u = Owner[Workspace] \/ (linked /\ u = Owner[Organization])
Manages(u)        == linked /\ "manage_workspaces" \in Granted(Organization, u)
ManagesPages(u)   == "manage_pages" \in Granted(Workspace, u)

\* A page and its ancestors, up to a deleted one; with a person, up to the
\* first where that person collaborates.
Branch(page) ==
    LET up[p \in Pages] == IF p \in deleted THEN {}
                           ELSE {p} \cup IF ParentPage[p] = Absent THEN {} ELSE up[ParentPage[p]]
    IN up[page]

SharedBranch(page, u) ==
    LET up[p \in Pages] == IF p \in deleted THEN {}
                           ELSE {p} \cup IF ParentPage[p] = Absent \/ IsMember(p, u) THEN {}
                                         ELSE up[ParentPage[p]]
    IN up[page]

\* What a role on page m allows on a page below it.
Inherited(m, u) ==
    {a \in Granted(m, u) :
        /\ "subpages" \in Granted(m, u)
        /\ \/ a \in ReadActions.page
           \/ a \in {"update", "create", "edit_subpages", "lock_columns"}
              /\ "edit_subpages" \in Granted(m, u)}

PageRights(p, u) ==
    CASE p \in deleted -> {}
      [] \/ \E q \in Branch(p) : Owner[q] = u
         \/ Branch(p) \cap RootPages # {} /\ (WorkspaceOwner(u) \/ Manages(u) \/ ManagesPages(u))
         -> Catalog(p)
      [] OTHER ->
         Granted(p, u) \cup IF IsMember(p, u) THEN {}
                            ELSE UNION {Inherited(m, u) : m \in SharedBranch(p, u) \ {p}}

Rights(x, u) ==
    CASE x = Organization -> IF Owner[x] = u THEN Catalog(x) ELSE Granted(x, u)
      [] x = Workspace    -> IF WorkspaceOwner(u) \/ Manages(u) THEN Catalog(x) ELSE Granted(x, u)
      [] OTHER            -> PageRights(x, u)

\* The kind 'owner' of accessGuard, which roles do not reach.
Owns(x, u) ==
    CASE x = Organization -> Owner[x] = u
      [] x = Workspace    -> WorkspaceOwner(u)
      [] OTHER            -> \/ \E q \in Branch(x) : Owner[q] = u
                             \/ Branch(x) \cap RootPages # {} /\ WorkspaceOwner(u)

\* Nobody hands out, or takes away, what they may not do themselves.
MayDelegate(x, u, set) == set \subseteq Rights(x, u)

-----------------------------------------------------------------------------
AccessInit ==
    /\ given = Founding.given /\ membership = Founding.member /\ asked = Founding.asked
    /\ linked = FALSE /\ deleted = {}
    /\ last = Quietly /\ acts = 0

Act(u, x, what, v) ==
    /\ acts < MaxActs /\ acts' = acts + 1
    /\ last' = [by |-> u, at |-> x, what |-> what, of |-> v]

-----------------------------------------------------------------------------
(* Roles.                                                                   *)

CreateRole(u, x, r, set) ==
    /\ given[x][r] = Absent
    /\ RoleManagement[Kind(x)] \in Rights(x, u) /\ MayDelegate(x, u, set)
    /\ given' = [given EXCEPT ![x][r] = set]
    /\ Act(u, x, "role", Absent)
    /\ UNCHANGED <<membership, linked, deleted, asked>>

\* One that was changed since its editor read it is refused.
SaveRole(u, x, r, set) ==
    /\ r \in Live(x)
    /\ RoleManagement[Kind(x)] \in Rights(x, u)
    /\ MayDelegate(x, u, set) /\ MayDelegate(x, u, given[x][r])
    /\ given' = [given EXCEPT ![x][r] = set]
    /\ Act(u, x, "role", Absent)
    /\ UNCHANGED <<membership, linked, deleted, asked>>

DeleteRoleInUse(u, x, r) ==                                             \* mutant
    /\ r \in Live(x) \ {Default}
    /\ RoleManagement[Kind(x)] \in Rights(x, u) /\ MayDelegate(x, u, given[x][r])
    /\ given' = [given EXCEPT ![x][r] = Gone]
    /\ Act(u, x, "role", Absent)
    /\ UNCHANGED <<membership, linked, deleted, asked>>
DeleteRole(u, x, r) ==
    /\ r \in Live(x) \ {Default}
    /\ RoleManagement[Kind(x)] \in Rights(x, u) /\ MayDelegate(x, u, given[x][r])
    /\ \A v \in Persons : membership[x][v] # r
    /\ given' = [given EXCEPT ![x][r] = Gone]
    /\ Act(u, x, "role", Absent)
    /\ UNCHANGED <<membership, linked, deleted, asked>>

-----------------------------------------------------------------------------
(* Members.                                                                 *)

AssignRole(u, x, v, r) ==
    /\ IsMember(x, v) /\ ~Owns(x, v) /\ r \in Live(x)
    /\ "promote_members" \in Rights(x, u)
    /\ MayDelegate(x, u, given[x][r]) /\ MayDelegate(x, u, Held(x, v))
    /\ membership' = [membership EXCEPT ![x][v] = r]
    /\ Act(u, x, "member", v)
    /\ UNCHANGED <<given, linked, deleted, asked>>

DismissMember(u, x, v) ==
    /\ IsMember(x, v) /\ ~Owns(x, v)
    /\ "remove_members" \in Rights(x, u) /\ MayDelegate(x, u, Held(x, v))
    /\ membership' = [membership EXCEPT ![x][v] = Absent]
    /\ Act(u, x, "removal", v)
    /\ UNCHANGED <<given, linked, deleted, asked>>

\* Anyone may ask, once at a time.
Ask(x, v) ==
    /\ x \notin deleted /\ ~IsMember(x, v) /\ asked[x][v] # "pending"
    /\ asked' = [asked EXCEPT ![x][v] = "pending"]
    /\ Act(v, x, "request", v)
    /\ UNCHANGED <<given, membership, linked, deleted>>

Reject(u, x, v) ==
    /\ asked[x][v] = "pending" /\ "add_members" \in Rights(x, u)
    /\ asked' = [asked EXCEPT ![x][v] = "rejected"]
    /\ Act(u, x, "request", v)
    /\ UNCHANGED <<given, membership, linked, deleted>>

\* The membership and the decision are one transaction.
AcceptWithAnyRole(u, x, v, r) ==                                        \* mutant
    /\ asked[x][v] = "pending" /\ "add_members" \in Rights(x, u)
    /\ ~IsMember(x, v) /\ r \in Live(x)
    /\ membership' = [membership EXCEPT ![x][v] = r]
    /\ asked' = [asked EXCEPT ![x][v] = "accepted"]
    /\ Act(u, x, "member", v)
    /\ UNCHANGED <<given, linked, deleted>>
Accept(u, x, v, r) ==
    /\ asked[x][v] = "pending" /\ "add_members" \in Rights(x, u)
    /\ ~IsMember(x, v)
    /\ r \in Live(x) /\ MayDelegate(x, u, given[x][r])
    /\ membership' = [membership EXCEPT ![x][v] = r]
    /\ asked' = [asked EXCEPT ![x][v] = "accepted"]
    /\ Act(u, x, "member", v)
    /\ UNCHANGED <<given, linked, deleted>>

-----------------------------------------------------------------------------
(* The scopes themselves.                                                   *)

\* Only the owner of a workspace cedes it, to an organization where they may
\* create workspaces.
LinkWorkspace(u) ==
    /\ ~linked
    /\ "create" \in Rights(Organization, u) /\ Owns(Workspace, u)
    /\ linked' = TRUE
    /\ Act(u, Workspace, "link", Absent)
    /\ UNCHANGED <<given, membership, deleted, asked>>

\* Soft, and of the page alone.  Who may is asked by a middleware, before.
RemovePage(u, p) ==
    /\ p \notin deleted /\ "delete" \in Rights(p, u)
    /\ deleted' = deleted \cup {p}
    /\ Act(u, p, "deletion", Absent)
    /\ UNCHANGED <<given, membership, linked, asked>>

AccessNext ==
    \E u \in Persons :
        \/ LinkWorkspace(u)
        \/ \E p \in Pages : RemovePage(u, p)
        \/ \E x \in AccessScopes :
              \/ Ask(x, u)
              \/ \E r \in RoleIds :
                    \/ DeleteRole(u, x, r)
                    \/ \E set \in Offered[Kind(x)] : CreateRole(u, x, r, set) \/ SaveRole(u, x, r, set)
                    \/ \E v \in Persons : AssignRole(u, x, v, r) \/ Accept(u, x, v, r)
              \/ \E v \in Persons : DismissMember(u, x, v) \/ Reject(u, x, v)

AccessSpec == AccessInit /\ [][AccessNext]_accessVars

-----------------------------------------------------------------------------
(* Properties.                                                              *)

\* Roles allow what there is to allow, and memberships name roles.
AccessTypeOK ==
    /\ given \in [AccessScopes -> [RoleIds -> {Absent, Gone} \cup SUBSET Permissions]]
    /\ \A x \in AccessScopes : \A r \in Live(x) : given[x][r] \subseteq Catalog(x)
    /\ membership \in [AccessScopes -> [Persons -> {Absent} \cup RoleIds]]
    /\ linked \in BOOLEAN /\ deleted \subseteq Pages
    /\ asked \in [AccessScopes -> [Persons -> {"none", "pending", "accepted", "rejected"}]]

\* Whoever is a member has a role that is still there, however removals of
\* roles, promotions and decisions follow each other.
MembersHaveRoles ==
    \A x \in AccessScopes, u \in Persons : IsMember(x, u) => membership[x][u] \in Live(x)

\* The page nearest to p, p first, where u collaborates.
Nearest(p, u) ==
    {q \in Branch(p) : /\ IsMember(q, u)
                       /\ \A m \in Branch(p) : IsMember(m, u) => m \in {q} \cup Branch(q)}

\* Of all the pages above where somebody collaborates the nearest decides, also
\* when a farther one allows more; and below it nobody adds or removes members,
\* or deletes, by a role that was given on a page above.
NearestRoleRules ==
    \A p \in Pages \ deleted, u \in Persons :
        LET near == Nearest(p, u) IN
        PageRights(p, u) # Catalog(p) =>
            /\ \A q \in near : PageRights(p, u) \subseteq Granted(q, u)
            /\ near = {} => PageRights(p, u) = {}
            /\ p \notin near => PageRights(p, u) \cap (Members \cup {"delete"}) = {}

\* What every reachable state of roles and members satisfies.
AccessInv == AccessTypeOK /\ MembersHaveRoles /\ NearestRoleRules

\* Whoever gains a right somewhere by a change gains what the author of the
\* change had there, in the scope of the change and in all below it.  Two
\* exceptions: who is removed from a page falls back on the pages above; and
\* an author with a lesser role on a page between may let others past it.
NoEscalation ==
    [][acts' # acts => \A x \in AccessScopes, u \in Persons :
          \/ Rights(x, u)' \subseteq Rights(x, u) \cup Rights(x, last'.by)
          \/ last'.what = "removal" /\ last'.of = u
          \/ x \in Pages /\ last'.at \in Pages \ {x}
             /\ \E q \in Branch(x) : IsMember(q, last'.by) /\ last'.at \in Branch(q) \ {q}
      ]_accessVars
==============================================================================
