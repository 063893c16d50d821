---------------------------- MODULE AccessInvites ----------------------------
(***************************************************************************)
(* Invites to an organization, a workspace or a page, and the memberships  *)
(* and roles they meet (access-invite-repository.ts, invite-role-factory,  *)
(* invite-flow.ts, role-repository.ts, membership-request-repository.ts).  *)
(* An acceptance is a chain of awaited reads and transactions: it reads    *)
(* the invite, reads which scopes lie above, makes sure of its roles, and  *)
(* commits; administrators and other acceptances run between any two of    *)
(* its statements, and may move the scope under another one.               *)
(*                                                                         *)
(* A role is a template, or the role an invite made for itself in a scope, *)
(* which its key invite:<id> makes unique there: it is named by the invite.*)
(* One resource of each scope is modelled.                                 *)
(***************************************************************************)
EXTENDS Integers, FiniteSets

CONSTANTS
    Users,          \* accounts with a verified address
    Invites,        \* rows access_invites may come to hold
    Templates,      \* roles created by hand, without a system key
    Scopes,         \* the resources: an organization, a workspace, a page
    Sharing,        \* organizations: their invites grant the chosen role itself
    Linkable,       \* workspaces
    Place,          \* by scope: the one it lies within at first, or None
    Keeper,         \* by page: whose membership's root it lies under, or None
    Limits,         \* acceptance_limit of generic invites; NoLimit for none
    Acceptances,    \* acceptances in progress at the same time
    None, Anyone    \* no role, no user; an invite without a recipient

NoLimit == 0
Roles   == Templates \cup Invites
Pagelike == Scopes \ (Sharing \cup Linkable)

ASSUME InvitesAssumption ==
    /\ Scopes # {}
    /\ Sharing \subseteq Scopes /\ Linkable \subseteq Scopes \ Sharing
    /\ Place \in [Scopes -> Scopes \cup {None}]
    /\ \A o \in Sharing : Place[o] = None
    /\ \A w \in Linkable : Place[w] \in Sharing \cup {None}
    /\ \A p \in Pagelike : Place[p] \in Linkable \cup {None}
    /\ Keeper \in [Scopes -> Users \cup {None}]
    /\ Limits \subseteq Nat
    /\ IsFiniteSet(Users)
    /\ Templates # {} /\ Templates \cap Invites = {}
    /\ None \notin Roles \cup Users \cup Scopes
    /\ Anyone \notin Users

VARIABLES
    role,       \* <scope>_roles: by scope, the roles not soft-deleted
    member,     \* by scope and user: the role of the live membership, or None
    invite,     \* access_invites
    accepted,   \* access_invite_acceptances: pairs of invite and user
    within,     \* by scope: the one it lies within, or None.  A workspace lies
                \* within its organization_id, a page within the workspace whose
                \* live membership has its root above the page
    task        \* by acceptance: where acceptById is and what it holds

vars == <<role, member, invite, accepted, within, task>>

Limit == Limits \cup {NoLimit, 1}

Row == [status : {"none", "pending", "accepted", "expired"}, scope : Scopes,
        role : Roles \cup {None}, for : Users \cup {Anyone}, limit : Limit,
        count : Nat, timed : BOOLEAN, overdue : BOOLEAN, deleted : BOOLEAN]

\* moved is history, which no guard reads: another scope lies above now than
\* when the acceptance read them.
Task == [at : {"idle", "scopes", "role", "context", "commit"},
         invite : Invites \cup {None}, user : Users \cup {None},
         role : Roles \cup {None}, above : SUBSET Scopes, moved : BOOLEAN]

Idle == [at |-> "idle", invite |-> None, user |-> None, role |-> None,
         above |-> {}, moved |-> FALSE]

\* A row just inserted.
Sent(s, r, u, l, timed) ==
    [status |-> "pending", scope |-> s, role |-> r, for |-> u, limit |-> l,
     count |-> 0, timed |-> timed, overdue |-> FALSE, deleted |-> FALSE]

\* No row yet; its fields are never read.
Unsent == [Sent(CHOOSE s \in Scopes : TRUE, None, Anyone, NoLimit, FALSE)
             EXCEPT !.status = "none"]

\* Rows from before invites had a role of their own (acceptById, "convites
\* pendentes anteriores"): pending, with the template itself.
OlderRow(s, r) == Sent(s, r, Anyone, NoLimit, FALSE)
Older == {OlderRow(s, r) : s \in Scopes, r \in Templates}

\* Who keeps pages is a member of the workspace they lie within.
FirstRole(s, u) == IF \E p \in Pagelike : Place[p] = s /\ Keeper[p] = u
                   THEN CHOOSE r \in Templates : TRUE ELSE None

Init ==
    /\ role = [s \in Scopes |-> Templates]
    /\ member = [s \in Scopes |-> [u \in Users |-> FirstRole(s, u)]]
    /\ within = Place
    /\ invite \in [Invites -> {Unsent} \cup Older]
    /\ accepted = {}
    /\ task = [a \in Acceptances |-> Idle]

-----------------------------------------------------------------------------
(* Invites.                                                                 *)

Open(i) == invite[i].status = "pending" /\ ~invite[i].deleted
Full(i) == invite[i].limit # NoLimit /\ invite[i].count >= invite[i].limit

\* expireStale, which precedes every read of an invite.
Swept == [i \in Invites |->
            IF Open(i) /\ (invite[i].overdue \/ Full(i))
            THEN [invite[i] EXCEPT !.status = "expired"]
            ELSE invite[i]]

\* create: the role is checked in the transaction; whether the recipient is a
\* member and the author may delegate was checked before it, and may have
\* changed since.  An invite to one address is accepted once.
Create(i, s, r, u, l, timed) ==
    /\ invite[i].status = "none"
    /\ r \in role[s]
    /\ u # Anyone => l = 1
    /\ IF s \in Sharing
       THEN /\ invite' = [invite EXCEPT ![i] = Sent(s, r, u, l, timed)]
            /\ UNCHANGED role
       ELSE /\ invite' = [invite EXCEPT ![i] = Sent(s, i, u, l, timed)]
            /\ role' = [role EXCEPT ![s] = @ \cup {i}]
    /\ UNCHANGED <<member, accepted, within, task>>

\* julianday('now') reaches expires_at.
Lapse(i) ==
    /\ Open(i) /\ invite[i].timed /\ ~invite[i].overdue
    /\ invite' = [invite EXCEPT ![i].overdue = TRUE]
    /\ UNCHANGED <<role, member, accepted, within, task>>

\* Listing and previewing invites writes only what expireStale does.
List == invite' = Swept /\ UNCHANGED <<role, member, accepted, within, task>>

\* remove: also an invite that was accepted or had expired.
Remove(i) ==
    /\ invite[i].status # "none" /\ ~invite[i].deleted
    /\ invite' = [invite EXCEPT ![i].status = "expired", ![i].deleted = TRUE]
    /\ UNCHANGED <<role, member, accepted, within, task>>

-----------------------------------------------------------------------------
(* acceptById, one action between two awaits.                               *)

\* scopeContext: the scope s lies within, and the one that one lies within.
UpwardsBy(f, s) == ({f[s]} \cup {f[w] : w \in {f[s]} \ {None}}) \ {None}
ScopesAbove(s)  == UpwardsBy(within, s)

Stay(a, step) == task' = [task EXCEPT ![a].at = step]
Leave(a)      == task' = [task EXCEPT ![a] = Idle]

\* expireStale and getById; only a pending invite is taken further.
StartAcceptance(a, i, u) ==
    /\ task[a].at = "idle"
    /\ invite[i].status # "none"
    /\ invite' = Swept
    /\ IF Swept[i].status = "pending"
       THEN task' = [task EXCEPT ![a] =
                [at |-> "scopes", invite |-> i, user |-> u,
                 role |-> invite[i].role, above |-> {}, moved |-> FALSE]]
       ELSE UNCHANGED task
    /\ UNCHANGED <<role, member, accepted, within>>

\* The scopes above, by a statement of its own; nothing reads them again.
ReadScopes(a) ==
    LET s == invite[task[a].invite].scope IN
    /\ task[a].at = "scopes"
    /\ task' = [task EXCEPT ![a].at = "role", ![a].above = ScopesAbove(s)]
    /\ UNCHANGED <<role, member, invite, accepted, within>>

\* InviteRoleFactory.ensure: the role read from the invite is copied, unless
\* the scope shares it or the copy exists.
EnsureRole(a) ==
    LET i == task[a].invite  s == invite[i].scope  source == task[a].role IN
    /\ task[a].at = "role"
    /\ role' = IF s \notin Sharing /\ source \in role[s]
               THEN [role EXCEPT ![s] = @ \cup {i}] ELSE role
    /\ IF s \in Sharing
       THEN Stay(a, "context")
       ELSE IF i \in role'[s]
            THEN task' = [task EXCEPT ![a].at = "context", ![a].role = i]
            ELSE Leave(a)
    /\ UNCHANGED <<member, invite, accepted, within>>

EnsureContextLater(a) ==                                            \* mutant
    LET i == task[a].invite  s == invite[i].scope IN
    /\ task[a].at = "context"
    /\ IF task[a].role \in role[s] THEN Stay(a, "commit") ELSE Leave(a)
    /\ UNCHANGED <<role, member, invite, accepted, within>>

\* The selected role is still there; then each scope read as above gets the
\* invite's auxiliary role.
EnsureContext(a) ==
    LET i == task[a].invite  s == invite[i].scope IN
    /\ task[a].at = "context"
    /\ IF task[a].role \in role[s]
       THEN /\ role' = [t \in Scopes |->
                          IF t \in task[a].above THEN role[t] \cup {i} ELSE role[t]]
            /\ Stay(a, "commit")
       ELSE UNCHANGED role /\ Leave(a)
    /\ UNCHANGED <<member, invite, accepted, within>>

\* The condition every statement of the transaction repeats.
ValidAgain(i, u) == Open(i) /\ ~invite[i].overdue /\ ~Full(i)       \* mutant
ValidWhenListed(i, u) ==                                            \* mutant
    invite[i].for \in {Anyone, u} /\ <<i, u>> \notin accepted
Valid(i, u) ==
    /\ Open(i) /\ ~invite[i].overdue /\ ~Full(i)
    /\ invite[i].for \in {Anyone, u}
    /\ <<i, u>> \notin accepted

\* The role the invite gives in each of its scopes.
Grant(a, s) == IF s = invite[task[a].invite].scope THEN task[a].role
                                                   ELSE task[a].invite

Join(a, s) ==
    [member[s] EXCEPT ![task[a].user] = IF @ = None THEN Grant(a, s) ELSE @]

\* The counter moves and the last acceptance closes the invite.
Counted(i, r) ==
    [invite[i] EXCEPT !.role = r, !.count = @ + 1,
        !.status = IF invite[i].limit # NoLimit /\ invite[i].count + 1 >= invite[i].limit
                   THEN "accepted" ELSE @]

\* The scopes an acceptance enters.
Entered(a) == task[a].above \cup {invite[task[a].invite].scope}

\* The transaction: every membership missing in the scope and in those read
\* as above it, the acceptance and the counter, all or nothing.
Commit(a) ==
    LET i == task[a].invite  u == task[a].user IN
    /\ task[a].at = "commit"
    /\ IF Valid(i, u)
       THEN /\ member' = [t \in Scopes |->
                   IF t \in Entered(a) THEN Join(a, t) ELSE member[t]]
            /\ accepted' = accepted \cup {<<i, u>>}
            /\ invite' = [invite EXCEPT ![i] = Counted(i, task[a].role)]
       ELSE UNCHANGED <<member, accepted, invite>>
    /\ Leave(a)
    /\ UNCHANGED <<role, within>>

\* A statement failed or the process stopped between two of them.
Abandon(a) ==
    /\ task[a].at # "idle"
    /\ Leave(a)
    /\ UNCHANGED <<role, member, invite, accepted, within>>

-----------------------------------------------------------------------------
(* Memberships and roles, by people allowed to change them.                 *)

\* decide, accepting a request: the role is checked again in the transaction.
Admit(s, u, r) ==
    /\ member[s][u] = None /\ r \in role[s]
    /\ member' = [member EXCEPT ![s][u] = r]
    /\ UNCHANGED <<role, invite, accepted, within, task>>

Assign(s, u, r) ==
    /\ member[s][u] # None /\ r \in role[s]
    /\ member' = [member EXCEPT ![s][u] = r]
    /\ UNCHANGED <<role, invite, accepted, within, task>>

\* A new within: acceptances that had read the scopes above hold older ones.
Relocate(f) ==
    /\ within' = f
    /\ task' = [a \in Acceptances |->
         LET s == invite[task[a].invite].scope IN
         [task[a] EXCEPT !.moved = @ \/ /\ task[a].at \in {"role", "context", "commit"}
                                        /\ UpwardsBy(f, s) # ScopesAbove(s)]]

\* The pages under the root of a membership that ends lie within no workspace
\* any more: who comes back is given another root.
RemoveMember(s, u) ==
    /\ member[s][u] # None
    /\ member' = [member EXCEPT ![s][u] = None]
    /\ Relocate([p \in Scopes |-> IF p \in Pagelike /\ within[p] = s /\ Keeper[p] = u
                                  THEN None ELSE within[p]])
    /\ UNCHANGED <<role, invite, accepted>>

\* A deleted page has no scope above it that scopeContext finds.
TakePageAway(p) ==
    /\ p \in Pagelike /\ within[p] # None
    /\ Relocate([within EXCEPT ![p] = None])
    /\ UNCHANGED <<role, member, invite, accepted>>

\* linkWorkspace: a workspace without an organization is given one, once.
LinkToOrganization(w, o) ==
    /\ w \in Linkable /\ o \in Sharing /\ within[w] = None
    /\ Relocate([within EXCEPT ![w] = o])
    /\ UNCHANGED <<role, member, invite, accepted>>

\* RoleStore.remove: a role nobody holds and no pending invite grants.
RemoveRoleUnheld(s, r) ==                                           \* mutant
    /\ r \in role[s] \cap Templates
    /\ \A u \in Users : member[s][u] # r
    /\ role' = [role EXCEPT ![s] = @ \ {r}]
    /\ UNCHANGED <<member, invite, accepted, within, task>>
RemoveRole(s, r) ==
    /\ r \in role[s] \cap Templates
    /\ \A u \in Users : member[s][u] # r
    /\ \A i \in Invites : Open(i) /\ invite[i].scope = s => invite[i].role # r
    /\ role' = [role EXCEPT ![s] = @ \ {r}]
    /\ UNCHANGED <<member, invite, accepted, within, task>>

Inviting ==
    \E i \in Invites :
        \/ Lapse(i) \/ Remove(i)
        \/ \E s \in Scopes, r \in Roles, u \in Users \cup {Anyone},
              l \in Limit, timed \in BOOLEAN : Create(i, s, r, u, l, timed)

Accepting ==
    \E a \in Acceptances :
        \/ \E i \in Invites, u \in Users : StartAcceptance(a, i, u)
        \/ ReadScopes(a) \/ EnsureRole(a) \/ EnsureContext(a) \/ Commit(a)
        \/ Abandon(a)

Managing ==
    \E s \in Scopes :
        \/ \E u \in Users, r \in Roles : Admit(s, u, r) \/ Assign(s, u, r)
        \/ \E u \in Users : RemoveMember(s, u)
        \/ \E r \in Roles : RemoveRole(s, r)
        \/ TakePageAway(s)
        \/ \E o \in Scopes : LinkToOrganization(s, o)

Next == Inviting \/ List \/ Accepting \/ Managing

Spec == Init /\ [][Next]_vars

-----------------------------------------------------------------------------
(* Properties.                                                              *)

\* Rows, memberships and tasks have the types of their columns and locals.
TypeOK ==
    /\ role \in [Scopes -> SUBSET Roles]
    /\ member \in [Scopes -> [Users -> Roles \cup {None}]]
    /\ invite \in [Invites -> Row]
    /\ accepted \subseteq Invites \X Users
    /\ within \in [Scopes -> Scopes \cup {None}]
    /\ task \in [Acceptances -> Task]

\* No live membership points to a removed role, although the role was checked
\* some statements before the transaction that grants it.
NoDanglingRole ==
    \A s \in Scopes, u \in Users : member[s][u] # None => member[s][u] \in role[s]

\* What keeps the role of an invite alive until its acceptances have
\* committed: a pending invite protects the role it grants, and an acceptance
\* about to commit holds that role, or the invite's own.  What it holds of the
\* scopes above is what they are, unless they moved since it read them.
RolesKept ==
    /\ \A i \in Invites : Open(i) => invite[i].role \in role[invite[i].scope]
    /\ \A a \in Acceptances :
          LET i == task[a].invite  s == invite[i].scope IN
          task[a].at # "idle" =>
            /\ i \in Invites /\ task[a].user \in Users
            /\ invite[i].status # "none"
            /\ s \in Sharing => task[a].role = invite[i].role
            /\ s \notin Sharing /\ task[a].at \in {"context", "commit"} =>
                  task[a].role = i /\ i \in role[s]
            /\ task[a].at # "scopes" => task[a].moved \/ task[a].above = ScopesAbove(s)
            /\ task[a].at = "commit" => \A t \in task[a].above : i \in role[t]

\* The counter is the number of acceptances, within the limit, and an invite
\* is open exactly while there is room.
LedgerOf(i) ==
    /\ invite[i].count = Cardinality({u \in Users : <<i, u>> \in accepted})
    /\ invite[i].limit # NoLimit => invite[i].count <= invite[i].limit
    /\ invite[i].status = "none" => invite[i].count = 0
    /\ invite[i].status = "pending" => ~Full(i)
    /\ invite[i].status = "accepted" => Full(i)
Ledger == \A i \in Invites : LedgerOf(i)

\* The inductive invariant.
InvitesInv == TypeOK /\ RolesKept /\ NoDanglingRole /\ Ledger

\* An invite that is no longer pending is never opened again and admits
\* nobody, whatever an acceptance in progress had read of it.
ClosedForGood ==
    [][\A i \in Invites : invite[i].status \in {"accepted", "expired"} =>
          /\ invite'[i].status # "pending"
          /\ \A u \in Users : <<i, u>> \in accepted' => <<i, u>> \in accepted]_vars

\* An invite readmits nobody: who has used it and was removed stays out.
NoReadmission ==
    [][\A a \in Acceptances :
          Commit(a) /\ <<task[a].invite, task[a].user>> \in accepted =>
              UNCHANGED member]_vars

\* An acceptance makes its user a member of the scope and of every scope it
\* read as above it, with roles that exist, keeps a role the user had already,
\* and writes nobody else's membership.  Those are all the scopes above, unless
\* one was linked or taken away between that read and the transaction.
AcceptanceReachesAllScopes ==
    [][\A i \in Invites, u \in Users :
          <<i, u>> \in accepted' \ accepted =>
              \E a \in Acceptances :
                  /\ task[a].at = "commit" /\ task[a].invite = i /\ task[a].user = u
                  /\ task[a].moved \/ ScopesAbove(invite[i].scope) \subseteq Entered(a)
                  /\ \A s \in Scopes, v \in Users :
                        IF v = u /\ s \in Entered(a)
                        THEN member'[s][v] \in role[s] /\ member[s][v] \in {None, member'[s][v]}
                        ELSE member'[s][v] = member[s][v]]_vars
==============================================================================
