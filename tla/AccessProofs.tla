----------------------------- MODULE AccessProofs ----------------------------
(***************************************************************************)
(* Invites, roles and rights, and sessions: proofs about AccessInvites,    *)
(* for any users, invites, scopes and acceptances in progress, about       *)
(* ScopedAccess, for any people, roles and trees of pages, and about       *)
(* Sessions, for any number of overlapping requests. That a membership     *)
(* names a role that is there rests on what each statement asks for        *)
(* itself. Who may do what is settled on the way up from a page: Climb     *)
(* says without recursion where Branch and SharedBranch lead, and all that *)
(* is said of rights is read off it. What a logout ends rests on the order *)
(* of the versions a token carries, a request has read and the row holds.  *)
(***************************************************************************)
EXTENDS AccessInvites, ScopedAccess, Sessions, FiniteSetTheorems, SequenceTheorems, WellFoundedInduction, TLAPS

-----------------------------------------------------------------------------
(* AccessInvites.                                                          *)

\* A row just inserted has the types of its columns.
LEMMA RowSent ==
  ASSUME NEW s \in Scopes, NEW r \in Roles, NEW u \in Users \cup {Anyone},
         NEW l \in Limit, NEW timed \in BOOLEAN
  PROVE  Sent(s, r, u, l, timed) \in Row
  BY DEF Sent, Row

\* expireStale keeps every column but the status, which it only closes.
LEMMA SweptRow ==
  ASSUME invite \in [Invites -> Row], NEW i \in Invites
  PROVE  /\ Swept \in [Invites -> Row]
         /\ \/ Swept[i] = invite[i]
            \/ Open(i) /\ Swept[i] = [invite[i] EXCEPT !.status = "expired"]
         /\ Swept[i].status = "pending" => invite[i].status = "pending"
  BY DEF Swept, Row

\* What a step that only closes or ages invites does to each of them.
Narrowed(i) ==
    /\ invite'[i].scope = invite[i].scope
    /\ invite'[i].role = invite[i].role
    /\ invite'[i].count = invite[i].count
    /\ invite'[i].limit = invite[i].limit
    /\ invite'[i].status \in {invite[i].status, "expired"}
    /\ invite'[i].status = "none" <=> invite[i].status = "none"
    /\ Open(i)' => Open(i)

\* Closing or ageing invites keeps everything but the tasks.
LEMMA NarrowKeeps ==
  ASSUME InvitesInv, \A i \in Invites : Narrowed(i),
         UNCHANGED <<role, member, accepted>>
  PROVE  /\ NoDanglingRole' /\ Ledger'
         /\ \A i \in Invites : Open(i)' => invite'[i].role \in role'[invite'[i].scope]
  <1>1. NoDanglingRole'
    BY DEF InvitesInv, NoDanglingRole
  <1>2. ASSUME NEW i \in Invites PROVE LedgerOf(i)'
    <2>1. LedgerOf(i) /\ Narrowed(i) /\ accepted' = accepted
      BY DEF InvitesInv, Ledger
    <2> QED BY <2>1 DEF LedgerOf, Narrowed, Full
  <1>3. ASSUME NEW i \in Invites, Open(i)'
        PROVE  invite'[i].role \in role'[invite'[i].scope]
    BY <1>3 DEF InvitesInv, RolesKept, Narrowed
  <1> QED BY <1>1, <1>2, <1>3 DEF Ledger

\* The part of RolesKept about one acceptance.
TaskKept(a) ==
    LET i == task[a].invite  s == invite[i].scope IN
    task[a].at # "idle" =>
      /\ i \in Invites /\ task[a].user \in Users
      /\ invite[i].status # "none"
      /\ s \in Sharing => task[a].role = invite[i].role
      /\ s \notin Sharing /\ task[a].at \in {"context", "commit"} =>
            task[a].role = i /\ i \in role[s]
      /\ task[a].at # "scopes" => task[a].moved \/ task[a].above = ScopesAbove(s)
      /\ task[a].at = "commit" => \A t \in task[a].above : i \in role[t]

\* The same invariant, by invite and by acceptance.
LEMMA RolesKeptParts ==
  RolesKept <=> /\ \A i \in Invites : Open(i) => invite[i].role \in role[invite[i].scope]
                /\ \A a \in Acceptances : TaskKept(a)
  BY DEF RolesKept, TaskKept

\* A task that is where it was, with scopes above it that have moved if they
\* are not those it read, while invites narrowed and roles only grew.
LEMMA TaskStays ==
  ASSUME InvitesInv, NEW a \in Acceptances, NEW m \in BOOLEAN,
         task'[a] = [task[a] EXCEPT !.moved = m],
         LET s == invite[task[a].invite].scope IN
         task[a].at \notin {"idle", "scopes"} =>
            m \/ (~task[a].moved /\ UpwardsBy(within', s) = UpwardsBy(within, s)),
         \A i \in Invites : Narrowed(i),
         \A s \in Scopes : Invites \cap role[s] \subseteq role'[s]
  PROVE  TaskKept(a)'
  <1>0. task[a] \in Task
    BY DEF InvitesInv, TypeOK
  <1>1. TaskKept(a)
    BY RolesKeptParts DEF InvitesInv
  <1>a. /\ task'[a].at = task[a].at /\ task'[a].invite = task[a].invite
        /\ task'[a].user = task[a].user /\ task'[a].role = task[a].role
        /\ task'[a].above = task[a].above /\ task'[a].moved = m
    BY <1>0 DEF Task
  <1>2. CASE task[a].at = "idle"
    BY <1>2, <1>a DEF TaskKept
  <1>3. CASE task[a].at # "idle"
    <2> DEFINE i == task[a].invite  s == invite[i].scope
    <2>1. i \in Invites /\ Narrowed(i) /\ task[a].user \in Users
      BY <1>1, <1>3 DEF TaskKept
    <2>2. s \in Scopes /\ task[a].above \subseteq Scopes
      BY <1>0, <2>1 DEF InvitesInv, TypeOK, Row, Task
    <2>3. /\ invite'[i].scope = s /\ invite'[i].role = invite[i].role
          /\ invite'[i].status # "none"
      BY <1>1, <1>3, <2>1 DEF TaskKept, Narrowed
    <2>4. s \in Sharing => task[a].role = invite[i].role
      BY <1>1, <1>3 DEF TaskKept
    <2>5. s \notin Sharing /\ task[a].at \in {"context", "commit"} =>
            task[a].role = i /\ i \in role'[s]
      BY <1>1, <1>3, <2>1, <2>2 DEF TaskKept
    <2>6. task[a].at = "commit" => \A t \in task[a].above : i \in role'[t]
      BY <1>1, <1>3, <2>1, <2>2 DEF TaskKept
    <2>7. task[a].at # "scopes" => m \/ task[a].above = UpwardsBy(within', s)
      BY <1>1, <1>3 DEF TaskKept, ScopesAbove
    <2> QED BY <1>a, <2>1, <2>3, <2>4, <2>5, <2>6, <2>7 DEF TaskKept, ScopesAbove
  <1> QED BY <1>2, <1>3

\* The same for a task that did not move at all.
LEMMA TaskRests ==
  ASSUME InvitesInv, NEW a \in Acceptances, task'[a] = task[a], UNCHANGED within,
         \A i \in Invites : Narrowed(i),
         \A s \in Scopes : Invites \cap role[s] \subseteq role'[s]
  PROVE  TaskKept(a)'
  <1>1. task[a].moved \in BOOLEAN /\ task'[a] = [task[a] EXCEPT !.moved = task[a].moved]
    BY DEF InvitesInv, TypeOK, Task
  <1>2. UpwardsBy(within', invite[task[a].invite].scope) = UpwardsBy(within, invite[task[a].invite].scope)
    OBVIOUS
  <1> QED BY <1>1, <1>2, TaskStays

\* A task that holds nothing is one.
LEMMA IdleTyped == Idle \in Task
  BY DEF Idle, Task

\* An acceptance that left holds nothing.
LEMMA TaskLeft ==
  ASSUME NEW a \in Acceptances, task'[a] = Idle
  PROVE  TaskKept(a)'
  BY DEF TaskKept, Idle

\* expireStale narrows every invite.
LEMMA SweptNarrow ==
  ASSUME TypeOK, invite' = Swept
  PROVE  invite' \in [Invites -> Row] /\ \A i \in Invites : Narrowed(i)
  <1>1. invite \in [Invites -> Row]
    BY DEF TypeOK
  <1>2. ASSUME NEW i \in Invites PROVE Narrowed(i)
    <2>1. CASE invite'[i] = invite[i]
      BY <2>1 DEF Narrowed, Open
    <2>2. CASE Open(i) /\ invite'[i] = [invite[i] EXCEPT !.status = "expired"]
      <3>1. invite[i] \in Row
        BY <1>1
      <3> QED BY <2>2, <3>1 DEF Narrowed, Open, Row
    <2> QED BY <1>1, <2>1, <2>2, SweptRow
  <1>3. Swept \in [Invites -> Row]
    <2>1. \A i \in Invites : Swept[i] \in Row
      BY <1>1, SweptRow
    <2> QED BY <2>1 DEF Swept
  <1> QED BY <1>2, <1>3

\* Invites that do not change are narrowed.
LEMMA SameInvites ==
  ASSUME TypeOK, UNCHANGED invite
  PROVE  \A i \in Invites : Narrowed(i)
  BY DEF Narrowed, Open

-----------------------------------------------------------------------------
\* The invariant holds initially, older invites included.
LEMMA InvInit == Init => InvitesInv
  <1> SUFFICES ASSUME Init PROVE InvitesInv
    OBVIOUS
  <1> DEFINE Fresh(x) == /\ x \in Row /\ x.count = 0 /\ x.limit = NoLimit
                         /\ x.status \in {"none", "pending"}
                         /\ x.status = "pending" => x.role \in Templates
  <1>a. ASSUME NEW s \in Scopes, NEW u \in Users PROVE FirstRole(s, u) \in Templates \cup {None}
    BY InvitesAssumption DEF FirstRole
  <1>1. Unsent.status = "none" /\ Fresh(Unsent)
    <2> DEFINE s == CHOOSE x \in Scopes : TRUE
    <2>1. s \in Scopes
      BY InvitesAssumption
    <2>2. Unsent = [Sent(s, None, Anyone, NoLimit, FALSE) EXCEPT !.status = "none"]
      BY Zenon DEF Unsent
    <2> HIDE DEF s
    <2> QED BY <2>1, <2>2 DEF Row, Limit, Sent
  <1>2. ASSUME NEW s \in Scopes, NEW r \in Templates
        PROVE  Fresh(Sent(s, r, Anyone, NoLimit, FALSE))
    BY RowSent DEF Roles, Limit, Sent
  <1>3. ASSUME NEW i \in Invites PROVE Fresh(invite[i])
    <2>1. invite[i] = Unsent \/ invite[i] \in Older
      BY DEF Init
    <2>2. CASE invite[i] \in Older
      <3>1. PICK s \in Scopes, r \in Templates :
              invite[i] = OlderRow(s, r)
        BY <2>2 DEF Older
      <3>2. Fresh(OlderRow(s, r))
        BY <1>2 DEF OlderRow
      <3> QED BY <3>1, <3>2
    <2>3. CASE invite[i] = Unsent
      BY <1>1, <2>3
    <2> QED BY <2>1, <2>2, <2>3
  <1>4. TypeOK
    <2>1. invite \in [Invites -> Row]
      BY <1>3 DEF Init
    <2>2. role \in [Scopes -> SUBSET Roles] /\ accepted \subseteq Invites \X Users
      BY DEF Init, Roles
    <2>3. member \in [Scopes -> [Users -> Roles \cup {None}]]
      BY <1>a DEF Init, Roles
    <2>4. task \in [Acceptances -> Task]
      BY DEF Init, Idle, Task
    <2>5. within \in [Scopes -> Scopes \cup {None}]
      BY InvitesAssumption DEF Init
    <2> QED BY <2>1, <2>2, <2>3, <2>4, <2>5 DEF TypeOK
  <1>5. NoDanglingRole
    BY <1>a DEF Init, NoDanglingRole
  <1>6. ASSUME NEW i \in Invites PROVE LedgerOf(i)
    <2>1. Cardinality({u \in Users : <<i, u>> \in accepted}) = 0
      <3>1. {u \in Users : <<i, u>> \in accepted} = {}
        BY DEF Init
      <3> QED BY <3>1, FS_EmptySet
    <2> QED BY <1>3, <2>1 DEF LedgerOf, Full
  <1>7. \A i \in Invites : Open(i) => invite[i].role \in role[invite[i].scope]
    BY <1>3 DEF Init, Open, Row
  <1>8. \A a \in Acceptances : TaskKept(a)
    BY DEF Init, TaskKept, Idle
  <1> QED BY <1>4, <1>5, <1>6, <1>7, <1>8, RolesKeptParts DEF InvitesInv, Ledger

\* The parts of the invariant after a step.
LEMMA Parts ==
  ASSUME TypeOK', NoDanglingRole', Ledger',
         \A i \in Invites : Open(i)' => invite'[i].role \in role'[invite'[i].scope],
         \A a \in Acceptances : TaskKept(a)'
  PROVE  InvitesInv'
  BY RolesKeptParts DEF InvitesInv, RolesKept, TaskKept

\* A new invite finds its role, the template or its own copy, in its scope.
LEMMA StepCreate ==
  ASSUME InvitesInv, NEW i \in Invites, NEW s \in Scopes, NEW r \in Roles,
         NEW u \in Users \cup {Anyone}, NEW l \in Limit, NEW timed \in BOOLEAN,
         Create(i, s, r, u, l, timed)
  PROVE  InvitesInv'
  <1>0. TypeOK /\ invite[i].status = "none" /\ i \in Roles
    BY DEF InvitesInv, Create, Roles
  <1>1. PICK q \in Roles : /\ invite' = [invite EXCEPT ![i] = Sent(s, q, u, l, timed)]
                           /\ q \in role'[s]
    BY <1>0 DEF Create, TypeOK
  <1>2. role' \in [Scopes -> SUBSET Roles] /\ \A t \in Scopes : role[t] \subseteq role'[t]
    BY <1>0 DEF Create, TypeOK
  <1>3. UNCHANGED <<member, accepted, within, task>>
    BY DEF Create
  <1>4. Sent(s, q, u, l, timed) \in Row /\ l \in Nat
    BY RowSent, InvitesAssumption DEF Limit, NoLimit
  <1>5. TypeOK'
    <2>1. invite' \in [Invites -> Row]
      BY <1>0, <1>1, <1>4 DEF TypeOK
    <2> QED BY <1>0, <1>2, <1>3, <2>1 DEF TypeOK
  <1>6. invite'[i] = Sent(s, q, u, l, timed) /\ \A j \in Invites \ {i} : invite'[j] = invite[j]
    BY <1>0, <1>1 DEF TypeOK
  <1>7. NoDanglingRole'
    BY <1>2, <1>3 DEF InvitesInv, NoDanglingRole
  <1>8. ASSUME NEW j \in Invites PROVE LedgerOf(j)'
    <2>1. LedgerOf(j) /\ LedgerOf(i)
      BY DEF InvitesInv, Ledger
    <2>2. CASE j # i
      BY <1>3, <1>6, <2>1, <2>2 DEF LedgerOf, Full
    <2>3. CASE j = i
      BY <1>0, <1>3, <1>4, <1>6, <2>1, <2>3 DEF LedgerOf, Full, Sent, NoLimit
    <2> QED BY <2>2, <2>3
  <1>9. ASSUME NEW j \in Invites, Open(j)'
        PROVE  invite'[j].role \in role'[invite'[j].scope]
    <2>1. CASE j = i
      BY <1>1, <1>6, <2>1 DEF Sent
    <2>2. CASE j # i
      <3>1. Open(j) /\ invite[j].scope \in Scopes
        BY <1>0, <1>6, <1>9, <2>2 DEF Open, TypeOK, Row
      <3> QED BY <1>2, <1>6, <2>2, <3>1 DEF InvitesInv, RolesKept
    <2> QED BY <2>1, <2>2
  <1>10. ASSUME NEW a \in Acceptances PROVE TaskKept(a)'
    <2>1. TaskKept(a)
      BY RolesKeptParts DEF InvitesInv
    <2>2. CASE task[a].at = "idle"
      BY <1>3, <2>2 DEF TaskKept
    <2>3. CASE task[a].at # "idle"
      <3> DEFINE j == task[a].invite
      <3>1. j \in Invites /\ j # i /\ invite'[j] = invite[j]
        BY <1>0, <1>6, <2>1, <2>3 DEF TaskKept
      <3>2. invite[j].scope \in Scopes /\ task[a].above \subseteq Scopes
        BY <1>0, <3>1 DEF TypeOK, Row, Task
      <3> QED BY <1>2, <1>3, <2>1, <2>3, <3>1, <3>2 DEF TaskKept, ScopesAbove
    <2> QED BY <2>2, <2>3
  <1> QED BY <1>5, <1>7, <1>8, <1>9, <1>10, Parts DEF Ledger

\* Ageing, listing and removing invites.
LEMMA StepNarrow ==
  ASSUME InvitesInv, \/ \E i \in Invites : Lapse(i) \/ Remove(i)
                     \/ List
  PROVE  InvitesInv'
  <1>0. TypeOK /\ UNCHANGED <<role, member, accepted, within, task>>
    BY DEF InvitesInv, Lapse, Remove, List
  <1>1. invite' \in [Invites -> Row] /\ \A i \in Invites : Narrowed(i)
    <2>1. ASSUME NEW i \in Invites, Lapse(i)
          PROVE  invite' \in [Invites -> Row] /\ \A j \in Invites : Narrowed(j)
      BY <1>0, <2>1 DEF Lapse, TypeOK, Row, Narrowed, Open
    <2>2. ASSUME NEW i \in Invites, Remove(i)
          PROVE  invite' \in [Invites -> Row] /\ \A j \in Invites : Narrowed(j)
      BY <1>0, <2>2 DEF Remove, TypeOK, Row, Narrowed, Open
    <2>3. ASSUME List
          PROVE  invite' \in [Invites -> Row] /\ \A j \in Invites : Narrowed(j)
      BY <1>0, <2>3, SweptNarrow DEF List
    <2> QED BY <2>1, <2>2, <2>3
  <1>2. TypeOK'
    BY <1>0, <1>1 DEF TypeOK
  <1>3. \A a \in Acceptances : TaskKept(a)'
    BY <1>0, <1>1, TaskRests
  <1> QED BY <1>0, <1>1, <1>2, <1>3, NarrowKeeps, Parts

\* An acceptance begins with what it read of a pending invite.
LEMMA StepStart ==
  ASSUME InvitesInv, NEW a \in Acceptances, NEW i \in Invites, NEW u \in Users,
         StartAcceptance(a, i, u)
  PROVE  InvitesInv'
  <1>0. TypeOK /\ UNCHANGED <<role, member, accepted, within>>
    BY DEF InvitesInv, StartAcceptance
  <1>1. invite' \in [Invites -> Row] /\ \A j \in Invites : Narrowed(j)
    BY <1>0, SweptNarrow DEF StartAcceptance
  <1>2. task' \in [Acceptances -> Task]
    <2> DEFINE new == [at |-> "scopes", invite |-> i, user |-> u,
                       role |-> invite[i].role, above |-> {}, moved |-> FALSE]
    <2>1. invite[i].role \in Roles \cup {None}
      BY <1>0 DEF TypeOK, Row
    <2>2. new \in Task
      BY <2>1 DEF Task
    <2>3. task' = [task EXCEPT ![a] = new] \/ UNCHANGED task
      BY DEF StartAcceptance
    <2> HIDE DEF new
    <2> QED BY <1>0, <2>2, <2>3 DEF TypeOK
  <1>3. TypeOK'
    BY <1>0, <1>1, <1>2 DEF TypeOK
  <1>4. ASSUME NEW b \in Acceptances PROVE TaskKept(b)'
    <2>1. CASE task'[b] = task[b]
      BY <1>0, <1>1, <2>1, TaskRests
    <2>2. CASE task'[b] # task[b]
      <3>1. task'[b] = [at |-> "scopes", invite |-> i, user |-> u,
                        role |-> invite[i].role, above |-> {}, moved |-> FALSE]
        BY <1>0, <2>2 DEF StartAcceptance, TypeOK
      <3>2. invite'[i].status # "none" /\ invite'[i].role = invite[i].role
        BY <1>1 DEF StartAcceptance, Narrowed
      <3> QED BY <3>1, <3>2 DEF TaskKept, Idle
    <2> QED BY <2>1, <2>2
  <1> QED BY <1>0, <1>1, <1>3, <1>4, NarrowKeeps, Parts

\* An acceptance goes on with the scopes it just read.
LEMMA StepScopes ==
  ASSUME InvitesInv, NEW a \in Acceptances, ReadScopes(a)
  PROVE  InvitesInv'
  <1> DEFINE i == task[a].invite  s == invite[i].scope
  <1>0. /\ TypeOK /\ UNCHANGED <<role, member, invite, accepted, within>>
        /\ task[a].at = "scopes"
        /\ task' = [task EXCEPT ![a].at = "role", ![a].above = ScopesAbove(s)]
    BY DEF InvitesInv, ReadScopes
  <1>1. TaskKept(a) /\ i \in Invites /\ s \in Scopes
    <2>1. TaskKept(a)
      BY RolesKeptParts DEF InvitesInv
    <2> QED BY <1>0, <2>1 DEF TaskKept, TypeOK, Row
  <1>2. ScopesAbove(s) \subseteq Scopes
    BY <1>0, <1>1 DEF ScopesAbove, UpwardsBy, TypeOK
  <1>3. task' \in [Acceptances -> Task]
    <2>1. task \in [Acceptances -> Task] /\ task[a] \in Task
      BY <1>0 DEF TypeOK
    <2>2. [task[a] EXCEPT !.at = "role", !.above = ScopesAbove(s)] \in Task
      BY <1>2, <2>1 DEF Task
    <2> QED BY <1>0, <2>1, <2>2
  <1>4. \A j \in Invites : Narrowed(j)
    BY <1>0, SameInvites
  <1>5. ASSUME NEW b \in Acceptances PROVE TaskKept(b)'
    <2>1. CASE b # a
      <3>1. task'[b] = task[b]
        BY <1>0, <2>1 DEF TypeOK
      <3> QED BY <1>0, <1>4, <3>1, TaskRests
    <2>2. CASE b = a
      <3>1. /\ task'[a].at = "role" /\ task'[a].invite = i /\ task'[a].user = task[a].user
            /\ task'[a].role = task[a].role /\ task'[a].above = ScopesAbove(s)
        BY <1>0 DEF TypeOK, Task
      <3> QED BY <1>0, <1>1, <2>2, <3>1 DEF TaskKept, ScopesAbove
    <2> QED BY <2>1, <2>2
  <1>6. TypeOK'
    BY <1>0, <1>3 DEF TypeOK
  <1> QED BY <1>0, <1>4, <1>5, <1>6, NarrowKeeps, Parts

\* The invite's own role is there before an acceptance goes on.
LEMMA StepRole ==
  ASSUME InvitesInv, NEW a \in Acceptances, EnsureRole(a)
  PROVE  InvitesInv'
  <1> DEFINE i == task[a].invite  s == invite[i].scope
  <1>0. TypeOK /\ UNCHANGED <<member, invite, accepted, within>> /\ task[a].at = "role"
    BY DEF InvitesInv, EnsureRole
  <1>1. /\ i \in Invites /\ s \in Scopes /\ i \in Roles
        /\ task[a].user \in Users /\ invite[i].status # "none"
        /\ s \in Sharing => task[a].role = invite[i].role
        /\ task[a].moved \/ task[a].above = UpwardsBy(within, s)
    <2>1. TaskKept(a)
      BY RolesKeptParts DEF InvitesInv
    <2> QED BY <1>0, <2>1 DEF TaskKept, TypeOK, Row, Roles, ScopesAbove
  <1>2. role' \in [Scopes -> SUBSET Roles] /\ \A t \in Scopes : role[t] \subseteq role'[t]
    BY <1>0, <1>1 DEF EnsureRole, TypeOK
  <1>3. \/ s \in Sharing /\ task' = [task EXCEPT ![a].at = "context"]
        \/ /\ s \notin Sharing /\ i \in role'[s]
           /\ task' = [task EXCEPT ![a].at = "context", ![a].role = i]
        \/ task' = [task EXCEPT ![a] = Idle]
    BY DEF EnsureRole, Stay, Leave
  <1>4. task' \in [Acceptances -> Task]
    <2>1. task \in [Acceptances -> Task] /\ task[a] \in Task
      BY <1>0 DEF TypeOK
    <2>2. /\ [task[a] EXCEPT !.at = "context"] \in Task /\ Idle \in Task
          /\ [task[a] EXCEPT !.at = "context", !.role = i] \in Task
      BY <1>1, <2>1 DEF Task, Idle
    <2> QED BY <1>3, <2>1, <2>2
  <1>5. TypeOK'
    BY <1>0, <1>2, <1>4 DEF TypeOK
  <1>6. \A j \in Invites : Narrowed(j)
    BY <1>0, SameInvites
  <1>7. ASSUME NEW b \in Acceptances PROVE TaskKept(b)'
    <2>1. CASE b # a
      <3>1. task'[b] = task[b]
        BY <1>0, <1>3, <2>1 DEF TypeOK
      <3> QED BY <1>0, <1>2, <1>6, <3>1, TaskRests
    <2>2. CASE b = a
      <3>1. CASE task' = [task EXCEPT ![a] = Idle]
        BY <1>0, <2>2, <3>1, TaskLeft DEF TypeOK
      <3>2. CASE s \in Sharing /\ task' = [task EXCEPT ![a].at = "context"]
        <4>1. /\ task'[a].at = "context" /\ task'[a].invite = i
              /\ task'[a].user = task[a].user /\ task'[a].role = task[a].role
              /\ task'[a].above = task[a].above /\ task'[a].moved = task[a].moved
          BY <1>0, <3>2 DEF TypeOK, Task
        <4> QED BY <1>0, <1>1, <2>2, <3>2, <4>1 DEF TaskKept, ScopesAbove
      <3>3. CASE /\ s \notin Sharing /\ i \in role'[s]
                 /\ task' = [task EXCEPT ![a].at = "context", ![a].role = i]
        <4>1. /\ task'[a].at = "context" /\ task'[a].invite = i
              /\ task'[a].user = task[a].user /\ task'[a].role = i
              /\ task'[a].above = task[a].above /\ task'[a].moved = task[a].moved
          BY <1>0, <3>3 DEF TypeOK, Task
        <4> QED BY <1>0, <1>1, <2>2, <3>3, <4>1 DEF TaskKept, ScopesAbove
      <3> QED BY <1>3, <3>1, <3>2, <3>3
    <2> QED BY <2>1, <2>2
  <1>8. NoDanglingRole'
    BY <1>0, <1>2 DEF InvitesInv, NoDanglingRole
  <1>9. ASSUME NEW j \in Invites PROVE LedgerOf(j)'
    BY <1>0 DEF InvitesInv, Ledger, LedgerOf, Full
  <1>10. ASSUME NEW j \in Invites, Open(j)'
         PROVE  invite'[j].role \in role'[invite'[j].scope]
    <2>1. Open(j) /\ invite[j].scope \in Scopes
      BY <1>0, <1>10 DEF Open, TypeOK, Row
    <2> QED BY <1>0, <1>2, <2>1 DEF InvitesInv, RolesKept
  <1> QED BY <1>5, <1>7, <1>8, <1>9, <1>10, Parts DEF Ledger

\* The auxiliary roles are there before an acceptance commits.
LEMMA StepContext ==
  ASSUME InvitesInv, NEW a \in Acceptances, EnsureContext(a)
  PROVE  InvitesInv'
  <1> DEFINE i == task[a].invite  s == invite[i].scope
  <1>0. TypeOK /\ UNCHANGED <<member, invite, accepted, within>> /\ task[a].at = "context"
    BY DEF InvitesInv, EnsureContext
  <1>1. /\ TaskKept(a) /\ i \in Invites /\ s \in Scopes /\ i \in Roles
        /\ task[a].above \subseteq Scopes
    <2>1. TaskKept(a)
      BY RolesKeptParts DEF InvitesInv
    <2>2. i \in Invites
      BY <1>0, <2>1 DEF TaskKept
    <2> QED BY <1>0, <2>1, <2>2 DEF TypeOK, Row, Roles, Task
  <1>2. role' \in [Scopes -> SUBSET Roles] /\ \A t \in Scopes : role[t] \subseteq role'[t]
    BY <1>0, <1>1 DEF EnsureContext, TypeOK
  <1>3. \/ /\ task' = [task EXCEPT ![a].at = "commit"]
           /\ \A t \in task[a].above : i \in role'[t]
        \/ task' = [task EXCEPT ![a] = Idle]
    BY <1>0, <1>1 DEF EnsureContext, Stay, Leave, TypeOK
  <1>4. task' \in [Acceptances -> Task]
    <2>1. task[a] \in Task /\ Idle \in Task
      BY <1>0 DEF TypeOK, Task, Idle
    <2>2. [task[a] EXCEPT !.at = "commit"] \in Task
      BY <2>1 DEF Task
    <2>3. task \in [Acceptances -> Task]
      BY <1>0 DEF TypeOK
    <2> QED BY <1>3, <2>1, <2>2, <2>3
  <1>5. TypeOK'
    BY <1>0, <1>2, <1>4 DEF TypeOK
  <1>6. \A j \in Invites : Narrowed(j)
    BY <1>0, SameInvites
  <1>7. ASSUME NEW b \in Acceptances PROVE TaskKept(b)'
    <2>1. CASE b # a
      <3>1. task'[b] = task[b]
        BY <1>0, <1>3, <2>1 DEF TypeOK
      <3> QED BY <1>0, <1>2, <1>6, <3>1, TaskRests
    <2>2. CASE b = a
      <3>1. CASE task' = [task EXCEPT ![a] = Idle]
        BY <1>0, <2>2, <3>1, TaskLeft DEF TypeOK
      <3>2. CASE /\ task' = [task EXCEPT ![a].at = "commit"]
                 /\ \A t \in task[a].above : i \in role'[t]
        <4>1. /\ task'[a].at = "commit" /\ task'[a].invite = i
              /\ task'[a].user = task[a].user /\ task'[a].role = task[a].role
              /\ task'[a].above = task[a].above /\ task'[a].moved = task[a].moved
          BY <1>0, <3>2 DEF TypeOK, Task
        <4> QED BY <1>0, <1>1, <1>2, <2>2, <3>2, <4>1 DEF TaskKept, ScopesAbove
      <3> QED BY <1>3, <3>1, <3>2
    <2> QED BY <2>1, <2>2
  <1>8. NoDanglingRole'
    BY <1>0, <1>2 DEF InvitesInv, NoDanglingRole
  <1>9. ASSUME NEW j \in Invites PROVE LedgerOf(j)'
    BY <1>0 DEF InvitesInv, Ledger, LedgerOf, Full
  <1>10. ASSUME NEW j \in Invites, Open(j)'
         PROVE  invite'[j].role \in role'[invite'[j].scope]
    <2>1. Open(j) /\ invite[j].scope \in Scopes
      BY <1>0, <1>10 DEF Open, TypeOK, Row
    <2> QED BY <1>0, <1>2, <2>1 DEF InvitesInv, RolesKept
  <1> QED BY <1>5, <1>7, <1>8, <1>9, <1>10, Parts DEF Ledger

-----------------------------------------------------------------------------
\* What a transaction that goes through writes.
LEMMA Committed ==
  ASSUME InvitesInv, NEW a \in Acceptances, Commit(a),
         Valid(task[a].invite, task[a].user)
  PROVE  LET i == task[a].invite  u == task[a].user  s == invite[i].scope IN
         /\ i \in Invites /\ u \in Users /\ s \in Scopes /\ Entered(a) \subseteq Scopes
         /\ accepted' = accepted \cup {<<i, u>>} /\ UNCHANGED <<role, within>>
         /\ task' = [task EXCEPT ![a] = Idle]
         /\ invite' = [invite EXCEPT ![i] = Counted(i, task[a].role)]
         /\ task[a].role \in role[s]
         /\ \A t \in Entered(a) : Grant(a, t) \in role[t]
         /\ member' = [t \in Scopes |->
                IF t \in Entered(a) THEN Join(a, t) ELSE member[t]]
  <1> DEFINE i == task[a].invite  u == task[a].user  s == invite[i].scope
  <1>0. TypeOK /\ TaskKept(a) /\ task[a].at = "commit"
    BY RolesKeptParts DEF InvitesInv, Commit
  <1>1. i \in Invites /\ u \in Users
    BY <1>0 DEF TaskKept
  <1>2. s \in Scopes /\ task[a].above \subseteq Scopes /\ Entered(a) = task[a].above \cup {s}
    BY <1>0, <1>1 DEF TypeOK, Row, Task, Entered
  <1>3. task[a].role \in role[s]
    <2>1. Open(i) => invite[i].role \in role[s]
      BY <1>1 DEF InvitesInv, RolesKept
    <2>2. Open(i)
      BY DEF Valid
    <2>3. CASE s \in Sharing
      BY <1>0, <2>1, <2>2, <2>3 DEF TaskKept
    <2>4. CASE s \notin Sharing
      BY <1>0, <2>4 DEF TaskKept
    <2> QED BY <2>3, <2>4
  <1>4. \A t \in Entered(a) : Grant(a, t) \in role[t]
    BY <1>0, <1>2, <1>3 DEF Grant, TaskKept
  <1>5. /\ accepted' = accepted \cup {<<i, u>>} /\ UNCHANGED <<role, within>>
        /\ task' = [task EXCEPT ![a] = Idle]
        /\ invite' = [invite EXCEPT ![i] = Counted(i, task[a].role)]
        /\ member' = [t \in Scopes |->
               IF t \in Entered(a) THEN Join(a, t) ELSE member[t]]
    BY DEF Commit, Leave
  <1> QED BY <1>1, <1>2, <1>3, <1>4, <1>5

\* One more acceptance is one more user of the invite.
LEMMA OneMore ==
  ASSUME NEW i \in Invites, NEW u \in Users, <<i, u>> \notin accepted,
         accepted' = accepted \cup {<<i, u>>}
  PROVE  /\ Cardinality({v \in Users : <<i, v>> \in accepted}) \in Nat
         /\ Cardinality({v \in Users : <<i, v>> \in accepted'})
              = Cardinality({v \in Users : <<i, v>> \in accepted}) + 1
         /\ \A j \in Invites \ {i} : {v \in Users : <<j, v>> \in accepted'}
                                     = {v \in Users : <<j, v>> \in accepted}
  <1> DEFINE S == {v \in Users : <<i, v>> \in accepted}
  <1>1. IsFiniteSet(S)
    <2>1. S \subseteq Users /\ IsFiniteSet(Users)
      BY InvitesAssumption
    <2> QED BY <2>1, FS_Subset
  <1>2. {v \in Users : <<i, v>> \in accepted'} = S \cup {u} /\ u \notin S
    OBVIOUS
  <1>3. Cardinality(S \cup {u}) = Cardinality(S) + 1 /\ Cardinality(S) \in Nat
    BY <1>1, <1>2, FS_AddElement, FS_CardinalityType
  <1> QED BY <1>2, <1>3

\* The transaction of an acceptance, whether or not it goes through.
LEMMA StepCommit ==
  ASSUME InvitesInv, NEW a \in Acceptances, Commit(a)
  PROVE  InvitesInv'
  <1> DEFINE i == task[a].invite  u == task[a].user  s == invite[i].scope
             r == task[a].role
  <1>0. TypeOK /\ UNCHANGED <<role, within>> /\ task' = [task EXCEPT ![a] = Idle]
    BY DEF InvitesInv, Commit, Leave
  <1>1. task' \in [Acceptances -> Task]
    BY <1>0 DEF TypeOK, Task, Idle
  <1>2. ASSUME NEW b \in Acceptances PROVE task'[b] \in {task[b], Idle}
    BY <1>0 DEF TypeOK
  <1>3. CASE ~Valid(i, u)
    <2>1. UNCHANGED <<member, accepted, invite>>
      BY <1>3 DEF Commit
    <2>2. \A j \in Invites : Narrowed(j)
      BY <1>0, <2>1, SameInvites
    <2>3. TypeOK'
      BY <1>0, <1>1, <2>1 DEF TypeOK
    <2>4. \A b \in Acceptances : TaskKept(b)'
      BY <1>0, <1>2, <2>2, TaskRests, TaskLeft
    <2> QED BY <1>0, <2>1, <2>2, <2>3, <2>4, NarrowKeeps, Parts
  <1>4. CASE Valid(i, u)
    <2>1. /\ i \in Invites /\ u \in Users /\ s \in Scopes /\ Entered(a) \subseteq Scopes
          /\ accepted' = accepted \cup {<<i, u>>}
          /\ invite' = [invite EXCEPT ![i] = Counted(i, r)]
          /\ r \in role[s]
          /\ \A t \in Entered(a) : Grant(a, t) \in role[t]
          /\ member' = [t \in Scopes |->
                 IF t \in Entered(a) THEN Join(a, t) ELSE member[t]]
      BY <1>4, Committed
    <2>2. /\ invite[i] \in Row /\ role[s] \subseteq Roles
          /\ \A j \in Invites \ {i} : invite'[j] = invite[j]
          /\ invite'[i] = Counted(i, r)
      BY <1>0, <2>1 DEF TypeOK
    <2> DEFINE st == IF invite[i].limit # NoLimit /\ invite[i].count + 1 >= invite[i].limit
                     THEN "accepted" ELSE invite[i].status
               n  == invite[i].count + 1
    <2>a. n \in Nat /\ st \in {"none", "pending", "accepted", "expired"} /\ r \in Roles
      BY <2>1, <2>2 DEF Row
    <2>b. Counted(i, r) = [invite[i] EXCEPT !.role = r, !.count = n, !.status = st]
      BY DEF Counted
    <2> HIDE DEF st, n
    <2>3. Counted(i, r) \in Row
      BY <2>2, <2>a, <2>b DEF Row
    <2>4. /\ invite'[i].scope = s /\ invite'[i].role = r
          /\ invite'[i].count = n /\ invite'[i].limit = invite[i].limit
          /\ invite'[i].status = st
      BY <2>2, <2>b DEF Row
    <2> USE DEF st, n
    <2>5. invite[i].status = "pending" /\ ~Full(i) /\ <<i, u>> \notin accepted
      BY <1>4 DEF Valid, Open
    <2>6. ASSUME NEW t \in Scopes, NEW v \in Users
          PROVE  /\ member'[t][v] \in {member[t][v], Grant(a, t)}
                 /\ t \notin Entered(a) => member'[t][v] = member[t][v]
      BY <1>0, <2>1 DEF Join, TypeOK
    <2>7. TypeOK'
      <3>1. invite' \in [Invites -> Row]
        BY <1>0, <2>1, <2>3 DEF TypeOK
      <3>2. ASSUME NEW t \in Scopes PROVE Join(a, t) \in [Users -> Roles \cup {None}]
                                          \/ t \notin Entered(a)
        <4>1. member[t] \in [Users -> Roles \cup {None}] /\ role[t] \subseteq Roles
          BY <1>0 DEF TypeOK
        <4> QED BY <2>1, <4>1 DEF Join
      <3>3. member' \in [Scopes -> [Users -> Roles \cup {None}]]
        BY <1>0, <2>1, <3>2 DEF TypeOK
      <3>4. accepted' \subseteq Invites \X Users
        BY <1>0, <2>1 DEF TypeOK
      <3> QED BY <1>0, <1>1, <3>1, <3>3, <3>4 DEF TypeOK
    <2>8. NoDanglingRole'
      <3> SUFFICES ASSUME NEW t \in Scopes, NEW v \in Users, member'[t][v] # None
                   PROVE  member'[t][v] \in role'[t]
        BY DEF NoDanglingRole
      <3>1. CASE member'[t][v] = member[t][v]
        BY <1>0, <3>1 DEF InvitesInv, NoDanglingRole
      <3>2. CASE member'[t][v] # member[t][v]
        BY <1>0, <2>1, <2>6, <3>2
      <3> QED BY <3>1, <3>2
    <2>9. ASSUME NEW j \in Invites PROVE LedgerOf(j)'
      <3>1. LedgerOf(j) /\ LedgerOf(i)
        BY <2>1 DEF InvitesInv, Ledger
      <3>2. CASE j # i
        <4>1. invite'[j] = invite[j]
              /\ {v \in Users : <<j, v>> \in accepted'} = {v \in Users : <<j, v>> \in accepted}
          BY <2>1, <2>2, <2>5, <3>2, OneMore
        <4> QED BY <3>1, <4>1 DEF LedgerOf, Full
      <3>3. CASE j = i
        <4>1. Cardinality({v \in Users : <<i, v>> \in accepted'})
                = Cardinality({v \in Users : <<i, v>> \in accepted}) + 1
          BY <2>1, <2>5, OneMore
        <4>2. invite'[i].count = Cardinality({v \in Users : <<i, v>> \in accepted'})
          <5>1. invite[i].count = Cardinality({v \in Users : <<i, v>> \in accepted})
            BY <3>1 DEF LedgerOf
          <5>2. invite'[i].count = invite[i].count + 1
            BY <2>4
          <5> QED BY <4>1, <5>1, <5>2
        <4>3. invite[i].limit \in Nat /\ invite[i].count \in Nat
          <5>1. invite[i].limit \in Limit /\ invite[i].count \in Nat
            BY <2>2 DEF Row
          <5>2. Limit \subseteq Nat
            BY InvitesAssumption DEF Limit, NoLimit
          <5> QED BY <5>1, <5>2
        <4> QED BY <2>4, <2>5, <3>3, <4>2, <4>3 DEF LedgerOf, Full
      <3> QED BY <3>2, <3>3
    <2>10. ASSUME NEW j \in Invites, Open(j)'
           PROVE  invite'[j].role \in role'[invite'[j].scope]
      <3>1. CASE j = i
        BY <1>0, <2>1, <2>4, <3>1
      <3>2. CASE j # i
        BY <1>0, <2>2, <2>10, <3>2 DEF Open, InvitesInv, RolesKept
      <3> QED BY <3>1, <3>2
    <2>11. ASSUME NEW b \in Acceptances PROVE TaskKept(b)'
      <3>1. TaskKept(b)
        BY RolesKeptParts DEF InvitesInv
      <3>2. CASE task'[b] = Idle
        BY <3>2, TaskLeft
      <3>3. CASE task'[b] = task[b] /\ task[b].at # "idle"
        <4> DEFINE j == task[b].invite
        <4>1. j \in Invites
          BY <3>1, <3>3 DEF TaskKept
        <4>2. CASE j # i
          BY <1>0, <2>2, <3>1, <3>3, <4>1, <4>2 DEF TaskKept, ScopesAbove
        <4>3. CASE j = i
          <5>1. s \in Sharing => r = invite[i].role
            <6>1. TaskKept(a) /\ task[a].at = "commit"
              BY RolesKeptParts DEF InvitesInv, Commit
            <6> QED BY <6>1 DEF TaskKept
          <5>2. invite'[i].status # "none"
            BY <2>4, <2>5
          <5> QED BY <1>0, <2>4, <3>1, <3>3, <4>1, <4>3, <5>1, <5>2 DEF TaskKept, ScopesAbove
        <4> QED BY <4>2, <4>3
      <3>4. CASE task'[b] = task[b] /\ task[b].at = "idle"
        BY <3>4 DEF TaskKept
      <3> QED BY <1>2, <3>2, <3>3, <3>4
    <2> QED BY <2>7, <2>8, <2>9, <2>10, <2>11, Parts DEF Ledger
  <1> QED BY <1>3, <1>4

\* Steps that change memberships or the tasks only.
LEMMA StepMembers ==
  ASSUME InvitesInv, UNCHANGED <<role, invite, accepted, within>>,
         \/ UNCHANGED task
         \/ \E a \in Acceptances : task' = [task EXCEPT ![a] = Idle],
         member' \in [Scopes -> [Users -> Roles \cup {None}]],
         \A s \in Scopes, u \in Users :
            member'[s][u] = member[s][u] \/ member'[s][u] \in role[s] \cup {None}
  PROVE  InvitesInv'
  <1>0. TypeOK
    BY DEF InvitesInv
  <1>1. task' \in [Acceptances -> Task] /\ \A b \in Acceptances : task'[b] \in {task[b], Idle}
    <2>1. task \in [Acceptances -> Task] /\ Idle \in Task
      BY <1>0, IdleTyped DEF TypeOK
    <2> QED BY <2>1
  <1>2. TypeOK'
    BY <1>0, <1>1 DEF TypeOK
  <1>3. \A j \in Invites : Narrowed(j)
    BY <1>0, SameInvites
  <1>4. \A b \in Acceptances : TaskKept(b)'
    BY <1>1, <1>3, TaskRests, TaskLeft
  <1>5. NoDanglingRole'
    BY DEF InvitesInv, NoDanglingRole
  <1>6. Ledger'
    BY DEF InvitesInv, Ledger, LedgerOf, Full
  <1>7. \A j \in Invites : Open(j)' => invite'[j].role \in role'[invite'[j].scope]
    BY DEF InvitesInv, RolesKept, Open
  <1> QED BY <1>2, <1>4, <1>5, <1>6, <1>7, Parts

\* Steps that change which scopes lie above which: an acceptance in progress
\* whose scopes they moved has that recorded.
LEMMA StepRelocate ==
  ASSUME InvitesInv, UNCHANGED <<role, invite, accepted>>,
         NEW f \in [Scopes -> Scopes \cup {None}], Relocate(f),
         member' \in [Scopes -> [Users -> Roles \cup {None}]],
         \A s \in Scopes, u \in Users : member'[s][u] \in {member[s][u], None}
  PROVE  InvitesInv'
  <1>0. TypeOK /\ within' = f
    BY DEF InvitesInv, Relocate
  <1> DEFINE s(a) == invite[task[a].invite].scope
             m(a) == \/ task[a].moved
                     \/ /\ task[a].at \in {"role", "context", "commit"}
                        /\ UpwardsBy(f, s(a)) # ScopesAbove(s(a))
  <1>1. ASSUME NEW a \in Acceptances
        PROVE  m(a) \in BOOLEAN /\ task'[a] = [task[a] EXCEPT !.moved = m(a)]
    BY <1>0 DEF Relocate, TypeOK, Task
  <1>2. task' \in [Acceptances -> Task]
    <2>1. \A a \in Acceptances : [task[a] EXCEPT !.moved = m(a)] \in Task
      <3> SUFFICES ASSUME NEW a \in Acceptances
                   PROVE  [task[a] EXCEPT !.moved = m(a)] \in Task
        OBVIOUS
      <3>1. m(a) \in BOOLEAN /\ task[a] \in Task
        BY <1>0, <1>1 DEF TypeOK
      <3> HIDE DEF m
      <3> QED BY <3>1 DEF Task
    <2>2. task' = [a \in Acceptances |-> [task[a] EXCEPT !.moved = m(a)]]
      BY DEF Relocate
    <2> QED BY <2>1, <2>2
  <1>3. \A j \in Invites : Narrowed(j)
    BY <1>0, SameInvites
  <1>4. ASSUME NEW a \in Acceptances PROVE TaskKept(a)'
    <2>1. task[a].at \in {"idle", "scopes", "role", "context", "commit"}
      BY <1>0 DEF TypeOK, Task
    <2>2. task[a].at \notin {"idle", "scopes"} =>
            m(a) \/ (~task[a].moved /\ UpwardsBy(within', s(a)) = UpwardsBy(within, s(a)))
      BY <1>0, <2>1 DEF ScopesAbove
    <2>3. m(a) \in BOOLEAN /\ task'[a] = [task[a] EXCEPT !.moved = m(a)]
      BY <1>1
    <2> HIDE DEF m
    <2> QED BY <1>3, <2>2, <2>3, TaskStays
  <1>5. TypeOK'
    BY <1>0, <1>2 DEF TypeOK
  <1>6. NoDanglingRole'
    BY DEF InvitesInv, NoDanglingRole
  <1>7. Ledger'
    BY DEF InvitesInv, Ledger, LedgerOf, Full
  <1>8. \A j \in Invites : Open(j)' => invite'[j].role \in role'[invite'[j].scope]
    BY DEF InvitesInv, RolesKept, Open
  <1> QED BY <1>4, <1>5, <1>6, <1>7, <1>8, Parts

\* Removals of members and pages, and links of workspaces.
LEMMA StepMoving ==
  ASSUME InvitesInv, NEW s \in Scopes,
         \/ \E u \in Users : RemoveMember(s, u)
         \/ TakePageAway(s)
         \/ \E o \in Scopes : LinkToOrganization(s, o)
  PROVE  InvitesInv'
  <1>0. /\ within \in [Scopes -> Scopes \cup {None}]
        /\ member \in [Scopes -> [Users -> Roles \cup {None}]]
    BY DEF InvitesInv, TypeOK
  <1>1. CASE \E u \in Users : RemoveMember(s, u)
    <2>1. PICK u \in Users : RemoveMember(s, u)
      BY <1>1
    <2> DEFINE f == [p \in Scopes |-> IF p \in Pagelike /\ within[p] = s /\ Keeper[p] = u
                                     THEN None ELSE within[p]]
    <2>2. f \in [Scopes -> Scopes \cup {None}]
      BY <1>0
    <2>3. /\ Relocate(f) /\ UNCHANGED <<role, invite, accepted>>
          /\ member' = [member EXCEPT ![s][u] = None]
      BY <2>1 DEF RemoveMember
    <2>4. /\ member' \in [Scopes -> [Users -> Roles \cup {None}]]
          /\ \A t \in Scopes, v \in Users : member'[t][v] \in {member[t][v], None}
      BY <1>0, <2>3
    <2> HIDE DEF f
    <2> QED BY <2>2, <2>3, <2>4, StepRelocate
  <1>2. CASE TakePageAway(s) \/ \E o \in Scopes : LinkToOrganization(s, o)
    <2>1. PICK t \in Scopes \cup {None} : Relocate([within EXCEPT ![s] = t])
                                     /\ UNCHANGED <<role, member, invite, accepted>>
      BY <1>2 DEF TakePageAway, LinkToOrganization
    <2>2. [within EXCEPT ![s] = t] \in [Scopes -> Scopes \cup {None}]
      BY <1>0
    <2> QED BY <1>0, <2>1, <2>2, StepRelocate
  <1> QED BY <1>1, <1>2

\* Admissions and assignments of members, and abandoned acceptances.
LEMMA StepManaging ==
  ASSUME InvitesInv,
         \/ \E a \in Acceptances : Abandon(a)
         \/ \E s \in Scopes, u \in Users, r \in Roles : Admit(s, u, r) \/ Assign(s, u, r)
  PROVE  InvitesInv'
  <1>0. member \in [Scopes -> [Users -> Roles \cup {None}]]
    BY DEF InvitesInv, TypeOK
  <1>1. CASE \E a \in Acceptances : Abandon(a)
    <2>1. /\ UNCHANGED <<role, member, invite, accepted, within>>
          /\ \E a \in Acceptances : task' = [task EXCEPT ![a] = Idle]
      BY <1>1 DEF Abandon, Leave
    <2> QED BY <1>0, <2>1, StepMembers
  <1>2. CASE \E s \in Scopes, u \in Users, r \in Roles : Admit(s, u, r) \/ Assign(s, u, r)
    <2>1. PICK s \in Scopes, u \in Users, r \in Roles : Admit(s, u, r) \/ Assign(s, u, r)
      BY <1>2
    <2>2. /\ UNCHANGED <<role, invite, accepted, within, task>>
          /\ r \in role[s] /\ member' = [member EXCEPT ![s][u] = r]
      BY <2>1 DEF Admit, Assign
    <2>3. /\ member' \in [Scopes -> [Users -> Roles \cup {None}]]
          /\ \A t \in Scopes, v \in Users :
               member'[t][v] = member[t][v] \/ member'[t][v] \in role[t] \cup {None}
      BY <1>0, <2>2
    <2> QED BY <2>2, <2>3, StepMembers
  <1> QED BY <1>1, <1>2

\* A role is removed only when nobody holds it and no open invite grants it,
\* and it is never an invite's own.
LEMMA StepRemoveRole ==
  ASSUME InvitesInv, NEW s \in Scopes, NEW r \in Roles, RemoveRole(s, r)
  PROVE  InvitesInv'
  <1>0. TypeOK /\ UNCHANGED <<member, invite, accepted, within, task>>
    BY DEF InvitesInv, RemoveRole
  <1>1. r \notin Invites /\ role' = [role EXCEPT ![s] = @ \ {r}]
    BY InvitesAssumption DEF RemoveRole
  <1>2. TypeOK'
    BY <1>0, <1>1 DEF TypeOK
  <1>3. \A t \in Scopes : Invites \cap role[t] \subseteq role'[t]
    BY <1>0, <1>1 DEF TypeOK
  <1>4. NoDanglingRole'
    BY <1>0, <1>1 DEF InvitesInv, NoDanglingRole, RemoveRole, TypeOK
  <1>5. Ledger'
    BY <1>0 DEF InvitesInv, Ledger, LedgerOf, Full
  <1>6. ASSUME NEW j \in Invites, Open(j)'
        PROVE  invite'[j].role \in role'[invite'[j].scope]
    <2>1. Open(j) /\ invite[j].role \in role[invite[j].scope] /\ invite[j].scope \in Scopes
      BY <1>0, <1>6 DEF Open, InvitesInv, RolesKept, TypeOK, Row
    <2>2. invite[j].scope = s => invite[j].role # r
      BY <2>1 DEF RemoveRole
    <2> QED BY <1>0, <1>1, <2>1, <2>2 DEF TypeOK
  <1>7. \A a \in Acceptances : TaskKept(a)'
    <2>1. \A j \in Invites : Narrowed(j)
      BY <1>0, SameInvites
    <2> QED BY <1>0, <1>3, <2>1, TaskRests
  <1> QED BY <1>2, <1>4, <1>5, <1>6, <1>7, Parts

-----------------------------------------------------------------------------
\* Every step keeps the invariant.
LEMMA InvStep == InvitesInv /\ [Next]_vars => InvitesInv'
  <1> SUFFICES ASSUME InvitesInv, [Next]_vars PROVE InvitesInv'
    OBVIOUS
  <1>1. CASE UNCHANGED vars
    <2>1. UNCHANGED <<role, invite, accepted, within, task, member>>
      BY <1>1 DEF vars
    <2>2. member' \in [Scopes -> [Users -> Roles \cup {None}]]
      BY <2>1 DEF InvitesInv, TypeOK
    <2> QED BY <2>1, <2>2, StepMembers
  <1>2. CASE Inviting \/ List
    BY <1>2, StepCreate, StepNarrow DEF Inviting
  <1>3. CASE Accepting
    <2>1. PICK a \in Acceptances :
             \/ \E i \in Invites, u \in Users : StartAcceptance(a, i, u)
             \/ ReadScopes(a) \/ EnsureRole(a) \/ EnsureContext(a) \/ Commit(a)
             \/ Abandon(a)
      BY <1>3 DEF Accepting
    <2> QED BY <2>1, StepStart, StepScopes, StepRole, StepContext, StepCommit, StepManaging
  <1>4. CASE Managing
    BY <1>4, StepManaging, StepMoving, StepRemoveRole DEF Managing
  <1> QED BY <1>1, <1>2, <1>3, <1>4 DEF Next

\* The invariant holds for any number of users, invites, roles, scopes and
\* acceptances in progress.
THEOREM InvitesSafe == Spec => []InvitesInv
  BY InvInit, InvStep, PTL DEF Spec

\* No live membership points to a removed role (acceptById, RoleStore.remove).
THEOREM RolesNeverDangle == Spec => []NoDanglingRole
  <1>1. InvitesInv => NoDanglingRole
    BY DEF InvitesInv
  <1> QED BY <1>1, InvitesSafe, PTL

\* acceptance_count is the number of acceptances and within acceptance_limit.
THEOREM LimitsKept == Spec => []Ledger
  <1>1. InvitesInv => Ledger
    BY DEF InvitesInv
  <1> QED BY <1>1, InvitesSafe, PTL

-----------------------------------------------------------------------------
\* What one step does to the invites and their acceptances.
LEMMA StepInvites ==
  ASSUME InvitesInv, [Next]_vars
  PROVE  \/ (\A i \in Invites : Narrowed(i)) /\ UNCHANGED accepted
         \/ /\ UNCHANGED accepted
            /\ \E i \in Invites : /\ invite[i].status = "none"
                                 /\ \A j \in Invites \ {i} : invite'[j] = invite[j]
         \/ \E a \in Acceptances : Commit(a) /\ Valid(task[a].invite, task[a].user)
  <1>0. TypeOK
    BY DEF InvitesInv
  <1>1. CASE UNCHANGED <<invite, accepted>>
    BY <1>0, <1>1, SameInvites
  <1>2. CASE \E i \in Invites, s \in Scopes, r \in Roles, u \in Users \cup {Anyone},
                l \in Limit, timed \in BOOLEAN : Create(i, s, r, u, l, timed)
    <2>1. PICK i \in Invites, s \in Scopes, r \in Roles, u \in Users \cup {Anyone},
                l \in Limit, timed \in BOOLEAN : Create(i, s, r, u, l, timed)
      BY <1>2
    <2>2. \A j \in Invites \ {i} : invite'[j] = invite[j]
      BY <1>0, <2>1 DEF Create, TypeOK
    <2> QED BY <2>1, <2>2 DEF Create
  <1>3. CASE \E i \in Invites : Lapse(i) \/ Remove(i)
    <2>1. PICK i \in Invites : Lapse(i) \/ Remove(i)
      BY <1>3
    <2>2. CASE Lapse(i)
      BY <1>0, <2>2 DEF Lapse, TypeOK, Row, Narrowed, Open
    <2>3. CASE Remove(i)
      BY <1>0, <2>3 DEF Remove, TypeOK, Row, Narrowed, Open
    <2> QED BY <2>1, <2>2, <2>3
  <1>4. CASE List \/ \E a \in Acceptances, i \in Invites, u \in Users : StartAcceptance(a, i, u)
    <2>1. invite' = Swept /\ UNCHANGED accepted
      <3>1. CASE List
        BY <3>1 DEF List
      <3>2. CASE \E a \in Acceptances, i \in Invites, u \in Users : StartAcceptance(a, i, u)
        BY <3>2 DEF StartAcceptance
      <3> QED BY <1>4, <3>1, <3>2
    <2> QED BY <1>0, <2>1, SweptNarrow
  <1>5. CASE \E a \in Acceptances : Commit(a)
    BY <1>1, <1>5 DEF Commit
  <1>6. CASE \E a \in Acceptances : ReadScopes(a) \/ EnsureRole(a) \/ EnsureContext(a) \/ Abandon(a)
    BY <1>1, <1>6 DEF ReadScopes, EnsureRole, EnsureContext, Abandon
  <1>7. CASE Managing
    BY <1>1, <1>7 DEF Managing, Admit, Assign, RemoveMember, RemoveRole, TakePageAway, LinkToOrganization
  <1>8. CASE UNCHANGED vars
    BY <1>1, <1>8 DEF vars
  <1> QED BY <1>2, <1>3, <1>4, <1>5, <1>6, <1>7, <1>8 DEF Next, Inviting, Accepting

\* Acceptances are recorded by transactions that go through.
LEMMA OnlyCommitsAccept ==
  ASSUME InvitesInv, [Next]_vars, accepted' # accepted
  PROVE  \E a \in Acceptances : Commit(a) /\ Valid(task[a].invite, task[a].user)
  <1>1. CASE (\A i \in Invites : Narrowed(i)) /\ UNCHANGED accepted
    BY <1>1
  <1>2. CASE /\ UNCHANGED accepted
             /\ \E i \in Invites : /\ invite[i].status = "none"
                                  /\ \A j \in Invites \ {i} : invite'[j] = invite[j]
    BY <1>2
  <1> QED BY <1>1, <1>2, StepInvites

\* A closed invite is not opened again and admits nobody, even to an acceptance
\* that read it open (acceptById).
THEOREM ClosedStaysClosed == Spec => ClosedForGood
  <1>1. InvitesInv /\ [Next]_vars =>
          [\A i \in Invites : invite[i].status \in {"accepted", "expired"} =>
             /\ invite'[i].status # "pending"
             /\ \A u \in Users : <<i, u>> \in accepted' => <<i, u>> \in accepted]_vars
    <2> SUFFICES ASSUME InvitesInv, [Next]_vars, NEW i \in Invites,
                        invite[i].status \in {"accepted", "expired"}
                 PROVE  /\ invite'[i].status # "pending"
                        /\ \A u \in Users : <<i, u>> \in accepted' => <<i, u>> \in accepted
      OBVIOUS
    <2>1. CASE (\A j \in Invites : Narrowed(j)) /\ UNCHANGED accepted
      BY <2>1 DEF Narrowed
    <2>2. CASE /\ UNCHANGED accepted
               /\ \E j \in Invites : /\ invite[j].status = "none"
                                    /\ \A k \in Invites \ {j} : invite'[k] = invite[k]
      BY <2>2
    <2>3. ASSUME NEW a \in Acceptances, Commit(a), Valid(task[a].invite, task[a].user)
          PROVE  /\ invite'[i].status # "pending"
                 /\ \A u \in Users : <<i, u>> \in accepted' => <<i, u>> \in accepted
      <3> DEFINE j == task[a].invite
      <3>1. /\ j \in Invites /\ accepted' = accepted \cup {<<j, task[a].user>>}
            /\ invite' = [invite EXCEPT ![j] = Counted(j, task[a].role)]
        BY <2>3, Committed
      <3>2. i # j
        BY <2>3 DEF Valid, Open
      <3>3. invite'[i] = invite[i]
        BY <3>1, <3>2 DEF InvitesInv, TypeOK
      <3> QED BY <3>1, <3>2, <3>3
    <2> QED BY <2>1, <2>2, <2>3, StepInvites
  <1> QED BY <1>1, InvitesSafe, PTL DEF Spec, ClosedForGood

\* The transaction of an acceptance admits its user to its scope and to every
\* scope read as above it, with roles that exist, keeps those the user had, and
\* touches no other membership; no scope above is missed unless one was linked
\* or taken away since they were read (acceptById, scopeContext).
THEOREM AcceptanceComplete == Spec => AcceptanceReachesAllScopes
  <1> DEFINE Reaches(a, i, u) ==
        /\ task[a].at = "commit" /\ task[a].invite = i /\ task[a].user = u
        /\ task[a].moved \/ ScopesAbove(invite[i].scope) \subseteq Entered(a)
        /\ \A s \in Scopes, v \in Users :
              IF v = u /\ s \in Entered(a)
              THEN member'[s][v] \in role[s] /\ member[s][v] \in {None, member'[s][v]}
              ELSE member'[s][v] = member[s][v]
  <1>1. ASSUME InvitesInv, [Next]_vars, NEW i \in Invites, NEW u \in Users,
               <<i, u>> \in accepted' \ accepted
        PROVE  \E a \in Acceptances : Reaches(a, i, u)
    <2>1. PICK a \in Acceptances : Commit(a) /\ Valid(task[a].invite, task[a].user)
      BY <1>1, OnlyCommitsAccept
    <2> DEFINE j == task[a].invite  w == task[a].user  h == invite[j].scope
    <2>2. /\ j \in Invites /\ w \in Users /\ h \in Scopes
          /\ accepted' = accepted \cup {<<j, w>>}
          /\ \A t \in Entered(a) : Grant(a, t) \in role[t]
          /\ member' = [t \in Scopes |->
                 IF t \in Entered(a) THEN Join(a, t) ELSE member[t]]
      BY <1>1, <2>1, Committed
    <2>3. i = j /\ u = w
      BY <1>1, <2>2
    <2>4. task[a].at = "commit" /\ (task[a].moved \/ ScopesAbove(h) \subseteq Entered(a))
      <3>1. TaskKept(a) /\ task[a].at = "commit"
        BY <1>1, <2>1, RolesKeptParts DEF InvitesInv, Commit
      <3> QED BY <3>1 DEF TaskKept, Entered
    <2>5. ASSUME NEW s \in Scopes, NEW v \in Users
          PROVE  IF v = w /\ s \in Entered(a)
                 THEN member'[s][v] \in role[s] /\ member[s][v] \in {None, member'[s][v]}
                 ELSE member'[s][v] = member[s][v]
      <3>1. member[s] \in [Users -> Roles \cup {None}]
        BY <1>1 DEF InvitesInv, TypeOK
      <3>2. CASE s \notin Entered(a)
        BY <2>2, <3>2
      <3>3. CASE s \in Entered(a) /\ v # w
        BY <2>2, <3>1, <3>3 DEF Join
      <3>4. CASE s \in Entered(a) /\ v = w
        <4>1. member'[s][v] = IF member[s][v] = None THEN Grant(a, s) ELSE member[s][v]
          BY <2>2, <3>1, <3>4 DEF Join
        <4>2. member[s][v] # None => member[s][v] \in role[s]
          BY <1>1 DEF InvitesInv, NoDanglingRole
        <4> QED BY <2>2, <3>4, <4>1, <4>2
      <3> QED BY <3>2, <3>3, <3>4
    <2> QED BY <2>3, <2>4, <2>5
  <1>2. InvitesInv /\ [Next]_vars =>
          [\A i \in Invites, u \in Users :
             <<i, u>> \in accepted' \ accepted => \E a \in Acceptances : Reaches(a, i, u)]_vars
    BY <1>1
  <1> QED BY <1>2, InvitesSafe, PTL DEF Spec, AcceptanceReachesAllScopes

\* Whoever used an invite and was removed is not let in by it again: a commit
\* for a user with an acceptance writes no membership (acceptById).
THEOREM NobodyReadmitted == Spec => NoReadmission
  <1>1. ASSUME NEW a \in Acceptances, Commit(a), <<task[a].invite, task[a].user>> \in accepted
        PROVE  UNCHANGED member
    <2>1. ~Valid(task[a].invite, task[a].user)
      BY <1>1 DEF Valid
    <2> QED BY <1>1, <2>1 DEF Commit
  <1>2. [Next]_vars =>
          [\A a \in Acceptances :
             Commit(a) /\ <<task[a].invite, task[a].user>> \in accepted => UNCHANGED member]_vars
    BY <1>1
  <1> QED BY <1>2, PTL DEF Spec, NoReadmission

-----------------------------------------------------------------------------
(* ScopedAccess.                                                           *)

RolesInd == AccessTypeOK /\ MembersHaveRoles

\* The rows there are at first are of roles that exist.
LEMMA RolesStart == AccessInit => RolesInd
  <1> SUFFICES ASSUME AccessInit PROVE RolesInd
    OBVIOUS
  <1>1. AccessTypeOK
    <2>1. /\ given = Founding.given /\ membership = Founding.member /\ asked = Founding.asked
          /\ linked \in BOOLEAN /\ deleted \subseteq Pages
      BY DEF AccessInit
    <2>2. \A x \in AccessScopes : \A r \in Live(x) : given[x][r] \subseteq Catalog(x)
      BY <2>1, ScopedAccessAssumption DEF Live
    <2>3. asked \in [AccessScopes -> [Persons -> {"none", "pending", "accepted", "rejected"}]]
      BY <2>1, ScopedAccessAssumption
    <2> QED BY <2>1, <2>2, <2>3, ScopedAccessAssumption DEF AccessTypeOK
  <1>2. MembersHaveRoles
    BY ScopedAccessAssumption DEF AccessInit, MembersHaveRoles, IsMember, Live
  <1> QED BY <1>1, <1>2 DEF RolesInd

\* What a change of one role's permissions does to the roles there are.
LEMMA OneRoleChanges ==
  ASSUME AccessTypeOK, NEW x \in AccessScopes, NEW r \in RoleIds, NEW g,
         g \in {Absent, Gone} \/ g \in Offered[Kind(x)],
         given' = [given EXCEPT ![x][r] = g]
  PROVE  /\ given' \in [AccessScopes -> [RoleIds -> {Absent, Gone} \cup SUBSET Permissions]]
         /\ \A y \in AccessScopes : \A s \in (Live(y))' : given'[y][s] \subseteq Catalog(y)
         /\ \A y \in AccessScopes : Live(y) \ {r} \subseteq (Live(y))'
         /\ \A y \in AccessScopes \ {x} : (Live(y))' = Live(y)
         /\ g \notin {Absent, Gone} => r \in (Live(x))'
  <1>1. g \in Offered[Kind(x)] => g \in SUBSET Permissions /\ g \subseteq Catalog(x) /\ g \notin {Absent, Gone}
    BY ScopedAccessAssumption DEF Permissions
  <1>2. /\ DOMAIN given = AccessScopes /\ DOMAIN given[x] = RoleIds
        /\ given'[x] = [given[x] EXCEPT ![r] = g]
        /\ \A y \in AccessScopes \ {x} : given'[y] = given[y]
    BY DEF AccessTypeOK
  <1>3. given'[x][r] = g /\ \A s \in RoleIds \ {r} : given'[x][s] = given[x][s]
    BY <1>2
  <1>4. given' \in [AccessScopes -> [RoleIds -> {Absent, Gone} \cup SUBSET Permissions]]
    BY <1>1 DEF AccessTypeOK
  <1>5. ASSUME NEW y \in AccessScopes, NEW s \in (Live(y))' PROVE given'[y][s] \subseteq Catalog(y)
    <2>1. s \in RoleIds /\ given'[y][s] \notin {Absent, Gone}
      BY DEF Live
    <2>2. CASE y = x /\ s = r
      BY <1>1, <1>3, <2>1, <2>2
    <2>3. CASE ~(y = x /\ s = r)
      BY <1>2, <1>3, <2>1, <2>3 DEF AccessTypeOK, Live
    <2> QED BY <2>2, <2>3
  <1>6. \A y \in AccessScopes : Live(y) \ {r} \subseteq (Live(y))'
    BY <1>2, <1>3 DEF Live
  <1>7. \A y \in AccessScopes \ {x} : (Live(y))' = Live(y)
    BY <1>2 DEF Live
  <1>8. g \notin {Absent, Gone} => r \in (Live(x))'
    BY <1>3 DEF Live
  <1> QED BY <1>4, <1>5, <1>6, <1>7, <1>8

\* A role is created or saved.
LEMMA WritingRoleKeeps ==
  ASSUME RolesInd, NEW u \in Persons, NEW x \in AccessScopes, NEW r \in RoleIds,
         NEW set \in Offered[Kind(x)], CreateRole(u, x, r, set) \/ SaveRole(u, x, r, set)
  PROVE  RolesInd'
  <1>1. /\ given' = [given EXCEPT ![x][r] = set]
        /\ UNCHANGED <<membership, linked, deleted, asked>>
    BY DEF CreateRole, SaveRole
  <1>2. set \notin {Absent, Gone}
    BY ScopedAccessAssumption
  <1>3. AccessTypeOK'
    BY <1>1, OneRoleChanges DEF RolesInd, AccessTypeOK
  <1>4. \A y \in AccessScopes : Live(y) \subseteq (Live(y))'
    BY <1>1, <1>2, OneRoleChanges DEF RolesInd
  <1>5. MembersHaveRoles'
    BY <1>1, <1>4 DEF RolesInd, MembersHaveRoles, IsMember
  <1> QED BY <1>3, <1>5 DEF RolesInd

\* A role is removed only when nobody has it.
LEMMA RemovingRoleKeeps ==
  ASSUME RolesInd, NEW u \in Persons, NEW x \in AccessScopes, NEW r \in RoleIds, DeleteRole(u, x, r)
  PROVE  RolesInd'
  <1>1. /\ given' = [given EXCEPT ![x][r] = Gone]
        /\ UNCHANGED <<membership, linked, deleted, asked>>
        /\ \A v \in Persons : membership[x][v] # r
    BY DEF DeleteRole
  <1>2. AccessTypeOK'
    BY <1>1, OneRoleChanges DEF RolesInd, AccessTypeOK
  <1>3. /\ Live(x) \ {r} \subseteq (Live(x))'
        /\ \A y \in AccessScopes \ {x} : (Live(y))' = Live(y)
    BY <1>1, OneRoleChanges DEF RolesInd
  <1>4. MembersHaveRoles'
    BY <1>1, <1>3 DEF RolesInd, MembersHaveRoles, IsMember
  <1> QED BY <1>2, <1>4 DEF RolesInd

\* Recording one answer to a request keeps the type of requests.
LEMMA OneAnswer ==
  ASSUME asked \in [AccessScopes -> [Persons -> {"none", "pending", "accepted", "rejected"}]],
         NEW x \in AccessScopes, NEW v \in Persons, NEW s \in {"pending", "accepted", "rejected"},
         asked' = [asked EXCEPT ![x][v] = s]
  PROVE  asked' \in [AccessScopes -> [Persons -> {"none", "pending", "accepted", "rejected"}]]
  <1>1. [asked[x] EXCEPT ![v] = s] \in [Persons -> {"none", "pending", "accepted", "rejected"}]
    OBVIOUS
  <1>2. asked' = [asked EXCEPT ![x] = [asked[x] EXCEPT ![v] = s]]
    OBVIOUS
  <1> QED BY <1>1, <1>2

\* A member gets a role that is there, or leaves.
LEMMA MembersKeep ==
  ASSUME RolesInd, NEW x \in AccessScopes, NEW v \in Persons, NEW r \in Live(x) \cup {Absent},
         membership' = [membership EXCEPT ![x][v] = r],
         UNCHANGED <<given, linked, deleted>>,
         \/ UNCHANGED asked
         \/ asked' = [asked EXCEPT ![x][v] = "accepted"]
  PROVE  RolesInd'
  <1>1. /\ \A y \in AccessScopes : (Live(y))' = Live(y)
        /\ r \in {Absent} \cup RoleIds
    BY DEF Live
  <1>2. /\ membership' \in [AccessScopes -> [Persons -> {Absent} \cup RoleIds]]
        /\ membership'[x][v] = r
        /\ \A y \in AccessScopes, w \in Persons : <<y, w>> # <<x, v>> => membership'[y][w] = membership[y][w]
    BY <1>1 DEF RolesInd, AccessTypeOK
  <1>3. asked' \in [AccessScopes -> [Persons -> {"none", "pending", "accepted", "rejected"}]]
    BY OneAnswer DEF RolesInd, AccessTypeOK
  <1>4. AccessTypeOK'
    BY <1>1, <1>2, <1>3 DEF RolesInd, AccessTypeOK
  <1>5. MembersHaveRoles'
    BY <1>1, <1>2 DEF RolesInd, MembersHaveRoles, IsMember
  <1> QED BY <1>4, <1>5 DEF RolesInd

\* Requests and the scopes themselves change nothing of roles.
LEMMA OthersKeep ==
  ASSUME RolesInd, UNCHANGED <<given, membership>>,
         linked' \in BOOLEAN, deleted' \subseteq Pages,
         \/ UNCHANGED asked
         \/ \E x \in AccessScopes, v \in Persons, s \in {"pending", "rejected"} :
               asked' = [asked EXCEPT ![x][v] = s]
  PROVE  RolesInd'
  <1>1. \A y \in AccessScopes : (Live(y))' = Live(y)
    BY DEF Live
  <1>2. asked' \in [AccessScopes -> [Persons -> {"none", "pending", "accepted", "rejected"}]]
    BY OneAnswer DEF RolesInd, AccessTypeOK
  <1>3. AccessTypeOK'
    BY <1>1, <1>2 DEF RolesInd, AccessTypeOK
  <1>4. MembersHaveRoles'
    BY <1>1 DEF RolesInd, MembersHaveRoles, IsMember
  <1> QED BY <1>3, <1>4 DEF RolesInd

\* Every change keeps the types, and a role for every member.
LEMMA RolesStay == RolesInd /\ [AccessNext]_accessVars => RolesInd'
  <1> SUFFICES ASSUME RolesInd, [AccessNext]_accessVars PROVE RolesInd'
    OBVIOUS
  <1>0. linked \in BOOLEAN /\ deleted \subseteq Pages
    BY DEF RolesInd, AccessTypeOK
  <1>1. CASE UNCHANGED accessVars
    BY <1>0, <1>1, OthersKeep DEF accessVars
  <1>2. ASSUME NEW u \in Persons, LinkWorkspace(u) \/ \E p \in Pages : RemovePage(u, p) PROVE RolesInd'
    BY <1>0, <1>2, OthersKeep DEF LinkWorkspace, RemovePage
  <1>3. ASSUME NEW u \in Persons, NEW x \in AccessScopes, NEW v \in Persons, Ask(x, u) \/ Reject(u, x, v)
        PROVE  RolesInd'
    BY <1>0, <1>3, OthersKeep DEF Ask, Reject
  <1>4. ASSUME NEW u \in Persons, NEW x \in AccessScopes, NEW v \in Persons, NEW r \in RoleIds,
               AssignRole(u, x, v, r) \/ Accept(u, x, v, r)
        PROVE  RolesInd'
    BY <1>4, MembersKeep DEF AssignRole, Accept
  <1>5. ASSUME NEW u \in Persons, NEW x \in AccessScopes, NEW v \in Persons, DismissMember(u, x, v)
        PROVE  RolesInd'
    BY <1>5, MembersKeep DEF DismissMember
  <1> QED BY <1>1, <1>2, <1>3, <1>4, <1>5, WritingRoleKeeps, RemovingRoleKeeps DEF AccessNext

\* Whoever is a member of an organization, a workspace or a page has a role
\* that exists, whatever order roles are removed, given and taken away in.
THEOREM MembersAlwaysHaveRoles == AccessSpec => [](AccessTypeOK /\ MembersHaveRoles)
  <1>1. RolesInd => AccessTypeOK /\ MembersHaveRoles
    BY DEF RolesInd
  <1> QED BY <1>1, RolesStart, RolesStay, PTL DEF AccessSpec

-----------------------------------------------------------------------------
(* The tree of pages.  Branch and SharedBranch climb to the first page of a *)
(* set; Climb says where to without recursion, so that both are known.      *)

NatLess == {ss \in Nat \X Nat : ss[1] < ss[2]}

LEMMA NatWF == IsWellFoundedOn(NatLess, Nat)
  BY NatLessThanWellFounded DEF OpToRel, NatLess

LEMMA LeastNat ==
  ASSUME NEW S, S \subseteq Nat, S # {}
  PROVE  \E x \in S : \A y \in S : x <= y
  <1>1. PICK x \in S : \A y \in S : ~ (<<y, x>> \in NatLess)
    BY NatWF, WFMin, Zenon
  <1>2. ASSUME NEW y \in S PROVE x <= y
    <2>1. <<y, x>> \in Nat \X Nat
      OBVIOUS
    <2>2. ~ (y < x)
      BY <1>1, <1>2, <2>1 DEF NatLess
    <2> QED BY <2>2
  <1> QED BY <1>2

\* A page is reached from the roots.
Depth == CHOOSE depth \in [Pages -> 0 .. Cardinality(Pages)] :
            \A p \in Pages : ParentPage[p] # Absent => depth[ParentPage[p]] < depth[p]

LEMMA Deeper ==
  /\ \A p \in Pages : Depth[p] \in Nat
  /\ \A p \in Pages : ParentPage[p] # Absent => ParentPage[p] \in Pages /\ Depth[ParentPage[p]] < Depth[p]
  <1>1. /\ Depth \in [Pages -> 0 .. Cardinality(Pages)]
        /\ \A p \in Pages : ParentPage[p] # Absent => Depth[ParentPage[p]] < Depth[p]
    BY ScopedAccessAssumption DEF Depth
  <1>2. \A n \in 0 .. Cardinality(Pages) : n \in Nat
    OBVIOUS
  <1> QED BY <1>1, <1>2, ScopedAccessAssumption

LEMMA PagesInd ==
  ASSUME NEW S, \A p \in Pages : ParentPage[p] = Absent \/ ParentPage[p] \in S => p \in S
  PROVE  Pages \subseteq S
  <1> DEFINE B == Pages \ S
             T == {Depth[p] : p \in B}
  <1>1. ASSUME B # {} PROVE FALSE
    <2>1. T \subseteq Nat /\ T # {}
      BY <1>1, Deeper
    <2>2. PICK n \in T : \A m \in T : n <= m
      BY <2>1, LeastNat
    <2>3. PICK p \in B : n = Depth[p]
      BY <2>2
    <2>4. ParentPage[p] # Absent /\ ParentPage[p] \in B
      BY <2>3, Deeper
    <2>5. Depth[p] <= Depth[ParentPage[p]]
      BY <2>2, <2>3, <2>4
    <2> QED BY <2>3, <2>4, <2>5, Deeper
  <1> QED BY <1>1

\* From p upwards: D is where a page is not there, M where the way ends.
Upwards(D, M, p, S) ==
    /\ p \notin D => p \in S
    /\ \A q \in S : ParentPage[q] # Absent /\ q \notin M /\ ParentPage[q] \notin D => ParentPage[q] \in S

Climb(D, M, p) == {q \in Pages : \A S \in SUBSET Pages : Upwards(D, M, p, S) => q \in S}

LEMMA ClimbIs ==
  ASSUME NEW D, NEW M, NEW p \in Pages
  PROVE  Climb(D, M, p) = IF p \in D THEN {}
                          ELSE {p} \cup IF ParentPage[p] = Absent \/ p \in M THEN {}
                                        ELSE Climb(D, M, ParentPage[p])
  <1> DEFINE r == ParentPage[p]
  <1>1. CASE p \in D
    <2>1. Upwards(D, M, p, {})
      BY <1>1 DEF Upwards
    <2> QED BY <1>1, <2>1 DEF Climb
  <1>2. CASE p \notin D /\ (r = Absent \/ p \in M)
    <2>1. Upwards(D, M, p, {p})
      BY <1>2 DEF Upwards
    <2>2. \A S \in SUBSET Pages : Upwards(D, M, p, S) => p \in S
      BY <1>2 DEF Upwards
    <2> QED BY <1>2, <2>1, <2>2 DEF Climb
  <1>3. CASE p \notin D /\ r # Absent /\ p \notin M
    <2>1. r \in Pages
      BY <1>3, Deeper
    <2>2. \A S \in SUBSET Pages : Upwards(D, M, p, S) => p \in S /\ Upwards(D, M, r, S)
      BY <1>3 DEF Upwards
    <2>3. {p} \cup Climb(D, M, r) \subseteq Climb(D, M, p)
      BY <2>2 DEF Climb
    <2> DEFINE T == {p} \cup Climb(D, M, r)
    <2>4. T \in SUBSET Pages
      BY DEF Climb
    <2>5. Upwards(D, M, p, T)
      <3>1. r \notin D => r \in Climb(D, M, r)
        BY <2>1 DEF Climb, Upwards
      <3>2. ASSUME NEW q \in Climb(D, M, r), ParentPage[q] # Absent, q \notin M, ParentPage[q] \notin D
            PROVE  ParentPage[q] \in Climb(D, M, r)
        <4>1. ParentPage[q] \in Pages
          BY <3>2, Deeper DEF Climb
        <4>2. \A S \in SUBSET Pages : Upwards(D, M, r, S) => q \in S
          BY DEF Climb
        <4> QED BY <3>2, <4>1, <4>2 DEF Climb, Upwards
      <3> QED BY <3>1, <3>2 DEF Upwards
    <2>6. Climb(D, M, p) \subseteq T
      BY <2>4, <2>5 DEF Climb
    <2> QED BY <1>3, <2>3, <2>6
  <1> QED BY <1>1, <1>2, <1>3

\* What the two recursive functions are.
LEMMA UpIs ==
  ASSUME NEW D
  PROVE  LET up[p \in Pages] == IF p \in D THEN {}
                                ELSE {p} \cup IF ParentPage[p] = Absent THEN {} ELSE up[ParentPage[p]]
         IN \A p \in Pages : up[p] = Climb(D, {}, p)
  <1> DEFINE Eq(f) == f = [p \in Pages |-> IF p \in D THEN {}
                                ELSE {p} \cup IF ParentPage[p] = Absent THEN {} ELSE f[ParentPage[p]]]
             c == [p \in Pages |-> Climb(D, {}, p)]
             f == CHOOSE g : Eq(g)
  <1>1. Eq(c)
    <2>1. ASSUME NEW p \in Pages
          PROVE  c[p] = IF p \in D THEN {}
                        ELSE {p} \cup IF ParentPage[p] = Absent THEN {} ELSE c[ParentPage[p]]
      BY ClimbIs, Deeper
    <2> HIDE DEF c
    <2>2. c = [p \in Pages |-> c[p]]
      BY DEF c
    <2> QED BY <2>1, <2>2
  <1>2. Eq(f)
    BY <1>1
  <1> HIDE DEF f
  <1>3. Pages \subseteq {p \in Pages : f[p] = Climb(D, {}, p)}
    <2> DEFINE S == {p \in Pages : f[p] = Climb(D, {}, p)}
    <2>1. ASSUME NEW p \in Pages, ParentPage[p] = Absent \/ ParentPage[p] \in S
          PROVE  p \in S
      <3>1. f[p] = IF p \in D THEN {}
                   ELSE {p} \cup IF ParentPage[p] = Absent THEN {} ELSE f[ParentPage[p]]
        BY <1>2
      <3>2. Climb(D, {}, p) = IF p \in D THEN {}
                              ELSE {p} \cup IF ParentPage[p] = Absent \/ p \in {} THEN {}
                                            ELSE Climb(D, {}, ParentPage[p])
        BY ClimbIs
      <3>3. ParentPage[p] = Absent \/ f[ParentPage[p]] = Climb(D, {}, ParentPage[p])
        BY <2>1
      <3> HIDE DEF Eq
      <3>4. f[p] = Climb(D, {}, p)
        BY <3>1, <3>2, <3>3
      <3> QED BY <3>4
    <2> HIDE DEF S
    <2>2. Pages \subseteq S
      BY <2>1, PagesInd
    <2> QED BY <2>2 DEF S
  <1> QED BY <1>3 DEF f

SharedUp(D, mem, u) ==
    LET up[p \in Pages] == IF p \in D THEN {}
                           ELSE {p} \cup IF ParentPage[p] = Absent \/ mem[p][u] # Absent THEN {}
                                         ELSE up[ParentPage[p]]
    IN up

Collaborations(mem, u) == {q \in Pages : mem[q][u] # Absent}

LEMMA SharedUpIs ==
  ASSUME NEW D, NEW mem, NEW u, NEW r \in Pages
  PROVE  SharedUp(D, mem, u)[r] = Climb(D, Collaborations(mem, u), r)
  <1> DEFINE M == Collaborations(mem, u)
             Eq(f) == f = [p \in Pages |-> IF p \in D THEN {}
                                ELSE {p} \cup IF ParentPage[p] = Absent \/ mem[p][u] # Absent THEN {}
                                              ELSE f[ParentPage[p]]]
             c == [p \in Pages |-> Climb(D, M, p)]
             f == CHOOSE g : Eq(g)
  <1>0. \A p \in Pages : p \in M <=> mem[p][u] # Absent
    BY DEF Collaborations
  <1> HIDE DEF M
  <1>1. Eq(c)
    <2>1. ASSUME NEW p \in Pages
          PROVE  c[p] = IF p \in D THEN {}
                        ELSE {p} \cup IF ParentPage[p] = Absent \/ mem[p][u] # Absent THEN {}
                                      ELSE c[ParentPage[p]]
      BY <1>0, ClimbIs, Deeper
    <2> HIDE DEF c
    <2>2. c = [p \in Pages |-> c[p]]
      BY DEF c
    <2> QED BY <2>1, <2>2
  <1>2. Eq(f)
    BY <1>1
  <1> HIDE DEF f
  <1>3. Pages \subseteq {p \in Pages : f[p] = Climb(D, M, p)}
    <2> DEFINE S == {p \in Pages : f[p] = Climb(D, M, p)}
    <2>1. ASSUME NEW p \in Pages, ParentPage[p] = Absent \/ ParentPage[p] \in S
          PROVE  p \in S
      <3>1. f[p] = IF p \in D THEN {}
                   ELSE {p} \cup IF ParentPage[p] = Absent \/ mem[p][u] # Absent THEN {}
                                 ELSE f[ParentPage[p]]
        BY <1>2
      <3>2. Climb(D, M, p) = IF p \in D THEN {}
                              ELSE {p} \cup IF ParentPage[p] = Absent \/ p \in M THEN {}
                                            ELSE Climb(D, M, ParentPage[p])
        BY ClimbIs
      <3>3. ParentPage[p] = Absent \/ f[ParentPage[p]] = Climb(D, M, ParentPage[p])
        BY <2>1
      <3> HIDE DEF Eq
      <3>4. f[p] = Climb(D, M, p)
        BY <1>0, <3>1, <3>2, <3>3
      <3> QED BY <3>4
    <2> HIDE DEF S
    <2>2. Pages \subseteq S
      BY <2>1, PagesInd
    <2> QED BY <2>2 DEF S
  <1> QED BY <1>3 DEF SharedUp, f, M

LEMMA Climbs ==
  ASSUME NEW p \in Pages, NEW u
  PROVE  /\ Branch(p) = Climb(deleted, {}, p)
         /\ Branch(p)' = Climb(deleted', {}, p)
         /\ SharedBranch(p, u) = Climb(deleted, Collaborations(membership, u), p)
         /\ SharedBranch(p, u)' = Climb(deleted', Collaborations(membership', u), p)
  <1>1. Branch(p) = Climb(deleted, {}, p)
    BY UpIs DEF Branch
  <1>2. Branch(p)' = Climb(deleted', {}, p)
    BY UpIs DEF Branch
  <1>3. SharedBranch(p, u) = Climb(deleted, Collaborations(membership, u), p)
    <2>1. SharedBranch(p, u) = SharedUp(deleted, membership, u)[p]
      BY DEF SharedBranch, SharedUp, IsMember
    <2> QED BY <2>1, SharedUpIs
  <1>4. SharedBranch(p, u)' = Climb(deleted', Collaborations(membership', u), p)
    <2>1. SharedBranch(p, u)' = SharedUp(deleted', membership', u)[p]
      BY DEF SharedBranch, SharedUp, IsMember
    <2> QED BY <2>1, SharedUpIs
  <1> QED BY <1>1, <1>2, <1>3, <1>4

\* The way up passes only pages that are there, and goes on from each.
LEMMA ClimbGoes ==
  ASSUME NEW D, NEW M, NEW p \in Pages
  PROVE  /\ Climb(D, M, p) \subseteq Pages \ D
         /\ Upwards(D, M, p, Climb(D, M, p))
  <1>1. Pages \ D \in SUBSET Pages /\ Upwards(D, M, p, Pages \ D)
    BY Deeper DEF Upwards
  <1>2. Climb(D, M, p) \subseteq Pages \ D
    BY <1>1 DEF Climb
  <1>3. p \notin D => p \in Climb(D, M, p)
    BY DEF Climb, Upwards
  <1>4. ASSUME NEW q \in Climb(D, M, p), ParentPage[q] # Absent, q \notin M, ParentPage[q] \notin D
        PROVE  ParentPage[q] \in Climb(D, M, p)
    <2>1. q \in Pages /\ ParentPage[q] \in Pages
      BY <1>4, Deeper DEF Climb
    <2>2. \A S \in SUBSET Pages : Upwards(D, M, p, S) => q \in S
      BY DEF Climb
    <2> QED BY <1>4, <2>1, <2>2 DEF Climb, Upwards
  <1> QED BY <1>2, <1>3, <1>4 DEF Upwards

\* Whatever holds of p and goes on upwards holds all the way.
LEMMA ClimbInd ==
  ASSUME NEW D, NEW M, NEW p \in Pages, NEW S, S \subseteq Pages, Upwards(D, M, p, S)
  PROVE  Climb(D, M, p) \subseteq S
  BY DEF Climb

\* The more is removed, and the more places there are to stop at, the shorter.
LEMMA ClimbShrinks ==
  ASSUME NEW D, NEW E, NEW M, NEW N, NEW p \in Pages, D \subseteq E, M \subseteq N
  PROVE  Climb(E, N, p) \subseteq Climb(D, M, p)
  <1>1. \A S \in SUBSET Pages : Upwards(D, M, p, S) => Upwards(E, N, p, S)
    BY DEF Upwards
  <1> QED BY <1>1 DEF Climb

LEMMA ClimbOn ==
  ASSUME NEW D, NEW M, NEW p \in Pages, NEW q \in Climb(D, M, p)
  PROVE  Climb(D, M, q) \subseteq Climb(D, M, p)
  <1>1. q \in Pages /\ Climb(D, M, p) \subseteq Pages /\ Upwards(D, M, p, Climb(D, M, p))
    BY ClimbGoes
  <1>2. Upwards(D, M, q, Climb(D, M, p))
    BY <1>1 DEF Upwards
  <1> QED BY <1>1, <1>2, ClimbInd

LEMMA ClimbUpwards ==
  ASSUME NEW D, NEW M, NEW p \in Pages, NEW q \in Climb(D, M, p), q # p
  PROVE  Depth[q] < Depth[p]
  <1> DEFINE S == {x \in Pages : x = p \/ Depth[x] < Depth[p]}
  <1>1. ASSUME NEW x \in S, ParentPage[x] # Absent PROVE ParentPage[x] \in S
    <2>1. x \in Pages /\ ParentPage[x] \in Pages /\ Depth[ParentPage[x]] < Depth[x]
      BY <1>1, Deeper
    <2>2. Depth[x] \in Nat /\ Depth[ParentPage[x]] \in Nat /\ Depth[p] \in Nat
      BY <2>1, Deeper
    <2>3. x = p \/ Depth[x] < Depth[p]
      OBVIOUS
    <2>4. Depth[ParentPage[x]] < Depth[p]
      BY <2>1, <2>2, <2>3
    <2> QED BY <2>1, <2>4
  <1>2. Upwards(D, M, p, S)
    BY <1>1 DEF Upwards
  <1>3. S \subseteq Pages
    OBVIOUS
  <1> HIDE DEF S
  <1>4. q \in S
    BY <1>2, <1>3, ClimbInd
  <1> QED BY <1>4 DEF S

LEMMA ClimbOneWay ==
  ASSUME NEW D, NEW M, NEW N, NEW p \in Pages, NEW q \in Climb(D, M, p), p \in Climb(D, N, q)
  PROVE  p = q
  <1>1. q \in Pages
    BY DEF Climb
  <1>2. Depth[p] \in Nat /\ Depth[q] \in Nat
    BY <1>1, Deeper
  <1>3. ASSUME p # q PROVE FALSE
    <2>1. Depth[q] < Depth[p]
      BY <1>3, ClimbUpwards
    <2>2. Depth[p] < Depth[q]
      BY <1>1, <1>3, ClimbUpwards
    <2> QED BY <1>2, <2>1, <2>2
  <1> QED BY <1>3

\* Who stops at the first page of M never passes one.
LEMMA ClimbStops ==
  ASSUME NEW D, NEW M, NEW p \in Pages, NEW q \in Climb(D, {}, p), q \in M, NEW x \in Climb(D, M, p)
  PROVE  x \in Climb(D, {}, p) /\ q \in Climb(D, {}, x)
  <1> DEFINE S == {y \in Climb(D, {}, p) : q \in Climb(D, {}, y)}
  <1>1. Climb(D, {}, p) \subseteq Pages \ D /\ Upwards(D, {}, p, Climb(D, {}, p))
    BY ClimbGoes
  <1>2. p \in D => Climb(D, {}, p) = {}
    BY ClimbIs
  <1>3. p \in S
    BY <1>1, <1>2 DEF Upwards
  <1>4. ASSUME NEW y \in S, ParentPage[y] # Absent, y \notin M, ParentPage[y] \notin D
        PROVE  ParentPage[y] \in S
    <2>1. y \in Pages /\ y \notin D /\ q # y /\ q \in Climb(D, {}, y)
      BY <1>1, <1>4
    <2>2. q \in Climb(D, {}, ParentPage[y])
      BY <1>4, <2>1, ClimbIs
    <2> QED BY <1>1, <1>4, <2>2 DEF Upwards
  <1>5. S \subseteq Pages /\ Upwards(D, M, p, S)
    BY <1>1, <1>3, <1>4 DEF Upwards
  <1> HIDE DEF S
  <1>6. x \in S
    BY <1>5, ClimbInd
  <1> QED BY <1>6 DEF S

-----------------------------------------------------------------------------
\* Of all the pages above the nearest decides: that of the members on the way
\* up the first is where SharedBranch ends, so no other role counts.
LEMMA NearestRules == NearestRoleRules
  <1> SUFFICES ASSUME NEW p \in Pages \ deleted, NEW u \in Persons, PageRights(p, u) # Catalog(p)
               PROVE  /\ \A q \in Nearest(p, u) : PageRights(p, u) \subseteq Granted(q, u)
                      /\ Nearest(p, u) = {} => PageRights(p, u) = {}
                      /\ p \notin Nearest(p, u) => PageRights(p, u) \cap (Members \cup {"delete"}) = {}
    BY DEF NearestRoleRules
  <1> DEFINE M == Collaborations(membership, u)
             Whole == Climb(deleted, {}, p)
             Way == Climb(deleted, M, p)
             above == IF IsMember(p, u) THEN {} ELSE UNION {Inherited(m, u) : m \in Way \ {p}}
  <1>1. PageRights(p, u) = Granted(p, u) \cup above
    BY Climbs DEF PageRights
  <1>2. /\ Whole \subseteq Pages \ deleted /\ Way \subseteq Whole
        /\ p \in Whole
    BY ClimbGoes, ClimbShrinks DEF Upwards
  <1>3. \A m \in Pages : m \in M <=> IsMember(m, u)
    BY DEF Collaborations, IsMember
  <1>4. \A q : q \in Nearest(p, u) <=>
           q \in Whole /\ q \in M /\ \A m \in Whole : m \in M => m \in {q} \cup Climb(deleted, {}, q)
    BY <1>2, <1>3, Climbs DEF Nearest
  <1>5. \A m \in Pages : m \notin M => Granted(m, u) = {}
    BY <1>3 DEF Granted, Held
  <1> HIDE DEF M, Whole, Way
  <1>6. CASE p \in M
    <2>1. PageRights(p, u) = Granted(p, u)
      BY <1>1, <1>3, <1>6
    <2>2. p \in Nearest(p, u)
      BY <1>2, <1>4, <1>6 DEF Whole
    <2>3. \A q \in Nearest(p, u) : q = p
      BY <1>2, <1>4, <1>6, ClimbOneWay DEF Whole
    <2> QED BY <2>1, <2>2, <2>3
  <1>7. CASE p \notin M
    <2>1. PageRights(p, u) = UNION {Inherited(m, u) : m \in Way \ {p}}
      BY <1>1, <1>3, <1>5, <1>7
    <2>2. ASSUME NEW m \in Way, m \in M
          PROVE  m \in Nearest(p, u) /\ \A q \in Nearest(p, u) : q = m
      <3>1. ASSUME NEW q \in Whole, q \in M PROVE q \in Climb(deleted, {}, m)
        BY <3>1, ClimbStops DEF Whole, Way
      <3>2. m \in Pages /\ m \in Whole
        BY <1>2
      <3>3. ASSUME NEW q \in Nearest(p, u) PROVE q = m
        <4>1. q \in Climb(deleted, {}, m) /\ (m = q \/ m \in Climb(deleted, {}, q))
          BY <1>4, <2>2, <3>1, <3>2
        <4> QED BY <3>2, <4>1, ClimbOneWay
      <3> QED BY <1>4, <2>2, <3>1, <3>2, <3>3
    <2>3. \A m \in Way : Inherited(m, u) \subseteq Granted(m, u)
      BY DEF Inherited
    <2>4. \A m \in Way : m \notin M => Inherited(m, u) = {}
      BY <1>2, <1>5, <2>3
    <2>5. \A q \in Nearest(p, u) : PageRights(p, u) \subseteq Granted(q, u)
      BY <2>1, <2>2, <2>3, <2>4
    <2>6. Nearest(p, u) = {} => PageRights(p, u) = {}
      BY <2>1, <2>2, <2>4
    <2>7. \A m \in Way : Inherited(m, u) \cap (Members \cup {"delete"}) = {}
      BY DEF Inherited, ReadActions, Members
    <2> QED BY <2>1, <2>5, <2>6, <2>7
  <1> QED BY <1>6, <1>7

\* The role nearest to a page decides there, every membership names a role that
\* exists, and roles allow what there is to allow, in every reachable state.
THEOREM AccessIsSound == AccessSpec => []AccessInv
  <1>1. RolesInd => AccessInv
    BY NearestRules DEF RolesInd, AccessInv
  <1> QED BY <1>1, RolesStart, RolesStay, PTL DEF AccessSpec

-----------------------------------------------------------------------------
(* Gains.                                                                   *)

\* Where nobody whom b hides from p, m is still on the way up from p for b.
LEMMA ClimbReaches ==
  ASSUME NEW D, NEW M, NEW p \in Pages, NEW m \in Climb(D, {}, p),
         ~ \E q \in Climb(D, {}, p) : q \in M /\ m \in Climb(D, {}, q) \ {q}
  PROVE  m \in Climb(D, M, p)
  <1> DEFINE S == {y \in Climb(D, {}, p) : m \in Climb(D, {}, y) => y \in Climb(D, M, p)}
  <1>1. /\ Climb(D, {}, p) \subseteq Pages \ D
        /\ Upwards(D, {}, p, Climb(D, {}, p)) /\ Upwards(D, M, p, Climb(D, M, p))
    BY ClimbGoes
  <1>2. p \notin D => p \in S
    BY <1>1 DEF Upwards
  <1>3. ASSUME NEW y \in S, ParentPage[y] # Absent, ParentPage[y] \notin D
        PROVE  ParentPage[y] \in S
    <2>1. y \in Pages \ D /\ ParentPage[y] \in Pages
      BY <1>1, <1>3, Deeper
    <2>2. ParentPage[y] \in Climb(D, {}, p)
      BY <1>1, <1>3 DEF Upwards
    <2>3. ASSUME m \in Climb(D, {}, ParentPage[y]) PROVE ParentPage[y] \in Climb(D, M, p)
      <3>1. m \in Climb(D, {}, y)
        BY <1>3, <2>1, <2>3, ClimbIs
      <3>2. m # y
        <4>1. Depth[m] \in Nat /\ Depth[y] \in Nat /\ Depth[ParentPage[y]] \in Nat
          BY <1>1, <2>1, Deeper
        <4>2. m = ParentPage[y] \/ Depth[m] < Depth[ParentPage[y]]
          BY <2>1, <2>3, ClimbUpwards
        <4>3. Depth[ParentPage[y]] < Depth[y]
          BY <1>3, <2>1, Deeper
        <4> QED BY <4>1, <4>2, <4>3
      <3>3. y \notin M /\ y \in Climb(D, M, p)
        BY <3>1, <3>2
      <3> QED BY <1>1, <1>3, <3>3 DEF Upwards
    <2> QED BY <2>2, <2>3
  <1>4. S \subseteq Pages /\ Upwards(D, {}, p, S)
    BY <1>1, <1>2, <1>3 DEF Upwards
  <1> HIDE DEF S
  <1>5. m \in S
    BY <1>4, ClimbInd
  <1>6. m \in Climb(D, {}, m)
    <2>1. m \in Pages /\ m \notin D
      BY <1>1
    <2> QED BY <2>1, ClimbIs
  <1> QED BY <1>5, <1>6 DEF S

\* Who may do everything on a page, whatever the roles on pages.
Rules(p, u) ==
    \/ \E q \in Branch(p) : Owner[q] = u
    \/ Branch(p) \cap RootPages # {} /\ (WorkspaceOwner(u) \/ Manages(u) \/ ManagesPages(u))

ByRoles(p, u) ==
    Granted(p, u) \cup IF IsMember(p, u) THEN {}
                       ELSE UNION {Inherited(m, u) : m \in SharedBranch(p, u) \ {p}}

LEMMA RightsAre ==
  ASSUME NEW u
  PROVE  /\ Rights(Organization, u) = IF Owner[Organization] = u THEN Catalog(Organization)
                                      ELSE Granted(Organization, u)
         /\ Rights(Organization, u)' = IF Owner[Organization] = u THEN Catalog(Organization)
                                       ELSE Granted(Organization, u)'
         /\ Rights(Workspace, u) = IF WorkspaceOwner(u) \/ Manages(u) THEN Catalog(Workspace)
                                   ELSE Granted(Workspace, u)
         /\ Rights(Workspace, u)' = IF WorkspaceOwner(u)' \/ Manages(u)' THEN Catalog(Workspace)
                                    ELSE Granted(Workspace, u)'
         /\ \A p \in Pages :
               /\ Rights(p, u) = IF p \in deleted THEN {}
                                 ELSE IF Rules(p, u) THEN Catalog(p) ELSE ByRoles(p, u)
               /\ Rights(p, u)' = IF p \in deleted' THEN {}
                                  ELSE IF Rules(p, u)' THEN Catalog(p) ELSE ByRoles(p, u)'
  <1>1. Organization # Workspace /\ Organization \notin Pages /\ Workspace \notin Pages
    BY ScopedAccessAssumption
  <1>2. ASSUME NEW p \in Pages
        PROVE  /\ Rights(p, u) = IF p \in deleted THEN {}
                                 ELSE IF Rules(p, u) THEN Catalog(p) ELSE ByRoles(p, u)
               /\ Rights(p, u)' = IF p \in deleted' THEN {}
                                  ELSE IF Rules(p, u)' THEN Catalog(p) ELSE ByRoles(p, u)'
    <2>1. (p \in deleted => Branch(p) = {}) /\ (p \in deleted' => Branch(p)' = {})
      BY Climbs, ClimbIs
    <2>2. Rights(p, u) = PageRights(p, u) /\ Rights(p, u)' = PageRights(p, u)'
      BY <1>1 DEF Rights
    <2>3. PageRights(p, u) = IF p \in deleted THEN {}
                             ELSE IF Rules(p, u) THEN Catalog(p) ELSE ByRoles(p, u)
      BY <2>1 DEF PageRights, Rules, ByRoles
    <2>4. PageRights(p, u)' = IF p \in deleted' THEN {}
                              ELSE IF Rules(p, u)' THEN Catalog(p) ELSE ByRoles(p, u)'
      BY <2>1 DEF PageRights, Rules, ByRoles
    <2> QED BY <2>2, <2>3, <2>4
  <1> QED BY <1>1, <1>2 DEF Rights

\* Nobody may do more than there is to do.
LEMMA WithinCatalog ==
  ASSUME RolesInd, NEW u
  PROVE  /\ \A x \in AccessScopes : Granted(x, u) \subseteq Catalog(x) /\ Rights(x, u) \subseteq Catalog(x)
         /\ \A p \in Pages : ByRoles(p, u) \subseteq Catalog(p)
         /\ \A p, q \in Pages : Catalog(p) = Catalog(q)
  <1>1. \A x \in AccessScopes : Granted(x, u) \subseteq Catalog(x)
    BY DEF RolesInd, AccessTypeOK, Granted, Held
  <1>2. \A p, q \in Pages : Catalog(p) = Catalog(q)
    BY ScopedAccessAssumption DEF Catalog, Kind
  <1>3. ASSUME NEW p \in Pages PROVE ByRoles(p, u) \subseteq Catalog(p)
    <2>1. SharedBranch(p, u) \subseteq Pages
      BY Climbs, ClimbGoes
    <2>2. \A m \in Pages : Inherited(m, u) \subseteq Catalog(p)
      BY <1>1, <1>2 DEF Inherited, AccessScopes
    <2> QED BY <1>1, <2>1, <2>2 DEF ByRoles, AccessScopes
  <1> QED BY <1>1, <1>2, <1>3, RightsAre DEF AccessScopes

\* The role and the membership of u in z are left as they were.
SameAt(z, u) == Granted(z, u)' = Granted(z, u) /\ IsMember(z, u)' = IsMember(z, u)

LEMMA SameGrants ==
  ASSUME NEW u, UNCHANGED <<linked, deleted>>, \A z \in AccessScopes : SameAt(z, u)
  PROVE  \A x \in AccessScopes : Rights(x, u)' = Rights(x, u)
  <1>1. WorkspaceOwner(u)' = WorkspaceOwner(u) /\ Manages(u)' = Manages(u) /\ ManagesPages(u)' = ManagesPages(u)
    BY DEF WorkspaceOwner, Manages, ManagesPages, SameAt, AccessScopes
  <1>2. ASSUME NEW p \in Pages PROVE Rights(p, u)' = Rights(p, u)
    <2>1. Branch(p)' = Branch(p)
      BY Climbs
    <2>2. Collaborations(membership', u) = Collaborations(membership, u)
      BY DEF Collaborations, SameAt, IsMember, AccessScopes
    <2>3. SharedBranch(p, u)' = SharedBranch(p, u) /\ SharedBranch(p, u) \subseteq Pages
      BY <2>2, Climbs, ClimbGoes
    <2>4. \A m \in Pages : Inherited(m, u)' = Inherited(m, u)
      BY DEF Inherited, SameAt, AccessScopes
    <2>5. Rules(p, u)' = Rules(p, u)
      BY <1>1, <2>1 DEF Rules
    <2>6. ByRoles(p, u)' = ByRoles(p, u)
      BY <2>3, <2>4 DEF ByRoles, SameAt, AccessScopes
    <2> QED BY <2>5, <2>6, RightsAre
  <1> QED BY <1>1, <1>2, RightsAre DEF AccessScopes, SameAt

\* A role in the organization, or in the workspace, that its author could have
\* held: nobody gains what the author does not have.
LEMMA GivenAbove ==
  ASSUME RolesInd, NEW u \in Persons, NEW b \in Persons, NEW y \in {Organization, Workspace},
         UNCHANGED <<linked, deleted>>, \A z \in AccessScopes \ {y} : SameAt(z, u),
         Granted(y, u)' \subseteq Rights(y, b)
  PROVE  \A x \in AccessScopes : Rights(x, u)' \subseteq Rights(x, u) \cup Rights(x, b)
  <1>0. Organization # Workspace /\ Organization \notin Pages /\ Workspace \notin Pages
    BY ScopedAccessAssumption
  <1>1. WorkspaceOwner(u)' = WorkspaceOwner(u)
    BY DEF WorkspaceOwner
  <1>2. Manages(u)' => Manages(u) \/ WorkspaceOwner(b) \/ Manages(b)
    <2>1. CASE y = Organization
      BY <2>1, RightsAre DEF Manages, WorkspaceOwner
    <2>2. CASE y = Workspace
      BY <1>0, <2>2 DEF Manages, SameAt, AccessScopes
    <2> QED BY <2>1, <2>2
  <1>3. ManagesPages(u)' => ManagesPages(u) \/ WorkspaceOwner(b) \/ Manages(b) \/ ManagesPages(b)
    <2>1. CASE y = Organization
      BY <1>0, <2>1 DEF ManagesPages, SameAt, AccessScopes
    <2>2. CASE y = Workspace
      BY <2>2, RightsAre DEF ManagesPages
    <2> QED BY <2>1, <2>2
  <1>4. ASSUME NEW p \in Pages PROVE Rights(p, u)' \subseteq Rights(p, u) \cup Rights(p, b)
    <2>1. Branch(p)' = Branch(p)
      BY Climbs
    <2>2. Rules(p, u)' => Rules(p, u) \/ Rules(p, b)
      BY <1>1, <1>2, <1>3, <2>1 DEF Rules
    <2>3. ByRoles(p, u)' = ByRoles(p, u)
      <3>1. \A z \in Pages : SameAt(z, u)
        BY <1>0 DEF AccessScopes
      <3>2. Collaborations(membership', u) = Collaborations(membership, u)
        BY <3>1 DEF Collaborations, SameAt, IsMember
      <3>3. SharedBranch(p, u)' = SharedBranch(p, u) /\ SharedBranch(p, u) \subseteq Pages
        BY <3>2, Climbs, ClimbGoes
      <3>4. \A m \in Pages : Inherited(m, u)' = Inherited(m, u)
        BY <3>1 DEF Inherited, SameAt
      <3> QED BY <3>1, <3>3, <3>4 DEF ByRoles, SameAt
    <2>4. ByRoles(p, u) \subseteq Rights(p, u) \/ p \in deleted
      <3>1. ByRoles(p, u) \subseteq Catalog(p)
        BY WithinCatalog
      <3> QED BY <3>1, RightsAre
    <2> QED BY <2>2, <2>3, <2>4, RightsAre
  <1>5. Rights(Organization, u)' \subseteq Rights(Organization, u) \cup Rights(Organization, b)
    <2>1. CASE y = Organization
      BY <2>1, RightsAre
    <2>2. CASE y = Workspace
      BY <1>0, <2>2, RightsAre DEF SameAt, AccessScopes
    <2> QED BY <2>1, <2>2
  <1>6. Rights(Workspace, u)' \subseteq Rights(Workspace, u) \cup Rights(Workspace, b)
    <2>1. WorkspaceOwner(u)' \/ Manages(u)' =>
             Rights(Workspace, u) = Catalog(Workspace) \/ Rights(Workspace, b) = Catalog(Workspace)
      BY <1>1, <1>2, RightsAre
    <2>2. Granted(Workspace, u)' \subseteq Rights(Workspace, u) \cup Rights(Workspace, b)
      <3>1. CASE y = Organization
        <4>1. Granted(Workspace, u)' = Granted(Workspace, u)
          BY <1>0, <3>1 DEF SameAt, AccessScopes
        <4> QED BY <4>1, RightsAre, WithinCatalog DEF AccessScopes
      <3>2. CASE y = Workspace
        BY <3>2
      <3> QED BY <3>1, <3>2
    <2> QED BY <2>1, <2>2, RightsAre
  <1> QED BY <1>4, <1>5, <1>6 DEF AccessScopes

\* A role on page m that its author could have held there: below m nobody gains
\* what the author does not have, but past a page where the author has another.
LEMMA GivenOnPage ==
  ASSUME RolesInd, NEW u \in Persons, NEW b \in Persons, NEW m \in Pages,
         UNCHANGED <<linked, deleted>>, \A z \in AccessScopes \ {m} : SameAt(z, u),
         IsMember(m, u)', Granted(m, u)' \subseteq Rights(m, b)
  PROVE  \A x \in AccessScopes :
            \/ Rights(x, u)' \subseteq Rights(x, u) \cup Rights(x, b)
            \/ x \in Pages /\ m # x /\ \E q \in Branch(x) : IsMember(q, b) /\ m \in Branch(q) \ {q}
  <1>0. Organization # Workspace /\ Organization \notin Pages /\ Workspace \notin Pages
    BY ScopedAccessAssumption
  <1>1. /\ Granted(Organization, u)' = Granted(Organization, u)
        /\ Granted(Workspace, u)' = Granted(Workspace, u)
    BY <1>0 DEF SameAt, AccessScopes
  <1>2. WorkspaceOwner(u)' = WorkspaceOwner(u) /\ Manages(u)' = Manages(u) /\ ManagesPages(u)' = ManagesPages(u)
    BY <1>1 DEF WorkspaceOwner, Manages, ManagesPages
  <1>3. \A z \in Pages : z # m => SameAt(z, u)
    BY DEF AccessScopes
  <1> DEFINE Mu == Collaborations(membership, u)
             Nu == Collaborations(membership', u)
             Mb == Collaborations(membership, b)
             D == deleted
  <1>4. Mu \subseteq Nu
    BY <1>3 DEF Collaborations, SameAt, IsMember
  <1> HIDE DEF Mu, Nu, Mb
  <1>5. ASSUME NEW p \in Pages,
               ~ \E q \in Branch(p) : IsMember(q, b) /\ m \in Branch(q) \ {q}, m # p, p \notin D,
               ~ Rules(p, b), m \in SharedBranch(p, u)'
        PROVE  Inherited(m, u)' \subseteq Rights(p, b)
    <2>1. m \in Climb(D, {}, p)
      BY <1>5, Climbs, ClimbShrinks DEF Nu
    <2>2. Climb(D, {}, p) \subseteq Pages /\ Branch(p) = Climb(D, {}, p) /\ Branch(m) = Climb(D, {}, m) /\ m \notin D
      BY <2>1, Climbs, ClimbGoes
    <2>3. Branch(m) \subseteq Branch(p)
      BY <2>1, <2>2, ClimbOn
    <2>4. ~ Rules(m, b)
      BY <1>5, <2>3 DEF Rules
    <2>5. Rights(m, b) = ByRoles(m, b) /\ Rights(p, b) = ByRoles(p, b)
      BY <1>5, <2>2, <2>4, RightsAre
    <2>6. \A q \in Pages : q \in Mb <=> IsMember(q, b)
      BY DEF Mb, Collaborations, IsMember
    <2>7. ~ \E q \in Climb(D, {}, p) : q \in Mb /\ m \in Climb(D, {}, q) \ {q}
      BY <1>5, <2>2, <2>6, Climbs
    <2>8. m \in Climb(D, Mb, p) /\ Climb(D, Mb, m) \subseteq Climb(D, Mb, p)
      BY <2>1, <2>7, ClimbReaches, ClimbOn
    <2>9. ~ IsMember(p, b)
      <3>1. p \in Climb(D, {}, p)
        BY <1>5, ClimbIs
      <3> QED BY <1>5, <2>1, <2>6, <2>7, <3>1
    <2>10. SharedBranch(p, b) = Climb(D, Mb, p) /\ SharedBranch(m, b) = Climb(D, Mb, m)
      BY Climbs DEF Mb
    <2>11. \A k \in Climb(D, Mb, p) : k # p => Inherited(k, b) \subseteq Rights(p, b)
      BY <2>5, <2>9, <2>10 DEF ByRoles
    <2>12. CASE IsMember(m, b)
      <3>1. Granted(m, u)' \subseteq Granted(m, b)
        BY <2>5, <2>12 DEF ByRoles
      <3>2. Inherited(m, u)' \subseteq Inherited(m, b)
        BY <3>1 DEF Inherited
      <3> QED BY <1>5, <2>8, <2>11, <3>2
    <2>13. CASE ~ IsMember(m, b)
      <3>1. Granted(m, b) = {}
        BY <2>13 DEF Granted, Held
      <3>2. Rights(m, b) = UNION {Inherited(k, b) : k \in Climb(D, Mb, m) \ {m}}
        BY <2>5, <2>10, <2>13, <3>1 DEF ByRoles
      <3>3. ASSUME NEW k \in Climb(D, Mb, m) PROVE k \in Climb(D, Mb, p) /\ k # p
        BY <1>5, <2>2, <2>8, <3>3, ClimbOneWay
      <3>4. Rights(m, b) \subseteq Rights(p, b)
        BY <2>11, <3>2, <3>3
      <3>5. Inherited(m, u)' \subseteq Granted(m, u)'
        BY DEF Inherited
      <3> QED BY <3>4, <3>5
    <2> QED BY <2>12, <2>13
  <1>6. ASSUME NEW p \in Pages,
               m = p \/ ~ \E q \in Branch(p) : IsMember(q, b) /\ m \in Branch(q) \ {q}
        PROVE  Rights(p, u)' \subseteq Rights(p, u) \cup Rights(p, b)
    <2>1. Branch(p)' = Branch(p)
      BY Climbs
    <2>2. Rules(p, u)' = Rules(p, u)
      BY <1>2, <2>1 DEF Rules
    <2>3. p \notin D => ByRoles(p, u) \subseteq Rights(p, u)
      <3>1. ByRoles(p, u) \subseteq Catalog(p)
        BY WithinCatalog
      <3> QED BY <3>1, RightsAre
    <2>4. CASE p \in D \/ Rules(p, u)
      BY <2>2, <2>4, RightsAre
    <2>5. CASE p \notin D /\ ~Rules(p, u) /\ m = p
      BY <2>2, <2>5, RightsAre DEF ByRoles
    <2>6. CASE p \notin D /\ ~Rules(p, u) /\ m # p
      <3>1. Rights(p, u)' = ByRoles(p, u)'
        BY <2>2, <2>6, RightsAre
      <3>2. Granted(p, u)' \subseteq Rights(p, u) /\ IsMember(p, u)' = IsMember(p, u)
        BY <1>3, <2>3, <2>6 DEF SameAt, ByRoles
      <3>3. CASE IsMember(p, u)
        BY <3>1, <3>2, <3>3 DEF ByRoles
      <3>4. CASE ~IsMember(p, u) /\ Rules(p, b)
        <4>1. ByRoles(p, u)' \subseteq Catalog(p)
          <5>1. \A k \in Pages : Granted(k, u)' \subseteq Catalog(p)
            BY <1>3, WithinCatalog DEF SameAt, AccessScopes
          <5>2. SharedBranch(p, u)' \subseteq Pages
            BY Climbs, ClimbGoes
          <5> QED BY <5>1, <5>2 DEF ByRoles, Inherited
        <4> QED BY <2>6, <3>1, <3>4, <4>1, RightsAre
      <3>5. CASE ~IsMember(p, u) /\ ~Rules(p, b)
        <4>1. Rights(p, u)' = Granted(p, u)' \cup UNION {Inherited(k, u)' : k \in SharedBranch(p, u)' \ {p}}
          BY <3>1, <3>2, <3>5 DEF ByRoles
        <4>2. SharedBranch(p, u)' \subseteq SharedBranch(p, u) /\ SharedBranch(p, u) \subseteq Pages
          BY <1>4, Climbs, ClimbShrinks, ClimbGoes DEF Mu, Nu
        <4>3. ASSUME NEW k \in SharedBranch(p, u)', k # p, k # m
              PROVE  Inherited(k, u)' \subseteq Rights(p, u)
          <5>1. Inherited(k, u)' = Inherited(k, u)
            BY <1>3, <4>2, <4>3 DEF Inherited, SameAt
          <5>2. Inherited(k, u) \subseteq ByRoles(p, u)
            BY <3>5, <4>2, <4>3 DEF ByRoles
          <5> QED BY <2>3, <2>6, <5>1, <5>2
        <4>4. m \in SharedBranch(p, u)' => Inherited(m, u)' \subseteq Rights(p, b)
          BY <1>5, <1>6, <2>6, <3>5
        <4> QED BY <3>2, <4>1, <4>3, <4>4
      <3> QED BY <3>3, <3>4, <3>5
    <2> QED BY <2>4, <2>5, <2>6
  <1>7. Rights(Organization, u)' = Rights(Organization, u) /\ Rights(Workspace, u)' = Rights(Workspace, u)
    BY <1>1, <1>2, RightsAre
  <1> QED BY <1>6, <1>7 DEF AccessScopes

\* A page that is removed takes rights away, and gives none.
LEMMA RemovalGivesNothing ==
  ASSUME RolesInd, NEW u \in Persons, UNCHANGED <<given, membership, linked>>, deleted \subseteq deleted'
  PROVE  \A x \in AccessScopes : Rights(x, u)' \subseteq Rights(x, u)
  <1>1. \A z \in AccessScopes : SameAt(z, u)
    BY DEF SameAt, Granted, Held, Live, IsMember
  <1>2. WorkspaceOwner(u)' = WorkspaceOwner(u) /\ Manages(u)' = Manages(u) /\ ManagesPages(u)' = ManagesPages(u)
    BY <1>1 DEF WorkspaceOwner, Manages, ManagesPages, SameAt, AccessScopes
  <1>3. ASSUME NEW p \in Pages PROVE Rights(p, u)' \subseteq Rights(p, u)
    <2>1. Branch(p)' \subseteq Branch(p) /\ SharedBranch(p, u)' \subseteq SharedBranch(p, u)
      BY Climbs, ClimbShrinks
    <2>2. SharedBranch(p, u) \subseteq Pages
      BY Climbs, ClimbGoes
    <2>3. Rules(p, u)' => Rules(p, u)
      BY <1>2, <2>1 DEF Rules
    <2>4. \A k \in Pages : Inherited(k, u)' = Inherited(k, u)
      BY <1>1 DEF Inherited, SameAt, AccessScopes
    <2>5. Granted(p, u)' = Granted(p, u) /\ IsMember(p, u)' = IsMember(p, u)
      BY <1>1 DEF SameAt, AccessScopes
    <2>6. ByRoles(p, u)' \subseteq ByRoles(p, u)
      BY <2>1, <2>2, <2>4, <2>5 DEF ByRoles
    <2>7. ByRoles(p, u) \subseteq Catalog(p)
      BY WithinCatalog
    <2> QED BY <2>3, <2>6, <2>7, RightsAre
  <1> QED BY <1>1, <1>2, <1>3, RightsAre DEF AccessScopes, SameAt

\* Who cedes the workspace could do everything in it, and below.
LEMMA LinkGivesTheOwners ==
  ASSUME RolesInd, NEW u \in Persons, NEW b \in Persons, LinkWorkspace(b)
  PROVE  \A x \in AccessScopes : Rights(x, u)' \subseteq Rights(x, u) \cup Rights(x, b)
  <1>0. Organization # Workspace /\ Organization \notin Pages /\ Workspace \notin Pages
    BY ScopedAccessAssumption
  <1>1. WorkspaceOwner(b) /\ UNCHANGED <<given, membership, deleted>>
    BY <1>0 DEF LinkWorkspace, Owns
  <1>2. \A z \in AccessScopes : SameAt(z, u)
    BY <1>1 DEF SameAt, Granted, Held, Live, IsMember
  <1>3. ASSUME NEW p \in Pages PROVE Rights(p, u)' \subseteq Rights(p, u) \cup Rights(p, b)
    <2>1. Branch(p)' = Branch(p) /\ SharedBranch(p, u)' = SharedBranch(p, u) /\ SharedBranch(p, u) \subseteq Pages
      BY <1>1, Climbs, ClimbGoes
    <2>2. Rules(p, u)' => Rules(p, u) \/ Rules(p, b)
      BY <1>1, <2>1 DEF Rules
    <2>3. ByRoles(p, u)' = ByRoles(p, u)
      BY <1>2, <2>1 DEF ByRoles, Inherited, SameAt, AccessScopes
    <2>4. ByRoles(p, u) \subseteq Catalog(p)
      BY WithinCatalog
    <2> QED BY <1>1, <2>2, <2>3, <2>4, RightsAre
  <1>4. Rights(Organization, u)' = Rights(Organization, u)
    BY <1>2, RightsAre DEF SameAt, AccessScopes
  <1>5. Rights(Workspace, u)' \subseteq Rights(Workspace, b)
    <2>1. Granted(Workspace, u)' \subseteq Catalog(Workspace)
      BY <1>2, WithinCatalog DEF SameAt, AccessScopes
    <2> QED BY <1>1, <2>1, RightsAre
  <1> QED BY <1>3, <1>4, <1>5 DEF AccessScopes

-----------------------------------------------------------------------------
NoGain(x, u) ==
    \/ Rights(x, u)' \subseteq Rights(x, u) \cup Rights(x, last'.by)
    \/ last'.what = "removal" /\ last'.of = u
    \/ x \in Pages /\ last'.at \in Pages \ {x}
       /\ \E q \in Branch(x) : IsMember(q, last'.by) /\ last'.at \in Branch(q) \ {q}

\* What b gives to u in y, b could do there.
LEMMA GivingIsNoGain ==
  ASSUME RolesInd, NEW u \in Persons, NEW b \in Persons, NEW y \in AccessScopes,
         last'.by = b, last'.at = y, UNCHANGED <<linked, deleted>>,
         \A z \in AccessScopes \ {y} : SameAt(z, u),
         SameAt(y, u) \/ (IsMember(y, u)' /\ Granted(y, u)' \subseteq Rights(y, b))
  PROVE  \A x \in AccessScopes : NoGain(x, u)
  <1>1. last'.by = b /\ last'.at = y
    OBVIOUS
  <1>2. CASE SameAt(y, u)
    <2>1. \A z \in AccessScopes : SameAt(z, u)
      BY <1>2
    <2>2. \A x \in AccessScopes : Rights(x, u)' = Rights(x, u)
      BY <2>1, SameGrants
    <2> QED BY <2>2 DEF NoGain
  <1>3. CASE ~ SameAt(y, u) /\ y \in Pages
    <2>1. \A x \in AccessScopes :
            \/ Rights(x, u)' \subseteq Rights(x, u) \cup Rights(x, b)
            \/ x \in Pages /\ y # x /\ \E q \in Branch(x) : IsMember(q, b) /\ y \in Branch(q) \ {q}
      BY <1>3, GivenOnPage
    <2> QED BY <1>1, <1>3, <2>1 DEF NoGain
  <1>4. CASE ~ SameAt(y, u) /\ y \in {Organization, Workspace}
    <2>1. \A x \in AccessScopes : Rights(x, u)' \subseteq Rights(x, u) \cup Rights(x, b)
      BY <1>4, GivenAbove
    <2> QED BY <1>1, <2>1 DEF NoGain
  <1> QED BY <1>2, <1>3, <1>4 DEF AccessScopes

\* A role that is written: its holders gain what its author had.
LEMMA WritingIsNoGain ==
  ASSUME RolesInd, NEW u \in Persons, NEW b \in Persons, NEW y \in AccessScopes, NEW r \in RoleIds, NEW set,
         given' = [given EXCEPT ![y][r] = set], Act(b, y, "role", Absent),
         UNCHANGED <<membership, linked, deleted>>,
         membership[y][u] # r \/ (set \subseteq Rights(y, b) /\ set \notin {Absent, Gone})
  PROVE  \A x \in AccessScopes : NoGain(x, u)
  <1>0. last'.by = b /\ last'.at = y
    BY DEF Act
  <1>1. given \in [AccessScopes -> [RoleIds -> {Absent, Gone} \cup SUBSET Permissions]]
    BY DEF RolesInd, AccessTypeOK
  <1>2. /\ \A z \in AccessScopes \ {y} : given'[z] = given[z]
        /\ \A k \in RoleIds : given'[y][k] = IF k = r THEN set ELSE given[y][k]
    BY <1>1
  <1>3. \A z \in AccessScopes : IsMember(z, u)' = IsMember(z, u)
    BY DEF IsMember
  <1>4. \A z \in AccessScopes \ {y} : SameAt(z, u)
    BY <1>2, <1>3 DEF SameAt, Granted, Held, Live, IsMember
  <1>5. CASE membership[y][u] # r
    <2>1. SameAt(y, u)
      BY <1>2, <1>3, <1>5 DEF SameAt, Granted, Held, Live, IsMember
    <2>2. SameAt(y, u) \/ (IsMember(y, u)' /\ Granted(y, u)' \subseteq Rights(y, b))
      BY <2>1
    <2> QED BY <1>0, <1>4, <2>2, GivingIsNoGain
  <1>6. CASE membership[y][u] = r
    <2>1. r # Absent /\ IsMember(y, u)'
      BY <1>3, <1>6, ScopedAccessAssumption DEF IsMember
    <2>2. Granted(y, u)' \subseteq set
      BY <1>2, <1>6, <2>1 DEF Granted, Held, Live, IsMember
    <2> QED BY <1>0, <1>4, <1>6, <2>1, <2>2, GivingIsNoGain
  <1> QED BY <1>5, <1>6

\* A role that is given to v: v gains what its giver had.
LEMMA AssigningIsNoGain ==
  ASSUME RolesInd, NEW u \in Persons, NEW b \in Persons, NEW y \in AccessScopes, NEW v \in Persons, NEW r,
         \/ r \in Live(y) /\ given[y][r] \subseteq Rights(y, b) /\ Act(b, y, "member", v)
         \/ r = Absent /\ Act(b, y, "removal", v),
         membership' = [membership EXCEPT ![y][v] = r], UNCHANGED <<given, linked, deleted>>
  PROVE  \A x \in AccessScopes : NoGain(x, u)
  <1>0. last'.by = b /\ last'.at = y
    BY DEF Act
  <1>1. membership \in [AccessScopes -> [Persons -> {Absent} \cup RoleIds]]
    BY DEF RolesInd, AccessTypeOK
  <1>2. /\ \A z \in AccessScopes \ {y} : membership'[z] = membership[z]
        /\ \A k \in Persons : membership'[y][k] = IF k = v THEN r ELSE membership[y][k]
    BY <1>1
  <1>3. \A z \in AccessScopes \ {y} : SameAt(z, u)
    BY <1>2 DEF SameAt, Granted, Held, Live, IsMember
  <1>4. CASE u # v
    <2>1. SameAt(y, u)
      BY <1>2, <1>4 DEF SameAt, Granted, Held, Live, IsMember
    <2>2. SameAt(y, u) \/ (IsMember(y, u)' /\ Granted(y, u)' \subseteq Rights(y, b))
      BY <2>1
    <2> QED BY <1>0, <1>3, <2>2, GivingIsNoGain
  <1>5. CASE u = v /\ r \in Live(y)
    <2>1. r # Absent /\ IsMember(y, u)'
      BY <1>2, <1>5, ScopedAccessAssumption DEF Live, IsMember
    <2>2. Granted(y, u)' \subseteq given[y][r]
      BY <1>2, <1>5, <2>1 DEF Granted, Held, Live, IsMember
    <2>3. r # Absent
      BY <2>1
    <2> QED BY <1>0, <1>3, <1>5, <2>1, <2>2, <2>3, GivingIsNoGain
  <1>6. CASE u = v /\ r = Absent
    <2>1. r \notin Live(y)
      BY <1>6, ScopedAccessAssumption DEF Live
    <2>2. last'.what = "removal" /\ last'.of = u
      BY <1>6, <2>1 DEF Act
    <2> QED BY <2>2 DEF NoGain
  <1> QED BY <1>4, <1>5, <1>6

\* A change of nothing but requests.
LEMMA AskingIsNoGain ==
  ASSUME RolesInd, NEW u \in Persons, UNCHANGED <<given, membership, linked, deleted>>
  PROVE  \A x \in AccessScopes : NoGain(x, u)
  <1>1. \A z \in AccessScopes : SameAt(z, u)
    BY DEF SameAt, Granted, Held, Live, IsMember
  <1> QED BY <1>1, SameGrants DEF NoGain

LEMMA EscalationStep ==
  RolesInd /\ [AccessNext]_accessVars => (acts' # acts => \A x \in AccessScopes, u \in Persons : NoGain(x, u))
  <1> SUFFICES ASSUME RolesInd, [AccessNext]_accessVars, acts' # acts, NEW u \in Persons
               PROVE  \A x \in AccessScopes : NoGain(x, u)
    OBVIOUS
  <1>0. PICK b \in Persons :
           \/ LinkWorkspace(b)
           \/ \E p \in Pages : RemovePage(b, p)
           \/ \E x \in AccessScopes :
                 \/ Ask(x, b)
                 \/ \E r \in RoleIds :
                       \/ DeleteRole(b, x, r)
                       \/ \E set \in Offered[Kind(x)] : CreateRole(b, x, r, set) \/ SaveRole(b, x, r, set)
                       \/ \E v \in Persons : AssignRole(b, x, v, r) \/ Accept(b, x, v, r)
                 \/ \E v \in Persons : DismissMember(b, x, v) \/ Reject(b, x, v)
    BY DEF AccessNext, accessVars
  <1>1. CASE LinkWorkspace(b)
    <2>1. last'.by = b
      BY <1>1 DEF LinkWorkspace, Act
    <2> QED BY <1>1, <2>1, LinkGivesTheOwners DEF NoGain
  <1>2. ASSUME NEW p \in Pages, RemovePage(b, p) PROVE \A x \in AccessScopes : NoGain(x, u)
    BY <1>2, RemovalGivesNothing DEF RemovePage, NoGain
  <1>3. ASSUME NEW y \in AccessScopes, NEW v \in Persons, Ask(y, b) \/ Reject(b, y, v)
        PROVE  \A x \in AccessScopes : NoGain(x, u)
    BY <1>3, AskingIsNoGain DEF Ask, Reject
  <1>4. ASSUME NEW y \in AccessScopes, NEW r \in RoleIds, NEW set \in Offered[Kind(y)],
               CreateRole(b, y, r, set) \/ SaveRole(b, y, r, set)
        PROVE  \A x \in AccessScopes : NoGain(x, u)
    <2>1. set \notin {Absent, Gone}
      BY ScopedAccessAssumption
    <2>2. CASE CreateRole(b, y, r, set)
      <3>1. membership[y][u] # r
        <4>1. r # Absent /\ r \notin Live(y)
          BY <2>2, ScopedAccessAssumption DEF CreateRole, Live
        <4> QED BY <4>1 DEF RolesInd, MembersHaveRoles, IsMember
      <3>2. membership[y][u] # r \/ (set \subseteq Rights(y, b) /\ set \notin {Absent, Gone})
        BY <3>1
      <3> QED BY <2>2, <3>2, WritingIsNoGain DEF CreateRole
    <2>3. CASE SaveRole(b, y, r, set)
      BY <2>1, <2>3, WritingIsNoGain DEF SaveRole, MayDelegate
    <2> QED BY <1>4, <2>2, <2>3
  <1>5. ASSUME NEW y \in AccessScopes, NEW r \in RoleIds, DeleteRole(b, y, r)
        PROVE  \A x \in AccessScopes : NoGain(x, u)
    <2>1. membership[y][u] # r \/ (Gone \subseteq Rights(y, b) /\ Gone \notin {Absent, Gone})
      BY <1>5 DEF DeleteRole
    <2> QED BY <1>5, <2>1, WritingIsNoGain DEF DeleteRole
  <1>6. ASSUME NEW y \in AccessScopes, NEW r \in RoleIds, NEW v \in Persons,
               AssignRole(b, y, v, r) \/ Accept(b, y, v, r)
        PROVE  \A x \in AccessScopes : NoGain(x, u)
    <2>1. /\ r \in Live(y) /\ given[y][r] \subseteq Rights(y, b) /\ Act(b, y, "member", v)
          /\ membership' = [membership EXCEPT ![y][v] = r] /\ UNCHANGED <<given, linked, deleted>>
      BY <1>6 DEF AssignRole, Accept, MayDelegate
    <2>2. \/ r \in Live(y) /\ given[y][r] \subseteq Rights(y, b) /\ Act(b, y, "member", v)
          \/ r = Absent /\ Act(b, y, "removal", v)
      BY <2>1
    <2> QED BY <2>1, <2>2, AssigningIsNoGain
  <1>7. ASSUME NEW y \in AccessScopes, NEW v \in Persons, DismissMember(b, y, v)
        PROVE  \A x \in AccessScopes : NoGain(x, u)
    BY <1>7, AssigningIsNoGain DEF DismissMember
  <1> QED BY <1>0, <1>1, <1>2, <1>3, <1>4, <1>5, <1>6, <1>7

\* Nobody gains a right by a change that its author did not have where it is
\* gained, for every tree of pages, but for the two exceptions NoEscalation names.
THEOREM NobodyEscalates == AccessSpec => NoEscalation
  <1>1. RolesInd /\ [AccessNext]_accessVars => RolesInd'
    BY RolesStay
  <1>2. RolesInd /\ [AccessNext]_accessVars =>
           [acts' # acts => \A x \in AccessScopes, u \in Persons :
          \/ Rights(x, u)' \subseteq Rights(x, u) \cup Rights(x, last'.by)
          \/ last'.what = "removal" /\ last'.of = u
          \/ x \in Pages /\ last'.at \in Pages \ {x}
             /\ \E q \in Branch(x) : IsMember(q, last'.by) /\ last'.at \in Branch(q) \ {q}]_accessVars
    BY EscalationStep DEF NoGain
  <1> QED BY <1>1, <1>2, RolesStart, PTL DEF AccessSpec, NoEscalation

-----------------------------------------------------------------------------
(* Sessions: logout revokes.  The invariant orders versions: token <=       *)
(* version read by its holder <= users.token_version, as long as no         *)
(* increment was overwritten (~lost).                                       *)

\* The types hold in the initial state, where no token exists.
LEMMA TypeInit == SessionsInit => SessionsTypeOK
  <1> SUFFICES ASSUME SessionsInit PROVE SessionsTypeOK
    OBVIOUS
  <1>1. tokens \in Seq(Nat)
    BY DEF SessionsInit
  <1>2. /\ version \in Nat /\ lost \in BOOLEAN /\ dead \subseteq Issued
        /\ kind \in [Requests -> {"none", "login", "refresh", "revoke"}]
        /\ \A r \in Requests : kind[r] \in {"refresh", "revoke"} => held[r] \in Issued
    BY DEF SessionsInit
  <1>3. held \in [Requests -> Nat] /\ seen \in [Requests -> Nat]
    BY DEF SessionsInit, NoToken
  <1>4. issued \in [Requests -> SUBSET Issued] /\ barred \in [Requests -> BOOLEAN]
    BY DEF SessionsInit
  <1> QED BY <1>1, <1>2, <1>3, <1>4 DEF SessionsTypeOK

\* Reading the row keeps the types.
LEMMA TypeRead ==
  ASSUME SessionsTypeOK, NEW r \in Requests,
         NEW k \in {"login", "refresh", "revoke"}, NEW t \in Nat,
         k # "login" => t \in Issued, ReadUser(r, k, t)
  PROVE  SessionsTypeOK'
  BY DEF SessionsTypeOK, ReadUser, Issued, db

\* Forgetting the locals of a request keeps their types, when tokens are only
\* ever added.
LEMMA TypeForget ==
  ASSUME SessionsTypeOK, NEW r \in Requests, Forget(r), Issued \subseteq Issued'
  PROVE  /\ kind' \in [Requests -> {"none", "login", "refresh", "revoke"}]
         /\ held' \in [Requests -> Nat]
         /\ \A q \in Requests :
               kind'[q] \in {"refresh", "revoke"} => held'[q] \in Issued'
         /\ seen' \in [Requests -> Nat]
         /\ issued' \in [Requests -> SUBSET Issued']
         /\ barred' \in [Requests -> BOOLEAN]
  BY DEF SessionsTypeOK, Forget, NoToken

\* What signing a pair does to the sequence of tokens.
LEMMA OneMoreToken ==
  ASSUME SessionsTypeOK, NEW r \in Requests, IssueTokenPair(r)
  PROVE  /\ tokens' \in Seq(Nat)
         /\ Issued \subseteq Issued'
         /\ Issued' = Issued \cup {Len(tokens) + 1}
         /\ \A t \in Issued : tokens'[t] = tokens[t]
         /\ tokens'[Len(tokens) + 1] = seen[r]
  <1>1. tokens \in Seq(Nat) /\ seen[r] \in Nat /\ Len(tokens) \in Nat
    BY DEF SessionsTypeOK
  <1>2. tokens' = Append(tokens, seen[r])
    BY DEF IssueTokenPair
  <1>3. tokens' \in Seq(Nat) /\ Len(tokens') = Len(tokens) + 1
    BY <1>1, <1>2
  <1>4. Issued' = Issued \cup {Len(tokens) + 1}
    BY <1>1, <1>3 DEF Issued
  <1>5. \A t \in Issued : tokens'[t] = tokens[t]
    BY <1>1, <1>2 DEF Issued
  <1>6. tokens'[Len(tokens) + 1] = seen[r]
    BY <1>1, <1>2
  <1> QED BY <1>3, <1>4, <1>5, <1>6

\* Every step is one of these.
LEMMA Steps ==
  ASSUME [SessionsNext]_sessionsVars
  PROVE  \/ UNCHANGED sessionsVars
         \/ \E r \in Requests :
              \/ ReadUser(r, "login", NoToken)
              \/ \E t \in Issued, k \in {"refresh", "revoke"} : ReadUser(r, k, t)
              \/ Login(r) \/ Refresh(r) \/ Refuse(r) \/ Revoke(r)
  BY DEF SessionsNext, StartLogin, StartRefresh, StartRevoke

\* Every step keeps the types.
LEMMA TypeStep == SessionsTypeOK /\ [SessionsNext]_sessionsVars => SessionsTypeOK'
  <1> SUFFICES ASSUME SessionsTypeOK, [SessionsNext]_sessionsVars PROVE SessionsTypeOK'
    OBVIOUS
  <1>0. Issued \subseteq Nat
    BY DEF Issued
  <1>1. CASE UNCHANGED sessionsVars
    BY <1>1 DEF sessionsVars, db, history, SessionsTypeOK, Issued
  <1>2. ASSUME NEW r \in Requests, ReadUser(r, "login", NoToken)
        PROVE  SessionsTypeOK'
    <2>1. NoToken \in Nat
      BY DEF NoToken
    <2> QED BY <1>2, <2>1, TypeRead
  <1>3. ASSUME NEW r \in Requests, NEW t \in Issued,
               NEW k \in {"refresh", "revoke"}, ReadUser(r, k, t)
        PROVE  SessionsTypeOK'
    BY <1>0, <1>3, TypeRead
  <1>4. ASSUME NEW r \in Requests, IssueTokenPair(r)
        PROVE  SessionsTypeOK'
    <2>1. Issued \subseteq Issued' /\ tokens' \in Seq(Nat)
      BY <1>4, OneMoreToken
    <2>2. Forget(r)
      BY <1>4 DEF IssueTokenPair
    <2>3. version' \in Nat /\ dead' \subseteq Issued' /\ lost' \in BOOLEAN
      BY <1>4, <2>1 DEF IssueTokenPair, SessionsTypeOK
    <2> QED BY <2>1, <2>2, <2>3, TypeForget DEF SessionsTypeOK
  <1>5. ASSUME NEW r \in Requests, Refuse(r)
        PROVE  SessionsTypeOK'
    <2>1. UNCHANGED <<version, tokens, dead, lost>> /\ Forget(r)
      BY <1>5 DEF Refuse, db
    <2>2. Issued' = Issued
      BY <2>1 DEF Issued
    <2> QED BY <2>1, <2>2, TypeForget DEF SessionsTypeOK
  <1>6. ASSUME NEW r \in Requests, Revoke(r)
        PROVE  SessionsTypeOK'
    <2>1. UNCHANGED tokens /\ Forget(r)
      BY <1>6 DEF Revoke
    <2>2. Issued' = Issued
      BY <2>1 DEF Issued
    <2>3. version' \in Nat
      <3>1. seen[r] \in Nat
        BY DEF SessionsTypeOK
      <3> QED BY <1>6, <3>1 DEF Revoke, NextVersion
    <2>4. dead' \subseteq Issued'
      BY <1>6, <2>2 DEF Revoke, SessionsTypeOK
    <2>5. lost' \in BOOLEAN
      BY <1>6 DEF Revoke, SessionsTypeOK
    <2> QED BY <2>1, <2>2, <2>3, <2>4, <2>5, TypeForget DEF SessionsTypeOK
  <1> QED BY <1>1, <1>2, <1>3, <1>4, <1>5, <1>6, Steps DEF Login, Refresh

-----------------------------------------------------------------------------
\* Only a logout that reports an overwrite, or one that moves the version one
\* past what it read, changes version or dead.
LEMMA OrderRead ==
  ASSUME SessionsTypeOK, InOrder, NEW r \in Requests,
         NEW k \in {"login", "refresh", "revoke"}, NEW t \in Nat,
         k # "login" => t \in Issued, ReadUser(r, k, t)
  PROVE  InOrder'
  <1> SUFFICES ASSUME ~lost'
      PROVE  /\ \A u \in Issued' : tokens'[u] <= version'
             /\ \A q \in Requests : seen'[q] <= version'
             /\ \A u \in dead' : tokens'[u] < version'
             /\ \A q \in Requests : \A u \in issued'[q] : tokens'[u] <= seen'[q]
             /\ \A q \in Requests : kind'[q] = "refresh" /\ barred'[q]
                                       => tokens'[held'[q]] < seen'[q]
    BY DEF InOrder
  <1>1. UNCHANGED <<version, tokens, dead, lost>> /\ ~lost
    BY DEF ReadUser, db
  <1>2. Issued' = Issued /\ version \in Nat
    BY <1>1 DEF Issued, SessionsTypeOK
  <1>3. ASSUME NEW q \in Requests, q # r
        PROVE  /\ kind'[q] = kind[q] /\ held'[q] = held[q] /\ seen'[q] = seen[q]
               /\ issued'[q] = issued[q] /\ barred'[q] = barred[q]
    BY <1>3 DEF ReadUser, SessionsTypeOK
  <1>4. /\ kind'[r] = k /\ held'[r] = t /\ seen'[r] = version
        /\ issued'[r] = Issued /\ barred'[r] = (t \in dead)
    BY DEF ReadUser, SessionsTypeOK
  <1>5. /\ \A u \in Issued' : tokens'[u] <= version'
        /\ \A u \in dead' : tokens'[u] < version'
    BY <1>1, <1>2 DEF InOrder
  <1>6. \A q \in Requests : seen'[q] <= version'
    BY <1>1, <1>2, <1>3, <1>4 DEF InOrder
  <1>7. ASSUME NEW q \in Requests
        PROVE  \A u \in issued'[q] : tokens'[u] <= seen'[q]
    BY <1>1, <1>3, <1>4 DEF InOrder
  <1>8. ASSUME NEW q \in Requests, kind'[q] = "refresh", barred'[q]
        PROVE  tokens'[held'[q]] < seen'[q]
    BY <1>1, <1>3, <1>4, <1>8 DEF InOrder
  <1> QED BY <1>5, <1>6, <1>7, <1>8

\* A request that signs a token signs what it read.
LEMMA OrderIssue ==
  ASSUME SessionsTypeOK, InOrder, NEW r \in Requests, IssueTokenPair(r)
  PROVE  InOrder'
  <1> SUFFICES ASSUME ~lost'
      PROVE  /\ \A u \in Issued' : tokens'[u] <= version'
             /\ \A q \in Requests : seen'[q] <= version'
             /\ \A u \in dead' : tokens'[u] < version'
             /\ \A q \in Requests : \A u \in issued'[q] : tokens'[u] <= seen'[q]
             /\ \A q \in Requests : kind'[q] = "refresh" /\ barred'[q]
                                       => tokens'[held'[q]] < seen'[q]
    BY DEF InOrder
  <1>1. UNCHANGED <<version, dead, lost>> /\ ~lost /\ Forget(r)
    BY DEF IssueTokenPair
  <1>2. /\ Issued' = Issued \cup {Len(tokens) + 1}
        /\ \A u \in Issued : tokens'[u] = tokens[u]
        /\ tokens'[Len(tokens) + 1] = seen[r]
    BY OneMoreToken
  <1>3. ASSUME NEW q \in Requests, q # r
        PROVE  /\ kind'[q] = kind[q] /\ held'[q] = held[q] /\ seen'[q] = seen[q]
               /\ issued'[q] = issued[q] /\ barred'[q] = barred[q]
    BY <1>1, <1>3 DEF Forget, SessionsTypeOK
  <1>4. kind'[r] = "none" /\ seen'[r] = 0 /\ issued'[r] = {} /\ barred'[r] = FALSE
    BY <1>1 DEF Forget, SessionsTypeOK
  <1>5. \A u \in Issued' : tokens'[u] <= version'
    BY <1>1, <1>2 DEF InOrder
  <1>6. \A u \in dead' : tokens'[u] < version'
    BY <1>1, <1>2 DEF InOrder, SessionsTypeOK
  <1>7. version \in Nat
    BY DEF SessionsTypeOK
  <1>8. \A q \in Requests : seen'[q] <= version'
    BY <1>1, <1>3, <1>4, <1>7 DEF InOrder
  <1>9. ASSUME NEW q \in Requests, NEW u \in issued'[q]
        PROVE  tokens'[u] <= seen'[q]
    <2>1. q # r
      BY <1>4, <1>9
    <2>2. u \in issued[q] /\ u \in Issued
      BY <1>3, <1>9, <2>1 DEF SessionsTypeOK
    <2> QED BY <1>1, <1>2, <1>3, <2>1, <2>2 DEF InOrder
  <1>10. ASSUME NEW q \in Requests, kind'[q] = "refresh", barred'[q]
        PROVE  tokens'[held'[q]] < seen'[q]
    <2>1. q # r
      BY <1>4, <1>10
    <2>2. kind[q] = "refresh" /\ barred[q] /\ held[q] \in Issued
      BY <1>3, <1>10, <2>1 DEF SessionsTypeOK
    <2> QED BY <1>1, <1>2, <1>3, <2>1, <2>2 DEF InOrder
  <1> QED BY <1>5, <1>6, <1>8, <1>9, <1>10

\* A request that ends without writing anything.
LEMMA OrderForget ==
  ASSUME SessionsTypeOK, InOrder, NEW r \in Requests, Refuse(r)
  PROVE  InOrder'
  <1>1. UNCHANGED <<version, tokens, dead, lost>> /\ Forget(r)
    BY DEF Refuse, db
  <1>2. Issued' = Issued /\ version \in Nat
    BY <1>1 DEF Issued, SessionsTypeOK
  <1>3. ASSUME NEW q \in Requests, q # r
        PROVE  /\ kind'[q] = kind[q] /\ held'[q] = held[q] /\ seen'[q] = seen[q]
               /\ issued'[q] = issued[q] /\ barred'[q] = barred[q]
    BY <1>1, <1>3 DEF Forget, SessionsTypeOK
  <1>4. kind'[r] = "none" /\ seen'[r] = 0 /\ issued'[r] = {} /\ barred'[r] = FALSE
    BY <1>1 DEF Forget, SessionsTypeOK
  <1> QED BY <1>1, <1>2, <1>3, <1>4 DEF InOrder

\* A logout whose read was still current moves the version one up, past every
\* token; one whose read was not sets lost.
LEMMA OrderRevoke ==
  ASSUME SessionsTypeOK, InOrder, NEW r \in Requests, Revoke(r)
  PROVE  InOrder'
  <1> SUFFICES ASSUME ~lost'
      PROVE  /\ \A u \in Issued' : tokens'[u] <= version'
             /\ \A q \in Requests : seen'[q] <= version'
             /\ \A u \in dead' : tokens'[u] < version'
             /\ \A q \in Requests : \A u \in issued'[q] : tokens'[u] <= seen'[q]
             /\ \A q \in Requests : kind'[q] = "refresh" /\ barred'[q]
                                       => tokens'[held'[q]] < seen'[q]
    BY DEF InOrder
  <1>1. UNCHANGED tokens /\ Forget(r) /\ ~lost /\ seen[r] = version
    BY DEF Revoke
  <1>2. Issued' = Issued /\ version \in Nat
    BY <1>1 DEF Issued, SessionsTypeOK
  <1>3. version' = version + 1
    BY <1>1 DEF Revoke, NextVersion
  <1>4. ASSUME NEW u \in Issued
        PROVE  tokens[u] \in Nat /\ tokens[u] <= version
    BY <1>1 DEF InOrder, Issued, SessionsTypeOK
  <1>5. ASSUME NEW q \in Requests, q # r
        PROVE  /\ kind'[q] = kind[q] /\ held'[q] = held[q] /\ seen'[q] = seen[q]
               /\ issued'[q] = issued[q] /\ barred'[q] = barred[q]
    BY <1>1, <1>5 DEF Forget, SessionsTypeOK
  <1>6. kind'[r] = "none" /\ seen'[r] = 0 /\ issued'[r] = {} /\ barred'[r] = FALSE
    BY <1>1 DEF Forget, SessionsTypeOK
  <1>7. dead' \subseteq Issued
    BY DEF Revoke, SessionsTypeOK
  <1>8. \A u \in Issued' : tokens'[u] <= version'
    BY <1>1, <1>2, <1>3, <1>4
  <1>9. \A u \in dead' : tokens'[u] < version'
    BY <1>1, <1>2, <1>3, <1>4, <1>7
  <1>10. ASSUME NEW q \in Requests
        PROVE  seen'[q] <= version'
    <2>1. seen[q] \in Nat /\ seen[q] <= version
      BY <1>1 DEF InOrder, SessionsTypeOK
    <2> QED BY <1>2, <1>3, <1>5, <1>6, <2>1
  <1>11. \A q \in Requests : \A u \in issued'[q] : tokens'[u] <= seen'[q]
    BY <1>1, <1>5, <1>6 DEF InOrder
  <1>12. \A q \in Requests : kind'[q] = "refresh" /\ barred'[q]
                                => tokens'[held'[q]] < seen'[q]
    BY <1>1, <1>5, <1>6 DEF InOrder
  <1> QED BY <1>8, <1>9, <1>10, <1>11, <1>12

\* The order holds initially and through every step.
LEMMA OrderStep == SessionsTypeOK /\ InOrder /\ [SessionsNext]_sessionsVars => InOrder'
  <1> SUFFICES ASSUME SessionsTypeOK, InOrder, [SessionsNext]_sessionsVars PROVE InOrder'
    OBVIOUS
  <1>0. Issued \subseteq Nat /\ NoToken \in Nat
    BY DEF Issued, NoToken
  <1>1. CASE UNCHANGED sessionsVars
    BY <1>1 DEF sessionsVars, db, history, InOrder, Issued
  <1>2. ASSUME NEW r \in Requests, ReadUser(r, "login", NoToken)
        PROVE  InOrder'
    BY <1>0, <1>2, OrderRead
  <1>3. ASSUME NEW r \in Requests, NEW t \in Issued,
               NEW k \in {"refresh", "revoke"}, ReadUser(r, k, t)
        PROVE  InOrder'
    BY <1>0, <1>3, OrderRead
  <1> QED BY <1>1, <1>2, <1>3, OrderIssue, OrderForget, OrderRevoke, Steps
          DEF Login, Refresh

\* The inductive invariant of the counter holds, for any number of requests.
THEOREM VersionsInOrder == SessionsSpec => []SessionsInv
  <1>1. SessionsInit => InOrder
    BY DEF SessionsInit, InOrder, Issued, NoToken
  <1>2. SessionsInit => SessionsInv
    BY <1>1, TypeInit DEF SessionsInv
  <1>3. SessionsInv /\ [SessionsNext]_sessionsVars => SessionsInv'
    BY TypeStep, OrderStep DEF SessionsInv
  <1> QED BY <1>2, <1>3, PTL DEF SessionsSpec

\* A token issued before a logout that has returned is never the current one,
\* unless a logout overwrote an increment it had not read
\* (auth-controller.ts, revoke).
THEOREM LogoutRevokes == SessionsSpec => []RevokedUnlessLost
  <1>1. SessionsInv => RevokedUnlessLost
    <2> SUFFICES ASSUME SessionsInv, ~lost, NEW t \in dead
                 PROVE  tokens[t] # version
      BY DEF RevokedUnlessLost
    <2>1. tokens[t] < version
      BY DEF SessionsInv, InOrder
    <2>2. version \in Nat /\ tokens[t] \in Nat
      BY DEF SessionsInv, SessionsTypeOK, Issued
    <2> QED BY <2>1, <2>2
  <1> QED BY <1>1, VersionsInOrder, PTL

\* A refresh begun after a logout, with a token from before it, never yields a
\* pair, unless logouts overlapped.
THEOREM NoRefreshAfter == SessionsSpec => NoRefreshAfterLogout
  <1>1. SessionsInv /\ [SessionsNext]_sessionsVars
          => [\A r \in Requests : Refresh(r) /\ barred[r] => lost]_sessionsVars
    <2> SUFFICES ASSUME SessionsInv, NEW r \in Requests, Refresh(r), barred[r], ~lost
                 PROVE  FALSE
      OBVIOUS
    <2>1. kind[r] = "refresh" /\ tokens[held[r]] = seen[r]
      BY DEF Refresh
    <2>2. tokens[held[r]] < seen[r]
      BY <2>1 DEF SessionsInv, InOrder
    <2>3. seen[r] \in Nat
      BY DEF SessionsInv, SessionsTypeOK
    <2> QED BY <2>1, <2>2, <2>3
  <1> QED BY <1>1, VersionsInOrder, PTL DEF SessionsSpec, NoRefreshAfterLogout
==============================================================================
