------------------------------- MODULE MCAccess -------------------------------
(* Sessions, invites, the rights of roles and the rows of the database, one  *)
(* at a time: the first state chooses the component that moves.              *)
EXTENDS Sessions, AccessInvites, ScopedAccess, Records, TLC

CONSTANTS
    Focuses,
    kept,                                       \* who keeps the page invites are to
    ana, bia, caio, root, mid, leaf, other      \* people, pages and a role of ScopedAccess

VARIABLE focus

-----------------------------------------------------------------------------
(* Invites: a workspace without an organization yet, and a page kept in it   *)
(* by somebody who is not invited.  Two acceptances cross each other once    *)
(* the workspace is linked; one acceptance is crossed by the link, or by the *)
(* departure of the page's keeper and the removal of the page.               *)

ThreeScopes     == {Organization, Workspace, root}
Sovereigns      == {Organization}
WorkspaceScopes == {Workspace}
InWorkspace     == [s \in ThreeScopes |-> IF s = root THEN Workspace ELSE None]
KeptPages       == [s \in ThreeScopes |-> IF s = root THEN kept ELSE None]

InviteTopics == {"crossing", "linking", "leaving"}

Into(S)   == \A i \in Invites : invite'[i].status # "none" =>
                invite'[i].scope \in S /\ invite'[i].for # kept
Still(S)  == \A s \in S : UNCHANGED <<member[s], role[s], within[s]>>
Others(u) == \A s \in Scopes, v \in Users \ {u} : UNCHANGED member[s][v]
Only(L)   == \A i \in Invites : invite[i] = Unsent /\ invite'[i] # Unsent =>
                ~invite'[i].timed /\ invite'[i].limit \in L
AtMostOne == Cardinality({a \in Acceptances : task'[a].at # "idle"}) <= 1

SomeInvites ==
    /\ focus \in InviteTopics /\ Next
    /\ \A a \in Acceptances : task'[a].user # kept
    /\ focus # "leaving" => Still({root}) /\ UNCHANGED member[Workspace][kept]
    /\ focus = "crossing" => within'[Workspace] = Organization /\ Into({Workspace}) /\ Only({1, 2})
    /\ focus = "linking"  => /\ AtMostOne /\ Into({Organization, Workspace})
                             /\ accepted' = accepted => UNCHANGED member[Organization]
    /\ focus = "leaving"  => /\ AtMostOne /\ Into({root}) /\ Only({1})
                             /\ accepted' = accepted => Others(kept)

-----------------------------------------------------------------------------
(* Rights: a page in a page in a page.  bia has a role on the middle one and *)
(* a lesser one on the leaf; caio owns the organization and asks to enter.   *)

Nested == [p \in Pages |-> CASE p = mid -> root [] p = leaf -> mid [] OTHER -> Absent]
Owners == [x \in AccessScopes |-> IF x = Organization THEN caio ELSE ana]

Broad == {"view", "subpages", "update", "edit_subpages", "add_members"}
Lesser == [x \in AccessScopes |->
    CASE x = Organization -> {"view", "add_members", "manage_workspaces"}
      [] x = Workspace    -> {"view", "create_wk_roles"}
      [] x = root         -> {"view"}
      [] x = mid          -> Broad
      [] x = leaf         -> {"view", "remove_members"}]

SomeRoles ==
    [organization |-> {Lesser[Organization]},
     workspace    |-> {Lesser[Workspace], {"view", "manage_pages"}},
     page         |-> {{"view"}, Broad}]

Begun ==
    [given  |-> [x \in AccessScopes |-> [r \in RoleIds |->
                    CASE r = Default -> Catalog(x) [] r = other -> Lesser[x] [] OTHER -> Absent]],
     member |-> [x \in AccessScopes |-> [u \in Persons |->
                    IF <<u, x>> \in {<<bia, mid>>, <<bia, leaf>>, <<ana, Organization>>} THEN other ELSE Absent]],
     asked  |-> [x \in AccessScopes |-> [u \in Persons |->
                    IF <<u, x>> \in {caio} \X {mid, leaf} \cup {bia} \X {Workspace, Organization}
                    THEN "pending" ELSE "none"]]]

-----------------------------------------------------------------------------
Interchangeable ==
    Permutations(Users \ {kept}) \cup Permutations(Invites) \cup Permutations(Acceptances)

\* A component that does not move has as little as it can.
NoPages ==
    /\ given = [x \in AccessScopes |-> [r \in RoleIds |-> Absent]]
    /\ membership = [x \in AccessScopes |-> [u \in Persons |-> Absent]]
    /\ asked = [x \in AccessScopes |-> [u \in Persons |-> "none"]]
    /\ linked = FALSE /\ deleted = Pages /\ last = Quietly /\ acts = 0
NoRows == stored = {} /\ batches = 1 /\ broken = FALSE

RecordTopics == {"people", "pages", "agenda", "records"}

AllInit ==
    /\ Init /\ SessionsInit
    /\ focus \in Focuses
    /\ focus \in {"linking", "leaving"} \/ \A i \in Invites : invite[i] = Unsent
    /\ IF focus = "rights" THEN AccessInit ELSE NoPages
    /\ IF focus \in RecordTopics THEN RecordsInit ELSE NoRows

\* Two transactions of any kind, or three of people, pages or the agenda.
SomeRecords ==
    \/ focus = "people" /\ OfPeople
    \/ focus = "pages" /\ OfPages
    \/ focus = "agenda" /\ OfAgenda
    \/ focus = "records" /\ batches < MaxBatches - 1 /\ RecordsNext

AllNext ==
    \/ focus = "sessions" /\ SessionsNext /\ UNCHANGED <<vars, accessVars, recordsVars, focus>>
    \/ SomeInvites /\ UNCHANGED <<sessionsVars, accessVars, recordsVars, focus>>
    \/ focus = "rights" /\ acts < MaxActs /\ AccessNext /\ UNCHANGED <<sessionsVars, vars, recordsVars, focus>>
    \/ batches < MaxBatches /\ SomeRecords /\ UNCHANGED <<sessionsVars, vars, accessVars, focus>>

allVars == <<sessionsVars, vars, accessVars, recordsVars, focus>>
AllSpec == AllInit /\ [][AllNext]_allVars
==============================================================================
