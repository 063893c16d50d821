----------------------- MODULE AccountOnboardingProofs -----------------------
(***************************************************************************)
(* Proofs about AccountOnboarding, for any addresses, messages, invites and *)
(* requests in progress, with failures or without.                         *)
(*                                                                         *)
(* The heart is the pair of OneLink and LinksInOrder: a request that opened *)
(* a link still in force has an account still pending, because the only    *)
(* step that verifies an account consumes its one link in force.           *)
(***************************************************************************)
EXTENDS MCAccountOnboarding, TLAPS

\* Before any request every part of the invariant holds.
LEMMA InitInv == Init => OnboardingInv
<1> SUFFICES ASSUME Init PROVE OnboardingInv
  OBVIOUS
<1> USE OnboardingAssumption DEF Init
<1>1. TypeOK
  BY DEF TypeOK, Verification, Unissued, Invite, Task, Idle
<1>2. LinksInOrder
  BY DEF LinksInOrder, Unissued, Idle
<1>3. OneLink
  BY DEF OneLink, Active, Unissued
<1>4. ActivatedOnce
  BY DEF ActivatedOnce, Consumed, Unissued
<1>5. PersonalWorkspaceFirst
  BY DEF PersonalWorkspaceFirst
<1> QED
  BY <1>1, <1>2, <1>3, <1>4, <1>5 DEF OnboardingInv

-----------------------------------------------------------------------------
(* Types, action by action.                                                 *)

LEMMA LeaveTypes ==
  ASSUME TypeOK, NEW t \in Requests, Leave(t)
  PROVE  /\ task' \in [Requests -> Task]
         /\ task'[t] = Idle
         /\ \A r \in Requests : r # t => task'[r] = task[r]
  BY OnboardingAssumption DEF TypeOK, Leave, Task, Idle

LEMMA StayTypes ==
  ASSUME TypeOK, NEW t \in Requests, NEW step, Stay(t, step),
         step \in {"target", "find", "start", "commit", "mail", "link", "activate", "accept"}
  PROVE  /\ task' \in [Requests -> Task]
         /\ task'[t] = [task[t] EXCEPT !.at = step]
         /\ \A r \in Requests : r # t => task'[r] = task[r]
  BY DEF TypeOK, Stay, Task

LEMMA BeginTypes ==
  ASSUME TypeOK, NEW t \in Requests, NEW step, NEW a \in Addresses,
         NEW i \in Invites \cup {None}, NEW b \in BOOLEAN, Begin(t, step, a, i, b),
         step \in {"target", "find", "start"}
  PROVE  /\ task' \in [Requests -> Task]
         /\ task'[t] = [Idle EXCEPT !.at = step, !.address = a, !.invite = i, !.invited = b]
         /\ \A r \in Requests : r # t => task'[r] = task[r]
  BY DEF TypeOK, Begin, Task, Idle

\* What TypeOK and LinksInOrder say of one request.
Held(k) ==
    /\ k.at # "idle" => k.address \in Addresses
    /\ k.at \in {"target", "link", "accept"} => k.invite \in Invites
    /\ k.invited => k.invite \in Invites /\ k.at # "find"
    /\ k.at \in {"mail", "activate"} => k.link \in Verifications

\* The part of TypeOK about rows, which requests do not need.
RowsOK ==
    /\ account \in [Addresses -> {"none", "pending", "verified"}]
    /\ password \in [Addresses -> Requests \cup {None}]
    /\ workspaces \in [Addresses -> Nat]
    /\ verification \in [Verifications -> Verification]
    /\ invite \in [Invites -> Invite]
    /\ accepted \subseteq Invites \X Addresses
    /\ mailed \subseteq Verifications /\ linked \subseteq Invites
TasksOK ==
    /\ task \in [Requests -> Task]
    /\ \A r \in Requests : Held(task[r])

LEMMA Parts == TypeOK <=> RowsOK /\ TasksOK
  BY DEF TypeOK, RowsOK, TasksOK, Held

\* One request changed, and what it holds now is enough: so for all.
LEMMA OneTask ==
  ASSUME TypeOK, NEW t \in Requests, task' \in [Requests -> Task],
         \A r \in Requests : r # t => task'[r] = task[r],
         Held(task'[t])
  PROVE  TasksOK'
  BY DEF TypeOK, TasksOK, Held

LEMMA HeldIdle == Held(Idle)
  BY DEF Held, Idle

\* The fields a step of a request leaves alone.
LEMMA Fields ==
  ASSUME NEW k \in Task, NEW step
  PROVE  /\ [k EXCEPT !.at = step].at = step
         /\ [k EXCEPT !.at = step].address = k.address
         /\ [k EXCEPT !.at = step].invite = k.invite
         /\ [k EXCEPT !.at = step].link = k.link
         /\ [k EXCEPT !.at = step].invited = k.invited
  BY DEF Task

\* A request that comes to hold k.
LEMMA Replaced ==
  ASSUME TypeOK, NEW t \in Requests, NEW k \in Task, task' = [task EXCEPT ![t] = k]
  PROVE  /\ task' \in [Requests -> Task]
         /\ task'[t] = k
         /\ \A r \in Requests : r # t => task'[r] = task[r]
  BY DEF TypeOK

\* The steps, by name.
LEMMA Steps ==
  ASSUME [Next]_vars
  PROVE  \/ UNCHANGED vars
         \/ \E i \in Invites :
              \/ InviteGeneric(i) \/ Close(i)
              \/ \E a \in Addresses : AcceptLink(i, a)
              \/ \E t \in Requests, a \in Addresses : InviteAddress(t, i, a)
         \/ \E t \in Requests :
              \/ \E a \in Addresses :
                   Resend(t, a) \/ \E i \in Invites \cup {None} : Register(t, a, i)
              \/ ReadTarget(t) \/ SendLink(t) \/ Find(t) \/ Start(t)
              \/ \E w \in Verifications : Commit(t, w)
              \/ SendVerification(t)
              \/ \E v \in Verifications : OpenLink(t, v)
              \/ Activate(t) \/ AcceptCarried(t) \/ Abandon(t)
         \/ \E v \in Verifications : Cool(v) \/ Expire(v)
  BY DEF Next, Inviting, Registering, Completing

\* Only these change a row; no other step does.
Stored == <<account, password, workspaces, verification, invite, accepted, mailed, linked>>

LEMMA RowsSame == RowsOK /\ UNCHANGED Stored => RowsOK'
  BY DEF RowsOK, Stored

\* An acceptance adds a pair and closes at most its invite.
LEMMA AcceptsRows ==
  ASSUME TypeOK, NEW i \in Invites, NEW a \in Addresses, Accepts(i, a)
  PROVE  /\ invite' \in [Invites -> Invite]
         /\ accepted' \subseteq Invites \X Addresses
         /\ accepted \subseteq accepted'
         /\ accepted' \subseteq accepted \cup {<<i, a>>}
         /\ \A j \in Invites : /\ invite'[j].for = invite[j].for
                               /\ invite[j].status # "none" => invite'[j].status # "none"
         /\ accepted' # accepted =>
               /\ invite[i].status = "pending" /\ invite[i].for \in {a, Anyone}
               /\ account[a] = "verified"
  BY DEF TypeOK, Accepts, Invite

\* The row a request inserts, and the ones it supersedes.
LEMMA IssuedRows ==
  ASSUME TypeOK, NEW w \in Verifications, NEW a \in Addresses,
         NEW i \in Invites \cup {None}, verification[w].state = "none",
         verification' = Issued(a, w, i)
  PROVE  /\ verification' \in [Verifications -> Verification]
         /\ verification'[w].state = "active" /\ verification'[w].for = a
         /\ \A v \in Verifications :
               v # w => /\ verification'[v].for = verification[v].for
                        /\ verification'[v].state =
                             IF verification[v].state = "active" /\ verification[v].for = a
                             THEN "superseded" ELSE verification[v].state
  <1>1. verification \in [Verifications -> Verification]
    BY DEF TypeOK
  <1>2. verification' \in [Verifications -> Verification]
    BY <1>1 DEF Issued, Verification
  <1>3. verification'[w].state = "active" /\ verification'[w].for = a
    BY DEF Issued
  <1>4. \A v \in Verifications :
           v # w => /\ verification'[v].for = verification[v].for
                    /\ verification'[v].state =
                         IF verification[v].state = "active" /\ verification[v].for = a
                         THEN "superseded" ELSE verification[v].state
    BY <1>1 DEF Issued, Active, Verification
  <1> QED BY <1>2, <1>3, <1>4

\* Every step keeps the types of the rows.
LEMMA RowsStep == TypeOK /\ [Next]_vars => RowsOK'
<1> SUFFICES ASSUME TypeOK, [Next]_vars PROVE RowsOK'
  OBVIOUS
<1>0. RowsOK /\ TasksOK
  BY Parts
<1>1. CASE UNCHANGED vars
  BY <1>0, <1>1, RowsSame DEF vars, rows, Stored
<1>2. ASSUME NEW i \in Invites, NEW a \in Addresses, invite[i].status = "none",
             invite' = [invite EXCEPT ![i] = [status |-> "pending", for |-> a]],
             UNCHANGED <<rows, accepted, mailed, linked>>
      PROVE  RowsOK'
  BY <1>0, <1>2 DEF RowsOK, rows, Invite
<1>3. ASSUME NEW i \in Invites, InviteGeneric(i) PROVE RowsOK'
  BY <1>0, <1>3 DEF RowsOK, InviteGeneric, rows, Invite
<1>4. ASSUME NEW i \in Invites, Close(i) PROVE RowsOK'
  BY <1>0, <1>4 DEF RowsOK, Close, rows, Invite
<1>5. ASSUME NEW i \in Invites, NEW a \in Addresses, Accepts(i, a),
             UNCHANGED <<rows, mailed, linked>>
      PROVE  RowsOK'
  <2>1. invite' \in [Invites -> Invite] /\ accepted' \subseteq Invites \X Addresses
    BY <1>5, AcceptsRows
  <2> QED BY <1>0, <1>5, <2>1 DEF RowsOK, rows
<1>6. ASSUME NEW t \in Requests, SendLink(t) PROVE RowsOK'
  BY <1>0, <1>6 DEF RowsOK, SendLink, rows, TasksOK, Held
<1>7. ASSUME NEW t \in Requests, SendVerification(t) PROVE RowsOK'
  BY <1>0, <1>7 DEF RowsOK, SendVerification, rows, TasksOK, Held
<1>8. ASSUME NEW v \in Verifications, Cool(v) \/ Expire(v) PROVE RowsOK'
  <2>1. verification' \in [Verifications -> Verification]
    <3>1. verification \in [Verifications -> Verification]
      BY DEF TypeOK
    <3>2. CASE verification' = [verification EXCEPT ![v].warm = FALSE]
      BY <3>1, <3>2 DEF Verification
    <3>3. CASE verification' = [verification EXCEPT ![v].expired = TRUE]
      BY <3>1, <3>3 DEF Verification
    <3> QED BY <1>8, <3>2, <3>3 DEF Cool, Expire
  <2>2. UNCHANGED <<account, password, workspaces, invite, accepted, mailed, linked>>
    BY <1>8 DEF Cool, Expire
  <2> QED BY <1>0, <2>1, <2>2 DEF RowsOK
<1>9. ASSUME NEW t \in Requests, NEW w \in Verifications, Commit(t, w) PROVE RowsOK'
  <2>1. task[t].address \in Addresses /\ task[t].invite \in Invites \cup {None}
    BY <1>9 DEF TypeOK, Task, Commit
  <2>2. account' \in [Addresses -> {"none", "pending", "verified"}]
    BY <1>9 DEF TypeOK, Commit
  <2>3. verification' \in [Verifications -> Verification]
    BY <1>9, <2>1, IssuedRows DEF TypeOK, Commit
  <2> QED BY <1>0, <1>9, <2>2, <2>3 DEF RowsOK, Commit
<1>10. ASSUME NEW t \in Requests, Activate(t) PROVE RowsOK'
  <2>1. account' \in [Addresses -> {"none", "pending", "verified"}]
    BY <1>10 DEF TypeOK, Activate
  <2>2. password' \in [Addresses -> Requests \cup {None}]
    BY <1>10 DEF TypeOK, Activate
  <2>3. workspaces' \in [Addresses -> Nat]
    BY <1>10 DEF TypeOK, Activate
  <2>4. verification' \in [Verifications -> Verification]
    BY <1>10 DEF TypeOK, Activate, Verification
  <2> QED BY <1>0, <1>10, <2>1, <2>2, <2>3, <2>4 DEF RowsOK, Activate
<1>11. ASSUME UNCHANGED Stored PROVE RowsOK'
  BY <1>0, <1>11, RowsSame
<1>12. ASSUME NEW t \in Requests, AcceptCarried(t) PROVE RowsOK'
  <2>1. task[t].invite \in Invites /\ task[t].address \in Addresses
    BY <1>12 DEF TypeOK, AcceptCarried
  <2> QED BY <1>5, <1>12, <2>1 DEF AcceptCarried
<1>13. ASSUME NEW i \in Invites, NEW a \in Addresses, AcceptLink(i, a) PROVE RowsOK'
  BY <1>5, <1>13 DEF AcceptLink
<1>14. ASSUME NEW t \in Requests, NEW i \in Invites, NEW a \in Addresses, InviteAddress(t, i, a)
       PROVE  RowsOK'
  BY <1>2, <1>14 DEF InviteAddress
<1>15. ASSUME NEW t \in Requests, NEW a \in Addresses,
              Resend(t, a) \/ \E i \in Invites \cup {None} : Register(t, a, i)
       PROVE  RowsOK'
  BY <1>11, <1>15 DEF Resend, Register, rows, Stored
<1>16. ASSUME NEW t \in Requests, ReadTarget(t) \/ Find(t) \/ Start(t) \/ Abandon(t)
       PROVE  RowsOK'
  BY <1>11, <1>16 DEF ReadTarget, Find, Start, Abandon, rows, Stored
<1>17. ASSUME NEW t \in Requests, NEW v \in Verifications, OpenLink(t, v) PROVE RowsOK'
  BY <1>11, <1>17 DEF OpenLink, rows, Stored
<1> QED
  BY <1>1, <1>3, <1>4, <1>6, <1>7, <1>8, <1>9, <1>10, <1>12, <1>13, <1>14, <1>15, <1>16,
     <1>17, Steps

\* Every step keeps the types of the requests and what their steps hold.
LEMMA TasksStep == TypeOK /\ LinksInOrder /\ [Next]_vars => TasksOK'
<1> SUFFICES ASSUME TypeOK, LinksInOrder, [Next]_vars PROVE TasksOK'
  OBVIOUS
<1>0. RowsOK /\ TasksOK
  BY Parts
<1>1. ASSUME UNCHANGED task PROVE TasksOK'
  BY <1>0, <1>1 DEF TasksOK
<1>2. ASSUME NEW t \in Requests, Leave(t) PROVE TasksOK'
  BY <1>2, LeaveTypes, HeldIdle, OneTask
<1>3. ASSUME NEW t \in Requests, NEW step \in {"start", "link", "accept"},
             Stay(t, step), task[t].address \in Addresses,
             step \in {"link", "accept"} => task[t].invite \in Invites
      PROVE  TasksOK'
  <2>1. /\ task' \in [Requests -> Task]
        /\ task'[t] = [task[t] EXCEPT !.at = step]
        /\ \A r \in Requests : r # t => task'[r] = task[r]
    BY <1>3, StayTypes
  <2>2. task[t] \in Task
    BY DEF TypeOK
  <2>3. /\ task'[t].at = step /\ task'[t].address = task[t].address
        /\ task'[t].invite = task[t].invite /\ task'[t].invited = task[t].invited
    BY <2>1, <2>2, Fields
  <2>4. Held(task'[t])
    <3>1. task[t].invited => task[t].invite \in Invites
      BY DEF TypeOK
    <3> QED BY <1>3, <2>3, <3>1 DEF Held
  <2> QED BY <2>1, <2>4, OneTask
<1>4. ASSUME NEW t \in Requests, NEW step \in {"target", "find", "start"},
             NEW a \in Addresses, NEW i \in Invites \cup {None}, NEW b \in BOOLEAN,
             Begin(t, step, a, i, b),
             step = "target" => i \in Invites,
             b => i \in Invites /\ step # "find"
      PROVE  TasksOK'
  <2>1. /\ task' \in [Requests -> Task]
        /\ task'[t] = [Idle EXCEPT !.at = step, !.address = a, !.invite = i, !.invited = b]
        /\ \A r \in Requests : r # t => task'[r] = task[r]
    BY <1>4 DEF Begin, TypeOK, Task, Idle
  <2>2. Held(task'[t])
    BY <1>4, <2>1 DEF Held, Idle
  <2> QED BY <2>1, <2>2, OneTask
<1>5. ASSUME NEW i \in Invites, NEW t \in Requests, NEW a \in Addresses, InviteAddress(t, i, a)
      PROVE  TasksOK'
  BY <1>4, <1>5 DEF InviteAddress
<1>6. ASSUME NEW t \in Requests, NEW a \in Addresses, Resend(t, a) PROVE TasksOK'
  <2>1. PICK v \in Verifications :
           Begin(t, IF verification[v].invite = None THEN "find" ELSE "start", a,
                 verification[v].invite, FALSE)
    BY <1>6 DEF Resend, Pending
  <2>2. PICK i \in Invites \cup {None} : i = verification[v].invite
    BY DEF TypeOK, Verification
  <2>3. Begin(t, IF i = None THEN "find" ELSE "start", a, i, FALSE)
    BY <2>1, <2>2
  <2> QED BY <1>4, <2>3
<1>7. ASSUME NEW t \in Requests, NEW a \in Addresses, NEW i \in Invites \cup {None},
             Register(t, a, i)
      PROVE  TasksOK'
  BY <1>4, <1>7 DEF Register
<1>8. ASSUME NEW t \in Requests, ReadTarget(t) PROVE TasksOK'
  <2>1. task[t].address \in Addresses /\ task[t].invite \in Invites
    BY <1>8 DEF ReadTarget, TypeOK
  <2>2. Stay(t, "link") \/ Stay(t, "start")
    BY <1>8 DEF ReadTarget
  <2> QED BY <1>3, <2>1, <2>2
<1>9. ASSUME NEW t \in Requests, Find(t) PROVE TasksOK'
  <2>1. task[t].at = "find" /\ task[t].address \in Addresses /\ ~task[t].invited
    BY <1>9 DEF Find, TypeOK
  <2>2. CASE Stay(t, "start")
    BY <1>3, <2>1, <2>2
  <2>3. ASSUME NEW v \in Verifications,
               task' = [task EXCEPT ![t].at = "start", ![t].invite = verification[v].invite]
        PROVE  TasksOK'
    <3>1. PICK i \in Invites \cup {None} : i = verification[v].invite
      BY DEF TypeOK, Verification
    <3>2. task' = [task EXCEPT ![t].at = "start", ![t].invite = i]
      BY <2>3, <3>1
    <3> DEFINE k == [task[t] EXCEPT !.at = "start", !.invite = i]
    <3>3. k \in Task /\ k.at = "start" /\ k.address = task[t].address /\ ~k.invited
      BY <2>1 DEF TypeOK, Task
    <3>4. task' = [task EXCEPT ![t] = k]
      BY <3>2
    <3>5. Held(k)
      BY <2>1, <3>3 DEF Held
    <3> QED
      <4> HIDE DEF k
      <4> QED BY <3>3, <3>4, <3>5, Replaced, OneTask
  <2> QED BY <1>9, <2>2, <2>3 DEF Find, Pending
<1>10. ASSUME NEW t \in Requests, Start(t) PROVE TasksOK'
  <2>1. task[t].at = "start" /\ task[t].address \in Addresses
    BY <1>10 DEF Start, TypeOK
  <2>2. CASE Leave(t)
    BY <1>2, <2>2
  <2>3. CASE task[t].invited /\ Stay(t, "link")
    <3>1. task[t].invite \in Invites
      BY <2>1, <2>3 DEF TypeOK
    <3> QED BY <1>3, <2>1, <2>3, <3>1
  <2>4. CASE task' = [task EXCEPT ![t].at = "commit",
                                  ![t].known = account[task[t].address] = "pending"]
    <3>1. PICK b \in BOOLEAN : b = (account[task[t].address] = "pending")
      OBVIOUS
    <3>2. task' = [task EXCEPT ![t].at = "commit", ![t].known = b]
      BY <2>4, <3>1
    <3> DEFINE k == [task[t] EXCEPT !.at = "commit", !.known = b]
    <3>3. /\ k \in Task /\ k.at = "commit" /\ k.address = task[t].address
          /\ k.invited => k.invite \in Invites
      BY DEF TypeOK, Task
    <3>4. task' = [task EXCEPT ![t] = k]
      BY <3>2
    <3>5. Held(k)
      BY <2>1, <3>3 DEF Held
    <3> QED
      <4> HIDE DEF k
      <4> QED BY <3>3, <3>4, <3>5, Replaced, OneTask
  <2> QED BY <1>10, <2>2, <2>3, <2>4 DEF Start
<1>11. ASSUME NEW t \in Requests, NEW w \in Verifications, Commit(t, w) PROVE TasksOK'
  <2>1. CASE Leave(t)
    BY <1>2, <2>1
  <2>2. CASE task' = [task EXCEPT ![t].at = "mail", ![t].link = w]
    <3>1. task[t].address \in Addresses
      BY <1>11 DEF Commit, TypeOK
    <3> DEFINE k == [task[t] EXCEPT !.at = "mail", !.link = w]
    <3>2. /\ k \in Task /\ k.at = "mail" /\ k.address = task[t].address /\ k.link = w
          /\ k.invited => k.invite \in Invites
      BY DEF TypeOK, Task
    <3>3. task' = [task EXCEPT ![t] = k]
      BY <2>2
    <3>4. Held(k)
      BY <3>1, <3>2 DEF Held
    <3> QED
      <4> HIDE DEF k
      <4> QED BY <3>2, <3>3, <3>4, Replaced, OneTask
  <2> QED BY <1>11, <2>1, <2>2 DEF Commit
<1>12. ASSUME NEW t \in Requests, NEW v \in Verifications, OpenLink(t, v)
       PROVE  TasksOK'
  <2>1. PICK a \in Addresses, i \in Invites \cup {None} :
           a = verification[v].for /\ i = verification[v].invite
    <3>1. verification[v].for \in Addresses
      BY <1>12 DEF OpenLink, LinksInOrder
    <3>2. verification[v].invite \in Invites \cup {None}
      BY DEF TypeOK, Verification
    <3> QED BY <3>1, <3>2
  <2>2. task' = [task EXCEPT ![t] = [Idle EXCEPT !.at = "activate", !.link = v,
                                        !.address = a, !.invite = i]]
    BY <1>12, <2>1 DEF OpenLink
  <2>3. task' \in [Requests -> Task] /\ \A r \in Requests : r # t => task'[r] = task[r]
    BY <2>2 DEF TypeOK, Task, Idle
  <2>4. /\ task'[t].at = "activate" /\ task'[t].address = a /\ task'[t].link = v
        /\ ~task'[t].invited
    BY <2>2 DEF TypeOK, Idle
  <2>5. Held(task'[t])
    BY <2>4 DEF Held
  <2> QED BY <2>3, <2>5, OneTask
<1>13. ASSUME NEW t \in Requests, Activate(t) PROVE TasksOK'
  <2>1. task[t].address \in Addresses
    BY <1>13 DEF Activate, TypeOK
  <2>2. CASE Leave(t)
    BY <1>2, <2>2
  <2>3. CASE task[t].invite # None /\ Stay(t, "accept")
    <3>1. task[t].invite \in Invites
      BY <2>3 DEF TypeOK, Task
    <3> QED BY <1>3, <2>1, <2>3, <3>1
  <2> QED BY <1>13, <2>2, <2>3 DEF Activate
<1>14. ASSUME NEW i \in Invites,
              InviteGeneric(i) \/ Close(i) \/ \E a \in Addresses : AcceptLink(i, a)
       PROVE  TasksOK'
  BY <1>1, <1>14 DEF InviteGeneric, Close, AcceptLink
<1>15. ASSUME NEW v \in Verifications, Cool(v) \/ Expire(v) PROVE TasksOK'
  BY <1>1, <1>15 DEF Cool, Expire
<1>16. ASSUME NEW t \in Requests,
              SendLink(t) \/ SendVerification(t) \/ AcceptCarried(t) \/ Abandon(t)
       PROVE  TasksOK'
  BY <1>2, <1>16 DEF SendLink, SendVerification, AcceptCarried, Abandon
<1>17. CASE UNCHANGED vars
  BY <1>1, <1>17 DEF vars
<1> QED
  BY <1>5, <1>6, <1>7, <1>8, <1>9, <1>10, <1>11, <1>12, <1>13, <1>14, <1>15, <1>16, <1>17, Steps

-----------------------------------------------------------------------------
(* Links, accounts and acceptances.                                         *)

\* LinksInOrder, by what each part speaks of.
Registered ==
    \A v \in Verifications :
        verification[v].state # "none" =>
            /\ verification[v].for \in Addresses
            /\ account[verification[v].for] # "none"
MailedIssued == \A v \in mailed : verification[v].state # "none"
Fits(t) ==
    /\ task[t].at = "mail" => verification[task[t].link].state # "none"
    /\ task[t].at = "activate" =>
          /\ task[t].link \in mailed
          /\ task[t].address = verification[task[t].link].for
          /\ Active(task[t].link) => account[task[t].address] = "pending"
InvitedFirst ==
    \A i \in Invites, a \in Addresses :
        <<i, a>> \in accepted => invite[i].status # "none"

LEMMA LinksParts ==
  LinksInOrder <=>
    /\ Registered /\ MailedIssued /\ InvitedFirst
    /\ \A t \in Requests : Fits(t)
  BY DEF LinksInOrder, Registered, MailedIssued, Fits, InvitedFirst

\* Links keep their state and their address, and accounts stay as they are.
SameLinks ==
    /\ \A v \in Verifications : /\ verification'[v].state = verification[v].state
                                /\ verification'[v].for = verification[v].for
    /\ UNCHANGED <<account, password, workspaces>>

LEMMA RowsAreSameLinks == UNCHANGED rows => SameLinks
  BY DEF rows, SameLinks

LEMMA AccountsKept ==
  ASSUME Registered, OneLink, ActivatedOnce, SameLinks
  PROVE  Registered' /\ OneLink' /\ ActivatedOnce'
<1>1. Registered'
  BY DEF Registered, SameLinks
<1>2. OneLink'
  BY DEF OneLink, SameLinks, Active
<1>3. ActivatedOnce'
  <2>1. \A a \in Addresses : Consumed(a)' = Consumed(a)
    BY DEF Consumed, SameLinks
  <2> QED BY <2>1 DEF ActivatedOnce, SameLinks
<1> QED BY <1>1, <1>2, <1>3

\* Messages and requests that are not touched still fit.
LEMMA FitsKept ==
  ASSUME TypeOK, NEW t \in Requests, Fits(t), SameLinks, mailed \subseteq mailed',
         task'[t] = task[t]
  PROVE  Fits(t)'
  BY DEF TypeOK, Fits, SameLinks, Active

\* A request at any other step fits.
LEMMA FitsElsewhere ==
  ASSUME NEW t \in Requests, task'[t].at \notin {"mail", "activate"}
  PROVE  Fits(t)'
  BY DEF Fits

\* What acceptances rest on, when no acceptance is added.
LEMMA AcceptancesKept ==
  ASSUME TypeOK, InvitedFirst, PersonalWorkspaceFirst, UNCHANGED <<workspaces, accepted>>,
         \A i \in Invites : invite[i].status # "none" =>
             invite'[i].status # "none" /\ invite'[i].for = invite[i].for
  PROVE  InvitedFirst' /\ PersonalWorkspaceFirst'
  BY DEF InvitedFirst, PersonalWorkspaceFirst

\* Rest of the invariant, types aside.
Rest == LinksInOrder /\ OneLink /\ ActivatedOnce /\ PersonalWorkspaceFirst

LEMMA RestParts ==
  Rest <=>
    /\ Registered /\ MailedIssued /\ InvitedFirst /\ (\A t \in Requests : Fits(t))
    /\ OneLink /\ ActivatedOnce /\ PersonalWorkspaceFirst
  BY LinksParts DEF Rest

LEMMA RestPartsNext ==
  /\ Registered' /\ MailedIssued' /\ InvitedFirst' /\ (\A t \in Requests : Fits(t)')
  /\ OneLink' /\ ActivatedOnce' /\ PersonalWorkspaceFirst'
  => Rest'
  BY DEF Rest, LinksInOrder, Registered, MailedIssued, InvitedFirst, Fits

\* A step that verifies nobody, issues no link and opens none.
LEMMA QuietStep ==
  ASSUME TypeOK, Rest, SameLinks, mailed \subseteq mailed',
         MailedIssued', InvitedFirst', PersonalWorkspaceFirst',
         \A r \in Requests : \/ task'[r] = task[r]
                             \/ task'[r].at \notin {"mail", "activate"}
  PROVE  Rest'
<1>0. /\ Registered /\ MailedIssued /\ OneLink /\ ActivatedOnce
      /\ \A r \in Requests : Fits(r)
  BY RestParts
<1>1. Registered' /\ OneLink' /\ ActivatedOnce'
  BY <1>0, AccountsKept
<1>2. \A r \in Requests : Fits(r)'
  <2> TAKE r \in Requests
  <2>1. CASE task'[r] = task[r]
    BY <1>0, <2>1, FitsKept
  <2>2. CASE task'[r].at \notin {"mail", "activate"}
    BY <2>2, FitsElsewhere
  <2> QED BY <2>1, <2>2
<1> QED
  BY <1>1, <1>2, RestPartsNext

\* Nothing stored changes, and requests move without opening a link.
LEMMA NothingStored ==
  ASSUME TypeOK, Rest, UNCHANGED Stored,
         \A r \in Requests : \/ task'[r] = task[r]
                             \/ task'[r].at \notin {"mail", "activate"}
  PROVE  Rest'
<1>1. SameLinks /\ mailed \subseteq mailed'
  BY DEF Stored, SameLinks
<1>2. MailedIssued'
  BY RestParts DEF MailedIssued, Stored
<1>3. InvitedFirst' /\ PersonalWorkspaceFirst'
  BY RestParts, AcceptancesKept DEF Stored
<1> QED BY <1>1, <1>2, <1>3, QuietStep

\* An invite is created or closed: those accepted were created before.
LEMMA InviteStep ==
  ASSUME TypeOK, Rest, UNCHANGED <<rows, accepted, mailed>>,
         \A i \in Invites : invite[i].status # "none" =>
             invite'[i].status # "none" /\ invite'[i].for = invite[i].for,
         \A r \in Requests : \/ task'[r] = task[r]
                             \/ task'[r].at \notin {"mail", "activate"}
  PROVE  Rest'
<1>1. SameLinks /\ mailed \subseteq mailed'
  BY DEF rows, SameLinks
<1>2. MailedIssued'
  BY RestParts DEF MailedIssued, rows
<1>3. InvitedFirst' /\ PersonalWorkspaceFirst'
  BY RestParts, AcceptancesKept DEF rows
<1> QED BY <1>1, <1>2, <1>3, QuietStep

\* An acceptance: its account is verified, hence has its workspace.
LEMMA AcceptStep ==
  ASSUME TypeOK, Rest, NEW i \in Invites, NEW a \in Addresses, Accepts(i, a),
         UNCHANGED <<rows, mailed>>,
         \A r \in Requests : \/ task'[r] = task[r]
                             \/ task'[r].at \notin {"mail", "activate"}
  PROVE  Rest'
<1>1. SameLinks /\ mailed \subseteq mailed'
  BY DEF rows, SameLinks
<1>2. MailedIssued'
  BY RestParts DEF MailedIssued, rows
<1>3. /\ accepted' \subseteq accepted \cup {<<i, a>>}
      /\ \A j \in Invites : /\ invite'[j].for = invite[j].for
                            /\ invite[j].status # "none" => invite'[j].status # "none"
      /\ accepted' # accepted =>
            /\ invite[i].status = "pending" /\ invite[i].for \in {a, Anyone}
            /\ account[a] = "verified"
  BY AcceptsRows
<1>4. InvitedFirst'
  BY <1>3, RestParts DEF InvitedFirst
<1>5. accepted' # accepted => workspaces[a] = 1
  BY <1>3, RestParts DEF ActivatedOnce
<1>6. workspaces' = workspaces
  BY DEF rows
<1>7. PersonalWorkspaceFirst'
  BY <1>3, <1>5, <1>6, RestParts DEF PersonalWorkspaceFirst
<1> QED BY <1>1, <1>2, <1>4, <1>7, QuietStep

\* A link is opened while it is in force and its account pending.
LEMMA OpenStep ==
  ASSUME TypeOK, Rest, NEW t \in Requests, NEW v \in Verifications, OpenLink(t, v)
  PROVE  Rest'
<1>0. /\ Registered /\ MailedIssued /\ OneLink /\ ActivatedOnce
      /\ \A r \in Requests : Fits(r)
  BY RestParts
<1>1. SameLinks /\ mailed' = mailed
  BY DEF OpenLink, rows, SameLinks
<1>2. Registered' /\ OneLink' /\ ActivatedOnce'
  BY <1>0, <1>1, AccountsKept
<1>3. MailedIssued'
  BY <1>0, <1>1 DEF MailedIssued, SameLinks, TypeOK
<1>4. InvitedFirst' /\ PersonalWorkspaceFirst'
  BY RestParts, AcceptancesKept DEF OpenLink, rows
<1>5. /\ task'[t].at = "activate" /\ task'[t].link = v
      /\ task'[t].address = verification[v].for
      /\ \A r \in Requests : r # t => task'[r] = task[r]
  BY DEF OpenLink, TypeOK, Idle
<1>6. v \in mailed /\ account[verification[v].for] = "pending"
  BY DEF OpenLink, Usable
<1>7. Fits(t)'
  BY <1>1, <1>5, <1>6 DEF Fits, SameLinks
<1>8. \A r \in Requests : Fits(r)'
  <2> TAKE r \in Requests
  <2>1. CASE r # t
    BY <1>0, <1>1, <1>5, <2>1, FitsKept
  <2> QED BY <1>7, <2>1
<1> QED BY <1>2, <1>3, <1>4, <1>8, RestPartsNext

\* A new link supersedes the one in force before it; a request that opened
\* that one finds it out of force.
LEMMA CommitStep ==
  ASSUME TypeOK, Rest, NEW t \in Requests, NEW w \in Verifications, Commit(t, w)
  PROVE  Rest'
<1> DEFINE a == task[t].address
<1>0. /\ Registered /\ MailedIssued /\ OneLink /\ ActivatedOnce
      /\ \A r \in Requests : Fits(r)
  BY RestParts
<1>1. a \in Addresses /\ task[t].invite \in Invites \cup {None}
  BY DEF Commit, TypeOK, Task
<1>2. InvitedFirst' /\ PersonalWorkspaceFirst'
  BY RestParts, AcceptancesKept DEF Commit
<1>3. CASE UNCHANGED <<account, verification>> /\ Leave(t)
  <2>1. UNCHANGED Stored
    BY <1>3 DEF Commit, Stored
  <2>2. \A r \in Requests : task'[r] = task[r] \/ task'[r].at \notin {"mail", "activate"}
    BY <1>3, LeaveTypes DEF Idle
  <2> QED BY <2>1, <2>2, NothingStored
<1>4. CASE /\ account' = [account EXCEPT ![a] = IF @ = "none" THEN "pending" ELSE @]
           /\ verification' = Issued(a, w, task[t].invite)
           /\ task' = [task EXCEPT ![t].at = "mail", ![t].link = w]
  <2> HIDE DEF a
  <2>0. verification[w].state = "none" /\ UNCHANGED <<password, workspaces, mailed>>
    BY DEF Commit
  <2>1. /\ verification'[w].state = "active" /\ verification'[w].for = a
        /\ \A v \in Verifications :
             v # w => /\ verification'[v].for = verification[v].for
                      /\ verification'[v].state =
                           IF verification[v].state = "active" /\ verification[v].for = a
                           THEN "superseded" ELSE verification[v].state
    BY <1>1, <1>4, <2>0, IssuedRows
  <2>2. /\ \A b \in Addresses : b # a => account'[b] = account[b]
        /\ account'[a] = IF account[a] = "none" THEN "pending" ELSE account[a]
    BY <1>1, <1>4 DEF TypeOK
  <2>3. Registered'
    BY <1>0, <1>1, <2>1, <2>2 DEF Registered
  <2>4. OneLink'
    BY <1>0, <2>0, <2>1 DEF OneLink, Active
  <2>5. ActivatedOnce'
    <3>1. \A b \in Addresses : Consumed(b)' = Consumed(b)
      BY <2>0, <2>1 DEF Consumed
    <3> QED BY <1>0, <2>0, <2>2, <3>1 DEF ActivatedOnce
  <2>6. MailedIssued'
    BY <1>0, <2>0, <2>1 DEF MailedIssued, TypeOK
  <2>7. /\ task'[t].at = "mail" /\ task'[t].link = w
        /\ \A r \in Requests : r # t => task'[r] = task[r]
    <3> DEFINE k == [task[t] EXCEPT !.at = "mail", !.link = w]
    <3>1. k \in Task /\ k.at = "mail" /\ k.link = w
      BY DEF TypeOK, Task
    <3>2. task' = [task EXCEPT ![t] = k]
      BY <1>4
    <3> QED
      <4> HIDE DEF k
      <4> QED BY <3>1, <3>2, Replaced
  <2>8. \A r \in Requests : Fits(r)'
    <3> TAKE r \in Requests
    <3>1. CASE r = t
      BY <2>1, <2>7, <3>1 DEF Fits
    <3>2. ASSUME r # t, task[r].at = "mail" PROVE Fits(r)'
      <4>1. task[r].link \in Verifications /\ verification[task[r].link].state # "none"
        BY <1>0, <3>2 DEF TypeOK, Fits
      <4> QED BY <2>0, <2>1, <2>7, <3>2, <4>1 DEF Fits
    <3>3. ASSUME r # t, task[r].at = "activate" PROVE Fits(r)'
      <4> DEFINE v == task[r].link
      <4>1. /\ v \in mailed /\ v \in Verifications
            /\ task[r].address = verification[v].for
            /\ Active(v) => account[task[r].address] = "pending"
        BY <1>0, <3>3 DEF TypeOK, Fits
      <4>2. v # w /\ verification[v].for \in Addresses
        BY <1>0, <2>0, <4>1 DEF MailedIssued, Registered
      <4>3. /\ verification'[v].for = verification[v].for
            /\ verification'[v].state = "active" => verification[v].state = "active"
        BY <2>1, <4>1, <4>2
      <4>4. account[task[r].address] = "pending" => account'[task[r].address] = "pending"
        BY <2>2, <4>1, <4>2
      <4>5. task'[r] = task[r]
        BY <2>7, <3>3
      <4> HIDE DEF v
      <4>6. v = task'[r].link /\ v \in mailed'
        BY <2>0, <4>1, <4>5 DEF v
      <4> QED BY <3>3, <4>1, <4>3, <4>4, <4>5, <4>6 DEF Fits, Active
    <3>4. CASE r # t /\ task[r].at \notin {"mail", "activate"}
      BY <2>7, <3>4 DEF Fits
    <3> QED BY <3>1, <3>2, <3>3, <3>4
  <2> QED BY <1>2, <2>3, <2>4, <2>5, <2>6, <2>8, RestPartsNext
<1> QED BY <1>3, <1>4 DEF Commit

\* The click.  If the link still serves, its account is activated as a whole;
\* if not, nothing about any account changes.
LEMMA ActivateStep ==
  ASSUME TypeOK, Rest, NEW t \in Requests, Activate(t)
  PROVE  Rest'
<1> DEFINE v == task[t].link
           a == task[t].address
<1>0. /\ Registered /\ MailedIssued /\ InvitedFirst /\ OneLink /\ ActivatedOnce
      /\ PersonalWorkspaceFirst /\ \A r \in Requests : Fits(r)
  BY RestParts
<1>1. /\ task[t].at = "activate" /\ a \in Addresses /\ v \in Verifications
      /\ UNCHANGED <<invite, accepted, mailed, linked>>
  BY DEF Activate, TypeOK
<1>2. /\ v \in mailed /\ a = verification[v].for
      /\ Active(v) => account[a] = "pending"
  BY <1>0, <1>1 DEF Fits
<1>3. /\ account' = [account EXCEPT ![a] = IF Usable(v) THEN "verified" ELSE @]
      /\ password' = [password EXCEPT ![a] = IF Usable(v) THEN t ELSE @]
      /\ workspaces' = [workspaces EXCEPT
                          ![a] = IF account'[a] = "verified" /\ @ = 0 THEN 1 ELSE @]
      /\ verification' = [verification EXCEPT
            ![v].state = IF Active(v) /\ account'[a] = "verified" THEN "consumed" ELSE @]
  BY DEF Activate
<1>4. \A r \in Requests : task'[r] = task[r] \/ task'[r].at \notin {"mail", "activate"}
  <2>1. CASE Leave(t)
    BY <2>1, LeaveTypes DEF Idle
  <2>2. CASE Stay(t, "accept")
    <3>1. /\ task'[t] = [task[t] EXCEPT !.at = "accept"]
          /\ \A r \in Requests : r # t => task'[r] = task[r]
      BY <2>2, StayTypes
    <3>2. task'[t].at = "accept"
      BY <3>1, Fields DEF TypeOK
    <3> QED BY <3>1, <3>2
  <2> QED BY <2>1, <2>2 DEF Activate
<1>5. CASE ~Usable(v)
  <2> HIDE DEF v, a
  <2>1. account' = account /\ password' = password
    BY <1>3, <1>5 DEF TypeOK
  <2>2. workspaces' = workspaces
    <3>1. account[a] = "verified" => workspaces[a] = 1
      BY <1>0, <1>1 DEF ActivatedOnce, a
    <3> QED BY <1>1, <1>3, <2>1, <3>1 DEF TypeOK
  <2>3. verification' = verification
    <3>1. ~(Active(v) /\ account'[a] = "verified")
      BY <1>2, <2>1
    <3> QED BY <1>3, <3>1 DEF TypeOK, Verification
  <2>4. UNCHANGED Stored
    BY <1>1, <2>1, <2>2, <2>3 DEF Stored
  <2> QED BY <1>4, <2>4, NothingStored
<1>6. CASE Usable(v)
  <2> HIDE DEF v, a
  <2>1. Active(v) /\ account[a] = "pending"
    BY <1>2, <1>6 DEF Usable
  <2>2. /\ account'[a] = "verified" /\ password'[a] = t
        /\ \A b \in Addresses : b # a => account'[b] = account[b] /\ password'[b] = password[b]
    BY <1>1, <1>3, <1>6 DEF TypeOK, a
  <2>3. password[a] = None /\ workspaces[a] = 0 /\ Consumed(a) = {}
    BY <1>0, <1>1, <2>1 DEF ActivatedOnce, a
  <2>4. /\ workspaces'[a] = 1
        /\ \A b \in Addresses : b # a => workspaces'[b] = workspaces[b]
    BY <1>1, <1>3, <2>2, <2>3 DEF TypeOK, a
  <2>5. /\ verification'[v].state = "consumed"
        /\ \A u \in Verifications : verification'[u].for = verification[u].for
        /\ \A u \in Verifications : u # v => verification'[u] = verification[u]
    <3>1. verification' = [verification EXCEPT ![v].state = "consumed"]
      BY <1>3, <2>1, <2>2
    <3> QED BY <1>1, <3>1 DEF TypeOK, Verification, v
  <2>6. Registered'
    BY <1>0, <1>1, <1>2, <2>2, <2>5 DEF Registered, Active
  <2>7. OneLink'
    BY <1>0, <2>5 DEF OneLink, Active
  <2>8. ActivatedOnce'
    <3>1. \A b \in Addresses : b = a => Consumed(b)' = {v}
      <4> TAKE b \in Addresses
      <4> HAVE b = a
      <4>1. v \in Verifications /\ verification[v].for = b
        BY <1>1, <1>2 DEF v
      <4>2. \A u \in Verifications :
               ~(verification[u].state = "consumed" /\ verification[u].for = b)
        BY <2>3 DEF Consumed
      <4>3. Consumed(b)' = {u \in Verifications :
                              verification'[u].state = "consumed" /\ verification'[u].for = b}
        BY DEF Consumed
      <4> HIDE DEF Consumed
      <4> QED BY <2>5, <4>1, <4>2, <4>3
    <3>2. \A b \in Addresses : b # a => Consumed(b)' = Consumed(b)
      <4> TAKE b \in Addresses
      <4> HAVE b # a
      <4>1. verification[v].for # b
        BY <1>2
      <4>2. \A u \in Verifications :
               /\ verification'[u].for = b <=> verification[u].for = b
               /\ u # v => verification'[u].state = verification[u].state
        BY <2>5
      <4> QED BY <4>1, <4>2 DEF Consumed
    <3>3. password'[a] # None
      <4>1. t # None
        BY OnboardingAssumption
      <4> QED BY <2>2, <4>1
    <3>4. ASSUME NEW b \in Addresses
          PROVE  IF account'[b] = "verified"
                 THEN /\ password'[b] # None /\ workspaces'[b] = 1
                      /\ \E u \in Consumed(b)' : Consumed(b)' = {u}
                 ELSE password'[b] = None /\ workspaces'[b] = 0 /\ Consumed(b)' = {}
      <4>1. CASE b = a
        BY <2>2, <2>4, <3>1, <3>3, <4>1
      <4>2. CASE b # a
        BY <1>0, <2>2, <2>4, <3>2, <4>2 DEF ActivatedOnce
      <4> QED BY <4>1, <4>2
    <3> QED BY <3>4 DEF ActivatedOnce
  <2>9. MailedIssued'
    BY <1>0, <1>1, <2>5 DEF MailedIssued, TypeOK, v
  <2>10. InvitedFirst'
    BY <1>0, <1>1 DEF InvitedFirst
  <2>11. PersonalWorkspaceFirst'
    BY <1>0, <1>1, <2>3, <2>4 DEF PersonalWorkspaceFirst
  <2>12. \A r \in Requests : Fits(r)'
    <3> TAKE r \in Requests
    <3>1. CASE task'[r].at \notin {"mail", "activate"}
      BY <3>1, FitsElsewhere
    <3>2. ASSUME task'[r] = task[r], task[r].at = "mail" PROVE Fits(r)'
      <4>1. task[r].link \in Verifications /\ verification[task[r].link].state # "none"
        BY <1>0, <3>2 DEF TypeOK, Fits
      <4> QED BY <2>5, <3>2, <4>1 DEF Fits
    <3>3. ASSUME task'[r] = task[r], task[r].at = "activate" PROVE Fits(r)'
      <4> DEFINE u == task[r].link
      <4>1. /\ u \in mailed /\ u \in Verifications /\ task[r].address \in Addresses
            /\ task[r].address = verification[u].for
            /\ Active(u) => account[task[r].address] = "pending"
        BY <1>0, <3>3 DEF TypeOK, Fits
      <4>2. ASSUME verification'[u].state = "active"
            PROVE  account'[task[r].address] = "pending"
        <5>1. u # v /\ Active(u)
          BY <2>5, <4>1, <4>2 DEF Active
        <5>2. task[r].address # a
          BY <1>0, <1>1, <1>2, <2>1, <4>1, <5>1 DEF OneLink, v
        <5> QED BY <2>2, <4>1, <5>1, <5>2
      <4>3. u = task'[r].link /\ u \in mailed' /\ verification'[u].for = verification[u].for
        BY <1>1, <2>5, <3>3, <4>1
      <4> HIDE DEF u
      <4> QED BY <3>3, <4>1, <4>2, <4>3 DEF Fits, Active
    <3> QED BY <1>4, <3>1, <3>2, <3>3
  <2> QED BY <2>6, <2>7, <2>8, <2>9, <2>10, <2>11, <2>12, RestPartsNext
<1> QED BY <1>5, <1>6

\* Every step keeps the invariant.
LEMMA StepInv == OnboardingInv /\ [Next]_vars => OnboardingInv'
<1> SUFFICES ASSUME OnboardingInv, [Next]_vars PROVE OnboardingInv'
  OBVIOUS
<1>0. TypeOK /\ Rest
  BY DEF OnboardingInv, Rest
<1>1. TypeOK'
  <2>1. RowsOK' /\ TasksOK'
    BY RowsStep, TasksStep DEF OnboardingInv
  <2> QED BY <2>1 DEF TypeOK, RowsOK, TasksOK, Held
<1>2. Rest'
  <2>1. CASE UNCHANGED vars
    BY <1>0, <2>1, NothingStored DEF vars, rows, Stored
  <2>2. ASSUME NEW i \in Invites, NEW t \in Requests, NEW a \in Addresses, InviteAddress(t, i, a)
        PROVE  Rest'
    <3>1. \A r \in Requests : task'[r] = task[r] \/ task'[r].at \notin {"mail", "activate"}
      BY <1>0, <2>2 DEF InviteAddress, Begin, Idle, TypeOK
    <3>2. \A j \in Invites : invite[j].status # "none" =>
              invite'[j].status # "none" /\ invite'[j].for = invite[j].for
      BY <1>0, <2>2 DEF InviteAddress, TypeOK
    <3> QED BY <1>0, <2>2, <3>1, <3>2, InviteStep DEF InviteAddress
  <2>3. ASSUME NEW i \in Invites, InviteGeneric(i) PROVE Rest'
    <3>1. \A j \in Invites : invite[j].status # "none" =>
              invite'[j].status # "none" /\ invite'[j].for = invite[j].for
      BY <1>0, <2>3 DEF InviteGeneric, TypeOK
    <3> QED BY <1>0, <2>3, <3>1, InviteStep DEF InviteGeneric
  <2>4. ASSUME NEW i \in Invites, Close(i) PROVE Rest'
    <3>1. \A j \in Invites : invite[j].status # "none" =>
              invite'[j].status # "none" /\ invite'[j].for = invite[j].for
      BY <1>0, <2>4 DEF Close, TypeOK, Invite
    <3> QED BY <1>0, <2>4, <3>1, InviteStep DEF Close
  <2>5. ASSUME NEW i \in Invites, NEW a \in Addresses, AcceptLink(i, a) PROVE Rest'
    BY <1>0, <2>5, AcceptStep DEF AcceptLink
  <2>6. ASSUME NEW t \in Requests, AcceptCarried(t) PROVE Rest'
    <3>1. task[t].invite \in Invites /\ task[t].address \in Addresses
      BY <1>0, <2>6 DEF TypeOK, AcceptCarried
    <3>2. \A r \in Requests : task'[r] = task[r] \/ task'[r].at \notin {"mail", "activate"}
      BY <1>0, <2>6, LeaveTypes DEF AcceptCarried, Idle
    <3> QED BY <1>0, <2>6, <3>1, <3>2, AcceptStep DEF AcceptCarried
  <2>7. ASSUME NEW t \in Requests, SendVerification(t) PROVE Rest'
    <3>1. \A r \in Requests : task'[r] = task[r] \/ task'[r].at \notin {"mail", "activate"}
      BY <1>0, <2>7, LeaveTypes DEF SendVerification, Idle
    <3>2. MailedIssued /\ verification[task[t].link].state # "none"
      BY <1>0, <2>7, RestParts DEF SendVerification, Fits
    <3>3. MailedIssued' /\ mailed \subseteq mailed'
      BY <2>7, <3>2 DEF SendVerification, MailedIssued, rows
    <3>4. InvitedFirst' /\ PersonalWorkspaceFirst'
      BY <1>0, <2>7, RestParts, AcceptancesKept DEF SendVerification, rows
    <3>5. SameLinks
      BY <2>7, RowsAreSameLinks DEF SendVerification
    <3> QED BY <1>0, <3>1, <3>3, <3>4, <3>5, QuietStep
  <2>8. ASSUME NEW t \in Requests, SendLink(t) PROVE Rest'
    <3>1. \A r \in Requests : task'[r] = task[r] \/ task'[r].at \notin {"mail", "activate"}
      BY <1>0, <2>8, LeaveTypes DEF SendLink, Idle
    <3> QED BY <1>0, <2>8, <3>1, InviteStep DEF SendLink
  <2>9. ASSUME NEW v \in Verifications, Cool(v) \/ Expire(v) PROVE Rest'
    <3>1. SameLinks
      <4>1. /\ \A u \in Verifications : /\ verification'[u].state = verification[u].state
                                        /\ verification'[u].for = verification[u].for
        BY <1>0, <2>9 DEF Cool, Expire, TypeOK, Verification
      <4> QED BY <2>9, <4>1 DEF Cool, Expire, SameLinks
    <3>2. UNCHANGED <<invite, accepted, mailed, task, workspaces>>
      BY <2>9 DEF Cool, Expire
    <3>3. MailedIssued'
      BY <1>0, <3>1, <3>2, RestParts DEF MailedIssued, SameLinks, TypeOK
    <3>4. InvitedFirst' /\ PersonalWorkspaceFirst'
      BY <1>0, <3>2, RestParts, AcceptancesKept
    <3> QED BY <1>0, <3>1, <3>2, <3>3, <3>4, QuietStep
  <2>10. ASSUME NEW t \in Requests, NEW a \in Addresses, Resend(t, a) PROVE Rest'
    <3>1. /\ \A r \in Requests : task'[r] = task[r] \/ task'[r].at \notin {"mail", "activate"}
          /\ UNCHANGED Stored
      BY <1>0, <2>10 DEF Resend, Begin, Idle, TypeOK, rows, Stored
    <3> QED BY <1>0, <3>1, NothingStored
  <2>11. ASSUME NEW t \in Requests, NEW a \in Addresses, NEW i \in Invites \cup {None},
                Register(t, a, i)
         PROVE  Rest'
    <3>1. /\ \A r \in Requests : task'[r] = task[r] \/ task'[r].at \notin {"mail", "activate"}
          /\ UNCHANGED Stored
      BY <1>0, <2>11 DEF Register, Begin, Idle, TypeOK, rows, Stored
    <3> QED BY <1>0, <3>1, NothingStored
  <2>12. ASSUME NEW t \in Requests, ReadTarget(t) \/ Find(t) \/ Start(t) \/ Abandon(t)
         PROVE  Rest'
    <3>1. UNCHANGED Stored
      BY <2>12 DEF ReadTarget, Find, Start, Abandon, rows, Stored
    <3>2. CASE Leave(t)
      BY <1>0, <3>1, <3>2, LeaveTypes, NothingStored DEF Idle
    <3>3. ASSUME NEW step \in {"start", "link"}, Stay(t, step) PROVE Rest'
      <4>1. /\ task'[t].at = step
            /\ \A r \in Requests : r # t => task'[r] = task[r]
        BY <1>0, <3>3 DEF Stay, TypeOK, Task
      <4> QED BY <1>0, <3>1, <4>1, NothingStored
    <3>4. ASSUME NEW v, task' = [task EXCEPT ![t].at = "start", ![t].invite = v]
          PROVE  Rest'
      <4> DEFINE k == [task[t] EXCEPT !.at = "start", !.invite = v]
      <4>1. k.at = "start"
        BY <1>0 DEF TypeOK, Task
      <4>2. task' = [task EXCEPT ![t] = k]
        BY <3>4
      <4> HIDE DEF k
      <4>3. \A r \in Requests : task'[r] = task[r] \/ task'[r].at \notin {"mail", "activate"}
        BY <1>0, <4>1, <4>2 DEF TypeOK
      <4> QED BY <1>0, <3>1, <4>3, NothingStored
    <3>5. ASSUME NEW b, task' = [task EXCEPT ![t].at = "commit", ![t].known = b]
          PROVE  Rest'
      <4> DEFINE k == [task[t] EXCEPT !.at = "commit", !.known = b]
      <4>1. k.at = "commit"
        BY <1>0 DEF TypeOK, Task
      <4>2. task' = [task EXCEPT ![t] = k]
        BY <3>5
      <4> HIDE DEF k
      <4>3. \A r \in Requests : task'[r] = task[r] \/ task'[r].at \notin {"mail", "activate"}
        BY <1>0, <4>1, <4>2 DEF TypeOK
      <4> QED BY <1>0, <3>1, <4>3, NothingStored
    <3>6. CASE ReadTarget(t)
      BY <3>3, <3>6 DEF ReadTarget
    <3>7. CASE Find(t)
      <4>1. CASE Stay(t, "start")
        BY <3>3, <4>1
      <4>2. ASSUME NEW v \in Verifications,
                   task' = [task EXCEPT ![t].at = "start", ![t].invite = verification[v].invite]
            PROVE  Rest'
        <5>1. PICK i : i = verification[v].invite
          OBVIOUS
        <5> QED BY <3>4, <4>2, <5>1
      <4> QED BY <3>7, <4>1, <4>2 DEF Find, Pending
    <3>8. CASE Start(t)
      <4>1. CASE task' = [task EXCEPT ![t].at = "commit",
                                      ![t].known = account[task[t].address] = "pending"]
        <5>1. PICK b : b = (account[task[t].address] = "pending")
          OBVIOUS
        <5> QED BY <3>5, <4>1, <5>1
      <4> QED BY <3>2, <3>3, <3>8, <4>1 DEF Start
    <3> QED BY <2>12, <3>2, <3>6, <3>7, <3>8 DEF Abandon
  <2>13. ASSUME NEW t \in Requests, NEW w \in Verifications, Commit(t, w) PROVE Rest'
    BY <1>0, <2>13, CommitStep
  <2>14. ASSUME NEW t \in Requests, NEW v \in Verifications, OpenLink(t, v) PROVE Rest'
    BY <1>0, <2>14, OpenStep
  <2>15. ASSUME NEW t \in Requests, Activate(t) PROVE Rest'
    BY <1>0, <2>15, ActivateStep
  <2> QED
    BY <2>1, <2>2, <2>3, <2>4, <2>5, <2>6, <2>7, <2>8, <2>9, <2>10, <2>11, <2>12, <2>13,
       <2>14, <2>15, Steps
<1> QED BY <1>1, <1>2 DEF OnboardingInv, Rest

\* The inductive invariant holds in every behaviour: types, links and accounts
\* in order, one link in force, whole activations, workspaces before invites.
THEOREM OnboardingSafe == Spec => []OnboardingInv
<1> QED BY InitInv, StepInv, PTL DEF Spec

\* One link at a time is in force for an address, however registrations,
\* resends and invites cross.
THEOREM OneLinkInForce == Spec => []OneLink
<1>1. OnboardingInv => OneLink
  BY DEF OnboardingInv
<1> QED BY <1>1, OnboardingSafe, PTL

\* An account is verified with a password, one workspace and one consumed
\* link, or has none of them.
THEOREM WholeActivations == Spec => []ActivatedOnce
<1>1. OnboardingInv => ActivatedOnce
  BY DEF OnboardingInv
<1> QED BY <1>1, OnboardingSafe, PTL

\* Invites admit only accounts that have their personal workspace, and only
\* those the invite is for.
THEOREM WorkspaceBeforeInvites == Spec => []PersonalWorkspaceFirst
<1>1. OnboardingInv => PersonalWorkspaceFirst
  BY DEF OnboardingInv
<1> QED BY <1>1, OnboardingSafe, PTL

-----------------------------------------------------------------------------
(* What a step may never do.                                                *)

\* Accounts and passwords change only when a link is issued or clicked.
LEMMA AccountWriters ==
  ASSUME [Next]_vars
  PROVE  \/ UNCHANGED <<account, password>>
         \/ \E t \in Requests : Activate(t) \/ \E w \in Verifications : Commit(t, w)
<1>1. CASE UNCHANGED vars
  BY <1>1 DEF vars, rows
<1>2. ASSUME NEW i \in Invites,
             \/ InviteGeneric(i) \/ Close(i)
             \/ \E a \in Addresses : AcceptLink(i, a)
             \/ \E t \in Requests, a \in Addresses : InviteAddress(t, i, a)
      PROVE  UNCHANGED <<account, password>>
  BY <1>2 DEF InviteGeneric, Close, AcceptLink, InviteAddress, rows
<1>3. ASSUME NEW t \in Requests,
             \/ \E a \in Addresses :
                  Resend(t, a) \/ \E i \in Invites \cup {None} : Register(t, a, i)
             \/ ReadTarget(t) \/ SendLink(t) \/ Find(t) \/ Start(t)
      PROVE  UNCHANGED <<account, password>>
  BY <1>3 DEF Resend, Register, ReadTarget, SendLink, Find, Start, rows
<1>4. ASSUME NEW t \in Requests,
             \/ SendVerification(t) \/ \E v \in Verifications : OpenLink(t, v)
             \/ AcceptCarried(t) \/ Abandon(t)
      PROVE  UNCHANGED <<account, password>>
  BY <1>4 DEF SendVerification, OpenLink, AcceptCarried, Abandon, rows
<1>5. ASSUME NEW v \in Verifications, Cool(v) \/ Expire(v)
      PROVE  UNCHANGED <<account, password>>
  BY <1>5 DEF Cool, Expire
<1> QED BY <1>1, <1>2, <1>3, <1>4, <1>5, Steps

\* No later registration, resend, invite or second click of the same link
\* changes the password of a verified account.
THEOREM PasswordStays == Spec => FirstPasswordStays
<1>1. OnboardingInv /\ [Next]_vars =>
        [\A a \in Addresses :
            account[a] = "verified" =>
                account'[a] = "verified" /\ password'[a] = password[a]]_vars
  <2> SUFFICES ASSUME OnboardingInv, [Next]_vars, NEW a \in Addresses,
                      account[a] = "verified"
               PROVE  account'[a] = "verified" /\ password'[a] = password[a]
    OBVIOUS
  <2>0. TypeOK /\ LinksInOrder
    BY DEF OnboardingInv
  <2>1. ASSUME NEW t \in Requests, NEW w \in Verifications, Commit(t, w)
        PROVE  account'[a] = "verified" /\ password'[a] = password[a]
    BY <2>0, <2>1 DEF Commit, TypeOK
  <2>2. ASSUME NEW t \in Requests, Activate(t)
        PROVE  account'[a] = "verified" /\ password'[a] = password[a]
    <3>1. task[t].address = verification[task[t].link].for
      BY <2>0, <2>2, LinksParts DEF Activate, Fits
    <3>2. a = task[t].address => ~Usable(task[t].link)
      BY <3>1 DEF Usable
    <3> QED BY <2>0, <2>2, <3>2 DEF Activate, TypeOK
  <2> QED BY <2>1, <2>2, AccountWriters
<1> QED BY <1>1, OnboardingSafe, PTL DEF Spec, FirstPasswordStays

\* Only the latest link issued for an address, mailed and in its 24 hours,
\* activates the account, and is consumed by it.
THEOREM OnlyLatestLink == Spec => LatestLinkActivates
<1>1. OnboardingInv /\ [Next]_vars =>
        [\A a \in Addresses :
          account'[a] = "verified" /\ account[a] # "verified" =>
              \E v \in Verifications :
                  /\ v \in mailed /\ Active(v) /\ ~verification[v].expired
                  /\ verification[v].for = a /\ verification'[v].state = "consumed"]_vars
  <2> SUFFICES ASSUME OnboardingInv, [Next]_vars, NEW a \in Addresses,
                      account'[a] = "verified", account[a] # "verified"
               PROVE  \E v \in Verifications :
                        /\ v \in mailed /\ Active(v) /\ ~verification[v].expired
                        /\ verification[v].for = a /\ verification'[v].state = "consumed"
    OBVIOUS
  <2>0. TypeOK /\ LinksInOrder
    BY DEF OnboardingInv
  <2>1. ASSUME NEW t \in Requests, NEW w \in Verifications, Commit(t, w) PROVE FALSE
    BY <2>0, <2>1 DEF Commit, TypeOK
  <2>2. PICK t \in Requests : Activate(t)
    BY <2>1, AccountWriters
  <2> DEFINE v == task[t].link
  <2>3. /\ v \in Verifications /\ v \in mailed
        /\ task[t].address = verification[v].for
    BY <2>0, <2>2, LinksParts DEF Activate, Fits, TypeOK
  <2>4. account' = [account EXCEPT ![task[t].address] = IF Usable(v) THEN "verified" ELSE @]
    BY <2>2 DEF Activate
  <2>5. task[t].address = a /\ Usable(v)
    <3> HIDE DEF v
    <3> QED BY <2>0, <2>4 DEF TypeOK
  <2>6. verification'[v].state = "consumed"
    <3>1. verification' = [verification EXCEPT ![v].state =
             IF Active(v) /\ account'[a] = "verified" THEN "consumed" ELSE @]
      BY <2>2, <2>5 DEF Activate
    <3>2. Active(v)
      BY <2>5 DEF Usable
    <3> HIDE DEF v
    <3> QED BY <2>0, <2>3, <3>1, <3>2 DEF TypeOK, Verification
  <2> QED BY <2>3, <2>5, <2>6 DEF Usable
<1> QED BY <1>1, OnboardingSafe, PTL DEF Spec, LatestLinkActivates

-----------------------------------------------------------------------------
(* Requests one after the other.                                            *)

\* What a request about to issue a link has read is still so: the account it
\* found pending is, and without an invite there was none to carry over.
Deciding == {"start", "commit"}
Inherits(t) ==
    LET a == task[t].address IN
    /\ task[t].at = "commit" /\ task[t].known => account[a] = "pending"
    /\ task[t].at \in Deciding /\ task[t].invite = None =>
          \A v \in Pending(a) : verification[v].invite = None

InTurnInv == Alone /\ \A t \in Requests : Inherits(t)

\* Nothing that links promise changed.
SamePromises ==
    /\ account' = account
    /\ \A v \in Verifications :
          /\ verification'[v].state = verification[v].state
          /\ verification'[v].for = verification[v].for
          /\ verification'[v].invite = verification[v].invite

\* A request that does nothing keeps what it read.
LEMMA InheritsStays ==
  ASSUME NEW t \in Requests, Inherits(t), SamePromises, task'[t] = task[t]
  PROVE  Inherits(t)'
  BY DEF Inherits, SamePromises, Pending, Active

\* Among requests in turn, only the one in progress moves, or one begins.
LEMMA OneMoves ==
  ASSUME TypeOK, Alone, Alone', NEW t \in Requests, NEW r \in Requests, r # t,
         task'[t] = task[t], task[t].at # "idle",
         task[r].at # "idle" \/ task'[r].at # "idle"
  PROVE  FALSE
  BY DEF Alone

\* A step that is not of a request leaves accounts and links as they are.
LEMMA Bystanders ==
  ASSUME TypeOK,
         \/ UNCHANGED vars
         \/ \E i \in Invites : \/ InviteGeneric(i) \/ Close(i)
                               \/ \E a \in Addresses : AcceptLink(i, a)
         \/ \E v \in Verifications : Cool(v) \/ Expire(v)
  PROVE  SamePromises /\ task' = task
<1>1. CASE UNCHANGED vars
  BY <1>1 DEF vars, rows, SamePromises
<1>2. ASSUME NEW i \in Invites,
             InviteGeneric(i) \/ Close(i) \/ \E a \in Addresses : AcceptLink(i, a)
      PROVE  SamePromises /\ task' = task
  BY <1>2 DEF InviteGeneric, Close, AcceptLink, rows, SamePromises
<1>3. ASSUME NEW v \in Verifications, Cool(v) \/ Expire(v)
      PROVE  SamePromises /\ task' = task
  BY <1>3 DEF TypeOK, Verification, Cool, Expire, SamePromises
<1> QED BY <1>1, <1>2, <1>3

\* The step of request r: what it starts from, and whom it leaves alone.
LEMMA Movers ==
  ASSUME TypeOK, NEW r \in Requests,
         \/ \E i \in Invites, a \in Addresses : InviteAddress(r, i, a)
         \/ \E a \in Addresses :
              Resend(r, a) \/ \E i \in Invites \cup {None} : Register(r, a, i)
         \/ ReadTarget(r) \/ SendLink(r) \/ Find(r) \/ Start(r)
         \/ \E w \in Verifications : Commit(r, w)
         \/ SendVerification(r)
         \/ \E v \in Verifications : OpenLink(r, v)
         \/ Activate(r) \/ AcceptCarried(r) \/ Abandon(r)
  PROVE  /\ \A t \in Requests : t # r => task'[t] = task[t]
         /\ task[r].at # "idle" \/ task'[r].at # "idle"
<1>1. ASSUME NEW i \in Invites, NEW a \in Addresses, InviteAddress(r, i, a)
      PROVE  /\ \A t \in Requests : t # r => task'[t] = task[t]
             /\ task'[r].at # "idle"
  BY <1>1 DEF InviteAddress, Begin, TypeOK, Idle
<1>2. ASSUME NEW a \in Addresses,
             Resend(r, a) \/ \E i \in Invites \cup {None} : Register(r, a, i)
      PROVE  /\ \A t \in Requests : t # r => task'[t] = task[t]
             /\ task'[r].at # "idle"
  <2>1. PICK i : Begin(r, IF i = None THEN "find" ELSE "start", a, i, FALSE)
    BY <1>2 DEF Resend, Register
  <2>2. PICK step \in {"find", "start"} : step = IF i = None THEN "find" ELSE "start"
    OBVIOUS
  <2> QED BY <2>1, <2>2 DEF Begin, TypeOK, Idle
<1>3. ASSUME ReadTarget(r) \/ SendLink(r) \/ Find(r) \/ Start(r)
      PROVE  /\ \A t \in Requests : t # r => task'[t] = task[t]
             /\ task[r].at # "idle"
  BY <1>3 DEF ReadTarget, SendLink, Find, Start, Stay, Leave, TypeOK
<1>4. ASSUME \/ \E w \in Verifications : Commit(r, w)
             \/ SendVerification(r) \/ Activate(r) \/ AcceptCarried(r) \/ Abandon(r)
      PROVE  /\ \A t \in Requests : t # r => task'[t] = task[t]
             /\ task[r].at # "idle"
  BY <1>4 DEF Commit, SendVerification, Activate, AcceptCarried, Abandon, Stay, Leave, TypeOK
<1>5. ASSUME NEW v \in Verifications, OpenLink(r, v)
      PROVE  /\ \A t \in Requests : t # r => task'[t] = task[t]
             /\ task'[r].at # "idle"
  BY <1>5 DEF OpenLink, TypeOK, Idle
<1> QED BY <1>1, <1>2, <1>3, <1>4, <1>5

\* A request that is not about to issue a link promises nothing.
LEMMA NothingDecided ==
  ASSUME NEW t \in Requests, task'[t].at \notin Deciding
  PROVE  Inherits(t)'
  BY DEF Inherits, Deciding

\* An invite that a request carries is one.
LEMMA CarriesInvite ==
  ASSUME NEW t \in Requests, task'[t].at # "commit", task'[t].invite # None
  PROVE  Inherits(t)'
  BY DEF Inherits

\* The step of a request about to issue a link.
LEMMA InheritsStep ==
  ASSUME OnboardingInv, NEW t \in Requests, Inherits(t),
         \/ \E i \in Invites, a \in Addresses : InviteAddress(t, i, a)
         \/ \E a \in Addresses :
              Resend(t, a) \/ \E i \in Invites \cup {None} : Register(t, a, i)
         \/ ReadTarget(t) \/ SendLink(t) \/ Find(t) \/ Start(t)
         \/ \E w \in Verifications : Commit(t, w)
         \/ SendVerification(t)
         \/ \E v \in Verifications : OpenLink(t, v)
         \/ Activate(t) \/ AcceptCarried(t) \/ Abandon(t)
  PROVE  Inherits(t)'
<1>0. TypeOK /\ OneLink
  BY DEF OnboardingInv
<1>1. ASSUME Leave(t) PROVE Inherits(t)'
  BY <1>0, <1>1, LeaveTypes, NothingDecided DEF Idle, Deciding
<1>2. ASSUME NEW step \in {"link", "accept"}, Stay(t, step) PROVE Inherits(t)'
  <2>1. task'[t].at = step
    BY <1>0, <1>2 DEF Stay, TypeOK, Task
  <2> QED BY <2>1, NothingDecided DEF Deciding
<1>3. ASSUME NEW i \in Invites, NEW a \in Addresses, InviteAddress(t, i, a)
      PROVE  Inherits(t)'
  BY <1>0, <1>3, NothingDecided DEF InviteAddress, Begin, Idle, TypeOK, Deciding
<1>4. ASSUME NEW a \in Addresses, NEW i, Begin(t, IF i = None THEN "find" ELSE "start", a, i, FALSE)
      PROVE  Inherits(t)'
  <2>1. /\ task'[t].at = IF i = None THEN "find" ELSE "start"
        /\ task'[t].invite = i
    BY <1>0, <1>4 DEF Begin, Idle, TypeOK
  <2> QED BY <2>1, NothingDecided, CarriesInvite DEF Deciding
<1>5. ASSUME NEW a \in Addresses, Resend(t, a) PROVE Inherits(t)'
  <2>1. PICK i : Begin(t, IF i = None THEN "find" ELSE "start", a, i, FALSE)
    BY <1>5 DEF Resend
  <2> QED BY <1>4, <2>1
<1>6. ASSUME NEW a \in Addresses, NEW i \in Invites \cup {None}, Register(t, a, i)
      PROVE  Inherits(t)'
  BY <1>4, <1>6 DEF Register
<1>7. ASSUME ReadTarget(t) PROVE Inherits(t)'
  <2>1. task[t].invite # None
    BY <1>0, <1>7, OnboardingAssumption DEF ReadTarget, TypeOK
  <2>2. task'[t].at \in {"link", "start"} /\ task'[t].invite = task[t].invite
    BY <1>0, <1>7 DEF ReadTarget, Stay, TypeOK, Task
  <2> QED BY <2>1, <2>2, CarriesInvite
<1>8. ASSUME Find(t) PROVE Inherits(t)'
  <2> DEFINE a == task[t].address
  <2>1. UNCHANGED rows /\ task[t].at = "find" /\ a \in Addresses
    BY <1>0, <1>8 DEF Find, TypeOK
  <2>2. Pending(a)' = Pending(a) \/ task'[t].address # a
    BY <2>1 DEF Pending, Active, rows
  <2>3. CASE Pending(a) = {} /\ Stay(t, "start")
    <3>1. task'[t].at = "start" /\ task'[t].address = a
      BY <1>0, <2>3 DEF Stay, TypeOK, Task
    <3>2. \A v \in Verifications :
             ~(Active(v)' /\ verification'[v].for = a /\ account'[a] = "pending")
      BY <2>1, <2>3 DEF Pending, Active, rows
    <3> QED BY <3>1, <3>2 DEF Inherits, Pending
  <2>4. ASSUME NEW v \in Pending(a),
               task' = [task EXCEPT ![t].at = "start", ![t].invite = verification[v].invite]
        PROVE  Inherits(t)'
    <3>1. PICK i : i = verification[v].invite
      OBVIOUS
    <3>2. task' = [task EXCEPT ![t].at = "start", ![t].invite = i]
      BY <2>4, <3>1
    <3>3. task'[t].at = "start" /\ task'[t].address = a /\ task'[t].invite = i
      BY <1>0, <3>2 DEF TypeOK, Task
    <3>4. ASSUME NEW u \in Verifications, Active(u), verification[u].for = a PROVE u = v
      BY <1>0, <3>4 DEF OneLink, Pending
    <3>5. ASSUME i = None, NEW u \in Verifications, Active(u)', verification'[u].for = a
          PROVE  verification'[u].invite = None
      BY <2>1, <3>1, <3>4, <3>5 DEF Active, rows
    <3> QED BY <3>3, <3>5 DEF Inherits, Pending
  <2> QED BY <1>8, <2>3, <2>4 DEF Find
<1>9. ASSUME Start(t) PROVE Inherits(t)'
  <2> DEFINE a == task[t].address
  <2>1. UNCHANGED rows /\ task[t].at = "start"
    BY <1>9 DEF Start
  <2>2. CASE Stay(t, "link")
    BY <1>0, <1>2, <2>2
  <2>3. CASE task' = [task EXCEPT ![t].at = "commit", ![t].known = account[a] = "pending"]
    <3>1. PICK b \in BOOLEAN : b = (account[a] = "pending")
      OBVIOUS
    <3>2. task' = [task EXCEPT ![t].at = "commit", ![t].known = b]
      BY <2>3, <3>1
    <3>3. /\ task'[t].at = "commit" /\ task'[t].address = a
          /\ task'[t].invite = task[t].invite /\ task'[t].known = b
      BY <1>0, <3>2 DEF TypeOK, Task
    <3>4. ASSUME task[t].invite = None, NEW u \in Verifications, Active(u)',
                 verification'[u].for = a, account'[a] = "pending"
          PROVE  verification'[u].invite = None
      BY <2>1, <3>4 DEF Inherits, Deciding, Pending, Active, rows
    <3>5. b => account'[a] = "pending"
      BY <2>1, <3>1 DEF rows
    <3> QED BY <3>3, <3>4, <3>5 DEF Inherits, Pending
  <2> QED BY <1>1, <1>9, <2>2, <2>3 DEF Start
<1>10. ASSUME NEW w \in Verifications, Commit(t, w) PROVE Inherits(t)'
  <2>1. CASE task' = [task EXCEPT ![t].at = "mail", ![t].link = w]
    BY <1>0, <2>1, NothingDecided DEF TypeOK, Task, Deciding
  <2> QED BY <1>1, <1>10, <2>1 DEF Commit
<1>11. ASSUME NEW v \in Verifications, OpenLink(t, v) PROVE Inherits(t)'
  BY <1>0, <1>11, NothingDecided DEF OpenLink, TypeOK, Idle, Deciding
<1>12. ASSUME Activate(t) PROVE Inherits(t)'
  <2>1. CASE Stay(t, "accept")
    BY <1>0, <1>2, <2>1
  <2> QED BY <1>1, <1>12, <2>1 DEF Activate
<1> QED
  BY <1>1, <1>3, <1>5, <1>6, <1>7, <1>8, <1>9, <1>10, <1>11, <1>12
     DEF SendLink, SendVerification, AcceptCarried, Abandon

\* Taking turns, every request inherits what was promised.
LEMMA InTurnStep ==
  OnboardingInv /\ InTurnInv /\ [Next /\ Alone']_vars => InTurnInv'
<1> SUFFICES ASSUME OnboardingInv, InTurnInv, [Next /\ Alone']_vars PROVE InTurnInv'
  OBVIOUS
<1>1. Alone'
  BY DEF InTurnInv, Alone, vars
<1> SUFFICES ASSUME NEW t \in Requests PROVE Inherits(t)'
  BY <1>1 DEF InTurnInv
<1>0. TypeOK /\ Alone /\ Inherits(t) /\ [Next]_vars
  BY DEF OnboardingInv, InTurnInv
<1>2. ASSUME \/ UNCHANGED vars
             \/ \E i \in Invites : \/ InviteGeneric(i) \/ Close(i)
                                   \/ \E a \in Addresses : AcceptLink(i, a)
             \/ \E v \in Verifications : Cool(v) \/ Expire(v)
      PROVE  Inherits(t)'
  BY <1>0, <1>2, Bystanders, InheritsStays
<1>3. ASSUME NEW r \in Requests,
             \/ \E i \in Invites, a \in Addresses : InviteAddress(r, i, a)
             \/ \E a \in Addresses :
                  Resend(r, a) \/ \E i \in Invites \cup {None} : Register(r, a, i)
             \/ ReadTarget(r) \/ SendLink(r) \/ Find(r) \/ Start(r)
             \/ \E w \in Verifications : Commit(r, w)
             \/ SendVerification(r)
             \/ \E v \in Verifications : OpenLink(r, v)
             \/ Activate(r) \/ AcceptCarried(r) \/ Abandon(r)
      PROVE  Inherits(t)'
  <2>1. CASE r = t
    BY <1>0, <1>3, <2>1, InheritsStep
  <2>2. CASE r # t
    <3>1. /\ task'[t] = task[t]
          /\ task[r].at # "idle" \/ task'[r].at # "idle"
      BY <1>0, <1>3, <2>2, Movers
    <3>2. task[t].at = "idle"
      BY <1>0, <1>1, <2>2, <3>1, OneMoves
    <3> QED BY <3>1, <3>2, NothingDecided DEF Deciding
  <2> QED BY <2>1, <2>2
<1> QED BY <1>0, <1>2, <1>3, Steps

\* A commit among requests in turn carries on the invite of the link it
\* supersedes.
LEMMA CommitInherits ==
  ASSUME OnboardingInv, NEW t \in Requests, Inherits(t), NEW x \in Verifications, Commit(t, x),
         NEW v \in Verifications, NEW w \in Verifications,
         verification[v].state = "active", verification'[v].state = "superseded",
         verification[w].state = "none", verification'[w].state = "active",
         verification[v].invite # None
  PROVE  verification'[w].invite # None
<1> DEFINE a == task[t].address
<1>0. /\ TypeOK /\ verification \in [Verifications -> Verification]
      /\ verification[v].for \in Addresses /\ account[verification[v].for] # "none"
  BY DEF OnboardingInv, TypeOK, LinksInOrder
<1>1. /\ task[t].at = "commit"
      /\ task[t].known \/ account[a] = "none"
      /\ verification' = Issued(a, x, task[t].invite)
  BY <1>0 DEF Commit
<1>2. w = x /\ verification'[w].invite = task[t].invite
  BY <1>0, <1>1 DEF Issued, Active, Verification
<1>3. verification[v].for = a
  BY <1>0, <1>1 DEF Issued
<1>4. v \in Pending(a)
  BY <1>0, <1>1, <1>3 DEF Inherits, Pending, Active
<1> QED BY <1>1, <1>2, <1>4 DEF Inherits, Deciding

\* Links are superseded only by the one a request commits.
LEMMA LinkIssuers ==
  ASSUME OnboardingInv, [Next]_vars,
         NEW w \in Verifications, verification[w].state = "none", verification'[w].state = "active"
  PROVE  \E t \in Requests, x \in Verifications : Commit(t, x)
<1>0. TypeOK
  BY DEF OnboardingInv
<1>1. ~UNCHANGED rows
  BY DEF rows
<1>2. ASSUME \/ UNCHANGED vars
             \/ \E v \in Verifications : Cool(v) \/ Expire(v)
      PROVE  FALSE
  BY <1>0, <1>2, Bystanders DEF SamePromises
<1>3. ASSUME NEW t \in Requests, Activate(t) PROVE FALSE
  BY <1>0, <1>3 DEF Activate, Active, TypeOK, Verification
<1>4. ASSUME NEW i \in Invites,
             \/ InviteGeneric(i) \/ Close(i)
             \/ \E a \in Addresses : AcceptLink(i, a)
             \/ \E t \in Requests, a \in Addresses : InviteAddress(t, i, a)
      PROVE  FALSE
  BY <1>1, <1>4 DEF InviteGeneric, Close, AcceptLink, InviteAddress
<1>5. ASSUME NEW t \in Requests,
             \/ \E a \in Addresses :
                  Resend(t, a) \/ \E i \in Invites \cup {None} : Register(t, a, i)
             \/ ReadTarget(t) \/ SendLink(t) \/ Find(t) \/ Start(t)
      PROVE  FALSE
  BY <1>1, <1>5 DEF Resend, Register, ReadTarget, SendLink, Find, Start
<1>6. ASSUME NEW t \in Requests,
             \/ SendVerification(t) \/ \E v \in Verifications : OpenLink(t, v)
             \/ AcceptCarried(t) \/ Abandon(t)
      PROVE  FALSE
  BY <1>1, <1>6 DEF SendVerification, OpenLink, AcceptCarried, Abandon
<1> QED BY <1>2, <1>3, <1>4, <1>5, <1>6, Steps

\* Such a step, in those states, keeps inviting.
LEMMA StepInvites == OnboardingInv /\ InTurnInv /\ [Next]_vars => [KeepsInviting]_vars
<1> SUFFICES ASSUME OnboardingInv, InTurnInv, [Next]_vars,
                    NEW v \in Verifications, NEW w \in Verifications,
                    verification[v].state = "active", verification'[v].state = "superseded",
                    verification[w].state = "none", verification'[w].state = "active",
                    verification[v].invite # None
             PROVE  verification'[w].invite # None
  BY DEF KeepsInviting
<1>1. PICK t \in Requests, x \in Verifications : Commit(t, x)
  BY LinkIssuers
<1>2. Inherits(t)
  BY DEF InTurnInv
<1> QED BY <1>1, <1>2, CommitInherits

LEMMA InTurnInit == Init => InTurnInv
  BY DEF Init, InTurnInv, Alone, Inherits, Deciding, Idle

\* Handled one after the other, requests keep inviting whom a link invited:
\* begin hands a pending verification's invite on to the next.
THEOREM InvitesAreKept == InTurnSpec => [][KeepsInviting]_vars
<1>1. OnboardingInv /\ [Next /\ Alone']_vars => OnboardingInv'
  BY StepInv
<1>2. InTurnSpec => [](OnboardingInv /\ InTurnInv)
  BY <1>1, InitInv, InTurnInit, InTurnStep, PTL DEF InTurnSpec
<1>3. OnboardingInv /\ InTurnInv /\ [Next /\ Alone']_vars => [KeepsInviting]_vars
  BY StepInvites
<1> QED BY <1>2, <1>3, PTL DEF InTurnSpec

\* So they do in the instances that are checked, when these choose turns.
THEOREM TurnsKeepInviting == AllSpec => LinksKeepInviting
<1> DEFINE Kept == OnboardingInv /\ (InTurn => InTurnInv)
<1>1. AllInit => Kept
  BY InitInv, InTurnInit DEF AllInit
<1>2. Kept /\ [AllNext]_<<vars, people>> => Kept'
  <2> SUFFICES ASSUME Kept, [AllNext]_<<vars, people>> PROVE Kept'
    OBVIOUS
  <2>1. [Next]_vars /\ people' = people /\ (InTurn => [Next /\ Alone']_vars)
    BY DEF AllNext
  <2>2. OnboardingInv'
    BY <2>1, StepInv
  <2>3. InTurn' = InTurn
    BY <2>1 DEF InTurn
  <2>4. InTurn => InTurnInv'
    BY <2>1, InTurnStep
  <2> QED BY <2>2, <2>3, <2>4
<1>3. Kept /\ [AllNext]_<<vars, people>> => [InTurn => KeepsInviting]_vars
  <2> SUFFICES ASSUME Kept, [AllNext]_<<vars, people>>, InTurn PROVE [KeepsInviting]_vars
    OBVIOUS
  <2>1. [Next]_vars
    BY DEF AllNext
  <2> QED BY <2>1, StepInvites
<1> QED BY <1>1, <1>2, <1>3, PTL DEF AllSpec, LinksKeepInviting
==============================================================================
