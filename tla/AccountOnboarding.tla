-------------------------- MODULE AccountOnboarding --------------------------
(***************************************************************************)
(* From an address to an account: registration, the verification e-mail    *)
(* and its resends, invites to addresses with or without an account, and   *)
(* the click that sets the password, creates the personal workspace and    *)
(* accepts the invite (account-verification.ts and its repository,         *)
(* auth-controller.ts, invite-flow.ts).  Each request is a chain of awaited *)
(* reads and transactions, and people repeat them: the same link opened    *)
(* twice, a resend beside an invite, an old message after a new one.       *)
(*                                                                         *)
(* An account is named by its canonical address.  Each invite is to a      *)
(* resource of its own; what accepting one does there is AccessInvites.    *)
(***************************************************************************)
EXTENDS Integers, FiniteSets

CONSTANTS
    Addresses,      \* canonical e-mail addresses
    Verifications,  \* rows account_verifications may come to hold
    Invites,        \* rows access_invites may come to hold
    Requests,       \* requests in progress at the same time
    Faults,         \* whether statements and messages may fail
    None, Anyone    \* no invite, nothing; an invite without a recipient

ASSUME OnboardingAssumption ==
    /\ Faults \in BOOLEAN
    /\ Anyone \notin Addresses
    /\ None \notin Invites \cup Verifications \cup Requests \cup Addresses

VARIABLES
    account,        \* users: no row, a pending one or a verified one
    password,       \* users.password_hash: the request that wrote it
    workspaces,     \* personal workspaces created, by account
    verification,   \* account_verifications
    invite,         \* access_invites
    accepted,       \* access_invite_acceptances
    mailed,         \* verifications whose link was sent by e-mail
    linked,         \* invites whose link was sent by e-mail or copied
    task            \* by request: where it is and what it holds

rows    == <<account, password, workspaces, verification>>
vars    == <<rows, invite, accepted, mailed, linked, task>>

Verification ==
    [state : {"none", "active", "superseded", "consumed"},
     for : Addresses \cup {None}, invite : Invites \cup {None},
     warm : BOOLEAN, expired : BOOLEAN]

Unissued == [state |-> "none", for |-> None, invite |-> None,
             warm |-> FALSE, expired |-> FALSE]

Invite == [status : {"none", "pending", "accepted", "closed"},
           for : Addresses \cup {Anyone}]

Task == [at : {"idle", "target", "find", "start", "commit", "mail", "link",
               "activate", "accept"},
         address : Addresses \cup {None}, invite : Invites \cup {None},
         invited : BOOLEAN, known : BOOLEAN,
         link : Verifications \cup {None}]

Idle == [at |-> "idle", address |-> None, invite |-> None,
         invited |-> FALSE, known |-> FALSE, link |-> None]

Init ==
    /\ account = [a \in Addresses |-> "none"]
    /\ password = [a \in Addresses |-> None]
    /\ workspaces = [a \in Addresses |-> 0]
    /\ verification = [v \in Verifications |-> Unissued]
    /\ invite = [i \in Invites |-> [status |-> "none", for |-> Anyone]]
    /\ accepted = {}
    /\ mailed = {} /\ linked = {}
    /\ task = [t \in Requests |-> Idle]

Stay(t, step) == task' = [task EXCEPT ![t].at = step]
Leave(t)      == task' = [task EXCEPT ![t] = Idle]

\* A request for address a starts at a step, with the invite it carries.
Begin(t, step, a, i, invited) ==
    /\ task[t].at = "idle"
    /\ task' = [task EXCEPT ![t] = [Idle EXCEPT !.at = step, !.address = a,
                                       !.invite = i, !.invited = invited]]

Active(v) == verification[v].state = "active"

-----------------------------------------------------------------------------
(* Invites (sendInvite).                                                    *)

\* An individual invite is created before the recipient's account is read.
InviteAddress(t, i, a) ==
    /\ invite[i].status = "none"
    /\ invite' = [invite EXCEPT ![i] = [status |-> "pending", for |-> a]]
    /\ Begin(t, "target", a, i, TRUE)
    /\ UNCHANGED <<rows, accepted, mailed, linked>>

\* A generic invite is only a link, returned to its author.
InviteGeneric(i) ==
    /\ invite[i].status = "none"
    /\ invite' = [invite EXCEPT ![i] = [status |-> "pending", for |-> Anyone]]
    /\ linked' = linked \cup {i}
    /\ UNCHANGED <<rows, accepted, mailed, task>>

\* exactEmail: an address without a verified account is sent a verification.
ReadTarget(t) ==
    /\ task[t].at = "target"
    /\ Stay(t, IF account[task[t].address] = "verified" THEN "link" ELSE "start")
    /\ UNCHANGED <<rows, invite, accepted, mailed, linked>>

\* The e-mail with the invite's own link.
SendLink(t) ==
    /\ task[t].at = "link"
    /\ linked' = linked \cup {task[t].invite}
    /\ Leave(t)
    /\ UNCHANGED <<rows, invite, accepted, mailed>>

\* It expires, is removed, or is full: AccessInvites has the ways.
Close(i) ==
    /\ invite[i].status = "pending"
    /\ invite' = [invite EXCEPT ![i].status = "closed"]
    /\ UNCHANGED <<rows, accepted, mailed, linked, task>>

\* acceptById.  An individual invite is accepted once, by its recipient.
Accepts(i, a) ==
    IF /\ invite[i].status = "pending" /\ invite[i].for \in {a, Anyone}
       /\ account[a] = "verified"
    THEN /\ accepted' = accepted \cup {<<i, a>>}
         /\ invite' = IF invite[i].for = a
                      THEN [invite EXCEPT ![i].status = "accepted"] ELSE invite
    ELSE UNCHANGED <<accepted, invite>>

\* The owner of a verified account opens the link of an invite.
AcceptLink(i, a) ==
    /\ i \in linked /\ account[a] = "verified"
    /\ Accepts(i, a)
    /\ UNCHANGED <<rows, mailed, linked, task>>

-----------------------------------------------------------------------------
(* Registration and resends: begin and start.                               *)

\* register: with the link of an invite that fits, or with none.
Register(t, a, i) ==
    /\ account[a] # "verified"
    /\ i # None => /\ i \in linked /\ invite[i].status = "pending"
                   /\ invite[i].for \in {a, Anyone}
    /\ Begin(t, IF i = None THEN "find" ELSE "start", a, i, FALSE)
    /\ UNCHANGED <<rows, invite, accepted, mailed, linked>>

\* findPendingByEmail: the verification in force for an address.
Pending(a) ==
    {v \in Verifications : Active(v) /\ verification[v].for = a
                           /\ account[a] = "pending"}

\* resend: nothing pending answers as if a message had been sent.
Resend(t, a) ==
    \E v \in Pending(a) :
        LET i == verification[v].invite IN
        /\ Begin(t, IF i = None THEN "find" ELSE "start", a, i, FALSE)
        /\ UNCHANGED <<rows, invite, accepted, mailed, linked>>

FindForgetful(t) ==                                                 \* mutant
    /\ task[t].at = "find"
    /\ Stay(t, "start")
    /\ UNCHANGED <<rows, invite, accepted, mailed, linked>>

\* begin without an invite keeps the one the address was sent before.
Find(t) ==
    /\ task[t].at = "find"
    /\ IF Pending(task[t].address) = {} THEN Stay(t, "start")
       ELSE \E v \in Pending(task[t].address) :
              task' = [task EXCEPT ![t].at = "start",
                                   ![t].invite = verification[v].invite]
    /\ UNCHANGED <<rows, invite, accepted, mailed, linked>>

\* start reads the account and the last message; an invite has no cooldown.
Start(t) ==
    LET a == task[t].address IN
    /\ task[t].at = "start"
    /\ IF account[a] = "verified"
       THEN IF task[t].invited THEN Stay(t, "link") ELSE Leave(t)
       ELSE IF /\ account[a] = "pending" /\ ~task[t].invited
               /\ \E v \in Verifications : Active(v) /\ verification[v].for = a
                                           /\ verification[v].warm
            THEN Leave(t)
            ELSE task' = [task EXCEPT ![t].at = "commit",
                                      ![t].known = account[a] = "pending"]
    /\ UNCHANGED <<rows, invite, accepted, mailed, linked>>

\* The row w inserted, and the rows in force before it.
IssuedBeside(a, w, i) ==                                            \* mutant
    [v \in Verifications |->
        IF v = w THEN [state |-> "active", for |-> a, invite |-> i,
                       warm |-> TRUE, expired |-> FALSE]
        ELSE verification[v]]
Issued(a, w, i) ==
    [v \in Verifications |->
        IF v = w THEN [state |-> "active", for |-> a, invite |-> i,
                       warm |-> TRUE, expired |-> FALSE]
        ELSE IF Active(v) /\ verification[v].for = a
             THEN [verification[v] EXCEPT !.state = "superseded"]
             ELSE verification[v]]

\* start's transaction, which reads nothing again.  A row for an address that
\* another request has registered since breaks the unique address: nothing is
\* written.
Commit(t, w) ==
    LET a == task[t].address IN
    /\ task[t].at = "commit"
    /\ verification[w].state = "none"
    /\ IF task[t].known \/ account[a] = "none"
       THEN /\ account' = [account EXCEPT ![a] = IF @ = "none" THEN "pending" ELSE @]
            /\ verification' = Issued(a, w, task[t].invite)
            /\ task' = [task EXCEPT ![t].at = "mail", ![t].link = w]
       ELSE UNCHANGED <<account, verification>> /\ Leave(t)
    /\ UNCHANGED <<password, workspaces, invite, accepted, mailed, linked>>

SendVerification(t) ==
    /\ task[t].at = "mail"
    /\ mailed' = mailed \cup {task[t].link}
    /\ Leave(t)
    /\ UNCHANGED <<rows, invite, accepted, linked>>

\* 60 seconds, and 24 hours, after the message.
Cool(v) ==
    /\ Active(v) /\ verification[v].warm
    /\ verification' = [verification EXCEPT ![v].warm = FALSE]
    /\ UNCHANGED <<account, password, workspaces, invite, accepted, mailed,
                   linked, task>>
Expire(v) ==
    /\ Active(v) /\ ~verification[v].warm /\ ~verification[v].expired
    /\ verification' = [verification EXCEPT ![v].expired = TRUE]
    /\ UNCHANGED <<account, password, workspaces, invite, accepted, mailed,
                   linked, task>>

-----------------------------------------------------------------------------
(* The click: complete.                                                     *)

\* What preview asks of a link, and canComplete again in the transaction.
UsableBySuperseded(v) ==                                            \* mutant
    /\ ~verification[v].expired
    /\ account[verification[v].for] = "pending"
UsableAsPreviewed(v) == ~verification[v].expired                    \* mutant
Usable(v) ==
    /\ Active(v) /\ ~verification[v].expired
    /\ account[verification[v].for] = "pending"

\* preview, then the password is hashed.
OpenLink(t, v) ==
    /\ v \in mailed /\ Usable(v)
    /\ task[t].at = "idle"
    /\ task' = [task EXCEPT ![t] =
          [Idle EXCEPT !.at = "activate", !.link = v,
             !.address = verification[v].for, !.invite = verification[v].invite]]
    /\ UNCHANGED <<rows, invite, accepted, mailed, linked>>

\* The transaction, one statement after another: the account, if the link
\* still serves; the workspace, if the account is verified and has none; and
\* the row in force is consumed if both exist.  A request whose row was
\* consumed, by itself or by another with the same link, goes on.
Activate(t) ==
    LET v == task[t].link  a == task[t].address  now == Usable(v) IN
    /\ task[t].at = "activate"
    /\ account' = [account EXCEPT ![a] = IF now THEN "verified" ELSE @]
    /\ password' = [password EXCEPT ![a] = IF now THEN t ELSE @]
    /\ workspaces' = [workspaces EXCEPT
                        ![a] = IF account'[a] = "verified" /\ @ = 0 THEN 1 ELSE @]
    /\ verification' = [verification EXCEPT
          ![v].state = IF Active(v) /\ account'[a] = "verified" THEN "consumed" ELSE @]
    /\ IF verification'[v].state = "consumed" /\ task[t].invite # None
       THEN Stay(t, "accept") ELSE Leave(t)
    /\ UNCHANGED <<invite, accepted, mailed, linked>>

\* acceptById with the invite the verification carried.
AcceptCarried(t) ==
    /\ task[t].at = "accept"
    /\ Accepts(task[t].invite, task[t].address)
    /\ Leave(t)
    /\ UNCHANGED <<rows, mailed, linked>>

\* A statement or the mail server failed, or the process stopped.
Abandon(t) ==
    /\ Faults
    /\ task[t].at # "idle"
    /\ Leave(t)
    /\ UNCHANGED <<rows, invite, accepted, mailed, linked>>

-----------------------------------------------------------------------------
Inviting ==
    \E i \in Invites :
        \/ InviteGeneric(i) \/ (Faults /\ Close(i))
        \/ \E a \in Addresses : AcceptLink(i, a)
        \/ \E t \in Requests, a \in Addresses : InviteAddress(t, i, a)

Registering(t) ==
    \/ \E a \in Addresses : Resend(t, a) \/ \E i \in Invites \cup {None} : Register(t, a, i)
    \/ ReadTarget(t) \/ SendLink(t) \/ Find(t) \/ Start(t)
    \/ \E w \in Verifications : Commit(t, w)
    \/ SendVerification(t)

Completing(t) ==
    \/ \E v \in Verifications : OpenLink(t, v)
    \/ Activate(t) \/ AcceptCarried(t)

Next ==
    \/ Inviting
    \/ \E t \in Requests : Registering(t) \/ Completing(t) \/ Abandon(t)
    \/ \E v \in Verifications : Cool(v) \/ Expire(v)

Spec == Init /\ [][Next]_vars

\* Requests that are handled one after the other.
Alone == \A t, u \in Requests : task[t].at # "idle" /\ task[u].at # "idle" => t = u

InTurnSpec == Init /\ [][Next /\ Alone']_vars

-----------------------------------------------------------------------------
(* Properties.                                                              *)

\* Rows and requests have the types of their columns and locals, and a
\* request holds what its step needs.
TypeOK ==
    /\ account \in [Addresses -> {"none", "pending", "verified"}]
    /\ password \in [Addresses -> Requests \cup {None}]
    /\ workspaces \in [Addresses -> Nat]
    /\ verification \in [Verifications -> Verification]
    /\ invite \in [Invites -> Invite]
    /\ accepted \subseteq Invites \X Addresses
    /\ mailed \subseteq Verifications /\ linked \subseteq Invites
    /\ task \in [Requests -> Task]
    /\ \A t \in Requests :
          /\ task[t].at # "idle" => task[t].address \in Addresses
          /\ task[t].at \in {"target", "link", "accept"} => task[t].invite \in Invites
          /\ task[t].invited => task[t].invite \in Invites /\ task[t].at # "find"
          /\ task[t].at \in {"mail", "activate"} => task[t].link \in Verifications

\* One link at a time is in force for an address, whatever requests, resends
\* and invites cross each other: a new message invalidates the one before.
OneLink ==
    \A v, w \in Verifications :
        /\ Active(v) /\ Active(w)
        /\ verification[v].for = verification[w].for
        => v = w

\* Activation happens as a whole and once: an account is verified exactly when
\* it has a password, one personal workspace and one consumed link.
Consumed(a) == {v \in Verifications : verification[v].state = "consumed"
                                      /\ verification[v].for = a}
ActivatedOnce ==
    \A a \in Addresses :
        IF account[a] = "verified"
        THEN /\ password[a] # None /\ workspaces[a] = 1
             /\ \E v \in Consumed(a) : Consumed(a) = {v}
        ELSE password[a] = None /\ workspaces[a] = 0 /\ Consumed(a) = {}

\* Nobody is admitted anywhere by an invite before the personal workspace
\* exists, and never by an invite addressed to somebody else.
PersonalWorkspaceFirst ==
    \A i \in Invites, a \in Addresses :
        <<i, a>> \in accepted =>
            workspaces[a] = 1 /\ invite[i].for \in {a, Anyone}

\* What the transactions rely on: links belong to registered addresses, only
\* messages open requests, and a request whose link is still in force has the
\* account it read as pending.
LinksInOrder ==
    /\ \A v \in Verifications :
          verification[v].state # "none" =>
              /\ verification[v].for \in Addresses
              /\ account[verification[v].for] # "none"
    /\ \A v \in mailed : verification[v].state # "none"
    /\ \A t \in Requests :
          task[t].at = "mail" => verification[task[t].link].state # "none"
    /\ \A t \in Requests :
          task[t].at = "activate" =>
              /\ task[t].link \in mailed
              /\ task[t].address = verification[task[t].link].for
              /\ Active(task[t].link) => account[task[t].address] = "pending"
    /\ \A i \in Invites, a \in Addresses :
          <<i, a>> \in accepted => invite[i].status # "none"

\* The inductive invariant.
OnboardingInv ==
    TypeOK /\ LinksInOrder /\ OneLink /\ ActivatedOnce /\ PersonalWorkspaceFirst

\* The account is activated by the latest link issued for its address, in its
\* 24 hours; no older message does it.
LatestLinkActivates ==
    [][\A a \in Addresses :
          account'[a] = "verified" /\ account[a] # "verified" =>
              \E v \in Verifications :
                  /\ v \in mailed /\ Active(v) /\ ~verification[v].expired
                  /\ verification[v].for = a /\ verification'[v].state = "consumed"]_vars

\* Once an account is verified, no registration, resend, invite or second use
\* of the link that activated it changes its password.
FirstPasswordStays ==
    [][\A a \in Addresses :
          account[a] = "verified" =>
              account'[a] = "verified" /\ password'[a] = password[a]]_vars

\* A new link for an address that was invited carries an invite too, also when
\* a message, a transaction or the process failed in between: what begin and
\* resend do for requests that are handled one after the other.
KeepsInviting ==
    \A v, w \in Verifications :
        /\ verification[v].state = "active" /\ verification'[v].state = "superseded"
        /\ verification[w].state = "none" /\ verification'[w].state = "active"
        => (verification[v].invite # None => verification'[w].invite # None)

\* What the documentation says of invites to addresses without an account:
\* the click that verifies the e-mail accepts them, so that an account whose
\* requests are over has no pending invite it was never sent the link of.
InvitesComeWithTheAccount ==
    \A i \in Invites :
        /\ invite[i].status = "pending" /\ invite[i].for # Anyone
        /\ account[invite[i].for] = "verified"
        /\ \A t \in Requests : task[t].at = "idle"
        => i \in linked
==============================================================================
