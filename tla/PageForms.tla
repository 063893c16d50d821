------------------------------ MODULE PageForms ------------------------------
(***************************************************************************)
(* The form of one view of one database: its publication, the locks of the *)
(* columns it fills, and the submissions (form-service.ts,                 *)
(* form-repository.ts, column-lock-repository.ts and the part of the flows *)
(* that runs with a submission).                                           *)
(*                                                                         *)
(* A call reads the publication, an earlier submission with its key, the   *)
(* locks and the rights of its flow in statements of their own, and writes *)
(* the response, the effects of the flow and the ledger row in one         *)
(* transaction.  Payloads are told apart by their hash and by the columns  *)
(* they answer; the value of a cell is who wrote it.  No call has to go on: *)
(* a process that stops leaves it where it is.                             *)
(***************************************************************************)
EXTENDS Integers, FiniteSets

CONSTANTS
    People,         \* users who may edit the database
    Visitor,        \* whoever fills a published form without an account
    Calls,          \* HTTP requests that submit, each once
    Keys,           \* clientRequestId
    Payloads,
    Fields,         \* columns a form may answer
    Answers,        \* by payload: the columns it answers
    FlowWrites,     \* the columns the flow sets
    MaxKeys,        \* bound: pairs of capabilities issued
    MaxLocks        \* bound: locks saved

Nobody   == "nobody"
Everyone == People \cup {Visitor}
Flow     == "flow"
Columns  == Fields \cup {Flow}

ASSUME FormsAssumption ==
    /\ Visitor \notin People /\ Nobody \notin Everyone \cup Calls
    /\ Answers \in [Payloads -> SUBSET Fields]
    /\ FlowWrites \subseteq Fields /\ Flow \notin Fields
    /\ MaxKeys \in Nat /\ MaxLocks \in Nat

VARIABLES
    publication,    \* the row of page_form_publications, once there is one
    locks,          \* pages.data.columnLocks: by column, who may write it
    saved,          \* how many locks were saved
    ledger,         \* page_form_submissions, by clientRequestId: the call that wrote it
    responses,      \* the response pages, by the call that created them
    call            \* by call: what it has read and answered

formsVars == <<publication, locks, saved, ledger, responses, call>>

Publication == [state : {"none", "draft", "live", "closed"},
                key : Nat, author : Everyone \cup {Nobody}]
NoResponse  == [owner |-> Nobody, cells |-> {}]
Response    == [owner : Everyone \cup {Nobody}, cells : SUBSET (Fields \X {"answer", "flow"})]
Idle == [at |-> "idle", by |-> Nobody, key |-> 0, id |-> Nobody, payload |-> Nobody,
         author |-> Nobody, reply |-> "none", names |-> Nobody]

Published == publication.state = "live"
Locked(c) == locks[c] # Everyone
Rights(t) == IF call[t].by = Visitor THEN call[t].author ELSE call[t].by

FormsInit ==
    /\ publication = [state |-> "none", key |-> 0, author |-> Nobody]
    /\ locks = [c \in Columns |-> Everyone] /\ saved = 0
    /\ ledger = [k \in Keys |-> Nobody]
    /\ responses = [t \in Calls |-> NoResponse]
    /\ call = [t \in Calls |-> Idle]

Go(t, step)     == call' = [call EXCEPT ![t].at = step]
Reply(t, r, by) == call' = [call EXCEPT ![t].at = "done", ![t].reply = r, ![t].names = by]

-----------------------------------------------------------------------------
(* The owner of the form.                                                   *)

\* Publishing keeps the row and replaces both capabilities, the author and
\* the expiry; it also reopens a closed form.
Publish(u) ==
    /\ publication.key < MaxKeys
    /\ publication' = [state |-> "live", key |-> publication.key + 1, author |-> u]
    /\ UNCHANGED <<locks, saved, ledger, responses, call>>

Revoke ==
    /\ Published
    /\ publication' = [publication EXCEPT !.state = "closed"]
    /\ UNCHANGED <<locks, saved, ledger, responses, call>>

Expires ==
    /\ Published
    /\ publication' = [publication EXCEPT !.state = "closed"]
    /\ UNCHANGED <<locks, saved, ledger, responses, call>>

\* A lock keeps whoever saves it in its list; an empty list removes it.
SaveLock(u, c, list) ==
    /\ saved < MaxLocks /\ saved' = saved + 1
    /\ list = {} \/ u \in list
    /\ locks' = [locks EXCEPT ![c] = IF list = {} THEN Everyone ELSE list]
    /\ UNCHANGED <<publication, ledger, responses, call>>

-----------------------------------------------------------------------------
(* A submission.                                                            *)

\* Of the publication it reads, only a visitor's call keeps anything.
Received(t, by, k, p, step) ==
    call' = [call EXCEPT ![t] = [at |-> step, by |-> by, id |-> k, payload |-> p,
        key |-> IF by = Visitor THEN publication.key ELSE 0,
        author |-> IF by = Visitor THEN publication.author ELSE Nobody,
        reply |-> "none", names |-> Nobody]]

\* authorize: the capability of the day, hashed, and a form still open.
SubmitPublic(t, k, p) ==
    /\ call[t].at = "idle"
    /\ Published
    /\ Received(t, Visitor, k, p, "ledger")
    /\ UNCHANGED <<publication, locks, saved, ledger, responses>>

SubmitAuthenticated(t, u, k, p) ==
    /\ call[t].at = "idle"
    /\ Received(t, u, k, p, IF publication.state = "none" THEN "draft" ELSE "ledger")
    /\ UNCHANGED <<publication, locks, saved, ledger, responses>>

\* createDraft: the row that holds the ledger of a form nobody published yet,
\* or the one another call inserted first.
CreateDraft(t) ==
    /\ call[t].at = "draft"
    /\ publication' = IF publication.state # "none" THEN publication
                      ELSE [state |-> "draft", key |-> 0, author |-> call[t].by]
    /\ Go(t, "ledger")
    /\ UNCHANGED <<locks, saved, ledger, responses>>

\* What the ledger says of a key: a repeated payload is answered with the
\* submission it already made, another one is refused.
Recall(t, otherwise) ==
    LET first == ledger[call[t].id] IN
    \/ first = Nobody /\ otherwise
    \/ first # Nobody /\ call[first].payload = call[t].payload /\ Reply(t, "replayed", first)
    \/ first # Nobody /\ call[first].payload # call[t].payload /\ Reply(t, "key used", Nobody)

FindSubmission(t) ==
    /\ call[t].at = "ledger"
    /\ Recall(t, Go(t, "locks"))
    /\ UNCHANGED <<publication, locks, saved, ledger, responses>>

\* A visitor answers no locked column, a user only those whose list has it.
MayAnswer(t) == \A c \in Answers[call[t].payload] : call[t].by \in locks[c]

CheckLocks(t) ==
    /\ call[t].at = "locks"
    /\ IF MayAnswer(t) THEN Go(t, "plan") ELSE Reply(t, "forbidden", Nobody)
    /\ UNCHANGED <<publication, locks, saved, ledger, responses>>

\* The flow runs with the rights of the user, or of the author of the form.
MayExecute(t) == \A c \in FlowWrites \cup {Flow} : Rights(t) \in locks[c]

PlanFlow(t) ==
    /\ call[t].at = "plan"
    /\ IF MayExecute(t) THEN Go(t, "commit") ELSE Reply(t, "forbidden", Nobody)
    /\ UNCHANGED <<publication, locks, saved, ledger, responses>>

\* The transaction asks again for the publication, of a visitor also for the
\* capability, and lets one row in for each key.
AdmittedTwice(t) ==                                                     \* mutant
    /\ publication.state # "none"
    /\ call[t].by = Visitor => Published /\ publication.key = call[t].key
AdmittedOnceOpen(t) ==                                                  \* mutant
    /\ publication.state # "none"
    /\ ledger[call[t].id] = Nobody
Admitted(t) ==
    /\ publication.state # "none"
    /\ call[t].by = Visitor => Published /\ publication.key = call[t].key
    /\ ledger[call[t].id] = Nobody

\* Answers first, then the effects of the flow, which prevail.
CellsOf(t) ==
    [c \in Answers[call[t].payload] \cup FlowWrites |->
        IF c \in FlowWrites THEN "flow" ELSE "answer"]

Write(t) ==
    /\ responses' = [responses EXCEPT ![t] =
            [owner |-> publication.author, cells |-> {<<c, CellsOf(t)[c]>> : c \in DOMAIN CellsOf(t)}]]
    /\ ledger' = [ledger EXCEPT ![call[t].id] = t]

Commit(t) ==
    /\ call[t].at = "commit"
    /\ Admitted(t)
    /\ Write(t)
    /\ Reply(t, "created", t)
    /\ UNCHANGED <<publication, locks, saved>>

\* The transaction was written but its answer was lost.
CommitUnseen(t) ==
    /\ call[t].at = "commit"
    /\ Admitted(t)
    /\ Write(t)
    /\ Go(t, "raced")
    /\ UNCHANGED <<publication, locks, saved>>

\* A guard or a statement refused the transaction, or another process moved
\* the rows of the database meanwhile.
Refused(t) ==
    /\ call[t].at = "commit"
    /\ Go(t, "raced")
    /\ UNCHANGED <<publication, locks, saved, ledger, responses>>

\* After a refusal the ledger is read again.
Reread(t) ==
    /\ call[t].at = "raced"
    /\ Recall(t, Reply(t, "changed", Nobody))
    /\ UNCHANGED <<publication, locks, saved, ledger, responses>>

-----------------------------------------------------------------------------
Submitting(t) ==
    \/ \E k \in Keys, p \in Payloads :
          SubmitPublic(t, k, p) \/ \E u \in People : SubmitAuthenticated(t, u, k, p)
    \/ CreateDraft(t) \/ FindSubmission(t) \/ CheckLocks(t) \/ PlanFlow(t)
    \/ Commit(t) \/ CommitUnseen(t) \/ Refused(t) \/ Reread(t)

FormsNext ==
    \/ \E u \in People : Publish(u)
          \/ \E c \in Columns, list \in SUBSET People : SaveLock(u, c, list)
    \/ Revoke \/ Expires
    \/ \E t \in Calls : Submitting(t)

FormsSpec == FormsInit /\ [][FormsNext]_formsVars

-----------------------------------------------------------------------------
(* Properties.                                                              *)

Written(t) == responses[t] # NoResponse

\* Rows, and what calls hold, have the types of their columns and locals.
FormsTypeOK ==
    /\ publication \in Publication
    /\ locks \in [Columns -> SUBSET Everyone] /\ saved \in Nat
    /\ ledger \in [Keys -> Calls \cup {Nobody}]
    /\ responses \in [Calls -> Response]
    /\ \A t \in Calls :
          /\ call[t].at \in {"idle", "draft", "ledger", "locks", "plan", "commit", "raced", "done"}
          /\ call[t].reply \in {"none", "created", "replayed", "key used", "changed", "forbidden"}
          /\ call[t].at # "idle" => /\ call[t].by \in Everyone
                                   /\ call[t].id \in Keys /\ call[t].payload \in Payloads

\* A response page and its ledger row come together, and a key admits one
\* response, whatever calls with the same clientRequestId cross each other.
OneResponsePerKey ==
    \A t \in Calls : Written(t) <=> \E k \in Keys : ledger[k] = t /\ call[t].id = k

\* The answer a client gets is true of what was stored: a success names the
\* one submission with its key and its payload, a refused key belongs to
\* another payload, and any other refusal left nothing behind, even when the
\* answer of the transaction was lost.
RepliesAreTrue ==
    \A t \in Calls :
        LET first == ledger[call[t].id] IN
        /\ call[t].reply \in {"created", "replayed"} =>
              first = call[t].names /\ first # Nobody /\ call[first].payload = call[t].payload
        /\ call[t].reply = "key used" =>
              first # Nobody /\ call[first].payload # call[t].payload
        /\ call[t].reply \in {"key used", "changed", "forbidden"} => ~Written(t)

\* A visitor's response belongs to the author whose publication authorized
\* it and whose rights its flow used: a publication revoked, expired or
\* replaced by another author before the transaction admits nothing.
VisitorsEnterAsAuthorized ==
    \A t \in Calls :
        Written(t) /\ call[t].by = Visitor => responses[t].owner = call[t].author

\* A visitor is let in by a form that is open at that moment, with the
\* capability in force.
ClosedFormsAdmitNoVisitor ==
    [][\A t \in Calls :
          responses'[t] # responses[t] /\ call[t].by = Visitor =>
              Published /\ publication.key = call[t].key]_formsVars

\* What every reachable state of a form satisfies.
FormsInv == FormsTypeOK /\ OneResponsePerKey /\ RepliesAreTrue /\ VisitorsEnterAsAuthorized
==============================================================================
