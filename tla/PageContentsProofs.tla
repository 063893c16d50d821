-------------------------- MODULE PageContentsProofs -------------------------
(***************************************************************************)
(* What pages hold: proofs about PageForms, for any users, calls, keys and *)
(* payloads, about PageFlows, for any documents, columns and executions,   *)
(* and about PageRelations, for any pages, properties, editors and         *)
(* requests. The invariant of submissions adds to FormsInv what a call     *)
(* holds between its reads and its transaction, and that a capability      *)
(* determines the author it was published with. That a list of steps is    *)
(* walked to its end, one way, is a matter of the order in which its steps *)
(* are met (Branching, WalksOn); of a graph it is enough that its nodes    *)
(* lead forward. That the two sides of a relation agree is a matter of     *)
(* plans: a transaction compares what it read, so a plan need only be      *)
(* right for the definitions and cells it holds itself (RelationPlan), and *)
(* the commit finds them in the database. That no cell has a value is not  *)
(* among it: a request is right about that as long as none is written      *)
(* after its check (ChecksHold).                                           *)
(***************************************************************************)
EXTENDS PageFlows, PageRelations, FiniteSetTheorems, SequenceTheorems,
        WellFoundedInduction, TLAPS

-----------------------------------------------------------------------------
(* PageForms.                                                              *)

\* What calls hold, in full.
CallsTyped ==
    call \in [Calls -> [
        at : {"idle", "draft", "ledger", "locks", "plan", "commit", "raced", "done"},
        by : Everyone \cup {Nobody}, key : Nat, id : Keys \cup {Nobody},
        payload : Payloads \cup {Nobody}, author : Everyone \cup {Nobody},
        reply : {"none", "created", "replayed", "key used", "changed", "forbidden"},
        names : Calls \cup {Nobody}]]

\* A row there is has an author, and only published ones have a capability.
PublicationStamped ==
    /\ publication.state # "none" => publication.author \in Everyone
    /\ publication.state \in {"live", "closed"} <=> publication.key > 0

\* A visitor's capability is not newer than the row's, and names its author.
KeysNameAuthors ==
    \A t \in Calls : call[t].by = Visitor =>
        /\ call[t].key > 0 /\ call[t].key <= publication.key
        /\ call[t].key = publication.key => call[t].author = publication.author

\* Ledger rows are of calls that wrote a response with that key.
LedgerNamesWriters ==
    \A k \in Keys : ledger[k] # Nobody => Written(ledger[k]) /\ call[ledger[k]].id = k

\* Responses are written at the end of a call.
WritersAreLate == \A t \in Calls : Written(t) => call[t].at \in {"raced", "done"}

\* A call that has a reply is over.
RepliedAreDone == \A t \in Calls : call[t].at # "done" => call[t].reply = "none"

FormsInd ==
    /\ FormsInv /\ CallsTyped /\ PublicationStamped /\ KeysNameAuthors
    /\ LedgerNamesWriters /\ WritersAreLate /\ RepliedAreDone

-----------------------------------------------------------------------------
\* The invariant holds where nobody has published or called yet.
LEMMA FormsStart == FormsInit => FormsInd
  <1> SUFFICES ASSUME FormsInit PROVE FormsInd
    OBVIOUS
  <1> USE FormsAssumption DEF FormsInit
  <1>1. FormsTypeOK
    BY DEF FormsTypeOK, Publication, Response, NoResponse, Idle, Everyone
  <1>2. \A t \in Calls : call[t] = Idle /\ ~Written(t)
    BY DEF Written
  <1>3. CallsTyped
    BY DEF CallsTyped, Idle
  <1>4. OneResponsePerKey
    BY <1>2, Nobody \notin Calls DEF OneResponsePerKey, Everyone
  <1>5. RepliesAreTrue /\ VisitorsEnterAsAuthorized
    BY <1>2 DEF RepliesAreTrue, VisitorsEnterAsAuthorized, Idle
  <1>6. PublicationStamped
    BY DEF PublicationStamped
  <1>7. KeysNameAuthors
    BY <1>2, Nobody # Visitor DEF KeysNameAuthors, Idle, Everyone
  <1>8. LedgerNamesWriters /\ WritersAreLate /\ RepliedAreDone
    BY <1>2 DEF LedgerNamesWriters, WritersAreLate, RepliedAreDone, Idle
  <1> QED BY <1>1, <1>3, <1>4, <1>5, <1>6, <1>7, <1>8 DEF FormsInd, FormsInv

-----------------------------------------------------------------------------
(* The steps, by what they change.                                          *)

\* The owner acts: no submission is written or moves.
Owned == UNCHANGED <<ledger, responses, call>>

\* A call begins.
Begins(t) ==
    /\ call[t].at = "idle"
    /\ \E by \in Everyone, k \in Keys, p \in Payloads, step \in {"draft", "ledger"} :
          /\ by = Visitor => Published
          /\ Received(t, by, k, p, step)
    /\ UNCHANGED <<publication, locks, saved, ledger, responses>>

\* A call goes on to its next step, before anything is written.
Advances(t) ==
    /\ call[t].at \in {"draft", "ledger", "locks", "plan", "commit"}
    /\ \E step \in {"ledger", "locks", "plan", "commit", "raced"} : Go(t, step)
    /\ UNCHANGED <<ledger, responses>>

\* A call is answered with what is stored.
Answered(t) ==
    LET first == ledger[call[t].id] IN
    /\ \/ call[t].at \in {"locks", "plan"} /\ Reply(t, "forbidden", Nobody)
       \/ /\ call[t].at \in {"ledger", "raced"}
          /\ \/ first = Nobody /\ Reply(t, "changed", Nobody)
             \/ first # Nobody /\ call[first].payload = call[t].payload /\ Reply(t, "replayed", first)
             \/ first # Nobody /\ call[first].payload # call[t].payload /\ Reply(t, "key used", Nobody)
    /\ UNCHANGED <<publication, locks, saved, ledger, responses>>

\* The transaction writes.
Writes(t) ==
    /\ call[t].at = "commit" /\ Admitted(t) /\ Write(t)
    /\ Go(t, "raced") \/ Reply(t, "created", t)
    /\ UNCHANGED <<publication, locks, saved>>

\* Every step is one of these.
LEMMA FormsSteps ==
  ASSUME [FormsNext]_formsVars
  PROVE  \/ UNCHANGED formsVars
         \/ Owned /\ \/ \E u \in People : Publish(u)
                     \/ \E u \in People, c \in Columns, list \in SUBSET People : SaveLock(u, c, list)
                     \/ Revoke \/ Expires
         \/ \E t \in Calls : \/ Begins(t) \/ Answered(t) \/ Writes(t)
                             \/ Advances(t) /\ CreateDraft(t)
                             \/ Advances(t) /\ UNCHANGED <<publication, locks, saved>>
  <1>1. ASSUME NEW u \in People, Publish(u) PROVE Owned
    BY <1>1 DEF Publish, Owned
  <1>2. ASSUME NEW u \in People, NEW c \in Columns, NEW list \in SUBSET People, SaveLock(u, c, list)
        PROVE  Owned
    BY <1>2 DEF SaveLock, Owned
  <1>3. ASSUME Revoke \/ Expires PROVE Owned
    BY <1>3 DEF Revoke, Expires, Owned
  <1>4. ASSUME NEW t \in Calls, NEW k \in Keys, NEW p \in Payloads, SubmitPublic(t, k, p)
        PROVE  Begins(t)
    BY <1>4 DEF SubmitPublic, Begins, Everyone
  <1>5. ASSUME NEW t \in Calls, NEW k \in Keys, NEW p \in Payloads, NEW u \in People,
               SubmitAuthenticated(t, u, k, p)
        PROVE  Begins(t)
    <2>1. u \in Everyone /\ u # Visitor
      BY FormsAssumption DEF Everyone
    <2>2. CASE publication.state = "none"
      BY <1>5, <2>1, <2>2 DEF SubmitAuthenticated, Begins
    <2>3. CASE publication.state # "none"
      BY <1>5, <2>1, <2>3 DEF SubmitAuthenticated, Begins
    <2> QED BY <2>2, <2>3
  <1>6. ASSUME NEW t \in Calls, CreateDraft(t) PROVE Advances(t)
    BY <1>6 DEF CreateDraft, Advances
  <1>7. ASSUME NEW t \in Calls, FindSubmission(t)
        PROVE  Answered(t) \/ (Advances(t) /\ UNCHANGED <<publication, locks, saved>>)
    BY <1>7 DEF FindSubmission, Recall, Answered, Advances
  <1>8. ASSUME NEW t \in Calls, CheckLocks(t) \/ PlanFlow(t) \/ Refused(t)
        PROVE  Answered(t) \/ (Advances(t) /\ UNCHANGED <<publication, locks, saved>>)
    BY <1>8 DEF CheckLocks, PlanFlow, Refused, Answered, Advances
  <1>9. ASSUME NEW t \in Calls, Reread(t) PROVE Answered(t)
    BY <1>9 DEF Reread, Recall, Answered
  <1>10. ASSUME NEW t \in Calls, Commit(t) \/ CommitUnseen(t) PROVE Writes(t)
    BY <1>10 DEF Commit, CommitUnseen, Writes
  <1> QED BY <1>1, <1>2, <1>3, <1>4, <1>5, <1>6, <1>7, <1>8, <1>9, <1>10 DEF FormsNext, Submitting

-----------------------------------------------------------------------------
(* What a step of a call that began leaves alone.                           *)

CallSteps   == {"idle", "draft", "ledger", "locks", "plan", "commit", "raced", "done"}
CallReplies == {"none", "created", "replayed", "key used", "changed", "forbidden"}

SameRequest(s) ==
    /\ call'[s].by = call[s].by /\ call'[s].key = call[s].key /\ call'[s].id = call[s].id
    /\ call'[s].payload = call[s].payload /\ call'[s].author = call[s].author

LEMMA GoKeeps ==
  ASSUME CallsTyped, NEW t \in Calls, NEW step \in CallSteps, Go(t, step)
  PROVE  /\ CallsTyped'
         /\ \A s \in Calls : SameRequest(s) /\ call'[s].reply = call[s].reply
                                            /\ call'[s].names = call[s].names
         /\ \A s \in Calls \ {t} : call'[s] = call[s]
         /\ call'[t].at = step
  BY DEF CallsTyped, CallSteps, Go, SameRequest

LEMMA ReplyKeeps ==
  ASSUME CallsTyped, NEW t \in Calls, NEW r \in CallReplies, NEW n \in Calls \cup {Nobody}, Reply(t, r, n)
  PROVE  /\ CallsTyped'
         /\ \A s \in Calls : SameRequest(s)
         /\ \A s \in Calls \ {t} : call'[s] = call[s]
         /\ call'[t].at = "done" /\ call'[t].reply = r /\ call'[t].names = n
  <1> DEFINE T == [at : CallSteps, by : Everyone \cup {Nobody}, key : Nat, id : Keys \cup {Nobody},
                   payload : Payloads \cup {Nobody}, author : Everyone \cup {Nobody},
                   reply : CallReplies, names : Calls \cup {Nobody}]
             Replied == [call[t] EXCEPT !.at = "done", !.reply = r, !.names = n]
  <1>1. call \in [Calls -> T]
    BY DEF CallsTyped, CallSteps, CallReplies
  <1>2. /\ Replied \in T
        /\ Replied.at = "done" /\ Replied.reply = r /\ Replied.names = n
        /\ Replied.by = call[t].by /\ Replied.key = call[t].key /\ Replied.id = call[t].id
        /\ Replied.payload = call[t].payload /\ Replied.author = call[t].author
    BY <1>1 DEF CallSteps
  <1>3. call' = [call EXCEPT ![t] = Replied]
    BY <1>1 DEF Reply
  <1> HIDE DEF T, Replied
  <1>4. /\ call' \in [Calls -> T] /\ call'[t] = Replied
        /\ \A s \in Calls \ {t} : call'[s] = call[s]
    BY <1>1, <1>2, <1>3
  <1>5. CallsTyped'
    BY <1>4 DEF CallsTyped, CallSteps, CallReplies, T
  <1> QED BY <1>2, <1>4, <1>5 DEF SameRequest

-----------------------------------------------------------------------------
(* Every step keeps the invariant.                                          *)

LEMMA OwnerKeepsForms ==
  ASSUME FormsInd, Owned,
         \/ \E u \in People : Publish(u)
         \/ \E u \in People, c \in Columns, list \in SUBSET People : SaveLock(u, c, list)
         \/ Revoke \/ Expires
  PROVE  FormsInd'
  <1> USE DEF FormsInd, FormsInv, Owned
  <1>1. FormsTypeOK'
    <2>1. publication' \in Publication
      <3>1. publication \in Publication
        BY DEF FormsTypeOK
      <3>2. CASE \E u \in People : Publish(u)
        BY <3>1, <3>2 DEF Publish, Publication, Everyone
      <3>3. CASE Revoke \/ Expires
        BY <3>1, <3>3 DEF Revoke, Expires, Publication
      <3> QED BY <3>1, <3>2, <3>3 DEF SaveLock
    <2>2. locks' \in [Columns -> SUBSET Everyone] /\ saved' \in Nat
      <3>1. CASE UNCHANGED <<locks, saved>>
        BY <3>1 DEF FormsTypeOK
      <3>2. ASSUME NEW u \in People, NEW c \in Columns, NEW list \in SUBSET People, SaveLock(u, c, list)
            PROVE  locks' \in [Columns -> SUBSET Everyone] /\ saved' \in Nat
        <4>1. (IF list = {} THEN Everyone ELSE list) \in SUBSET Everyone
          BY DEF Everyone
        <4>2. locks' = [locks EXCEPT ![c] = IF list = {} THEN Everyone ELSE list] /\ saved' = saved + 1
          BY <3>2 DEF SaveLock
        <4>3. locks \in [Columns -> SUBSET Everyone] /\ saved \in Nat
          BY DEF FormsTypeOK
        <4> QED BY <4>1, <4>2, <4>3
      <3> QED BY <3>1, <3>2 DEF Publish, Revoke, Expires
    <2> QED BY <2>1, <2>2 DEF FormsTypeOK
  <1>2. \A t \in Calls : (Written(t))' = Written(t)
    BY DEF Written
  <1>3. OneResponsePerKey' /\ RepliesAreTrue' /\ VisitorsEnterAsAuthorized' /\ CallsTyped'
    BY <1>2 DEF OneResponsePerKey, RepliesAreTrue, VisitorsEnterAsAuthorized, CallsTyped
  <1>4. PublicationStamped' /\ KeysNameAuthors'
    <2>0. /\ publication \in Publication
          /\ \A t \in Calls : call[t].key \in Nat
      BY DEF FormsTypeOK, CallsTyped
    <2>1. CASE \E u \in People : Publish(u)
      BY <2>0, <2>1 DEF Publish, PublicationStamped, KeysNameAuthors, Publication, Everyone
    <2>2. CASE Revoke \/ Expires
      BY <2>0, <2>2 DEF Revoke, Expires, Published, PublicationStamped, KeysNameAuthors, Publication
    <2>3. CASE UNCHANGED publication
      BY <2>3 DEF PublicationStamped, KeysNameAuthors
    <2> QED BY <2>1, <2>2, <2>3 DEF SaveLock
  <1>5. LedgerNamesWriters' /\ WritersAreLate' /\ RepliedAreDone'
    BY <1>2 DEF LedgerNamesWriters, WritersAreLate, RepliedAreDone, Written
  <1> QED BY <1>1, <1>3, <1>4, <1>5

LEMMA BeginningKeepsForms ==
  ASSUME FormsInd, NEW t \in Calls, Begins(t)
  PROVE  FormsInd'
  <1> USE DEF FormsInd, FormsInv
  <1>1. PICK by \in Everyone, k \in Keys, p \in Payloads, step \in {"draft", "ledger"} :
           (by = Visitor => Published) /\ Received(t, by, k, p, step)
    BY DEF Begins
  <1>2. UNCHANGED <<publication, locks, saved, ledger, responses>> /\ call[t].at = "idle"
    BY DEF Begins
  <1>3. /\ publication.author \in Everyone \cup {Nobody} /\ publication.key \in Nat
        /\ by = Visitor => publication.key > 0
    BY <1>1 DEF FormsTypeOK, Publication, Published, PublicationStamped
  <1>4. /\ CallsTyped'
        /\ \A s \in Calls \ {t} : call'[s] = call[s]
        /\ call'[t].at \in {"draft", "ledger"} /\ call'[t].reply = "none" /\ call'[t].by = by
        /\ call'[t].id = k /\ call'[t].payload = p
        /\ by = Visitor => call'[t].key = publication.key /\ call'[t].author = publication.author
    BY <1>1, <1>3 DEF CallsTyped, Received
  <1>5. ~Written(t) /\ \A s \in Calls : (Written(s))' = Written(s)
    BY <1>2 DEF WritersAreLate, Written
  <1>6. \A q \in Keys : ledger[q] # t
    BY <1>5, FormsAssumption DEF LedgerNamesWriters, Everyone
  <1>7. FormsTypeOK'
    BY <1>1, <1>2, <1>4 DEF FormsTypeOK
  <1>8. OneResponsePerKey'
    BY <1>2, <1>4, <1>5, <1>6 DEF OneResponsePerKey
  <1>9. RepliesAreTrue'
    <2> SUFFICES ASSUME NEW s \in Calls, call'[s].reply # "none"
                 PROVE  LET first == ledger[call'[s].id] IN
                        /\ call'[s].reply \in {"created", "replayed"} =>
                              first = call'[s].names /\ first # Nobody /\ call'[first].payload = call'[s].payload
                        /\ call'[s].reply = "key used" =>
                              first # Nobody /\ call'[first].payload # call'[s].payload
                        /\ call'[s].reply \in {"key used", "changed", "forbidden"} => ~(Written(s))'
      BY <1>2 DEF RepliesAreTrue
    <2>1. s # t /\ call'[s] = call[s] /\ call[s].at = "done"
      BY <1>4 DEF RepliedAreDone
    <2>2. call[s].id \in Keys
      BY <2>1 DEF FormsTypeOK
    <2>3. ledger[call[s].id] # Nobody => call'[ledger[call[s].id]] = call[ledger[call[s].id]]
      BY <1>4, <1>6, <2>2 DEF FormsTypeOK
    <2> QED BY <1>5, <2>1, <2>3 DEF RepliesAreTrue
  <1>10. VisitorsEnterAsAuthorized'
    BY <1>2, <1>4, <1>5 DEF VisitorsEnterAsAuthorized
  <1>11. PublicationStamped' /\ KeysNameAuthors'
    BY <1>2, <1>3, <1>4 DEF PublicationStamped, KeysNameAuthors
  <1>12. LedgerNamesWriters'
    <2> SUFFICES ASSUME NEW q \in Keys, ledger[q] # Nobody
                 PROVE  (Written(ledger[q]))' /\ call'[ledger[q]].id = q
      BY <1>2 DEF LedgerNamesWriters
    <2>1. ledger[q] \in Calls \ {t} /\ Written(ledger[q]) /\ call[ledger[q]].id = q
      BY <1>6 DEF LedgerNamesWriters, FormsTypeOK
    <2> QED BY <1>2, <1>4, <2>1 DEF Written
  <1>13. WritersAreLate' /\ RepliedAreDone'
    BY <1>4, <1>5 DEF WritersAreLate, RepliedAreDone
  <1> QED BY <1>4, <1>7, <1>8, <1>9, <1>10, <1>11, <1>12, <1>13

LEMMA AdvanceKeepsForms ==
  ASSUME FormsInd, NEW t \in Calls, Advances(t),
         CreateDraft(t) \/ UNCHANGED <<publication, locks, saved>>
  PROVE  FormsInd'
  <1> USE DEF FormsInd, FormsInv
  <1>1. PICK step \in {"ledger", "locks", "plan", "commit", "raced"} : Go(t, step)
    BY DEF Advances
  <1>2. UNCHANGED <<ledger, responses, locks, saved>>
    BY DEF Advances, CreateDraft
  <1>3. /\ CallsTyped'
        /\ \A s \in Calls : SameRequest(s) /\ call'[s].reply = call[s].reply
                                           /\ call'[s].names = call[s].names
        /\ \A s \in Calls \ {t} : call'[s] = call[s]
        /\ call'[t].at = step
    BY <1>1, GoKeeps DEF CallSteps
  <1>4. call[t].at \in {"draft", "ledger", "locks", "plan", "commit"}
    BY DEF Advances
  <1>5. /\ ~Written(t) /\ call[t].reply = "none" /\ call[t].by \in Everyone
        /\ \A s \in Calls : (Written(s))' = Written(s)
    BY <1>2, <1>4 DEF WritersAreLate, RepliedAreDone, FormsTypeOK, Written
  <1>6. /\ publication' \in Publication
        /\ publication' = publication \/ (publication.key = 0 /\ publication'.key = 0)
    <2>1. publication \in Publication
      BY DEF FormsTypeOK
    <2>2. CASE CreateDraft(t) /\ publication.state = "none"
      <3>1. publication' = [state |-> "draft", key |-> 0, author |-> call[t].by]
        BY <2>2 DEF CreateDraft
      <3>2. publication.key = 0
        <4>1. publication.key \in Nat
          BY <2>1 DEF Publication
        <4> QED BY <2>2, <4>1 DEF PublicationStamped
      <3> QED BY <1>5, <3>1, <3>2 DEF Publication
    <2>3. CASE UNCHANGED publication
      BY <2>1, <2>3
    <2> QED BY <2>2, <2>3 DEF CreateDraft
  <1>7. FormsTypeOK'
    BY <1>2, <1>3, <1>4, <1>6 DEF FormsTypeOK, SameRequest
  <1>8. OneResponsePerKey' /\ VisitorsEnterAsAuthorized'
    BY <1>2, <1>3, <1>5 DEF OneResponsePerKey, VisitorsEnterAsAuthorized, SameRequest
  <1>9. RepliesAreTrue'
    <2> SUFFICES ASSUME NEW s \in Calls, call'[s].reply # "none"
                 PROVE  LET first == ledger[call'[s].id] IN
                        /\ call'[s].reply \in {"created", "replayed"} =>
                              first = call'[s].names /\ first # Nobody /\ call'[first].payload = call'[s].payload
                        /\ call'[s].reply = "key used" =>
                              first # Nobody /\ call'[first].payload # call'[s].payload
                        /\ call'[s].reply \in {"key used", "changed", "forbidden"} => ~(Written(s))'
      BY <1>2 DEF RepliesAreTrue
    <2>1. call[s].id \in Keys /\ call[s].reply # "none"
      BY <1>3 DEF FormsTypeOK, RepliedAreDone
    <2> DEFINE first == ledger[call[s].id]
    <2>2. first \in Calls \cup {Nobody} /\ call'[s].id = call[s].id
      BY <1>3, <2>1 DEF FormsTypeOK, SameRequest
    <2>3. first # Nobody => call'[first].payload = call[first].payload
      BY <1>3, <2>2 DEF SameRequest
    <2>4. /\ call'[s].payload = call[s].payload /\ call'[s].reply = call[s].reply
          /\ call'[s].names = call[s].names
      BY <1>3 DEF SameRequest
    <2>5. /\ call[s].reply \in {"created", "replayed"} =>
                first = call[s].names /\ first # Nobody /\ call[first].payload = call[s].payload
          /\ call[s].reply = "key used" => first # Nobody /\ call[first].payload # call[s].payload
          /\ call[s].reply \in {"key used", "changed", "forbidden"} => ~Written(s)
      BY DEF RepliesAreTrue
    <2> QED BY <1>5, <2>2, <2>3, <2>4, <2>5
  <1>10. PublicationStamped' /\ KeysNameAuthors'
    <2>1. CASE CreateDraft(t) /\ publication.state = "none"
      <3>1. publication' = [state |-> "draft", key |-> 0, author |-> call[t].by]
        BY <2>1 DEF CreateDraft
      <3>2. publication.key = 0 /\ \A s \in Calls : call[s].key \in Nat
        <4>1. publication.key \in Nat
          BY DEF FormsTypeOK, Publication
        <4>2. publication.key = 0
          BY <2>1, <4>1 DEF PublicationStamped
        <4>3. \A s \in Calls : call[s].key \in Nat
          BY DEF CallsTyped
        <4> QED BY <4>2, <4>3
      <3>3. \A s \in Calls : call[s].by # Visitor
        BY <3>2 DEF KeysNameAuthors
      <3> QED BY <1>3, <1>5, <3>1, <3>3 DEF PublicationStamped, KeysNameAuthors, SameRequest
    <2>2. CASE UNCHANGED publication
      BY <1>3, <2>2 DEF PublicationStamped, KeysNameAuthors, SameRequest
    <2> QED BY <2>1, <2>2 DEF CreateDraft
  <1>11. LedgerNamesWriters' /\ WritersAreLate' /\ RepliedAreDone'
    <2>1. LedgerNamesWriters'
      BY <1>2, <1>3, <1>5 DEF LedgerNamesWriters, SameRequest, FormsTypeOK
    <2>2. WritersAreLate'
      BY <1>3, <1>5 DEF WritersAreLate
    <2>3. RepliedAreDone'
      BY <1>3, <1>4 DEF RepliedAreDone
    <2> QED BY <2>1, <2>2, <2>3
  <1> QED BY <1>3, <1>7, <1>8, <1>9, <1>10, <1>11

LEMMA AnswerKeepsForms ==
  ASSUME FormsInd, NEW t \in Calls, Answered(t)
  PROVE  FormsInd'
  <1> USE DEF FormsInd, FormsInv
  <1> DEFINE stored == ledger[call[t].id]
  <1>1. /\ UNCHANGED <<publication, ledger, responses, locks, saved>>
        /\ call[t].at \in {"locks", "plan", "ledger", "raced"}
    BY DEF Answered
  <1>2. call[t].id \in Keys /\ stored \in Calls \cup {Nobody} /\ call[t].reply = "none"
    BY <1>1 DEF FormsTypeOK, RepliedAreDone
  <1>3. PICK r \in {"forbidden", "changed", "replayed", "key used"}, n \in Calls \cup {Nobody} :
           /\ Reply(t, r, n)
           /\ r = "forbidden" => call[t].at \in {"locks", "plan"}
           /\ r = "changed" => stored = Nobody
           /\ r \in {"replayed", "key used"} => stored # Nobody
           /\ r = "replayed" => n = stored /\ call[stored].payload = call[t].payload
           /\ r = "key used" => call[stored].payload # call[t].payload
    BY <1>2 DEF Answered
  <1>4. /\ CallsTyped'
        /\ \A s \in Calls : SameRequest(s)
        /\ \A s \in Calls \ {t} : call'[s] = call[s]
        /\ call'[t].at = "done" /\ call'[t].reply = r /\ call'[t].names = n
    <2>1. r \in CallReplies
      BY DEF CallReplies
    <2> QED BY <1>3, <2>1, ReplyKeeps
  <1>5. \A s \in Calls : (Written(s))' = Written(s)
    BY <1>1 DEF Written
  <1>6. Written(t) => stored = t
    BY DEF OneResponsePerKey
  <1>7. r \in {"forbidden", "changed", "key used"} => ~Written(t)
    <2>1. r = "forbidden" => ~Written(t)
      BY <1>3 DEF WritersAreLate
    <2>2. Nobody \notin Calls
      BY FormsAssumption DEF Everyone
    <2> QED BY <1>3, <1>6, <2>1, <2>2
  <1>8. FormsTypeOK'
    <2>1. \A s \in Calls : call'[s].at # "idle" => call[s].at # "idle"
      BY <1>1, <1>4
    <2>2. \A s \in Calls : /\ call'[s].at \in CallSteps /\ call'[s].reply \in CallReplies
      BY <1>4 DEF CallsTyped, CallSteps, CallReplies
    <2> QED BY <1>1, <1>4, <2>1, <2>2 DEF FormsTypeOK, SameRequest, CallSteps, CallReplies
  <1>9. OneResponsePerKey' /\ VisitorsEnterAsAuthorized'
    <2>1. \A s \in Calls : call'[s].id = call[s].id /\ call'[s].by = call[s].by
                            /\ call'[s].author = call[s].author
      BY <1>4 DEF SameRequest
    <2>2. OneResponsePerKey'
      BY <1>1, <1>5, <2>1 DEF OneResponsePerKey
    <2> QED BY <1>1, <1>5, <2>1, <2>2 DEF VisitorsEnterAsAuthorized
  <1>10. RepliesAreTrue'
    <2> SUFFICES ASSUME NEW s \in Calls, call'[s].reply # "none"
                 PROVE  LET first == ledger[call'[s].id] IN
                        /\ call'[s].reply \in {"created", "replayed"} =>
                              first = call'[s].names /\ first # Nobody /\ call'[first].payload = call'[s].payload
                        /\ call'[s].reply = "key used" =>
                              first # Nobody /\ call'[first].payload # call'[s].payload
                        /\ call'[s].reply \in {"key used", "changed", "forbidden"} => ~(Written(s))'
      BY <1>1 DEF RepliesAreTrue
    <2> DEFINE first == ledger[call[s].id]
    <2>1. call[s].id \in Keys
      BY <1>2, <1>4 DEF FormsTypeOK, RepliedAreDone
    <2>2. first \in Calls \cup {Nobody} /\ call'[s].id = call[s].id
      BY <1>4, <2>1 DEF FormsTypeOK, SameRequest
    <2>3. /\ first # Nobody => call'[first].payload = call[first].payload
          /\ call'[s].payload = call[s].payload
      BY <1>4, <2>2 DEF SameRequest
    <2>4. CASE s = t
      BY <1>3, <1>4, <1>5, <1>7, <2>2, <2>3, <2>4
    <2>5. CASE s # t
      <3>1. call'[s].reply = call[s].reply /\ call'[s].names = call[s].names
        BY <1>4, <2>5
      <3>2. /\ call[s].reply \in {"created", "replayed"} =>
                  first = call[s].names /\ first # Nobody /\ call[first].payload = call[s].payload
            /\ call[s].reply = "key used" => first # Nobody /\ call[first].payload # call[s].payload
            /\ call[s].reply \in {"key used", "changed", "forbidden"} => ~Written(s)
        BY DEF RepliesAreTrue
      <3> QED BY <1>5, <2>2, <2>3, <3>1, <3>2
    <2> QED BY <2>4, <2>5
  <1>11. PublicationStamped' /\ KeysNameAuthors'
    BY <1>1, <1>4 DEF PublicationStamped, KeysNameAuthors, SameRequest
  <1>12. LedgerNamesWriters'
    BY <1>1, <1>4, <1>5 DEF LedgerNamesWriters, SameRequest, FormsTypeOK
  <1>13. WritersAreLate' /\ RepliedAreDone'
    BY <1>4, <1>5 DEF WritersAreLate, RepliedAreDone
  <1> QED BY <1>4, <1>8, <1>9, <1>10, <1>11, <1>12, <1>13

LEMMA WritingKeepsForms ==
  ASSUME FormsInd, NEW t \in Calls, Writes(t)
  PROVE  FormsInd'
  <1> USE DEF FormsInd, FormsInv
  <1>1. /\ UNCHANGED <<publication, locks, saved>> /\ call[t].at = "commit"
        /\ Admitted(t) /\ Write(t)
    BY DEF Writes
  <1>2. /\ ~Written(t) /\ call[t].id \in Keys /\ call[t].by \in Everyone /\ call[t].payload \in Payloads
        /\ call[t].reply = "none" /\ ledger[call[t].id] = Nobody
        /\ t # Nobody /\ Nobody \notin Calls
    BY <1>1, FormsAssumption DEF WritersAreLate, FormsTypeOK, RepliedAreDone, Admitted, Everyone
  <1>3. /\ CallsTyped'
        /\ \A s \in Calls : SameRequest(s)
        /\ \A s \in Calls \ {t} : call'[s] = call[s]
        /\ \/ call'[t].at = "raced" /\ call'[t].reply = "none"
           \/ call'[t].at = "done" /\ call'[t].reply = "created" /\ call'[t].names = t
    <2>1. CASE Go(t, "raced")
      BY <1>2, <2>1, GoKeeps DEF CallSteps
    <2>2. CASE Reply(t, "created", t)
      BY <2>2, ReplyKeeps DEF CallReplies
    <2> QED BY <2>1, <2>2 DEF Writes
  <1> DEFINE given == {<<c, CellsOf(t)[c]>> : c \in DOMAIN CellsOf(t)}
             row == [owner |-> publication.author, cells |-> given]
  <1>4. row \in Response /\ row # NoResponse
    <2>1. publication.author \in Everyone
      BY <1>1 DEF Admitted, PublicationStamped
    <2>2. Answers[call[t].payload] \cup FlowWrites \subseteq Fields
      BY <1>2, FormsAssumption
    <2>3. given \in SUBSET (Fields \X {"answer", "flow"})
      <3>1. DOMAIN CellsOf(t) \subseteq Fields
        BY <2>2 DEF CellsOf
      <3>2. \A c \in DOMAIN CellsOf(t) : CellsOf(t)[c] \in {"answer", "flow"}
        BY DEF CellsOf
      <3> QED BY <3>1, <3>2
    <2> HIDE DEF given
    <2>4. publication.author # Nobody
      BY <2>1, FormsAssumption
    <2> QED BY <2>1, <2>3, <2>4 DEF Response, NoResponse
  <1>5. responses' = [responses EXCEPT ![t] = row] /\ ledger' = [ledger EXCEPT ![call[t].id] = t]
    BY <1>1 DEF Write
  <1> HIDE DEF row
  <1>6. /\ responses' \in [Calls -> Response] /\ responses'[t] = row
        /\ \A s \in Calls \ {t} : responses'[s] = responses[s]
        /\ ledger' \in [Keys -> Calls \cup {Nobody}] /\ ledger'[call[t].id] = t
        /\ \A k \in Keys \ {call[t].id} : ledger'[k] = ledger[k]
    BY <1>2, <1>4, <1>5 DEF FormsTypeOK
  <1>7. (Written(t))' /\ \A s \in Calls \ {t} : (Written(s))' = Written(s)
    BY <1>4, <1>6 DEF Written
  <1>8. FormsTypeOK'
    <2>1. \A s \in Calls : call'[s].at # "idle" => call[s].at # "idle"
      BY <1>1, <1>3
    <2>2. \A s \in Calls : call'[s].at \in CallSteps /\ call'[s].reply \in CallReplies
      BY <1>3 DEF CallsTyped, CallSteps, CallReplies
    <2> QED BY <1>1, <1>3, <1>6, <2>1, <2>2 DEF FormsTypeOK, SameRequest, CallSteps, CallReplies
  <1>9. \A k \in Keys : ledger[k] # t
    BY <1>2 DEF LedgerNamesWriters
  <1>10. OneResponsePerKey'
    <2> SUFFICES ASSUME NEW s \in Calls
                 PROVE  (Written(s))' <=> \E k \in Keys : ledger'[k] = s /\ call'[s].id = k
      BY DEF OneResponsePerKey
    <2>1. call'[s].id = call[s].id
      BY <1>3 DEF SameRequest
    <2>2. CASE s = t
      BY <1>2, <1>6, <1>7, <2>1, <2>2
    <2>3. CASE s # t
      <3>1. \A k \in Keys : ledger'[k] = s <=> ledger[k] = s
        BY <1>2, <1>6, <2>3
      <3> QED BY <1>7, <2>1, <2>3, <3>1 DEF OneResponsePerKey
    <2> QED BY <2>2, <2>3
  <1>11. RepliesAreTrue'
    <2> SUFFICES ASSUME NEW s \in Calls, call'[s].reply # "none"
                 PROVE  LET first == ledger'[call'[s].id] IN
                        /\ call'[s].reply \in {"created", "replayed"} =>
                              first = call'[s].names /\ first # Nobody /\ call'[first].payload = call'[s].payload
                        /\ call'[s].reply = "key used" =>
                              first # Nobody /\ call'[first].payload # call'[s].payload
                        /\ call'[s].reply \in {"key used", "changed", "forbidden"} => ~(Written(s))'
      BY DEF RepliesAreTrue
    <2>1. call'[s].id = call[s].id /\ call'[s].payload = call[s].payload
      BY <1>3 DEF SameRequest
    <2>2. CASE s = t
      BY <1>2, <1>3, <1>6, <2>1, <2>2
    <2>3. CASE s # t
      <3> DEFINE first == ledger[call[s].id]
      <3>1. call[s] = call'[s] /\ call[s].at = "done" /\ call[s].id \in Keys
        BY <1>3, <2>3 DEF RepliedAreDone, FormsTypeOK
      <3>2. /\ call[s].reply \in {"created", "replayed"} =>
                  first = call[s].names /\ first # Nobody /\ call[first].payload = call[s].payload
            /\ call[s].reply = "key used" => first # Nobody /\ call[first].payload # call[s].payload
            /\ call[s].reply \in {"key used", "changed", "forbidden"} => ~Written(s)
        BY DEF RepliesAreTrue
      <3>3. first \in Calls \cup {Nobody} /\ (first # Nobody => ledger'[call[s].id] = first)
        BY <1>2, <1>6, <3>1 DEF FormsTypeOK
      <3>4. first # Nobody => call'[first].payload = call[first].payload
        BY <1>3, <3>3 DEF SameRequest
      <3> HIDE DEF first
      <3> QED BY <1>7, <2>3, <3>1, <3>2, <3>3, <3>4
    <2> QED BY <2>2, <2>3
  <1>12. VisitorsEnterAsAuthorized'
    <2>1. call[t].by = Visitor => publication.author = call[t].author
      BY <1>1 DEF Admitted, KeysNameAuthors
    <2>2. row.owner = publication.author
      BY DEF row
    <2> QED BY <1>3, <1>6, <1>7, <2>1, <2>2 DEF VisitorsEnterAsAuthorized, SameRequest
  <1>13. PublicationStamped' /\ KeysNameAuthors'
    BY <1>1, <1>3 DEF PublicationStamped, KeysNameAuthors, SameRequest
  <1>14. LedgerNamesWriters'
    <2> SUFFICES ASSUME NEW k \in Keys, ledger'[k] # Nobody
                 PROVE  responses'[ledger'[k]] # NoResponse /\ call'[ledger'[k]].id = k
      BY DEF LedgerNamesWriters, Written
    <2>1. CASE k = call[t].id
      BY <1>3, <1>4, <1>6, <2>1 DEF SameRequest
    <2>2. CASE k # call[t].id
      <3>1. ledger'[k] = ledger[k] /\ ledger[k] \in Calls \ {t}
        BY <1>6, <1>9, <2>2 DEF FormsTypeOK
      <3>2. Written(ledger[k]) /\ call[ledger[k]].id = k
        BY <3>1, <1>2 DEF LedgerNamesWriters
      <3>3. responses'[ledger[k]] = responses[ledger[k]] /\ call'[ledger[k]].id = k
        BY <1>3, <1>6, <3>1, <3>2
      <3> QED BY <3>1, <3>2, <3>3 DEF Written
    <2> QED BY <2>1, <2>2
  <1>15. WritersAreLate' /\ RepliedAreDone'
    BY <1>3, <1>7 DEF WritersAreLate, RepliedAreDone
  <1> QED BY <1>3, <1>8, <1>10, <1>11, <1>12, <1>13, <1>14, <1>15

\* Whatever happens to a form keeps the invariant.
LEMMA FormsStay == FormsInd /\ [FormsNext]_formsVars => FormsInd'
  <1> SUFFICES ASSUME FormsInd, [FormsNext]_formsVars PROVE FormsInd'
    OBVIOUS
  <1>1. CASE UNCHANGED formsVars
    <2>1. FormsTypeOK' /\ OneResponsePerKey' /\ RepliesAreTrue' /\ VisitorsEnterAsAuthorized'
      BY <1>1 DEF formsVars, FormsInd, FormsInv, FormsTypeOK, OneResponsePerKey, RepliesAreTrue,
                  VisitorsEnterAsAuthorized, Written
    <2>2. CallsTyped' /\ PublicationStamped' /\ KeysNameAuthors'
      BY <1>1 DEF formsVars, FormsInd, CallsTyped, PublicationStamped, KeysNameAuthors
    <2>3. LedgerNamesWriters' /\ WritersAreLate' /\ RepliedAreDone'
      BY <1>1 DEF formsVars, FormsInd, LedgerNamesWriters, WritersAreLate, RepliedAreDone, Written
    <2> QED BY <2>1, <2>2, <2>3 DEF FormsInd, FormsInv
  <1>2. CASE Owned /\ \/ \E u \in People : Publish(u)
                      \/ \E u \in People, c \in Columns, list \in SUBSET People : SaveLock(u, c, list)
                      \/ Revoke \/ Expires
    BY <1>2, OwnerKeepsForms
  <1>3. ASSUME NEW t \in Calls,
               \/ Begins(t) \/ Answered(t) \/ Writes(t)
               \/ Advances(t) /\ CreateDraft(t)
               \/ Advances(t) /\ UNCHANGED <<publication, locks, saved>>
        PROVE  FormsInd'
    BY <1>3, BeginningKeepsForms, AnswerKeepsForms, WritingKeepsForms, AdvanceKeepsForms
  <1> QED BY <1>1, <1>2, <1>3, FormsSteps

-----------------------------------------------------------------------------
(* Theorems.                                                                *)

\* The inductive invariant holds in every state of a form.
THEOREM FormsSafe == FormsSpec => []FormsInd
  <1> QED BY FormsStart, FormsStay, PTL DEF FormsSpec

\* One response for each clientRequestId, answers that are true of what was
\* stored, and responses of visitors in the name of the author who let them
\* in, for any number of calls that cross each other.
THEOREM SubmissionsAreSafe == FormsSpec => []FormsInv
  <1>1. FormsInd => FormsInv
    BY DEF FormsInd
  <1> QED BY <1>1, FormsSafe, PTL

\* No visitor's response enters but through the form that is open at that
\* moment and with its capability, whatever the call had read before.
THEOREM OpenFormsOnly == FormsSpec => ClosedFormsAdmitNoVisitor
  <1>1. ASSUME FormsInd, [FormsNext]_formsVars, NEW s \in Calls,
               responses'[s] # responses[s], call[s].by = Visitor
        PROVE  Published /\ publication.key = call[s].key
    <2>1. CASE \E t \in Calls : Writes(t)
      <3>1. PICK t \in Calls : Writes(t)
        BY <2>1
      <3>2. Admitted(t) /\ \A r \in Calls \ {t} : responses'[r] = responses[r]
        BY <3>1 DEF Writes, Write, FormsInd, FormsInv, FormsTypeOK
      <3>3. s = t
        BY <1>1, <3>2
      <3> QED BY <1>1, <3>2, <3>3 DEF Admitted
    <2>2. CASE ~\E t \in Calls : Writes(t)
      <3>1. UNCHANGED responses
        BY <1>1, <2>2, FormsSteps DEF formsVars, Owned, Begins, Answered, Advances
      <3> QED BY <1>1, <3>1
    <2> QED BY <2>1, <2>2
  <1>2. FormsInd /\ [FormsNext]_formsVars =>
          [\A t \in Calls : responses'[t] # responses[t] /\ call[t].by = Visitor =>
              Published /\ publication.key = call[t].key]_formsVars
    BY <1>1
  <1> QED BY <1>2, FormsSafe, PTL DEF FormsSpec, ClosedFormsAdmitNoVisitor

-----------------------------------------------------------------------------
(* PageFlows.                                                              *)

-----------------------------------------------------------------------------
(* The order in which the steps of a list are met.                          *)

NatLess == {ss \in Nat \X Nat : ss[1] < ss[2]}

LEMMA NatWF == IsWellFoundedOn(NatLess, Nat)
  BY NatLessThanWellFounded DEF OpToRel, NatLess

\* Every set of naturals has a least element, and what holds of zero and of
\* every successor holds of all.
LEMMA LeastNat ==
  ASSUME NEW S, S \subseteq Nat, S # {}
  PROVE  \E x \in S : \A y \in S : x <= y
  <1>1. PICK x \in S : \A y \in S : ~ (<<y, x>> \in NatLess)
    BY NatWF, WFMin, Zenon
  <1>2. ASSUME NEW y \in S PROVE x <= y
    <2>1. <<y, x>> \in Nat \X Nat
      OBVIOUS
    <2>2. ~ (y < x)
      BY <1>1, <1>2, <2>1 DEF NatLess
    <2> QED BY <2>2
  <1> QED BY <1>2

LEMMA NatInd ==
  ASSUME NEW S, 0 \in S, \A n \in Nat : n \in S => n + 1 \in S
  PROVE  Nat \subseteq S
  <1> DEFINE B == {n \in Nat : n \notin S}
  <1>1. ASSUME B # {} PROVE FALSE
    <2>1. PICK m \in B : \A y \in B : m <= y
      BY <1>1, LeastNat
    <2>2. m # 0 /\ m - 1 \in Nat
      BY <2>1
    <2>3. m - 1 \in S
      BY <2>1, <2>2
    <2> QED BY <2>1, <2>2, <2>3
  <1> QED BY <1>1

Turn(steps, f, k) == IF k = 0 THEN [met |-> <<>>, left |-> steps] ELSE Meet(f[k - 1])

\* The recursion of Reading has a solution: one turn after the other.
LEMMA ReadingIs ==
  ASSUME NEW steps
  PROVE  Reading(steps) = [k \in 0..MaxNodes |-> Turn(steps, Reading(steps), k)]
  <1> USE FlowsAssumption
  <1> DEFINE D == 0..MaxNodes
             Fn(f) == f = [k \in D |-> f[k]]
             Upto(n, f) == \A k \in D : k <= n => f[k] = Turn(steps, f, k)
             S == {n \in Nat : \E f : Fn(f) /\ Upto(n, f)}
  <1>0. MaxNodes \in Nat
    OBVIOUS
  <1>1. 0 \in S
    <2> DEFINE f == [k \in D |-> [met |-> <<>>, left |-> steps]]
    <2>1. Fn(f)
      OBVIOUS
    <2>2. Upto(0, f)
      BY DEF Turn
    <2> QED BY <2>1, <2>2
  <1>2. ASSUME NEW n \in Nat, n \in S PROVE n + 1 \in S
    <2>1. PICK f : Fn(f) /\ Upto(n, f)
      BY <1>2
    <2> DEFINE g == [k \in D |-> IF k = n + 1 THEN Turn(steps, f, n + 1) ELSE f[k]]
    <2>2. Fn(g)
      OBVIOUS
    <2>3. \A k \in D : g[k] = IF k = n + 1 THEN Turn(steps, f, n + 1) ELSE f[k]
      OBVIOUS
    <2> HIDE DEF g
    <2>4. ASSUME NEW k \in D, k <= n + 1 PROVE Turn(steps, g, k) = Turn(steps, f, k)
      <3>1. CASE k = 0
        BY <3>1 DEF Turn
      <3>2. CASE k # 0
        <4>1. k - 1 \in D /\ k - 1 # n + 1
          BY <2>4, <3>2
        <4>2. g[k - 1] = f[k - 1]
          BY <2>3, <4>1
        <4> QED BY <4>2 DEF Turn
      <3> QED BY <3>1, <3>2
    <2>5. Upto(n + 1, g)
      <3> SUFFICES ASSUME NEW k \in D, k <= n + 1 PROVE g[k] = Turn(steps, g, k)
        OBVIOUS
      <3>1. CASE k = n + 1
        BY <3>1, <2>3, <2>4
      <3>2. CASE k # n + 1
        <4>1. k <= n
          BY <3>2
        <4> QED BY <4>1, <3>2, <2>1, <2>3, <2>4
      <3> QED BY <3>1, <3>2
    <2> QED BY <2>2, <2>5
  <1>3. MaxNodes \in S
    <2> HIDE DEF S
    <2> QED BY <1>0, <1>1, <1>2, NatInd
  <1>4. PICK f : Fn(f) /\ Upto(MaxNodes, f)
    BY <1>3
  <1> DEFINE Eq(g) == g = [k \in D |-> Turn(steps, g, k)]
  <1>5. Eq(f)
    <2>1. \A k \in D : f[k] = Turn(steps, f, k)
      BY <1>0, <1>4
    <2> HIDE DEF D
    <2> QED BY <1>4, <2>1
  <1>6. Reading(steps) = CHOOSE g : Eq(g)
    BY DEF Reading, Turn
  <1> HIDE DEF Eq
  <1>7. Eq(Reading(steps))
    BY <1>5, <1>6
  <1> QED BY <1>7 DEF Eq
Kin(n) == n.yes \o n.no

\* What has been met, and what is left, are nodes; and while something is left
\* every turn meets one more.
ReadUpto(T, k) ==
    /\ T[k].met \in Seq(Nodes) /\ T[k].left \in Seq(Nodes)
    /\ Len(T[k].met) <= k
    /\ T[k].left # <<>> => Len(T[k].met) = k

LEMMA NodesHaveSteps ==
  ASSUME NEW n \in Nodes
  PROVE  n.yes \in Seq(Nodes) /\ n.no \in Seq(Nodes)
  BY FlowsAssumption

LEMMA Turning ==
  ASSUME NEW steps, NEW k \in 1..MaxNodes
  PROVE  Reading(steps)[k] = Meet(Reading(steps)[k - 1])
  <1>0. MaxNodes \in Nat /\ k \in 0..MaxNodes /\ k # 0
    BY FlowsAssumption
  <1> DEFINE T == Reading(steps)
  <1>1. T = [j \in 0..MaxNodes |-> Turn(steps, T, j)]
    BY ReadingIs, Zenon
  <1> HIDE DEF T
  <1>2. T[k] = Turn(steps, T, k)
    BY <1>0, <1>1
  <1>3. T[k] = Meet(T[k - 1])
    BY <1>0, <1>2 DEF Turn
  <1> QED BY <1>3 DEF T

LEMMA FirstTurn ==
  ASSUME NEW steps
  PROVE  Reading(steps)[0] = [met |-> <<>>, left |-> steps]
  <1>0. 0 \in 0..MaxNodes
    BY FlowsAssumption
  <1> DEFINE T == Reading(steps)
  <1>1. T = [j \in 0..MaxNodes |-> Turn(steps, T, j)]
    BY ReadingIs, Zenon
  <1> HIDE DEF T
  <1>2. T[0] = Turn(steps, T, 0)
    BY <1>0, <1>1
  <1>3. T[0] = [met |-> <<>>, left |-> steps]
    BY <1>2 DEF Turn
  <1> QED BY <1>3 DEF T

LEMMA ReadingTypes ==
  ASSUME NEW steps \in Seq(Nodes), NEW k \in 0..MaxNodes
  PROVE  ReadUpto(Reading(steps), k)
  <1> DEFINE T == Reading(steps)
             S == {n \in Nat : n <= MaxNodes => ReadUpto(T, n)}
  <1>0. MaxNodes \in Nat
    BY FlowsAssumption
  <1>1. 0 \in S
    <2>1. T[0] = [met |-> <<>>, left |-> steps]
      BY FirstTurn
    <2> HIDE DEF T
    <2>2. ReadUpto(T, 0)
      BY <2>1 DEF ReadUpto
    <2> QED BY <2>2
  <1>2. ASSUME NEW n \in Nat, n \in S PROVE n + 1 \in S
    <2> SUFFICES ASSUME n + 1 <= MaxNodes PROVE ReadUpto(T, n + 1)
      OBVIOUS
    <2>0. n + 1 \in 1..MaxNodes /\ (n + 1) - 1 = n
      BY <1>0
    <2>1. T[n + 1] = Meet(T[n])
      <3>1. T[n + 1] = Meet(T[(n + 1) - 1])
        BY <2>0, Turning, Zenon
      <3> QED BY <2>0, <3>1
    <2>2. ReadUpto(T, n)
      BY <1>0, <1>2
    <2> HIDE DEF T
    <2> DEFINE b == T[n]
    <2>3. b.met \in Seq(Nodes) /\ b.left \in Seq(Nodes) /\ Len(b.met) <= n
          /\ (b.left # <<>> => Len(b.met) = n)
      BY <2>2 DEF ReadUpto
    <2>4. T[n + 1] = Meet(b)
      BY <2>1
    <2> HIDE DEF b
    <2>5. CASE b.left = <<>>
      <3>1. T[n + 1] = b
        BY <2>4, <2>5 DEF Meet
      <3>2. T[n + 1].left = <<>>
        BY <2>5, <3>1
      <3>3. T[n + 1].met \in Seq(Nodes) /\ T[n + 1].left \in Seq(Nodes) /\ Len(T[n + 1].met) <= n
        BY <2>3, <3>1
      <3>4. Len(T[n + 1].met) <= n + 1
        BY <3>3
      <3> QED BY <3>2, <3>3, <3>4 DEF ReadUpto
    <2>6. CASE b.left # <<>>
      <3>1. Head(b.left) \in Nodes /\ Tail(b.left) \in Seq(Nodes)
        BY <2>3, <2>6
      <3>2. Head(b.left).yes \in Seq(Nodes) /\ Head(b.left).no \in Seq(Nodes)
        BY <3>1, NodesHaveSteps
      <3>3. T[n + 1] = [met |-> Append(b.met, Head(b.left)),
                        left |-> Head(b.left).yes \o Head(b.left).no \o Tail(b.left)]
        BY <2>4, <2>6 DEF Meet
      <3>4. Append(b.met, Head(b.left)) \in Seq(Nodes) /\ Len(Append(b.met, Head(b.left))) = n + 1
        BY <2>3, <2>6, <3>1
      <3>5. Head(b.left).yes \o Head(b.left).no \o Tail(b.left) \in Seq(Nodes)
        BY <3>1, <3>2
      <3> QED BY <3>3, <3>4, <3>5 DEF ReadUpto
    <2> QED BY <2>5, <2>6
  <1>3. k \in S
    <2> HIDE DEF S
    <2>1. k \in Nat
      BY <1>0
    <2> QED BY <1>1, <1>2, <2>1, NatInd
  <1> QED BY <1>0, <1>3
\* Once nothing is left nothing changes, and what was met stays met.
LEMMA NothingLeft ==
  ASSUME NEW steps \in Seq(Nodes), NEW k \in 0..MaxNodes, Reading(steps)[k].left = <<>>,
         NEW m \in k..MaxNodes
  PROVE  Reading(steps)[m] = Reading(steps)[k]
  <1> DEFINE T == Reading(steps)
             S == {n \in Nat : k <= n /\ n <= MaxNodes => T[n] = T[k]}
  <1>0. MaxNodes \in Nat /\ k \in Nat /\ k <= MaxNodes /\ m \in Nat /\ k <= m /\ m <= MaxNodes
    BY FlowsAssumption
  <1>1. 0 \in S
    BY <1>0
  <1>2. ASSUME NEW n \in Nat, n \in S PROVE n + 1 \in S
    <2> SUFFICES ASSUME k <= n + 1, n + 1 <= MaxNodes PROVE T[n + 1] = T[k]
      OBVIOUS
    <2>1. CASE k = n + 1
      BY <2>1
    <2>2. CASE k # n + 1
      <3>1. n + 1 \in 1..MaxNodes /\ (n + 1) - 1 = n /\ k <= n
        BY <1>0, <2>2
      <3>2. T[n + 1] = Meet(T[(n + 1) - 1])
        BY <3>1, Turning, Zenon
      <3>3. T[n] = T[k]
        BY <1>0, <1>2, <3>1
      <3>4. T[k].left = <<>>
        OBVIOUS
      <3> HIDE DEF T
      <3>5. Meet(T[k]) = T[k]
        BY <3>4 DEF Meet
      <3> QED BY <3>1, <3>2, <3>3, <3>5
    <2> QED BY <2>1, <2>2
  <1>3. m \in S
    <2> HIDE DEF S
    <2> QED BY <1>0, <1>1, <1>2, NatInd
  <1> QED BY <1>0, <1>3

Extends(s, t) == Len(s) <= Len(t) /\ \A j \in 1..Len(s) : s[j] = t[j]

LEMMA MetStays ==
  ASSUME NEW steps \in Seq(Nodes), NEW k \in 0..MaxNodes, NEW m \in k..MaxNodes
  PROVE  Extends(Reading(steps)[k].met, Reading(steps)[m].met)
  <1> DEFINE T == Reading(steps)
             S == {n \in Nat : k <= n /\ n <= MaxNodes => Extends(T[k].met, T[n].met)}
  <1>0. MaxNodes \in Nat /\ k \in Nat /\ k <= MaxNodes /\ m \in Nat /\ k <= m /\ m <= MaxNodes
    BY FlowsAssumption
  <1>00. \A n \in 0..MaxNodes : ReadUpto(T, n)
    BY ReadingTypes
  <1>01. Extends(T[k].met, T[k].met)
    <2>1. T[k].met \in Seq(Nodes)
      BY <1>00 DEF ReadUpto
    <2> HIDE DEF T
    <2> QED BY <2>1 DEF Extends
  <1>1. 0 \in S
    <2>1. k <= 0 => k = 0
      BY <1>0
    <2> QED BY <1>01, <2>1
  <1>2. ASSUME NEW n \in Nat, n \in S PROVE n + 1 \in S
    <2> SUFFICES ASSUME k <= n + 1, n + 1 <= MaxNodes PROVE Extends(T[k].met, T[n + 1].met)
      OBVIOUS
    <2>1. CASE k = n + 1
      BY <2>1, <1>01
    <2>2. CASE k # n + 1
      <3>1. n + 1 \in 1..MaxNodes /\ (n + 1) - 1 = n /\ k <= n /\ n \in 0..MaxNodes
        BY <1>0, <2>2
      <3>2. T[n + 1] = Meet(T[n])
        <4>1. T[n + 1] = Meet(T[(n + 1) - 1])
          BY <3>1, Turning, Zenon
        <4> QED BY <3>1, <4>1
      <3>3. Extends(T[k].met, T[n].met)
        BY <1>0, <1>2, <3>1
      <3>4. T[k].met \in Seq(Nodes) /\ T[n].met \in Seq(Nodes) /\ T[n].left \in Seq(Nodes)
        BY <1>00, <3>1 DEF ReadUpto
      <3> HIDE DEF T
      <3>5. CASE T[n].left = <<>>
        BY <3>2, <3>3, <3>5 DEF Meet
      <3>6. CASE T[n].left # <<>>
        <4> DEFINE a == T[n].met  h == Head(T[n].left)
        <4>1. T[n + 1].met = Append(a, h)
          BY <3>2, <3>6 DEF Meet
        <4>2. h \in Nodes /\ a \in Seq(Nodes)
          BY <3>4, <3>6
        <4>3. Len(Append(a, h)) = Len(a) + 1 /\ \A j \in 1..Len(a) : Append(a, h)[j] = a[j]
          BY <4>2
        <4>4. Extends(T[k].met, a)
          BY <3>3
        <4> HIDE DEF a, h
        <4> QED BY <4>1, <4>2, <4>3, <4>4, <3>4 DEF Extends
      <3> QED BY <3>5, <3>6
    <2> QED BY <2>1, <2>2
  <1>3. m \in S
    <2> HIDE DEF S
    <2> QED BY <1>0, <1>1, <1>2, NatInd
  <1> QED BY <1>0, <1>3

\* A list that was read to its end: L says what was left after each step.
IsReading(steps, P, L) ==
    /\ P \in Seq(Nodes) /\ L \in [0..Len(P) -> Seq(Nodes)]
    /\ L[0] = steps /\ L[Len(P)] = <<>>
    /\ \A k \in 0..Len(P) - 1 :
          /\ L[k] # <<>> /\ P[k + 1] = Head(L[k])
          /\ L[k + 1] = P[k + 1].yes \o P[k + 1].no \o Tail(L[k])

LEMMA ReadToEnd ==
  ASSUME NEW steps \in Seq(Nodes), Reading(steps)[MaxNodes].left = <<>>
  PROVE  \E L : IsReading(steps, StepsOf(steps), L)
  <1> DEFINE T == Reading(steps)  P == StepsOf(steps)  N == Len(P)
  <1>0. MaxNodes \in Nat /\ MaxNodes \in 0..MaxNodes
    BY FlowsAssumption
  <1>1. P = T[MaxNodes].met
    BY DEF StepsOf
  <1>2. \A n \in 0..MaxNodes : ReadUpto(T, n)
    BY ReadingTypes
  <1>3. P \in Seq(Nodes) /\ N \in Nat /\ N <= MaxNodes
    <2>1. T[MaxNodes].met \in Seq(Nodes) /\ Len(T[MaxNodes].met) <= MaxNodes
      BY <1>0, <1>2 DEF ReadUpto
    <2> HIDE DEF T
    <2> QED BY <1>1, <2>1
  <1>4. T[0] = [met |-> <<>>, left |-> steps]
    BY FirstTurn
  <1>5. \A k \in 0..MaxNodes : T[k].left = <<>> => T[MaxNodes] = T[k]
    <2> TAKE k \in 0..MaxNodes
    <2>1. MaxNodes \in k..MaxNodes
      BY <1>0
    <2> QED BY <2>1, NothingLeft
  <1>6. \A k \in 0..MaxNodes : Extends(T[k].met, P)
    <2> TAKE k \in 0..MaxNodes
    <2>1. MaxNodes \in k..MaxNodes
      BY <1>0
    <2> QED BY <1>1, <2>1, MetStays
  <1>7. \A k \in 0..MaxNodes - 1 : T[k + 1] = Meet(T[k])
    <2> TAKE k \in 0..MaxNodes - 1
    <2>1. k + 1 \in 1..MaxNodes /\ (k + 1) - 1 = k
      BY <1>0
    <2>2. T[k + 1] = Meet(T[(k + 1) - 1])
      BY <2>1, Turning, Zenon
    <2> QED BY <2>1, <2>2
  <1>8. T[MaxNodes].left = <<>>
    OBVIOUS
  <1>m. \A k \in 0..MaxNodes : T[k].met \in Seq(Nodes) /\ T[k].left \in Seq(Nodes) /\ Len(T[k].met) <= k
              /\ (T[k].left # <<>> => Len(T[k].met) = k)
    BY <1>2 DEF ReadUpto
  <1> HIDE DEF T, P
  <1>9. ASSUME NEW k \in 0..N - 1
        PROVE  /\ k \in 0..MaxNodes - 1
               /\ T[k].left # <<>> /\ P[k + 1] = Head(T[k].left)
               /\ T[k + 1].left = P[k + 1].yes \o P[k + 1].no \o Tail(T[k].left)
    <2>0. k \in 0..MaxNodes /\ k \in 0..MaxNodes - 1 /\ k + 1 \in 0..MaxNodes /\ k < N /\ k \in Nat
      BY <1>0, <1>3
    <2>1. T[k].left # <<>>
      <3>1. ASSUME T[k].left = <<>> PROVE FALSE
        <4>1. T[MaxNodes] = T[k]
          BY <1>5, <2>0, <3>1
        <4>2. Len(T[k].met) <= k
          BY <1>m, <2>0
        <4> QED BY <1>1, <1>3, <2>0, <4>1, <4>2
      <3> QED BY <3>1
    <2>2. Len(T[k].met) = k /\ T[k].met \in Seq(Nodes) /\ T[k].left \in Seq(Nodes)
      BY <1>m, <2>0, <2>1
    <2>3. T[k + 1] = Meet(T[k])
      BY <1>7, <2>0
    <2> DEFINE a == T[k].met  h == Head(T[k].left)
    <2>4. T[k + 1] = [met |-> Append(a, h), left |-> h.yes \o h.no \o Tail(T[k].left)]
      BY <2>1, <2>3 DEF Meet
    <2>5. h \in Nodes
      BY <2>1, <2>2
    <2>6. Len(a) = k /\ a \in Seq(Nodes)
      BY <2>2
    <2>7. T[k + 1].met = Append(a, h) /\ T[k + 1].left = h.yes \o h.no \o Tail(T[k].left)
      <3> DEFINE l == h.yes \o h.no \o Tail(T[k].left)  b == Append(a, h)
      <3>1. T[k + 1] = [met |-> b, left |-> l]
        BY <2>4
      <3> HIDE DEF a, h, l, b
      <3>2. T[k + 1].met = b /\ T[k + 1].left = l
        BY <3>1
      <3> QED BY <3>2 DEF l, b
    <2> HIDE DEF a, h
    <2>8. Extends(T[k + 1].met, P)
      BY <1>6, <2>0
    <2>9. P[k + 1] = h
      <3>1. Len(Append(a, h)) = k + 1 /\ Append(a, h)[k + 1] = h
        BY <2>5, <2>6
      <3> QED BY <2>0, <2>7, <2>8, <3>1 DEF Extends
    <2> QED BY <2>0, <2>1, <2>7, <2>9 DEF h
  <1>10. T[N].left = <<>>
    <2> SUFFICES ASSUME T[N].left # <<>> PROVE FALSE
      OBVIOUS
    <2>0. N \in 0..MaxNodes
      BY <1>0, <1>3
    <2>1. N # MaxNodes
      BY <1>8
    <2>2. N \in 0..MaxNodes - 1 /\ N + 1 \in 0..MaxNodes
      BY <1>0, <1>3, <2>1
    <2>3. T[N + 1] = Meet(T[N])
      BY <1>7, <2>2
    <2>4. Len(T[N].met) = N /\ T[N].met \in Seq(Nodes) /\ T[N].left \in Seq(Nodes)
      BY <1>m, <2>0
    <2>5. T[N + 1].met = Append(T[N].met, Head(T[N].left))
      BY <2>3 DEF Meet
    <2>6. Len(T[N + 1].met) = N + 1
      <3>1. Head(T[N].left) \in Nodes
        BY <2>4
      <3> QED BY <2>4, <2>5, <3>1
    <2>7. Extends(T[N + 1].met, P)
      BY <1>6, <2>2
    <2> QED BY <1>3, <2>6, <2>7 DEF Extends
  <1> DEFINE L == [k \in 0..N |-> T[k].left]
  <1>11. L \in [0..N -> Seq(Nodes)]
    <2>1. \A k \in 0..N : k \in 0..MaxNodes
      BY <1>0, <1>3
    <2> QED BY <1>m, <2>1
  <1>12. L[0] = steps /\ L[N] = <<>>
    <2>1. 0 \in 0..N /\ N \in 0..N
      BY <1>3
    <2> QED BY <1>4, <1>10, <2>1
  <1>13. \A k \in 0..N - 1 : L[k] = T[k].left /\ L[k + 1] = T[k + 1].left
    BY <1>3
  <1> HIDE DEF L
  <1>14. IsReading(steps, P, L)
    BY <1>3, <1>9, <1>11, <1>12, <1>13 DEF IsReading
  <1> QED BY <1>14 DEF P
-----------------------------------------------------------------------------
(* Places of steps in that order.                                           *)

Apart(P) == \A a, b \in 1..Len(P) : P[a].id = P[b].id => a = b

\* Where the steps of a list b are, and which are left after k steps.
At(P, b) == {i \in 1..Len(P) : \E j \in 1..Len(b) : b[j] = P[i]}

LEMMA TwoLists ==
  ASSUME NEW S, NEW a \in Seq(S), NEW b \in Seq(S)
  PROVE  /\ a \o b \in Seq(S) /\ Len(a \o b) = Len(a) + Len(b)
         /\ \A j \in 1..Len(a) : (a \o b)[j] = a[j]
         /\ \A j \in 1..Len(b) : (a \o b)[Len(a) + j] = b[j]
  OBVIOUS

LEMMA ThreeLists ==
  ASSUME NEW S, NEW a \in Seq(S), NEW b \in Seq(S), NEW c \in Seq(S)
  PROVE  /\ a \o b \o c \in Seq(S)
         /\ Len(a \o b \o c) = Len(a) + Len(b) + Len(c)
         /\ \A j \in 1..Len(a) : (a \o b \o c)[j] = a[j]
         /\ \A j \in 1..Len(b) : (a \o b \o c)[Len(a) + j] = b[j]
         /\ \A j \in 1..Len(c) : (a \o b \o c)[Len(a) + Len(b) + j] = c[j]
  <1> DEFINE d == a \o b
  <1>1. d \in Seq(S) /\ Len(d) = Len(a) + Len(b)
        /\ (\A j \in 1..Len(a) : d[j] = a[j]) /\ \A j \in 1..Len(b) : d[Len(a) + j] = b[j]
    BY TwoLists
  <1> HIDE DEF d
  <1>2. d \o c \in Seq(S) /\ Len(d \o c) = Len(d) + Len(c)
        /\ (\A j \in 1..Len(d) : (d \o c)[j] = d[j]) /\ \A j \in 1..Len(c) : (d \o c)[Len(d) + j] = c[j]
    <2>1. d \in Seq(S)
      BY <1>1
    <2>2. d \o c \in Seq(S) /\ Len(d \o c) = Len(d) + Len(c)
      BY <2>1, TwoLists
    <2>3. \A j \in 1..Len(d) : (d \o c)[j] = d[j]
      BY <2>1, TwoLists
    <2>4. \A j \in 1..Len(c) : (d \o c)[Len(d) + j] = c[j]
      BY <2>1, TwoLists
    <2> QED BY <2>2, <2>3, <2>4
  <1>3. \A j \in 1..Len(a) : j \in 1..Len(d)
    <2>1. Len(a) \in Nat /\ Len(b) \in Nat
      OBVIOUS
    <2> QED BY <1>1, <2>1
  <1>4. \A j \in 1..Len(b) : Len(a) + j \in 1..Len(d)
    <2>1. Len(a) \in Nat /\ Len(b) \in Nat
      OBVIOUS
    <2> QED BY <1>1, <2>1
  <1>5. a \o b \o c = d \o c
    BY DEF d
  <1>6. \A j \in 1..Len(b) : (d \o c)[Len(a) + j] = b[j]
    BY <1>1, <1>2, <1>4
  <1>7. \A j \in 1..Len(a) : (d \o c)[j] = a[j]
    BY <1>1, <1>2, <1>3
  <1> QED BY <1>1, <1>2, <1>5, <1>6, <1>7

LEMMA TailOf ==
  ASSUME NEW S, NEW s \in Seq(S), s # <<>>
  PROVE  /\ Tail(s) \in Seq(S) /\ Len(Tail(s)) = Len(s) - 1 /\ Len(s) >= 1
         /\ \A j \in 1..Len(s) - 1 : Tail(s)[j] = s[j + 1]
         /\ Head(s) = s[1] /\ s[1] \in S
  OBVIOUS

\* One step of a reading, element by element.
StepsOn(P, L, k) ==
    LET y == Len(P[k + 1].yes)  n == Len(P[k + 1].no) IN
    /\ y \in Nat /\ n \in Nat /\ Len(L[k]) \in Nat /\ Len(L[k]) >= 1
    /\ L[k] \in Seq(Nodes) /\ L[k + 1] \in Seq(Nodes) /\ P[k + 1] \in Nodes
    /\ P[k + 1].yes \in Seq(Nodes) /\ P[k + 1].no \in Seq(Nodes)
    /\ L[k][1] = P[k + 1]
    /\ Len(L[k + 1]) = y + n + Len(L[k]) - 1
    /\ \A j \in 1..y : L[k + 1][j] = P[k + 1].yes[j]
    /\ \A j \in 1..n : L[k + 1][y + j] = P[k + 1].no[j]
    /\ \A j \in 2..Len(L[k]) : L[k + 1][y + n + j - 1] = L[k][j]

LEMMA ReadingStep ==
  ASSUME NEW steps, NEW P, NEW L, IsReading(steps, P, L), NEW k \in 0..Len(P) - 1
  PROVE  StepsOn(P, L, k)
  <1>1. Len(P) \in Nat /\ k \in 0..Len(P) /\ k + 1 \in 0..Len(P) /\ k + 1 \in 1..Len(P)
    BY DEF IsReading
  <1>2. L[k] \in Seq(Nodes) /\ L[k + 1] \in Seq(Nodes) /\ P[k + 1] \in Nodes
    BY <1>1 DEF IsReading
  <1>3. /\ L[k] # <<>> /\ P[k + 1] = Head(L[k])
        /\ L[k + 1] = P[k + 1].yes \o P[k + 1].no \o Tail(L[k])
    BY DEF IsReading
  <1> DEFINE a == P[k + 1].yes  b == P[k + 1].no  c == Tail(L[k])
  <1>4. a \in Seq(Nodes) /\ b \in Seq(Nodes)
    BY <1>2, NodesHaveSteps
  <1>5. c \in Seq(Nodes) /\ Len(c) = Len(L[k]) - 1 /\ Len(L[k]) >= 1
        /\ (\A j \in 1..Len(L[k]) - 1 : c[j] = L[k][j + 1]) /\ Head(L[k]) = L[k][1]
    BY <1>2, <1>3, TailOf
  <1>6. L[k + 1] = a \o b \o c
    BY <1>3
  <1> HIDE DEF a, b, c
  <1>7. /\ Len(L[k + 1]) = Len(a) + Len(b) + Len(c)
        /\ \A j \in 1..Len(a) : L[k + 1][j] = a[j]
        /\ \A j \in 1..Len(b) : L[k + 1][Len(a) + j] = b[j]
        /\ \A j \in 1..Len(c) : L[k + 1][Len(a) + Len(b) + j] = c[j]
    <2>1. a \in Seq(Nodes) /\ b \in Seq(Nodes) /\ c \in Seq(Nodes)
      BY <1>4, <1>5
    <2>2. /\ Len(a \o b \o c) = Len(a) + Len(b) + Len(c)
          /\ \A j \in 1..Len(a) : (a \o b \o c)[j] = a[j]
          /\ \A j \in 1..Len(b) : (a \o b \o c)[Len(a) + j] = b[j]
          /\ \A j \in 1..Len(c) : (a \o b \o c)[Len(a) + Len(b) + j] = c[j]
      BY <2>1, ThreeLists
    <2> QED BY <1>6, <2>2, Zenon
  <1>8. Len(a) \in Nat /\ Len(b) \in Nat /\ Len(L[k]) \in Nat
    BY <1>2, <1>4
  <1>9. ASSUME NEW j \in 2..Len(L[k]) PROVE L[k + 1][Len(a) + Len(b) + j - 1] = L[k][j]
    <2>1. j - 1 \in 1..Len(c) /\ j - 1 \in 1..Len(L[k]) - 1 /\ (j - 1) + 1 = j
          /\ Len(a) + Len(b) + (j - 1) = Len(a) + Len(b) + j - 1
      BY <1>5, <1>8
    <2>2. c[j - 1] = L[k][j]
      BY <1>5, <2>1
    <2> QED BY <1>7, <2>1, <2>2
  <1>10. Len(L[k + 1]) = Len(a) + Len(b) + Len(L[k]) - 1
    BY <1>5, <1>7, <1>8
  <1> QED BY <1>2, <1>3, <1>4, <1>5, <1>7, <1>8, <1>9, <1>10 DEF a, b, StepsOn
\* What is left after k steps is met later, in the order of the list.
MetInOrder(P, L, k) ==
    /\ \A j \in 1..Len(L[k]) : \E i \in k + 1..Len(P) : L[k][j] = P[i]
    /\ \A j, m \in 1..Len(L[k]), i, h \in 1..Len(P) :
          j < m /\ L[k][j] = P[i] /\ L[k][m] = P[h] => i < h

LEMMA LeftInOrder ==
  ASSUME NEW steps, NEW P, NEW L, IsReading(steps, P, L), Apart(P), NEW k \in 0..Len(P)
  PROVE  MetInOrder(P, L, k)
  <1> DEFINE N == Len(P)
             S == {m \in Nat : m <= N => MetInOrder(P, L, N - m)}
  <1>0. N \in Nat /\ P \in Seq(Nodes)
    BY DEF IsReading
  <1>a. \A a, b \in 1..N : P[a] = P[b] => a = b
    BY DEF Apart
  <1> HIDE DEF N
  <1>1. 0 \in S
    <2>1. L[N] = <<>> /\ N - 0 = N
      BY <1>0 DEF IsReading, N
    <2>2. Len(L[N]) = 0
      BY <2>1
    <2>3. MetInOrder(P, L, N)
      BY <2>2 DEF MetInOrder
    <2> QED BY <2>1, <2>3
  <1>2. ASSUME NEW m \in Nat, m \in S PROVE m + 1 \in S
    <2> SUFFICES ASSUME m + 1 <= N PROVE MetInOrder(P, L, N - (m + 1))
      OBVIOUS
    <2> DEFINE q == N - (m + 1)
    <2>1. q \in 0..N - 1 /\ q + 1 = N - m /\ m <= N /\ q + 1 \in 1..N
      BY <1>0
    <2>2. MetInOrder(P, L, q + 1)
      BY <1>2, <2>1
    <2> HIDE DEF q
    <2> DEFINE y == Len(P[q + 1].yes)  n == Len(P[q + 1].no)  c == y + n
    <2>3. /\ y \in Nat /\ n \in Nat /\ Len(L[q]) \in Nat /\ L[q][1] = P[q + 1]
          /\ Len(L[q + 1]) = y + n + Len(L[q]) - 1
          /\ \A j \in 2..Len(L[q]) : L[q + 1][y + n + j - 1] = L[q][j]
      <3>1. q \in 0..Len(P) - 1
        BY <2>1 DEF N
      <3>2. StepsOn(P, L, q)
        BY <3>1, ReadingStep
      <3> QED BY <3>2 DEF StepsOn
    <2> HIDE DEF y, n
    <2>4. \A j \in 2..Len(L[q]) : y + n + j - 1 \in 1..Len(L[q + 1]) /\ L[q + 1][y + n + j - 1] = L[q][j]
      BY <2>3
    <2>5. \A j \in 2..Len(L[q]) : \E i \in q + 2..N : L[q][j] = P[i]
      <3> TAKE j \in 2..Len(L[q])
      <3>1. PICK i \in (q + 1) + 1..Len(P) : L[q + 1][y + n + j - 1] = P[i]
        BY <2>2, <2>4 DEF MetInOrder
      <3>2. i \in q + 2..N
        BY <3>1, <2>1, <1>0 DEF N
      <3> QED BY <3>1, <3>2, <2>4
    <2>6. ASSUME NEW j \in 1..Len(L[q]) PROVE \E i \in q + 1..N : L[q][j] = P[i]
      <3>1. CASE j = 1
        <4>1. q + 1 \in q + 1..N
          BY <1>0, <2>1
        <4> QED BY <3>1, <4>1, <2>3
      <3>2. CASE j # 1
        <4>1. j \in 2..Len(L[q])
          BY <3>2, <2>3
        <4>2. PICK i \in q + 2..N : L[q][j] = P[i]
          BY <4>1, <2>5
        <4>3. i \in q + 1..N
          BY <1>0, <2>1
        <4> QED BY <4>2, <4>3
      <3> QED BY <3>1, <3>2
    <2>7. ASSUME NEW j \in 1..Len(L[q]), NEW g \in 1..Len(L[q]), NEW i \in 1..N, NEW h \in 1..N,
                 j < g, L[q][j] = P[i], L[q][g] = P[h]
          PROVE  i < h
      <3>0. g \in 2..Len(L[q])
        BY <2>3, <2>7
      <3>1. CASE j = 1
        <4>1. i = q + 1
          BY <1>a, <2>1, <2>3, <2>7, <3>1
        <4>2. PICK e \in q + 2..N : L[q][g] = P[e]
          BY <2>5, <3>0
        <4>3. e = h /\ e \in 1..N
          <5>1. e \in 1..N
            BY <1>0, <2>1
          <5> QED BY <1>a, <2>7, <4>2, <5>1
        <4> QED BY <4>1, <4>2, <4>3, <1>0, <2>1
      <3>2. CASE j # 1
        <4>1. j \in 2..Len(L[q])
          BY <3>2, <2>3
        <4> DEFINE a == y + n + j - 1  b == y + n + g - 1
        <4>2. a \in 1..Len(L[q + 1]) /\ b \in 1..Len(L[q + 1]) /\ L[q + 1][a] = P[i] /\ L[q + 1][b] = P[h]
          BY <2>4, <2>7, <3>0, <4>1
        <4>3. a < b
          BY <2>3, <2>7, <3>0, <4>1
        <4> HIDE DEF a, b
        <4> QED BY <2>2, <4>2, <4>3 DEF MetInOrder, N
      <3> QED BY <3>1, <3>2
    <2>8. MetInOrder(P, L, q)
      BY <2>6, <2>7 DEF MetInOrder, N
    <2> QED BY <2>8 DEF q
  <1>3. N - k \in S
    <2> HIDE DEF S
    <2>1. N - k \in Nat
      BY <1>0 DEF N
    <2> QED BY <1>1, <1>2, <2>1, NatInd
  <1>4. N - (N - k) = k /\ N - k <= N
    BY <1>0 DEF N
  <1> QED BY <1>3, <1>4

LeftAt(P, L, k) == At(P, L[k])
KidsAt(P, s)    == At(P, P[s].yes) \cup At(P, P[s].no)

\* What is left stays left until it is met.
LEMMA StaysLeft ==
  ASSUME NEW steps, NEW P, NEW L, IsReading(steps, P, L), Apart(P),
         NEW k \in 0..Len(P), NEW i \in LeftAt(P, L, k), NEW m \in k..Len(P), m < i
  PROVE  i \in LeftAt(P, L, m)
  <1> DEFINE S == {n \in Nat : k <= n /\ n < i => i \in LeftAt(P, L, n)}
  <1>0. Len(P) \in Nat /\ P \in Seq(Nodes) /\ i \in 1..Len(P) /\ k \in Nat /\ m \in Nat /\ k <= m
    BY DEF IsReading, LeftAt, At
  <1>1. 0 \in S
    BY <1>0
  <1>2. ASSUME NEW n \in Nat, n \in S PROVE n + 1 \in S
    <2> SUFFICES ASSUME k <= n + 1, n + 1 < i PROVE i \in LeftAt(P, L, n + 1)
      OBVIOUS
    <2>1. CASE k = n + 1
      BY <2>1
    <2>2. CASE k # n + 1
      <3>1. k <= n /\ n < i /\ n \in 0..Len(P) - 1 /\ n + 1 \in 1..Len(P) /\ i # n + 1
        BY <1>0, <2>2
      <3>2. i \in LeftAt(P, L, n)
        BY <1>2, <3>1
      <3>3. PICK j \in 1..Len(L[n]) : L[n][j] = P[i]
        BY <3>2 DEF LeftAt, At
      <3> DEFINE y == Len(P[n + 1].yes)  e == Len(P[n + 1].no)
      <3>4. /\ y \in Nat /\ e \in Nat /\ Len(L[n]) \in Nat /\ L[n][1] = P[n + 1]
            /\ Len(L[n + 1]) = y + e + Len(L[n]) - 1
            /\ \A g \in 2..Len(L[n]) : L[n + 1][y + e + g - 1] = L[n][g]
        <4>1. StepsOn(P, L, n)
          BY <3>1, ReadingStep
        <4> QED BY <4>1 DEF StepsOn
      <3> HIDE DEF y, e
      <3>5. j # 1
        BY <1>0, <3>1, <3>3, <3>4 DEF Apart
      <3>6. j \in 2..Len(L[n])
        BY <3>3, <3>4, <3>5
      <3>7. y + e + j - 1 \in 1..Len(L[n + 1]) /\ L[n + 1][y + e + j - 1] = P[i]
        BY <3>3, <3>4, <3>6
      <3> QED BY <1>0, <3>7 DEF LeftAt, At
    <2> QED BY <2>1, <2>2
  <1>3. m \in S
    <2> HIDE DEF S
    <2> QED BY <1>0, <1>1, <1>2, NatInd
  <1> QED BY <1>0, <1>3
\* The order of the branches of a step among all steps, as needed below.
BranchesInOrder(P, L, s) ==
    /\ \A b \in {P[s].yes, P[s].no} :
          /\ b \in Seq(Nodes)
          /\ \A j \in 1..Len(b) : \E i \in s + 1..Len(P) : b[j] = P[i] /\ i \in LeftAt(P, L, s)
          /\ \A j, m \in 1..Len(b), i, h \in 1..Len(P) : j < m /\ b[j] = P[i] /\ b[m] = P[h] => i < h
    /\ At(P, P[s].yes) \cap At(P, P[s].no) = {}
    /\ \A i \in KidsAt(P, s) : i \in LeftAt(P, L, s) /\ s < i
    /\ \A i \in KidsAt(P, s), h \in LeftAt(P, L, s - 1) : h # s => i < h

LEMMA LeftIsLater ==
  ASSUME NEW steps, NEW P, NEW L, IsReading(steps, P, L), Apart(P),
         NEW k \in 0..Len(P), NEW i \in LeftAt(P, L, k)
  PROVE  k < i
  <1>0. Len(P) \in Nat /\ i \in 1..Len(P)
    BY DEF IsReading, LeftAt, At
  <1>1. PICK j \in 1..Len(L[k]) : L[k][j] = P[i]
    BY DEF LeftAt, At
  <1>2. MetInOrder(P, L, k)
    BY LeftInOrder
  <1>3. PICK h \in k + 1..Len(P) : L[k][j] = P[h]
    BY <1>2 DEF MetInOrder
  <1>4. h = i
    <2>1. h \in 1..Len(P)
      BY <1>0, <1>3
    <2> QED BY <1>0, <1>1, <1>3, <2>1 DEF Apart
  <1> QED BY <1>3, <1>4

LEMMA Branching ==
  ASSUME NEW steps, NEW P, NEW L, IsReading(steps, P, L), Apart(P), NEW s \in 1..Len(P)
  PROVE  BranchesInOrder(P, L, s)
  <1>0. Len(P) \in Nat /\ s \in Nat /\ s - 1 \in 0..Len(P) - 1 /\ (s - 1) + 1 = s /\ s \in 0..Len(P)
        /\ s - 1 \in 0..Len(P)
    BY DEF IsReading
  <1>1. \A a, b \in 1..Len(P) : P[a] = P[b] => a = b
    BY DEF Apart
  <1>2. MetInOrder(P, L, s)
    BY <1>0, LeftInOrder
  <1>3. StepsOn(P, L, s - 1)
    BY <1>0, ReadingStep
  <1> DEFINE a == P[s].yes  b == P[s].no  A == Len(a)  B == Len(b)
  <1>4. /\ A \in Nat /\ B \in Nat /\ a \in Seq(Nodes) /\ b \in Seq(Nodes) /\ Len(L[s - 1]) \in Nat
        /\ Len(L[s - 1]) >= 1 /\ L[s - 1][1] = P[s]
        /\ Len(L[s]) = A + B + Len(L[s - 1]) - 1
    BY <1>0, <1>3 DEF StepsOn
  <1>5. /\ \A j \in 1..A : L[s][j] = a[j]
        /\ \A j \in 1..B : L[s][A + j] = b[j]
    BY <1>0, <1>3 DEF StepsOn
  <1>6. \A j \in 2..Len(L[s - 1]) : L[s][A + B + j - 1] = L[s - 1][j]
    BY <1>0, <1>3 DEF StepsOn
  <1> DEFINE LS == L[s]  LP == L[s - 1]
  <1>z. /\ A \in Nat /\ B \in Nat /\ Len(LP) \in Nat /\ Len(LP) >= 1
        /\ Len(LS) = A + B + Len(LP) - 1
        /\ \A j \in 1..A : LS[j] = a[j]
        /\ \A j \in 1..B : LS[A + j] = b[j]
        /\ \A j \in 2..Len(LP) : LS[A + B + j - 1] = LP[j]
    BY <1>4, <1>5, <1>6
  <1>10. /\ \A j \in 1..Len(LS) : \E i \in s + 1..Len(P) : LS[j] = P[i]
         /\ \A j, m \in 1..Len(LS), i, h \in 1..Len(P) : j < m /\ LS[j] = P[i] /\ LS[m] = P[h] => i < h
    BY <1>2 DEF MetInOrder
  <1>11. LeftAt(P, L, s) = {i \in 1..Len(P) : \E j \in 1..Len(LS) : LS[j] = P[i]}
    BY DEF LeftAt, At
  <1>12. LeftAt(P, L, s - 1) = {i \in 1..Len(P) : \E j \in 1..Len(LP) : LP[j] = P[i]}
    BY DEF LeftAt, At
  <1>13. At(P, a) = {i \in 1..Len(P) : \E j \in 1..A : a[j] = P[i]}
    BY DEF At
  <1>14. At(P, b) = {i \in 1..Len(P) : \E j \in 1..B : b[j] = P[i]}
    BY DEF At
  <1>15. LP[1] = P[s] /\ Len(LP) \in Nat /\ Len(LP) >= 1
    BY <1>4
  <1>16. KidsAt(P, s) = At(P, a) \cup At(P, b)
    BY DEF KidsAt
  <1> HIDE DEF a, b, A, B, LS, LP
  <1>7. \A j \in 1..A : j \in 1..Len(LS) /\ LS[j] = a[j]
    BY <1>z
  <1>8. \A j \in 1..B : A + j \in 1..Len(LS) /\ LS[A + j] = b[j]
    BY <1>z
  <1>9. \A j \in 2..Len(LP) : A + B + j - 1 \in 1..Len(LS) /\ LS[A + B + j - 1] = LP[j]
    BY <1>z
  <1>17. \A j \in 1..A : \E i \in s + 1..Len(P) : a[j] = P[i] /\ i \in LeftAt(P, L, s)
    <2> TAKE j \in 1..A
    <2>1. PICK i \in s + 1..Len(P) : LS[j] = P[i]
      BY <1>7, <1>10
    <2>2. i \in 1..Len(P)
      BY <1>0, <2>1
    <2> QED BY <1>7, <1>11, <2>1, <2>2
  <1>18. \A j \in 1..B : \E i \in s + 1..Len(P) : b[j] = P[i] /\ i \in LeftAt(P, L, s)
    <2> TAKE j \in 1..B
    <2>1. PICK i \in s + 1..Len(P) : LS[A + j] = P[i]
      BY <1>8, <1>10
    <2>2. i \in 1..Len(P)
      BY <1>0, <2>1
    <2> QED BY <1>8, <1>11, <2>1, <2>2
  <1>19. \A j, m \in 1..A, i, h \in 1..Len(P) : j < m /\ a[j] = P[i] /\ a[m] = P[h] => i < h
    BY <1>7, <1>10
  <1>20. \A j, m \in 1..B, i, h \in 1..Len(P) : j < m /\ b[j] = P[i] /\ b[m] = P[h] => i < h
    <2> TAKE j, m \in 1..B, i, h \in 1..Len(P)
    <2> HAVE j < m /\ b[j] = P[i] /\ b[m] = P[h]
    <2>1. A + j < A + m
      BY <1>4
    <2> QED BY <2>1, <1>8, <1>10
  <1>21. ASSUME NEW i \in At(P, a), NEW h \in At(P, b) PROVE i < h
    <2>1. PICK j \in 1..A : a[j] = P[i]
      BY <1>13
    <2>2. PICK m \in 1..B : b[m] = P[h]
      BY <1>14
    <2>3. j < A + m
      BY <1>4
    <2>4. i \in 1..Len(P) /\ h \in 1..Len(P)
      BY <1>13, <1>14
    <2> QED BY <1>7, <1>8, <1>10, <2>1, <2>2, <2>3, <2>4
  <1>22. At(P, a) \cap At(P, b) = {}
    <2>1. ASSUME NEW i \in At(P, a), i \in At(P, b) PROVE FALSE
      <3>1. i < i /\ i \in 1..Len(P)
        BY <1>13, <1>21, <2>1
      <3> QED BY <3>1
    <2> QED BY <2>1
  <1>23. ASSUME NEW i \in KidsAt(P, s) PROVE i \in LeftAt(P, L, s) /\ s < i
    <2>1. i \in LeftAt(P, L, s)
      <3>1. CASE i \in At(P, a)
        BY <1>7, <1>11, <1>13, <3>1
      <3>2. CASE i \in At(P, b)
        BY <1>8, <1>11, <1>14, <3>2
      <3> QED BY <1>16, <3>1, <3>2
    <2> QED BY <1>0, <2>1, LeftIsLater
  <1>24. ASSUME NEW i \in KidsAt(P, s), NEW h \in LeftAt(P, L, s - 1), h # s PROVE i < h
    <2>0. i \in 1..Len(P) /\ h \in 1..Len(P)
      BY <1>12, <1>13, <1>14, <1>16
    <2>1. PICK m \in 1..Len(LP) : LP[m] = P[h]
      BY <1>12
    <2>2. m # 1
      BY <1>0, <1>1, <1>15, <1>24, <2>0, <2>1
    <2>3. m \in 2..Len(LP)
      BY <1>15, <2>2
    <2>4. A + B + m - 1 \in 1..Len(LS) /\ LS[A + B + m - 1] = P[h]
      BY <1>9, <2>1, <2>3
    <2>5. CASE i \in At(P, a)
      <3>1. PICK j \in 1..A : a[j] = P[i]
        BY <1>13, <2>5
      <3>2. j < A + B + m - 1
        BY <1>4, <2>3
      <3> QED BY <1>7, <1>10, <2>0, <2>4, <3>1, <3>2
    <2>6. CASE i \in At(P, b)
      <3>1. PICK j \in 1..B : b[j] = P[i]
        BY <1>14, <2>6
      <3>2. A + j < A + B + m - 1
        BY <1>4, <2>3
      <3> QED BY <1>8, <1>10, <2>0, <2>4, <3>1, <3>2
    <2> QED BY <1>16, <2>5, <2>6
  <1>25. A = Len(a) /\ B = Len(b) /\ a = P[s].yes /\ b = P[s].no
    BY DEF A, B, a, b
  <1> QED BY <1>4, <1>17, <1>18, <1>19, <1>20, <1>22, <1>23, <1>24, <1>25 DEF BranchesInOrder

\* A step is in one branch of one condition, or in the list itself.
LEMMA OneParent ==
  ASSUME NEW steps, NEW P, NEW L, IsReading(steps, P, L), Apart(P),
         NEW s \in 1..Len(P), NEW i \in KidsAt(P, s)
  PROVE  /\ i \notin LeftAt(P, L, 0)
         /\ \A t \in 1..Len(P) : i \in KidsAt(P, t) => t = s
  <1>0. Len(P) \in Nat /\ 0 \in 0..Len(P) /\ i \in 1..Len(P)
    BY DEF IsReading, KidsAt, At
  <1>1. \A t \in 1..Len(P) : BranchesInOrder(P, L, t)
    BY Branching
  <1>2. \A t \in 1..Len(P), k \in 0..Len(P) :
           ~ (i \in KidsAt(P, t) /\ k < t /\ i \in LeftAt(P, L, k))
    <2> SUFFICES ASSUME NEW t \in 1..Len(P), NEW k \in 0..Len(P),
                        i \in KidsAt(P, t), k < t, i \in LeftAt(P, L, k)
                 PROVE  FALSE
      OBVIOUS
    <2>1. t < i
      BY <1>1 DEF BranchesInOrder
    <2>2. t - 1 \in k..Len(P) /\ t - 1 < i /\ i # t
      BY <1>0, <2>1
    <2>3. i \in LeftAt(P, L, t - 1)
      BY <2>2, StaysLeft
    <2>4. i < i
      BY <1>1, <2>2, <2>3 DEF BranchesInOrder
    <2> QED BY <1>0, <2>4
  <1>3. i \notin LeftAt(P, L, 0)
    <2>1. 0 < s
      BY <1>0
    <2> QED BY <1>0, <1>2, <2>1
  <1>4. ASSUME NEW t \in 1..Len(P), i \in KidsAt(P, t) PROVE t = s
    <2>1. i \in LeftAt(P, L, s) /\ i \in LeftAt(P, L, t)
      BY <1>1, <1>4 DEF BranchesInOrder
    <2>2. s \in 0..Len(P) /\ t \in 0..Len(P)
      BY <1>0
    <2>3. ~(t < s) /\ ~(s < t)
      BY <1>2, <1>4, <2>1, <2>2
    <2> QED BY <1>0, <2>3
  <1> QED BY <1>3, <1>4
-----------------------------------------------------------------------------
(* A walk through a list: v are the places of the steps it has taken, w of  *)
(* those it has before it.                                                  *)

Places(v) == {v[i] : i \in 1..Len(v)}
Rising(v) == \A i, j \in 1..Len(v) : i < j => v[i] < v[j]

\* Of the steps in S, taken or ahead, those in V have been taken.
Covers(P, top, V, S) ==
    /\ top \subseteq S
    /\ \A s \in 1..Len(P) :
          IF s \in V
          THEN \/ At(P, P[s].yes) \subseteq S /\ At(P, P[s].no) \cap S = {}
               \/ At(P, P[s].no) \subseteq S /\ At(P, P[s].yes) \cap S = {}
          ELSE KidsAt(P, s) \cap S = {}

Walked(P, L, v, w) ==
    /\ v \in Seq(1..Len(P)) /\ w \in Seq(1..Len(P))
    /\ Rising(v) /\ Rising(w)
    /\ \A i \in Places(v), j \in Places(w) : i < j
    /\ \E k \in 0..Len(P) : (\A i \in Places(v) : i <= k) /\ Places(w) \subseteq LeftAt(P, L, k)
    /\ Covers(P, LeftAt(P, L, 0), Places(v), Places(v) \cup Places(w))

LEMMA CoversMore ==
  ASSUME NEW steps, NEW P, NEW L, IsReading(steps, P, L), Apart(P),
         NEW V, NEW S, Covers(P, LeftAt(P, L, 0), V, S),
         NEW s \in 1..Len(P), s \notin V, NEW b \in {P[s].yes, P[s].no}
  PROVE  Covers(P, LeftAt(P, L, 0), V \cup {s}, S \cup At(P, b))
  <1> DEFINE U == At(P, b)  T == S \cup U
  <1>1. \A t \in 1..Len(P) : t # s => KidsAt(P, t) \cap U = {}
    <2> SUFFICES ASSUME NEW t \in 1..Len(P), t # s, NEW i \in KidsAt(P, t), i \in U PROVE FALSE
      OBVIOUS
    <2>1. i \in KidsAt(P, s)
      BY DEF KidsAt
    <2> QED BY <2>1, OneParent
  <1>2. At(P, P[s].yes) \cap At(P, P[s].no) = {} /\ KidsAt(P, s) \cap S = {}
    <2>1. BranchesInOrder(P, L, s)
      BY Branching
    <2> QED BY <2>1 DEF BranchesInOrder, Covers
  <1>3. LeftAt(P, L, 0) \subseteq T
    BY DEF Covers
  <1>4. ASSUME NEW t \in 1..Len(P), t \in V \cup {s}
        PROVE  \/ At(P, P[t].yes) \subseteq T /\ At(P, P[t].no) \cap T = {}
               \/ At(P, P[t].no) \subseteq T /\ At(P, P[t].yes) \cap T = {}
    <2>1. CASE t = s
      <3>1. At(P, P[s].yes) \cap S = {} /\ At(P, P[s].no) \cap S = {}
        BY <1>2 DEF KidsAt
      <3>2. CASE b = P[s].yes
        BY <1>2, <2>1, <3>1, <3>2
      <3>3. CASE b = P[s].no
        BY <1>2, <2>1, <3>1, <3>3
      <3> QED BY <3>2, <3>3
    <2>2. CASE t # s
      <3>1. t \in V
        BY <1>4, <2>2
      <3>2. At(P, P[t].yes) \cap U = {} /\ At(P, P[t].no) \cap U = {}
        BY <1>1, <2>2 DEF KidsAt
      <3>3. \/ At(P, P[t].yes) \subseteq S /\ At(P, P[t].no) \cap S = {}
            \/ At(P, P[t].no) \subseteq S /\ At(P, P[t].yes) \cap S = {}
        BY <3>1 DEF Covers
      <3> HIDE DEF U
      <3> QED BY <3>2, <3>3
    <2> QED BY <2>1, <2>2
  <1>5. ASSUME NEW t \in 1..Len(P), t \notin V \cup {s} PROVE KidsAt(P, t) \cap T = {}
    <2>1. KidsAt(P, t) \cap S = {}
      BY <1>5 DEF Covers
    <2>2. KidsAt(P, t) \cap U = {}
      BY <1>1, <1>5
    <2> QED BY <2>1, <2>2
  <1> HIDE DEF T
  <1>6. Covers(P, LeftAt(P, L, 0), V \cup {s}, T)
    BY <1>3, <1>4, <1>5 DEF Covers
  <1> QED BY <1>6 DEF T

\* The places of the steps of a branch, in a row.
LEMMA PlacesOf ==
  ASSUME NEW P, NEW b, b \in Seq(Nodes), P \in Seq(Nodes),
         \A j \in 1..Len(b) : \E i \in 1..Len(P) : b[j] = P[i]
  PROVE  \E u \in Seq(1..Len(P)) :
            Len(u) = Len(b) /\ (\A j \in 1..Len(b) : b[j] = P[u[j]]) /\ Places(u) \subseteq At(P, b)
  <1> DEFINE N == Len(P)
             Is(j, i) == b[j] = P[i]
             u == [j \in 1..Len(b) |-> CHOOSE i \in 1..N : Is(j, i)]
  <1>0. Len(b) \in Nat
    OBVIOUS
  <1>1. \A j \in 1..Len(b) : u[j] \in 1..N /\ Is(j, u[j])
    <2> TAKE j \in 1..Len(b)
    <2>1. \E i \in 1..N : Is(j, i)
      OBVIOUS
    <2>2. u[j] = CHOOSE i \in 1..N : Is(j, i)
      OBVIOUS
    <2> HIDE DEF Is, u, N
    <2> QED BY <2>1, <2>2
  <1>2. u \in Seq(1..N) /\ Len(u) = Len(b)
    <2>1. u \in [1..Len(b) -> 1..N]
      BY <1>1
    <2> HIDE DEF u
    <2> QED BY <1>0, <2>1
  <1> HIDE DEF u
  <1>3. Places(u) \subseteq At(P, b)
    BY <1>1, <1>2 DEF Places, At
  <1> QED BY <1>1, <1>2, <1>3
LEMMA Appended ==
  ASSUME NEW N \in Nat, NEW v \in Seq(1..N), NEW s \in 1..N
  PROVE  /\ Append(v, s) \in Seq(1..N) /\ Places(Append(v, s)) = Places(v) \cup {s}
         /\ Rising(v) /\ (\A i \in Places(v) : i < s) => Rising(Append(v, s))
  <1> DEFINE a == Append(v, s)
  <1>1. a \in Seq(1..N) /\ Len(a) = Len(v) + 1 /\ a[Len(v) + 1] = s /\ Len(v) \in Nat
        /\ \A j \in 1..Len(v) : a[j] = v[j]
    OBVIOUS
  <1> HIDE DEF a
  <1>2. Places(a) = Places(v) \cup {s}
    <2>1. \A i \in 1..Len(a) : i \in 1..Len(v) \/ i = Len(v) + 1
      BY <1>1
    <2>2. Places(a) \subseteq Places(v) \cup {s}
      BY <1>1, <2>1 DEF Places
    <2>3. s \in Places(a)
      BY <1>1 DEF Places
    <2>4. Places(v) \subseteq Places(a)
      BY <1>1 DEF Places
    <2> QED BY <2>2, <2>3, <2>4
  <1>3. ASSUME Rising(v), \A i \in Places(v) : i < s PROVE Rising(a)
    <2> SUFFICES ASSUME NEW i \in 1..Len(a), NEW j \in 1..Len(a), i < j PROVE a[i] < a[j]
      BY DEF Rising
    <2>1. i \in 1..Len(v)
      BY <1>1
    <2>2. CASE j = Len(v) + 1
      BY <1>1, <1>3, <2>1, <2>2 DEF Places
    <2>3. CASE j # Len(v) + 1
      <3>1. j \in 1..Len(v)
        BY <1>1, <2>3
      <3> QED BY <1>1, <1>3, <2>1, <3>1 DEF Rising
    <2> QED BY <2>2, <2>3
  <1> QED BY <1>1, <1>2, <1>3 DEF a

LEMMA Replaced ==
  ASSUME NEW N \in Nat, NEW u \in Seq(1..N), NEW w \in Seq(1..N), w # <<>>, Rising(w), Rising(u),
         \A i \in Places(u), j \in Places(w) : j # w[1] => i < j
  PROVE  /\ u \o Tail(w) \in Seq(1..N) /\ Rising(u \o Tail(w))
         /\ Places(u \o Tail(w)) = Places(u) \cup (Places(w) \ {w[1]})
  <1> DEFINE t == Tail(w)  a == u \o t
  <1>1. t \in Seq(1..N) /\ Len(t) = Len(w) - 1 /\ Len(w) >= 1 /\ Len(w) \in Nat
        /\ \A j \in 1..Len(w) - 1 : t[j] = w[j + 1]
    BY TailOf
  <1> HIDE DEF t
  <1>2. a \in Seq(1..N) /\ Len(a) = Len(u) + Len(t)
    BY <1>1, TwoLists
  <1>3. \A j \in 1..Len(u) : a[j] = u[j]
    BY <1>1, TwoLists
  <1>4. \A j \in 1..Len(t) : a[Len(u) + j] = t[j]
    BY <1>1, TwoLists
  <1> HIDE DEF a
  <1>5. Len(u) \in Nat
    OBVIOUS
  <1>6. \A j \in 1..Len(t) : j + 1 \in 1..Len(w) /\ a[Len(u) + j] = w[j + 1] /\ w[j + 1] # w[1]
    <2> TAKE j \in 1..Len(t)
    <2>1. j + 1 \in 1..Len(w) /\ 1 \in 1..Len(w) /\ 1 < j + 1
      BY <1>1
    <2>2. w[1] < w[j + 1] /\ w[1] \in Nat /\ w[j + 1] \in Nat
      BY <2>1 DEF Rising
    <2> QED BY <1>1, <1>4, <2>1, <2>2
  <1>7. \A i \in 1..Len(a) : i \in 1..Len(u) \/ (i - Len(u) \in 1..Len(t) /\ i = Len(u) + (i - Len(u)))
    BY <1>1, <1>2, <1>5
  <1>8. \A i \in 1..Len(u) : i \in 1..Len(a)
    BY <1>1, <1>2, <1>5
  <1>9. \A i \in 1..Len(t) : Len(u) + i \in 1..Len(a)
    BY <1>1, <1>2, <1>5
  <1>10. Places(a) \subseteq Places(u) \cup (Places(w) \ {w[1]})
    <2> SUFFICES ASSUME NEW i \in 1..Len(a) PROVE a[i] \in Places(u) \cup (Places(w) \ {w[1]})
      BY DEF Places
    <2>1. CASE i \in 1..Len(u)
      BY <1>3, <2>1 DEF Places
    <2>2. CASE i \notin 1..Len(u)
      <3> DEFINE h == i - Len(u)
      <3>1. h \in 1..Len(t) /\ i = Len(u) + h
        BY <1>7, <2>2
      <3> HIDE DEF h
      <3> QED BY <1>6, <3>1 DEF Places
    <2> QED BY <2>1, <2>2
  <1>11. Places(u) \subseteq Places(a)
    BY <1>3, <1>8 DEF Places
  <1>12. Places(w) \ {w[1]} \subseteq Places(a)
    <2> SUFFICES ASSUME NEW i \in 1..Len(w), w[i] # w[1] PROVE w[i] \in Places(a)
      BY DEF Places
    <2>1. i - 1 \in 1..Len(t) /\ (i - 1) + 1 = i
      BY <1>1
    <2>2. a[Len(u) + (i - 1)] = w[i]
      BY <1>6, <2>1
    <2> QED BY <1>9, <2>1, <2>2 DEF Places
  <1>13. Rising(a)
    <2> SUFFICES ASSUME NEW i \in 1..Len(a), NEW j \in 1..Len(a), i < j PROVE a[i] < a[j]
      BY DEF Rising
    <2>1. CASE j \in 1..Len(u)
      <3>1. i \in 1..Len(u)
        BY <1>5, <2>1
      <3> QED BY <1>3, <2>1, <3>1 DEF Rising
    <2>2. CASE j \notin 1..Len(u)
      <3> DEFINE h == j - Len(u)
      <3>1. h \in 1..Len(t) /\ j = Len(u) + h
        BY <1>7, <2>2
      <3>2. a[j] = w[h + 1] /\ h + 1 \in 1..Len(w) /\ w[h + 1] # w[1] /\ a[j] \in Places(w)
        BY <1>6, <3>1 DEF Places
      <3>3. CASE i \in 1..Len(u)
        <4>1. a[i] \in Places(u)
          BY <1>3, <3>3 DEF Places
        <4> QED BY <3>2, <4>1
      <3>4. CASE i \notin 1..Len(u)
        <4> DEFINE g == i - Len(u)
        <4>1. g \in 1..Len(t) /\ i = Len(u) + g
          BY <1>7, <3>4
        <4>2. g + 1 < h + 1
          BY <1>5, <3>1, <4>1
        <4> HIDE DEF g, h
        <4>3. a[i] = w[g + 1] /\ g + 1 \in 1..Len(w)
          BY <1>6, <4>1
        <4> QED BY <3>2, <4>2, <4>3 DEF Rising
      <3> QED BY <3>3, <3>4
    <2> QED BY <2>1, <2>2
  <1> QED BY <1>2, <1>10, <1>11, <1>12, <1>13 DEF a, t

LEMMA PlacesAre ==
  ASSUME NEW N \in Nat, NEW u \in Seq(1..N)
  PROVE  /\ Len(u) \in Nat /\ \A j \in 1..Len(u) : u[j] \in 1..N
         /\ Places(u) \subseteq 1..N /\ Places(u) \subseteq Nat
  <1>1. Len(u) \in Nat /\ \A j \in 1..Len(u) : u[j] \in 1..N
    OBVIOUS
  <1>2. Places(u) \subseteq 1..N
    BY <1>1 DEF Places
  <1>3. 1..N \subseteq Nat
    OBVIOUS
  <1> QED BY <1>1, <1>2, <1>3

\* Taking the step ahead, and having one of its branches before the rest.
LEMMA WalksOn ==
  ASSUME NEW steps, NEW P, NEW L, IsReading(steps, P, L), Apart(P),
         NEW v, NEW w, Walked(P, L, v, w), w # <<>>, NEW b \in {P[w[1]].yes, P[w[1]].no}
  PROVE  \E u \in Seq(1..Len(P)) :
            /\ Len(u) = Len(b) /\ \A j \in 1..Len(b) : b[j] = P[u[j]]
            /\ Walked(P, L, Append(v, w[1]), u \o Tail(w))
            /\ w[1] \notin Places(v)
  <1> DEFINE N == Len(P)  s == w[1]
  <1>1. N \in Nat /\ P \in Seq(Nodes) /\ v \in Seq(1..N) /\ w \in Seq(1..N) /\ Rising(v) /\ Rising(w)
        /\ (\A i \in Places(v), j \in Places(w) : i < j)
        /\ Covers(P, LeftAt(P, L, 0), Places(v), Places(v) \cup Places(w))
    BY DEF IsReading, Walked
  <1>2. s \in 1..N /\ s \in Places(w)
    <2>1. Len(w) >= 1 /\ Len(w) \in Nat
      BY <1>1, TailOf
    <2>2. 1 \in 1..Len(w)
      BY <2>1
    <2> QED BY <1>1, <2>2 DEF Places
  <1>3. PICK k \in 0..N : (\A i \in Places(v) : i <= k) /\ Places(w) \subseteq LeftAt(P, L, k)
    BY DEF Walked
  <1>4. BranchesInOrder(P, L, s)
    BY <1>2, Branching
  <1> HIDE DEF N, s
  <1>0. b = P[s].yes \/ b = P[s].no
    BY DEF s
  <1>5. /\ b \in Seq(Nodes)
        /\ \A j \in 1..Len(b) : \E i \in s + 1..N : b[j] = P[i] /\ i \in LeftAt(P, L, s)
        /\ \A j, m \in 1..Len(b), i, h \in 1..N : j < m /\ b[j] = P[i] /\ b[m] = P[h] => i < h
    BY <1>0, <1>4 DEF BranchesInOrder, N
  <1>6. \A j \in 1..Len(b) : \E i \in 1..N : b[j] = P[i]
    <2> TAKE j \in 1..Len(b)
    <2>1. PICK i \in s + 1..N : b[j] = P[i]
      BY <1>5
    <2>2. i \in 1..N
      BY <1>1, <1>2
    <2> QED BY <2>1, <2>2
  <1>7. PICK u \in Seq(1..N) : Len(u) = Len(b) /\ (\A j \in 1..Len(b) : b[j] = P[u[j]]) /\ Places(u) \subseteq At(P, b)
    BY <1>1, <1>5, <1>6, PlacesOf DEF N
  <1>70. /\ Len(u) \in Nat /\ (\A j \in 1..Len(u) : u[j] \in 1..N)
         /\ Places(u) \subseteq 1..N /\ Places(u) \subseteq Nat
    BY <1>1, <1>7, PlacesAre
  <1>71. \A j \in 1..Len(b) : j \in 1..Len(u)
    BY <1>7
  <1>8. At(P, b) = Places(u)
    <2> SUFFICES ASSUME NEW i \in At(P, b) PROVE i \in Places(u)
      BY <1>7
    <2>1. i \in 1..N
      BY DEF At, N
    <2>2. PICK j \in 1..Len(b) : b[j] = P[i]
      BY DEF At
    <2>3. P[u[j]] = P[i] /\ u[j] \in 1..N /\ j \in 1..Len(u)
      BY <1>7, <1>70, <1>71, <2>2
    <2>4. u[j] = i
      BY <2>1, <2>3 DEF Apart, N
    <2> QED BY <2>3, <2>4 DEF Places
  <1>9. Rising(u)
    <2> SUFFICES ASSUME NEW i \in 1..Len(u), NEW j \in 1..Len(u), i < j PROVE u[i] < u[j]
      BY DEF Rising
    <2>1. u[i] \in 1..N /\ u[j] \in 1..N /\ b[i] = P[u[i]] /\ b[j] = P[u[j]] /\ i \in 1..Len(b) /\ j \in 1..Len(b)
      <3>1. i \in 1..Len(b) /\ j \in 1..Len(b)
        BY <1>7
      <3> QED BY <1>7, <1>70, <3>1
    <2> QED BY <1>5, <2>1
  <1>10. Places(u) \subseteq KidsAt(P, s)
    BY <1>0, <1>8 DEF KidsAt
  <1>11. \A i \in Places(u) : i \in LeftAt(P, L, s) /\ s < i
    BY <1>4, <1>10 DEF BranchesInOrder
  <1>12. k < s
    <2>1. s \in LeftAt(P, L, k) /\ k \in 0..Len(P)
      BY <1>2, <1>3 DEF N
    <2> QED BY <2>1, LeftIsLater
  <1>13. ASSUME NEW j \in Places(w), j # s PROVE s < j /\ j \in LeftAt(P, L, s - 1) /\ j \in LeftAt(P, L, s)
    <2>1. PICK m \in 1..Len(w) : w[m] = j
      BY DEF Places
    <2>2. 1 < m /\ 1 \in 1..Len(w)
      BY <1>1, <1>13, <2>1 DEF s
    <2>3. s < j
      BY <2>1, <2>2, <1>1 DEF Rising, s
    <2>4. j \in LeftAt(P, L, k) /\ k \in 0..Len(P) /\ j \in 1..N
      BY <1>1, <1>3, <2>1 DEF N
    <2>5. s - 1 \in k..Len(P) /\ s - 1 < j /\ s \in k..Len(P)
      BY <1>1, <1>2, <1>12, <2>3, <2>4 DEF N
    <2> QED BY <2>3, <2>4, <2>5, StaysLeft
  <1>14. \A i \in Places(u), j \in Places(w) : j # s => i < j
    <2> SUFFICES ASSUME NEW i \in Places(u), NEW j \in Places(w), j # s PROVE i < j
      OBVIOUS
    <2>1. j \in LeftAt(P, L, s - 1)
      BY <1>13
    <2> QED BY <1>4, <1>10, <2>1 DEF BranchesInOrder
  <1>15. s \notin Places(v) /\ \A i \in Places(v) : i < s
    <2>1. \A i \in Places(v) : i < s
      BY <1>1, <1>2
    <2>2. ~(s < s)
      BY <1>2
    <2> QED BY <2>1, <2>2
  <1> DEFINE v2 == Append(v, s)  w2 == u \o Tail(w)
  <1>16. v2 \in Seq(1..N) /\ Places(v2) = Places(v) \cup {s} /\ Rising(v2)
    BY <1>1, <1>2, <1>15, Appended
  <1>17. w2 \in Seq(1..N) /\ Rising(w2) /\ Places(w2) = Places(u) \cup (Places(w) \ {s})
    <2>1. \A i \in Places(u), j \in Places(w) : j # w[1] => i < j
      BY <1>14 DEF s
    <2> QED BY <1>1, <1>9, <2>1, Replaced DEF s
  <1> HIDE DEF v2, w2
  <1>18. \A i \in Places(v2), j \in Places(w2) : i < j
    <2> SUFFICES ASSUME NEW i \in Places(v2), NEW j \in Places(w2) PROVE i < j
      OBVIOUS
    <2>0. Places(v) \subseteq Nat /\ Places(w) \subseteq Nat /\ Places(u) \subseteq Nat /\ s \in Nat
      BY <1>1, <1>2, <1>70, PlacesAre
    <2>1. i <= s /\ i \in Nat
      BY <1>15, <1>16, <2>0
    <2>2. s < j /\ j \in Nat
      BY <1>11, <1>13, <1>17, <2>0
    <2> QED BY <1>2, <2>1, <2>2
  <1>19. s \in 0..N /\ (\A i \in Places(v2) : i <= s) /\ Places(w2) \subseteq LeftAt(P, L, s)
    <2>1. \A i \in Places(v2) : i <= s
      <3>1. \A i \in Places(v) : i \in Nat
        BY <1>1 DEF Places
      <3> QED BY <1>2, <1>15, <1>16, <3>1
    <2>2. Places(w2) \subseteq LeftAt(P, L, s)
      BY <1>11, <1>13, <1>17
    <2>3. s \in 0..N
      BY <1>1, <1>2
    <2> QED BY <2>1, <2>2, <2>3
  <1>20. Covers(P, LeftAt(P, L, 0), Places(v2), Places(v2) \cup Places(w2))
    <2>1. Covers(P, LeftAt(P, L, 0), Places(v) \cup {s}, (Places(v) \cup Places(w)) \cup At(P, b))
      <3>1. s \in 1..Len(P) /\ b \in {P[s].yes, P[s].no}
        BY <1>0, <1>2 DEF N
      <3> QED BY <1>1, <1>15, <3>1, CoversMore
    <2>2. (Places(v) \cup Places(w)) \cup At(P, b) = Places(v2) \cup Places(w2)
      BY <1>2, <1>8, <1>16, <1>17
    <2> QED BY <1>16, <2>1, <2>2
  <1>21. Walked(P, L, v2, w2)
    BY <1>16, <1>17, <1>18, <1>19, <1>20 DEF Walked, N
  <1> QED BY <1>7, <1>15, <1>21 DEF v2, w2, s, N

\* Before the first step, the places of the list itself are ahead.
LEMMA WalkBegins ==
  ASSUME NEW steps, NEW P, NEW L, IsReading(steps, P, L), Apart(P)
  PROVE  \E w \in Seq(1..Len(P)) :
            /\ Len(w) = Len(steps) /\ \A j \in 1..Len(steps) : steps[j] = P[w[j]]
            /\ Walked(P, L, <<>>, w)
  <1> DEFINE N == Len(P)
  <1>1. N \in Nat /\ P \in Seq(Nodes) /\ L[0] = steps /\ steps \in Seq(Nodes) /\ 0 \in 0..N
    BY DEF IsReading
  <1>2. MetInOrder(P, L, 0)
    BY <1>1, LeftInOrder
  <1>3. \A j \in 1..Len(steps) : \E i \in 1..N : steps[j] = P[i]
    <2> TAKE j \in 1..Len(steps)
    <2>1. PICK i \in 0 + 1..Len(P) : L[0][j] = P[i]
      BY <1>1, <1>2 DEF MetInOrder
    <2> QED BY <1>1, <2>1
  <1> HIDE DEF N
  <1>4. PICK w \in Seq(1..N) : /\ Len(w) = Len(steps) /\ (\A j \in 1..Len(steps) : steps[j] = P[w[j]])
                               /\ Places(w) \subseteq At(P, steps)
    BY <1>1, <1>3, PlacesOf DEF N
  <1>5. /\ Len(w) \in Nat /\ (\A j \in 1..Len(w) : w[j] \in 1..N)
        /\ Places(w) \subseteq 1..N /\ Places(w) \subseteq Nat
    BY <1>1, PlacesAre
  <1>6. At(P, steps) \subseteq Places(w)
    <2> SUFFICES ASSUME NEW i \in At(P, steps) PROVE i \in Places(w)
      OBVIOUS
    <2>1. i \in 1..N
      BY DEF At, N
    <2>2. PICK j \in 1..Len(steps) : steps[j] = P[i]
      BY DEF At
    <2>3. P[w[j]] = P[i] /\ w[j] \in 1..N /\ j \in 1..Len(w)
      BY <1>4, <1>5, <2>2
    <2>4. w[j] = i
      BY <2>1, <2>3 DEF Apart, N
    <2> QED BY <2>3, <2>4 DEF Places
  <1>7. LeftAt(P, L, 0) = Places(w)
    BY <1>1, <1>4, <1>6 DEF LeftAt
  <1>8. Rising(w)
    <2> SUFFICES ASSUME NEW i \in 1..Len(w), NEW j \in 1..Len(w), i < j PROVE w[i] < w[j]
      BY DEF Rising
    <2>1. w[i] \in 1..N /\ w[j] \in 1..N /\ L[0][i] = P[w[i]] /\ L[0][j] = P[w[j]]
          /\ i \in 1..Len(L[0]) /\ j \in 1..Len(L[0])
      <3>1. i \in 1..Len(steps) /\ j \in 1..Len(steps)
        BY <1>4
      <3> QED BY <1>1, <1>4, <1>5, <3>1
    <2> QED BY <1>2, <2>1 DEF MetInOrder, N
  <1>9. /\ <<>> \in Seq(1..N) /\ Rising(<<>>) /\ Places(<<>>) = {}
    BY DEF Rising, Places
  <1>10. ASSUME NEW s \in 1..N PROVE KidsAt(P, s) \cap Places(w) = {}
    BY <1>7, OneParent DEF N
  <1>11. Covers(P, LeftAt(P, L, 0), {}, {} \cup Places(w))
    BY <1>7, <1>10 DEF Covers, N
  <1>12. Walked(P, L, <<>>, w)
    BY <1>1, <1>7, <1>8, <1>9, <1>11 DEF Walked, N
  <1> QED BY <1>4, <1>12 DEF N
-----------------------------------------------------------------------------
(* An execution of a list: what it has visited and what it has to do are    *)
(* the steps of a walk between the first node and the last.                 *)

Distinct(d, P) ==
    /\ Apart(P)
    /\ \A i \in 1..Len(P) : P[i].id # d.nodes[1].id /\ P[i].id # Callback(d).id

Through(d, L, v, w, visited, todo) ==
    LET P == StepsOf(Middle(d.nodes)) IN
    /\ IsReading(Middle(d.nodes), P, L) /\ Walked(P, L, v, w)
    /\ Len(visited) = Len(v) + 1 /\ visited[1] = d.nodes[1].id
    /\ \A j \in 1..Len(v) : visited[j + 1] = P[v[j]].id
    /\ Len(todo) = Len(w) + 1 /\ todo[Len(w) + 1] = Callback(d)
    /\ \A j \in 1..Len(w) : todo[j] = P[w[j]]

InList(d, visited, todo) ==
    /\ \E names : visited \in Seq(names)
    /\ todo \in Seq(Nodes)
    /\ \E L, v, w : Through(d, L, v, w, visited, todo)

LEMMA MiddleOf ==
  ASSUME NEW nodes \in Seq(Nodes), Len(nodes) >= 2
  PROVE  /\ Middle(nodes) \in Seq(Nodes) /\ Len(Middle(nodes)) = Len(nodes) - 2 /\ Len(nodes) \in Nat
         /\ \A j \in 1..Len(nodes) - 2 : Middle(nodes)[j] = nodes[j + 1]
  BY DEF Middle

LEMMA ListsAreDistinct ==
  ASSUME NEW d, d.nodes \in Seq(Nodes), ParsesV2(d.nodes)
  PROVE  /\ Distinct(d, StepsOf(Middle(d.nodes)))
         /\ \E L : IsReading(Middle(d.nodes), StepsOf(Middle(d.nodes)), L)
         /\ \A i \in 1..Len(StepsOf(Middle(d.nodes))) :
               StepsOf(Middle(d.nodes))[i].type \in {"email", "set_value", "switch"}
  <1> DEFINE m == Middle(d.nodes)  P == StepsOf(m)  ends == <<d.nodes[1], d.nodes[Len(d.nodes)]>>
             all == P \o ends
  <1>1. Len(d.nodes) >= 2 /\ Reading(m)[MaxNodes].left = <<>> /\ IsInjective(NodeIds(all))
        /\ \A i \in DOMAIN P : ShapedStep(P[i])
    BY DEF ParsesV2
  <1>2. m \in Seq(Nodes)
    BY <1>1, MiddleOf
  <1> HIDE DEF m
  <1>3. PICK L : IsReading(m, P, L)
    BY <1>1, <1>2, ReadToEnd
  <1>4. P \in Seq(Nodes) /\ Len(P) \in Nat /\ DOMAIN P = 1..Len(P)
    BY <1>3 DEF IsReading
  <1>5. ends \in Seq(Nodes) /\ Len(ends) = 2 /\ ends[1] = d.nodes[1] /\ ends[2] = Callback(d)
    BY <1>1 DEF Callback
  <1> HIDE DEF P, ends
  <1>6. /\ all \in Seq(Nodes) /\ Len(all) = Len(P) + 2
        /\ (\A j \in 1..Len(P) : all[j] = P[j])
        /\ all[Len(P) + 1] = d.nodes[1] /\ all[Len(P) + 2] = Callback(d)
    <2>1. /\ all \in Seq(Nodes) /\ Len(all) = Len(P) + Len(ends)
          /\ (\A j \in 1..Len(P) : all[j] = P[j])
          /\ (\A j \in 1..Len(ends) : all[Len(P) + j] = ends[j])
      <3>1. P \in Seq(Nodes) /\ ends \in Seq(Nodes)
        BY <1>4, <1>5
      <3> QED BY <3>1, TwoLists
    <2>2. 1 \in 1..Len(ends) /\ 2 \in 1..Len(ends)
      BY <1>5
    <2> QED BY <1>5, <2>1, <2>2
  <1> HIDE DEF all
  <1>7. \A i, j \in 1..Len(P) + 2 : all[i].id = all[j].id => i = j
    <2>1. DOMAIN all = 1..Len(P) + 2
      BY <1>6
    <2> QED BY <1>1, <2>1 DEF IsInjective, NodeIds
  <1>8. Apart(P)
    <2> SUFFICES ASSUME NEW i \in 1..Len(P), NEW j \in 1..Len(P), P[i].id = P[j].id PROVE i = j
      BY DEF Apart
    <2>1. i \in 1..Len(P) + 2 /\ j \in 1..Len(P) + 2
      BY <1>4
    <2> QED BY <1>6, <1>7, <2>1
  <1>9. ASSUME NEW i \in 1..Len(P) PROVE P[i].id # d.nodes[1].id /\ P[i].id # Callback(d).id
    <2>1. i \in 1..Len(P) + 2 /\ Len(P) + 1 \in 1..Len(P) + 2 /\ Len(P) + 2 \in 1..Len(P) + 2
          /\ i # Len(P) + 1 /\ i # Len(P) + 2
      BY <1>4
    <2> QED BY <1>6, <1>7, <2>1
  <1>10. \A i \in 1..Len(P) : P[i].type \in {"email", "set_value", "switch"}
    BY <1>1, <1>4 DEF ShapedStep
  <1> QED BY <1>3, <1>8, <1>9, <1>10 DEF Distinct, P, m

LEMMA ListBegins ==
  ASSUME NEW d, d.nodes \in Seq(Nodes), ParsesV2(d.nodes)
  PROVE  InList(d, <<d.nodes[1].id>>, Tail(d.nodes))
  <1> DEFINE m == Middle(d.nodes)  P == StepsOf(m)
  <1>1. Len(d.nodes) >= 2
    BY DEF ParsesV2
  <1>2. m \in Seq(Nodes) /\ Len(m) = Len(d.nodes) - 2 /\ Len(d.nodes) \in Nat
        /\ \A j \in 1..Len(d.nodes) - 2 : m[j] = d.nodes[j + 1]
    BY <1>1, MiddleOf
  <1>3. PICK L : IsReading(m, P, L)
    BY ListsAreDistinct
  <1>4. Apart(P)
    BY ListsAreDistinct DEF Distinct
  <1> HIDE DEF m, P
  <1>5. PICK w \in Seq(1..Len(P)) :
            /\ Len(w) = Len(m) /\ (\A j \in 1..Len(m) : m[j] = P[w[j]])
            /\ Walked(P, L, <<>>, w)
    BY <1>3, <1>4, WalkBegins
  <1> DEFINE todo == Tail(d.nodes)
  <1>6. todo \in Seq(Nodes) /\ Len(todo) = Len(d.nodes) - 1 /\ \A j \in 1..Len(d.nodes) - 1 : todo[j] = d.nodes[j + 1]
    BY <1>1, TailOf
  <1> HIDE DEF todo
  <1>7. \A j \in 1..Len(w) : todo[j] = P[w[j]]
    <2> TAKE j \in 1..Len(w)
    <2>1. j \in 1..Len(d.nodes) - 2 /\ j \in 1..Len(d.nodes) - 1 /\ j \in 1..Len(m)
      BY <1>2, <1>5
    <2> QED BY <1>2, <1>5, <1>6, <2>1
  <1>8. Len(todo) = Len(w) + 1 /\ todo[Len(w) + 1] = Callback(d)
    BY <1>1, <1>2, <1>5, <1>6 DEF Callback
  <1> DEFINE visited == <<d.nodes[1].id>>
  <1>9. Len(visited) = Len(<<>>) + 1 /\ visited[1] = d.nodes[1].id /\ visited \in Seq({d.nodes[1].id})
    OBVIOUS
  <1>10. \A j \in 1..Len(<<>>) : visited[j + 1] = P[<<>>[j]].id
    OBVIOUS
  <1> HIDE DEF visited
  <1>11. Through(d, L, <<>>, w, visited, todo)
    BY <1>3, <1>5, <1>7, <1>8, <1>9, <1>10 DEF Through, m, P
  <1> QED BY <1>6, <1>9, <1>11 DEF InList, visited, todo

\* A step of the list, and one of its branches before what is left.
LEMMA ListGoesOn ==
  ASSUME NEW d, d.nodes \in Seq(Nodes), ParsesV2(d.nodes), NEW visited, NEW todo,
         InList(d, visited, todo), todo # <<>>, todo[1].type # "callback",
         NEW b \in {todo[1].yes, todo[1].no}
  PROVE  /\ InList(d, Append(visited, todo[1].id), b \o Tail(todo))
         /\ todo[1] \in Range(StepsOf(Middle(d.nodes)))
         /\ todo[1].id \notin Range(visited)
  <1> DEFINE P == StepsOf(Middle(d.nodes))  steps == Middle(d.nodes)
  <1>1. PICK L, v, w : Through(d, L, v, w, visited, todo)
    BY DEF InList
  <1>2. PICK names : visited \in Seq(names)
    BY DEF InList
  <1>3. /\ IsReading(steps, P, L) /\ Walked(P, L, v, w) /\ Apart(P)
        /\ Len(visited) = Len(v) + 1 /\ visited[1] = d.nodes[1].id
        /\ (\A j \in 1..Len(v) : visited[j + 1] = P[v[j]].id)
        /\ Len(todo) = Len(w) + 1 /\ todo[Len(w) + 1] = Callback(d)
        /\ (\A j \in 1..Len(w) : todo[j] = P[w[j]]) /\ todo \in Seq(Nodes)
    BY <1>1, ListsAreDistinct DEF Through, Distinct, InList
  <1> HIDE DEF P, steps
  <1>4. /\ Len(P) \in Nat /\ P \in Seq(Nodes) /\ v \in Seq(1..Len(P)) /\ w \in Seq(1..Len(P))
    BY <1>3 DEF IsReading, Walked
  <1>5. Len(w) \in Nat /\ Len(v) \in Nat
        /\ (\A j \in 1..Len(w) : w[j] \in 1..Len(P)) /\ (\A j \in 1..Len(v) : v[j] \in 1..Len(P))
    BY <1>4, PlacesAre
  <1>6. w # <<>>
    <2> SUFFICES ASSUME w = <<>> PROVE FALSE
      OBVIOUS
    <2>1. todo[1] = Callback(d)
      BY <1>3
    <2>2. Callback(d).type = "callback"
      BY DEF ParsesV2, Callback
    <2> QED BY <2>1, <2>2
  <1>7. Len(w) >= 1 /\ 1 \in 1..Len(w) /\ w[1] \in 1..Len(P)
    BY <1>4, <1>5, <1>6, TailOf
  <1>8. todo[1] = P[w[1]] /\ todo[1] \in Nodes
    BY <1>3, <1>4, <1>7
  <1>9. PICK u \in Seq(1..Len(P)) :
            /\ Len(u) = Len(b) /\ (\A j \in 1..Len(b) : b[j] = P[u[j]])
            /\ Walked(P, L, Append(v, w[1]), u \o Tail(w)) /\ w[1] \notin Places(v)
    <2>1. b \in {P[w[1]].yes, P[w[1]].no}
      BY <1>8
    <2>2. IsReading(steps, P, L) /\ Apart(P) /\ Walked(P, L, v, w)
      BY <1>3
    <2> QED BY <1>6, <2>1, <2>2, WalksOn
  <1>10. b \in Seq(Nodes)
    BY <1>8, FlowsAssumption
  <1> DEFINE v2 == Append(v, w[1])  w2 == u \o Tail(w)
             vis2 == Append(visited, todo[1].id)  todo2 == b \o Tail(todo)
  <1>11. /\ Len(v2) = Len(v) + 1 /\ (\A j \in 1..Len(v) : v2[j] = v[j]) /\ v2[Len(v) + 1] = w[1]
    BY <1>4, <1>5, <1>7
  <1>12. /\ Len(vis2) = Len(visited) + 1 /\ (\A j \in 1..Len(visited) : vis2[j] = visited[j])
         /\ vis2[Len(visited) + 1] = todo[1].id /\ vis2 \in Seq(names \cup {todo[1].id})
    BY <1>2
  <1>13. Tail(w) \in Seq(1..Len(P)) /\ Len(Tail(w)) = Len(w) - 1
         /\ (\A j \in 1..Len(w) - 1 : Tail(w)[j] = w[j + 1])
    BY <1>4, <1>6, TailOf
  <1>14. Tail(todo) \in Seq(Nodes) /\ Len(Tail(todo)) = Len(todo) - 1
         /\ (\A j \in 1..Len(todo) - 1 : Tail(todo)[j] = todo[j + 1])
    BY <1>3, TailOf
  <1>15. /\ w2 \in Seq(1..Len(P)) /\ Len(w2) = Len(u) + Len(Tail(w))
         /\ (\A j \in 1..Len(u) : w2[j] = u[j]) /\ (\A j \in 1..Len(Tail(w)) : w2[Len(u) + j] = Tail(w)[j])
    <2>1. u \in Seq(1..Len(P)) /\ Tail(w) \in Seq(1..Len(P))
      BY <1>9, <1>13
    <2> QED BY <2>1, TwoLists
  <1>16. /\ todo2 \in Seq(Nodes) /\ Len(todo2) = Len(b) + Len(Tail(todo))
         /\ (\A j \in 1..Len(b) : todo2[j] = b[j]) /\ (\A j \in 1..Len(Tail(todo)) : todo2[Len(b) + j] = Tail(todo)[j])
    BY <1>10, <1>14, TwoLists
  <1>17. Len(b) \in Nat /\ Len(u) = Len(b)
    BY <1>9, <1>10
  <1> HIDE DEF v2, w2, vis2, todo2
  <1>18. Len(vis2) = Len(v2) + 1 /\ vis2[1] = d.nodes[1].id
    <2>1. 1 \in 1..Len(visited)
      BY <1>3, <1>5
    <2> QED BY <1>3, <1>11, <1>12, <2>1
  <1>19. \A j \in 1..Len(v2) : vis2[j + 1] = P[v2[j]].id
    <2> TAKE j \in 1..Len(v2)
    <2>1. CASE j = Len(v) + 1
      BY <1>3, <1>8, <1>11, <1>12, <2>1
    <2>2. CASE j # Len(v) + 1
      <3>1. j \in 1..Len(v) /\ j + 1 \in 1..Len(visited)
        BY <1>3, <1>5, <1>11, <2>2
      <3> QED BY <1>3, <1>11, <1>12, <3>1
    <2> QED BY <2>1, <2>2
  <1>20. Len(todo2) = Len(w2) + 1
    BY <1>3, <1>5, <1>13, <1>14, <1>15, <1>16, <1>17
  <1>21. \A j \in 1..Len(w2) : todo2[j] = P[w2[j]]
    <2> TAKE j \in 1..Len(w2)
    <2>1. CASE j \in 1..Len(b)
      BY <1>9, <1>15, <1>16, <1>17, <2>1
    <2>2. CASE j \notin 1..Len(b)
      <3> DEFINE h == j - Len(b)
      <3>1. h \in 1..Len(w) - 1 /\ j = Len(b) + h /\ h + 1 \in 1..Len(w)
        BY <1>5, <1>7, <1>13, <1>15, <1>17, <2>2
      <3> HIDE DEF h
      <3>2. h \in 1..Len(Tail(w)) /\ h \in 1..Len(Tail(todo)) /\ h \in 1..Len(todo) - 1
        BY <1>3, <1>5, <1>13, <1>14, <3>1
      <3>3. w2[j] = w[h + 1]
        BY <1>13, <1>15, <1>17, <3>1, <3>2
      <3>4. todo2[j] = todo[h + 1]
        BY <1>14, <1>16, <3>1, <3>2
      <3> QED BY <1>3, <3>1, <3>3, <3>4
    <2> QED BY <2>1, <2>2
  <1>22. todo2[Len(w2) + 1] = Callback(d)
    <2>1. Len(w2) + 1 = Len(b) + Len(w) /\ Len(w) \in 1..Len(Tail(todo)) /\ Len(w) \in 1..Len(todo) - 1
      BY <1>3, <1>5, <1>7, <1>13, <1>14, <1>15, <1>17
    <2> QED BY <1>3, <1>14, <1>16, <2>1
  <1>23. Through(d, L, v2, w2, vis2, todo2)
    BY <1>3, <1>9, <1>18, <1>19, <1>20, <1>21, <1>22 DEF Through, P, steps, v2, w2
  <1>24. InList(d, vis2, todo2)
    BY <1>12, <1>16, <1>23 DEF InList
  <1>25. todo[1] \in Range(P)
    <2>1. w[1] \in DOMAIN P
      BY <1>4, <1>7
    <2> QED BY <1>8, <2>1 DEF Range
  <1>26. todo[1].id \notin Range(visited)
    <2> SUFFICES ASSUME NEW h \in DOMAIN visited, visited[h] = todo[1].id PROVE FALSE
      BY DEF Range
    <2>1. h \in 1..Len(v) + 1
      BY <1>2, <1>3
    <2>2. Distinct(d, P)
      BY ListsAreDistinct DEF P
    <2>3. CASE h = 1
      BY <1>3, <1>7, <1>8, <2>2, <2>3 DEF Distinct
    <2>4. CASE h # 1
      <3>1. h - 1 \in 1..Len(v) /\ (h - 1) + 1 = h
        BY <1>5, <2>1, <2>4
      <3>2. P[v[h - 1]].id = P[w[1]].id /\ v[h - 1] \in 1..Len(P)
        BY <1>3, <1>5, <1>8, <3>1
      <3>3. v[h - 1] = w[1]
        BY <1>3, <1>7, <3>2 DEF Apart
      <3> QED BY <1>9, <3>1, <3>3 DEF Places
    <2> QED BY <2>3, <2>4
  <1> QED BY <1>24, <1>25, <1>26 DEF vis2, todo2, P

LEMMA ListGoesSomewhere ==
  ASSUME NEW d, d.nodes \in Seq(Nodes), ParsesV2(d.nodes), NEW visited, NEW todo, InList(d, visited, todo)
  PROVE  /\ todo # <<>> /\ todo[1] \in Nodes /\ todo[1].type # "start"
         /\ todo[1].type \in {"email", "set_value", "switch", "callback"}
  <1> DEFINE P == StepsOf(Middle(d.nodes))
  <1>1. PICK L, v, w : Through(d, L, v, w, visited, todo)
    BY DEF InList
  <1>2. /\ Walked(P, L, v, w) /\ Len(todo) = Len(w) + 1 /\ todo[Len(w) + 1] = Callback(d)
        /\ (\A j \in 1..Len(w) : todo[j] = P[w[j]]) /\ todo \in Seq(Nodes)
        /\ \A i \in 1..Len(P) : P[i].type \in {"email", "set_value", "switch"}
    BY <1>1, ListsAreDistinct DEF Through, InList
  <1>3. IsReading(Middle(d.nodes), P, L)
    BY <1>1 DEF Through
  <1> HIDE DEF P
  <1>4. /\ Len(P) \in Nat /\ w \in Seq(1..Len(P))
    BY <1>2, <1>3 DEF IsReading, Walked
  <1>5. Len(w) \in Nat /\ \A j \in 1..Len(w) : w[j] \in 1..Len(P)
    BY <1>4, PlacesAre
  <1>6. todo # <<>> /\ todo[1] \in Nodes
    BY <1>2, <1>5
  <1>7. CASE Len(w) = 0
    <2>1. Callback(d).type = "callback"
      BY DEF ParsesV2, Callback
    <2> QED BY <1>2, <1>6, <1>7, <2>1
  <1>8. CASE Len(w) # 0
    <2>1. 1 \in 1..Len(w)
      BY <1>5, <1>8
    <2> QED BY <1>2, <1>5, <1>6, <2>1
  <1> QED BY <1>7, <1>8

\* At the callback, the walk is one way through the document.
LEMMA ListEnds ==
  ASSUME NEW d, d.nodes \in Seq(Nodes), d.version = 2, ParsesV2(d.nodes), NEW visited, NEW todo,
         InList(d, visited, todo), todo[1].type = "callback"
  PROVE  todo[1] = Callback(d) /\ OneWay(d, Append(visited, todo[1].id))
  <1> DEFINE P == StepsOf(Middle(d.nodes))  steps == Middle(d.nodes)  N == Len(P)
             order == <<Head(d.nodes)>> \o P \o <<Callback(d)>>
             path == Append(visited, todo[1].id)
  <1>1. PICK L, v, w : Through(d, L, v, w, visited, todo)
    BY DEF InList
  <1>2. PICK names : visited \in Seq(names)
    BY DEF InList
  <1>3. /\ IsReading(steps, P, L) /\ Walked(P, L, v, w) /\ Distinct(d, P)
        /\ Len(visited) = Len(v) + 1 /\ visited[1] = d.nodes[1].id
        /\ (\A j \in 1..Len(v) : visited[j + 1] = P[v[j]].id)
        /\ Len(todo) = Len(w) + 1 /\ todo[Len(w) + 1] = Callback(d)
        /\ (\A j \in 1..Len(w) : todo[j] = P[w[j]]) /\ todo \in Seq(Nodes)
        /\ \A i \in 1..N : P[i].type \in {"email", "set_value", "switch"}
    BY <1>1, ListsAreDistinct DEF Through, InList
  <1>4. /\ N \in Nat /\ P \in Seq(Nodes) /\ v \in Seq(1..N) /\ w \in Seq(1..N) /\ Rising(v)
        /\ L[0] = steps /\ steps \in Seq(Nodes) /\ 0 \in 0..N
        /\ Covers(P, LeftAt(P, L, 0), Places(v), Places(v) \cup Places(w))
    <2>1. IsReading(steps, P, L) /\ Walked(P, L, v, w)
      BY <1>3
    <2>2. N \in Nat /\ P \in Seq(Nodes) /\ L[0] = steps /\ L \in [0..N -> Seq(Nodes)]
      BY <2>1 DEF IsReading
    <2>3. 0 \in 0..N
      BY <2>2
    <2>4. steps \in Seq(Nodes)
      BY <2>2, <2>3
    <2>5. /\ v \in Seq(1..N) /\ w \in Seq(1..N) /\ Rising(v)
          /\ Covers(P, LeftAt(P, L, 0), Places(v), Places(v) \cup Places(w))
      BY <2>1 DEF Walked
    <2> QED BY <2>2, <2>3, <2>4, <2>5
  <1>5. Len(d.nodes) >= 2 /\ Len(d.nodes) \in Nat /\ Len(steps) = Len(d.nodes) - 2
        /\ \A j \in 1..Len(d.nodes) - 2 : steps[j] = d.nodes[j + 1]
    <2>1. Len(d.nodes) >= 2
      BY DEF ParsesV2
    <2> QED BY <2>1, MiddleOf
  <1>6. Head(d.nodes) = d.nodes[1] /\ Head(d.nodes) \in Nodes /\ Callback(d) \in Nodes
    BY <1>5 DEF Callback
  <1> HIDE DEF P, steps
  <1>7. Len(w) \in Nat /\ Len(v) \in Nat
        /\ (\A j \in 1..Len(w) : w[j] \in 1..N) /\ (\A j \in 1..Len(v) : v[j] \in 1..N)
        /\ Places(v) \subseteq 1..N
    BY <1>4, PlacesAre
  <1>8. Len(w) = 0
    <2> SUFFICES ASSUME Len(w) # 0 PROVE FALSE
      OBVIOUS
    <2>1. 1 \in 1..Len(w)
      BY <1>7
    <2>2. todo[1] = P[w[1]] /\ w[1] \in 1..N
      BY <1>3, <1>7, <2>1
    <2> QED BY <1>3, <2>2
  <1>9. todo[1] = Callback(d) /\ Places(w) = {}
    BY <1>3, <1>8 DEF Places
  <1>10. Covers(P, LeftAt(P, L, 0), Places(v), Places(v))
    BY <1>4, <1>9
  <1>11. /\ Len(path) = Len(v) + 2 /\ path[1] = d.nodes[1].id /\ path[Len(v) + 2] = Callback(d).id
         /\ (\A j \in 1..Len(v) : path[j + 1] = P[v[j]].id)
         /\ DOMAIN path = 1..Len(v) + 2
    <2>1. Len(path) = Len(visited) + 1 /\ DOMAIN path = 1..Len(path)
          /\ (\A j \in 1..Len(visited) : path[j] = visited[j]) /\ path[Len(visited) + 1] = todo[1].id
      BY <1>2
    <2> HIDE DEF path
    <2>2. 1 \in 1..Len(visited) /\ \A j \in 1..Len(v) : j + 1 \in 1..Len(visited)
      BY <1>3, <1>7
    <2> QED BY <1>3, <1>7, <1>9, <2>1, <2>2
  <1>12. /\ Len(order) = N + 2 /\ order[1] = d.nodes[1] /\ order[N + 2] = Callback(d)
         /\ (\A i \in 1..N : order[i + 1] = P[i]) /\ DOMAIN order = 1..N + 2
    <2> DEFINE a == <<Head(d.nodes)>>  z == <<Callback(d)>>
    <2>1. a \in Seq(Nodes) /\ z \in Seq(Nodes) /\ Len(a) = 1 /\ Len(z) = 1 /\ a[1] = d.nodes[1] /\ z[1] = Callback(d)
      BY <1>6
    <2> HIDE DEF a, z
    <2>2. a \o P \in Seq(Nodes) /\ Len(a \o P) = Len(a) + Len(P)
         /\ (\A j \in 1..Len(a) : (a \o P)[j] = a[j]) /\ (\A j \in 1..Len(P) : (a \o P)[Len(a) + j] = P[j])
      <3>1. a \in Seq(Nodes) /\ P \in Seq(Nodes)
        BY <1>4, <2>1
      <3> QED BY <3>1, TwoLists
    <2> DEFINE e == a \o P
    <2> HIDE DEF e
    <2>3. e \in Seq(Nodes) /\ Len(e) = N + 1 /\ e[1] = d.nodes[1] /\ \A j \in 1..N : e[1 + j] = P[j]
      <3>1. 1 \in 1..Len(a)
        BY <2>1
      <3> QED BY <2>1, <2>2, <3>1 DEF e
    <2>4. e \o z \in Seq(Nodes) /\ Len(e \o z) = Len(e) + Len(z)
         /\ (\A j \in 1..Len(e) : (e \o z)[j] = e[j]) /\ (\A j \in 1..Len(z) : (e \o z)[Len(e) + j] = z[j])
      <3>1. e \in Seq(Nodes) /\ z \in Seq(Nodes)
        BY <2>1, <2>3
      <3> QED BY <3>1, TwoLists
    <2>5. order = e \o z
      BY DEF e, a, z
    <2> HIDE DEF order
    <2>6. 1 \in 1..Len(z) /\ 1 \in 1..Len(e) /\ \A i \in 1..N : i + 1 \in 1..Len(e) /\ i + 1 = 1 + i
      BY <1>4, <2>1, <2>3
    <2> QED BY <1>4, <2>1, <2>3, <2>4, <2>5, <2>6
  <1> HIDE DEF N, order, path
  <1>13. \A i \in DOMAIN path, j \in DOMAIN path : i < j =>
             \E k \in DOMAIN order, l \in DOMAIN order : k < l /\ order[k].id = path[i] /\ order[l].id = path[j]
    <2> DEFINE pos(i) == IF i = 1 THEN 1 ELSE IF i = Len(v) + 2 THEN N + 2 ELSE v[i - 1] + 1
    <2>1. ASSUME NEW i \in DOMAIN path PROVE pos(i) \in DOMAIN order /\ order[pos(i)].id = path[i]
      <3>1. CASE i = 1
        BY <1>4, <1>11, <1>12, <3>1
      <3>3. CASE i = Len(v) + 2
        <4>1. pos(i) = N + 2
          BY <1>7, <3>3
        <4>2. N + 2 \in 1..N + 2
          BY <1>4
        <4> QED BY <1>11, <1>12, <3>3, <4>1, <4>2
      <3>2. CASE i # 1 /\ i # Len(v) + 2
        <4>1. i - 1 \in 1..Len(v) /\ (i - 1) + 1 = i
          BY <1>7, <1>11, <3>2
        <4>2. path[i] = P[v[i - 1]].id /\ v[i - 1] \in 1..N
          BY <1>7, <1>11, <4>1
        <4>3. pos(i) = v[i - 1] + 1
          BY <3>2
        <4>4. v[i - 1] + 1 \in 1..N + 2 /\ order[v[i - 1] + 1] = P[v[i - 1]]
          BY <1>4, <1>12, <4>2
        <4> QED BY <1>12, <4>2, <4>3, <4>4
      <3> QED BY <3>1, <3>2, <3>3
    <2>2. ASSUME NEW i \in DOMAIN path, NEW j \in DOMAIN path, i < j PROVE pos(i) < pos(j)
      <3>1. i \in 1..Len(v) + 1 /\ j \in 2..Len(v) + 2
        BY <1>7, <1>11, <2>2
      <3>2. CASE i = 1
        <4>1. CASE j = Len(v) + 2
          BY <1>4, <1>7, <3>2, <4>1
        <4>2. CASE j # Len(v) + 2
          <5>1. j - 1 \in 1..Len(v) /\ j # 1
            BY <1>7, <3>1, <4>2
          <5>2. v[j - 1] \in 1..N
            BY <1>7, <5>1
          <5> QED BY <1>4, <3>2, <4>2, <5>1, <5>2
        <4> QED BY <4>1, <4>2
      <3>3. CASE i # 1
        <4>1. i - 1 \in 1..Len(v) /\ i # Len(v) + 2 /\ j # 1
          BY <1>7, <2>2, <3>1, <3>3
        <4>2. v[i - 1] \in 1..N
          BY <1>7, <4>1
        <4>3. CASE j = Len(v) + 2
          BY <1>4, <3>3, <4>1, <4>2, <4>3
        <4>4. CASE j # Len(v) + 2
          <5>1. j - 1 \in 1..Len(v) /\ i - 1 < j - 1
            <6>1. j - 1 \in 1..Len(v)
              <7>1. Len(v) \in Nat
                BY <1>7
              <7> QED BY <7>1, <3>1, <4>4
            <6>2. i - 1 < j - 1
              BY <1>7, <2>2, <3>1
            <6> QED BY <6>1, <6>2
          <5>2. v[i - 1] < v[j - 1] /\ v[j - 1] \in 1..N
            BY <1>4, <1>7, <4>1, <5>1 DEF Rising
          <5> QED BY <1>4, <3>3, <4>1, <4>2, <4>4, <5>2
        <4> QED BY <4>3, <4>4
      <3> QED BY <3>2, <3>3
    <2> HIDE DEF pos
    <2> QED BY <2>1, <2>2
  \* On the way are the first node, the last, and the steps at v.
  <1>14. \A i \in 1..N : P[i].id \in Range(path) <=> i \in Places(v)
    <2> TAKE i \in 1..N
    <2>1. ASSUME i \in Places(v) PROVE P[i].id \in Range(path)
      <3>1. PICK j \in 1..Len(v) : i = v[j]
        BY <2>1 DEF Places
      <3>2. j + 1 \in DOMAIN path /\ path[j + 1] = P[i].id
        BY <1>7, <1>11, <3>1
      <3> QED BY <3>2 DEF Range
    <2>2. ASSUME P[i].id \in Range(path) PROVE i \in Places(v)
      <3>1. PICK h \in DOMAIN path : path[h] = P[i].id
        BY <2>2 DEF Range
      <3>2. P[i].id # d.nodes[1].id /\ P[i].id # Callback(d).id
        BY <1>3 DEF Distinct, N
      <3>3. h # 1 /\ h # Len(v) + 2
        BY <1>11, <3>1, <3>2
      <3>4. h - 1 \in 1..Len(v) /\ (h - 1) + 1 = h
        BY <1>7, <1>11, <3>3
      <3>5. P[v[h - 1]].id = P[i].id /\ v[h - 1] \in 1..N
        BY <1>7, <1>11, <3>1, <3>4
      <3>6. v[h - 1] = i
        BY <1>3, <3>5 DEF Distinct, Apart, N
      <3> QED BY <3>4, <3>6 DEF Places
    <2> QED BY <2>1, <2>2
  <1>15. \A i \in DOMAIN d.nodes : d.nodes[i].id \in Range(path)
    <2> TAKE i \in DOMAIN d.nodes
    <2>0. i \in 1..Len(d.nodes)
      OBVIOUS
    <2>1. CASE i = 1
      <3>1. 1 \in DOMAIN path
        BY <1>7, <1>11
      <3> QED BY <1>11, <2>1, <3>1 DEF Range
    <2>2. CASE i = Len(d.nodes)
      <3>1. Len(v) + 2 \in DOMAIN path
        BY <1>7, <1>11
      <3> QED BY <1>11, <2>2, <3>1 DEF Range, Callback
    <2>3. CASE i # 1 /\ i # Len(d.nodes)
      <3>1. i - 1 \in 1..Len(steps) /\ i - 1 \in 1..Len(d.nodes) - 2 /\ (i - 1) + 1 = i
        BY <1>5, <2>0, <2>3
      <3>2. steps[i - 1] = d.nodes[i]
        BY <1>5, <3>1
      <3>3. MetInOrder(P, L, 0)
        BY <1>3, <1>4, LeftInOrder DEF Distinct, N
      <3>4. PICK h \in 0 + 1..N : L[0][i - 1] = P[h]
        BY <1>4, <3>1, <3>3 DEF MetInOrder, N
      <3>5. h \in 1..N /\ P[h] = d.nodes[i]
        BY <1>4, <3>2, <3>4
      <3>6. h \in LeftAt(P, L, 0)
        BY <1>4, <3>1, <3>2, <3>5 DEF LeftAt, At, N
      <3>7. h \in Places(v)
        BY <1>10, <3>6 DEF Covers
      <3> QED BY <1>14, <3>5, <3>7
    <2> QED BY <2>1, <2>2, <2>3
  <1>16. \A s \in 1..N :
             IF s \in Places(v)
             THEN \/ At(P, P[s].yes) \subseteq Places(v) /\ At(P, P[s].no) \cap Places(v) = {}
                  \/ At(P, P[s].no) \subseteq Places(v) /\ At(P, P[s].yes) \cap Places(v) = {}
             ELSE At(P, P[s].yes) \cap Places(v) = {} /\ At(P, P[s].no) \cap Places(v) = {}
    BY <1>10 DEF Covers, KidsAt, N
  <1>17. ASSUME NEW s \in 1..N, NEW b \in {P[s].yes, P[s].no}
         PROVE  /\ At(P, b) \subseteq Places(v) => \A i \in DOMAIN b : b[i].id \in Range(path)
                /\ At(P, b) \cap Places(v) = {} => \A i \in DOMAIN b : b[i].id \notin Range(path)
    <2>1. BranchesInOrder(P, L, s)
      BY <1>3, Branching DEF Distinct, N
    <2>2. b \in Seq(Nodes) /\ \A j \in 1..Len(b) : \E i \in s + 1..N : b[j] = P[i]
      BY <2>1 DEF BranchesInOrder, N
    <2>3. ASSUME NEW i \in DOMAIN b PROVE \E h \in 1..N : h \in At(P, b) /\ b[i] = P[h]
      <3>1. i \in 1..Len(b)
        BY <2>2
      <3>2. PICK h \in s + 1..N : b[i] = P[h]
        BY <2>2, <3>1
      <3>3. h \in 1..N
        BY <1>4
      <3> QED BY <3>1, <3>2, <3>3 DEF At, N
    <2> QED BY <1>14, <2>3
  <1>18. \A n \in PartsOf(d, "switch") :
             IF n.id \in Range(path)
             THEN \/ (\A i \in DOMAIN n.yes : n.yes[i].id \in Range(path)) /\ (\A i \in DOMAIN n.no : n.no[i].id \notin Range(path))
                  \/ (\A i \in DOMAIN n.no : n.no[i].id \in Range(path)) /\ (\A i \in DOMAIN n.yes : n.yes[i].id \notin Range(path))
             ELSE (\A i \in DOMAIN n.yes : n.yes[i].id \notin Range(path)) /\ (\A i \in DOMAIN n.no : n.no[i].id \notin Range(path))
    <2> TAKE n \in PartsOf(d, "switch")
    <2>1. n \in Range(P)
      BY DEF PartsOf, Parts, P
    <2>2. PICK s \in 1..N : n = P[s]
      BY <1>4, <2>1 DEF Range, N
    <2>3. n.id \in Range(path) <=> s \in Places(v)
      BY <1>14, <2>2
    <2>4. n.yes \in {P[s].yes, P[s].no} /\ n.no \in {P[s].yes, P[s].no}
      BY <2>2
    <2>5. CASE s \in Places(v)
      <3>1. CASE At(P, P[s].yes) \subseteq Places(v) /\ At(P, P[s].no) \cap Places(v) = {}
        BY <1>17, <2>2, <2>3, <2>5, <3>1
      <3>2. CASE At(P, P[s].no) \subseteq Places(v) /\ At(P, P[s].yes) \cap Places(v) = {}
        BY <1>17, <2>2, <2>3, <2>5, <3>2
      <3> QED BY <1>16, <2>5, <3>1, <3>2
    <2>6. CASE s \notin Places(v)
      <3>1. At(P, P[s].yes) \cap Places(v) = {} /\ At(P, P[s].no) \cap Places(v) = {}
        BY <1>16, <2>6
      <3> QED BY <1>17, <2>2, <2>3, <2>6, <3>1
    <2> QED BY <2>5, <2>6
  <1>19. OneWay(d, path)
    BY <1>13, <1>15, <1>18 DEF OneWay, order, P
  <1> QED BY <1>9, <1>19 DEF path
-----------------------------------------------------------------------------
(* An execution of a graph: what it has visited leads to what it is at, and *)
(* lies before it in the document.                                          *)

Leads(d, visited, j, i) ==
    \E h \in 1..Len(d.nodes) :
        /\ h < i /\ d.nodes[h].id = visited[j]
        /\ IF j = Len(visited) THEN d.nodes[i].id \in Range(d.nodes[h].next)
           ELSE visited[j + 1] \in Range(d.nodes[h].next)

GraphAt(d, visited, todo, i) ==
    /\ todo = <<d.nodes[i]>>
    /\ visited = <<>> => i = 1
    /\ visited # <<>> => visited[1] = d.nodes[1].id
    /\ \A j \in 1..Len(visited) : Leads(d, visited, j, i)

InGraph(d, visited, todo) ==
    /\ \E names : visited \in Seq(names)
    /\ \E i \in 1..Len(d.nodes) : GraphAt(d, visited, todo, i)

GraphShape(d) ==
    /\ Len(d.nodes) \in Nat /\ Len(d.nodes) >= 2
    /\ \A i \in 1..Len(d.nodes) : d.nodes[i] \in Nodes /\ ShapedNode(d.nodes[i])
    /\ \A i, j \in 1..Len(d.nodes) : d.nodes[i].id = d.nodes[j].id => i = j
    /\ \A i \in 1..Len(d.nodes) : (d.nodes[i].type = "callback") => d.nodes[i] = Callback(d) /\ i = Len(d.nodes)
    /\ d.nodes[Len(d.nodes)].type = "callback"
    /\ \A i \in 1..Len(d.nodes) : \A target \in Range(d.nodes[i].next) :
          \E j \in i + 1..Len(d.nodes) : d.nodes[j].id = target

LEMMA GraphsAreShaped ==
  ASSUME NEW d, d.nodes \in Seq(Nodes), ParsesV1(d.nodes)
  PROVE  GraphShape(d)
  <1> DEFINE N == Len(d.nodes)
  <1>1. DOMAIN d.nodes = 1..N /\ N \in Nat /\ \A i \in 1..N : d.nodes[i] \in Nodes
    OBVIOUS
  <1>2. N >= 2 /\ N \in 2..MaxNodes
    BY FlowsAssumption DEF ParsesV1
  <1>3. \A i, j \in 1..N : d.nodes[i].id = d.nodes[j].id => i = j
    BY <1>1 DEF ParsesV1, NodeIds, IsInjective
  <1>4. OfType(d.nodes, "callback") = {N}
    BY DEF ParsesV1
  <1>5. \A i \in 1..N : d.nodes[i].type = "callback" => i = N
    BY <1>1, <1>4 DEF OfType
  <1>6. d.nodes[N].type = "callback"
    BY <1>1, <1>4 DEF OfType
  <1>7. \A i \in 1..N : ShapedNode(d.nodes[i]) /\ \A target \in Range(d.nodes[i].next) :
          \E j \in i + 1..N : d.nodes[j].id = target
    BY <1>1 DEF ParsesV1
  <1> QED BY <1>1, <1>2, <1>3, <1>5, <1>6, <1>7 DEF GraphShape, Callback

LEMMA GraphBegins ==
  ASSUME NEW d, d.nodes \in Seq(Nodes), ParsesV1(d.nodes)
  PROVE  InGraph(d, <<>>, <<d.nodes[1]>>)
  <1>1. Len(d.nodes) \in Nat /\ Len(d.nodes) >= 2
    BY GraphsAreShaped DEF GraphShape
  <1>2. 1 \in 1..Len(d.nodes)
    BY <1>1
  <1>3. GraphAt(d, <<>>, <<d.nodes[1]>>, 1)
    BY DEF GraphAt
  <1>4. <<>> \in Seq({})
    OBVIOUS
  <1> QED BY <1>2, <1>3, <1>4 DEF InGraph

LEMMA GraphGoesOn ==
  ASSUME NEW d, d.nodes \in Seq(Nodes), ParsesV1(d.nodes), NEW visited, NEW todo,
         InGraph(d, visited, todo)
  PROVE  /\ todo # <<>> /\ Tail(todo) = <<>> /\ todo[1] \in Nodes /\ todo[1] \in Range(d.nodes)
         /\ todo[1].id \notin Range(visited) /\ ShapedNode(todo[1])
         /\ todo[1].type = "callback" => todo[1] = Callback(d)
         /\ \A k \in 1..Len(todo[1].next) :
               InGraph(d, Append(visited, todo[1].id), Named(d.nodes, todo[1].next[k]))
  <1> DEFINE N == Len(d.nodes)  n == todo[1]
  <1>1. PICK names : visited \in Seq(names)
    BY DEF InGraph
  <1>2. PICK i \in 1..N : GraphAt(d, visited, todo, i)
    BY DEF InGraph
  <1>3. GraphShape(d)
    BY GraphsAreShaped
  <1>4. todo = <<d.nodes[i]>> /\ n = d.nodes[i]
    BY <1>2 DEF GraphAt
  <1>5. todo # <<>> /\ Tail(todo) = <<>> /\ n \in Nodes /\ ShapedNode(n) /\ (n.type = "callback" => n = Callback(d))
        /\ N \in Nat
    BY <1>3, <1>4 DEF GraphShape
  <1>6. n \in Range(d.nodes)
    BY <1>4 DEF Range
  <1> HIDE DEF n
  <1>7. Len(visited) \in Nat /\ DOMAIN visited = 1..Len(visited)
    BY <1>1
  <1>8. \A j \in 1..Len(visited) : Leads(d, visited, j, i)
    BY <1>2 DEF GraphAt
  <1>9. n.id \notin Range(visited)
    <2> SUFFICES ASSUME NEW j \in 1..Len(visited), visited[j] = n.id PROVE FALSE
      BY <1>7 DEF Range
    <2>1. PICK h \in 1..N : h < i /\ d.nodes[h].id = visited[j]
      BY <1>8 DEF Leads
    <2>2. h = i
      BY <1>3, <1>4, <2>1 DEF GraphShape
    <2> QED BY <1>5, <2>1, <2>2
  <1>10. ASSUME NEW k \in 1..Len(n.next)
         PROVE  InGraph(d, Append(visited, n.id), Named(d.nodes, n.next[k]))
    <2> DEFINE vis2 == Append(visited, n.id)  target == n.next[k]
    <2>1. target \in Range(n.next)
      <3>1. n.next \in Seq({m.id : m \in Nodes})
        BY <1>5, FlowsAssumption
      <3>2. k \in DOMAIN n.next
        BY <3>1
      <3> QED BY <3>2 DEF Range
    <2>2. PICK g \in i + 1..N : d.nodes[g].id = target
      BY <1>3, <1>4, <2>1 DEF GraphShape
    <2>3. g \in 1..N /\ i < g
      BY <1>5
    <2>4. Named(d.nodes, target) = <<d.nodes[g]>>
      <3> DEFINE found == {m \in Range(d.nodes) : m.id = target}
      <3>1. found = {d.nodes[g]}
        <4>1. d.nodes[g] \in found
          BY <2>2, <2>3 DEF Range
        <4>2. ASSUME NEW m \in found PROVE m = d.nodes[g]
          <5>1. PICK h \in 1..N : m = d.nodes[h]
            BY DEF Range
          <5>2. d.nodes[h].id = d.nodes[g].id
            BY <2>2, <5>1
          <5>3. h = g
            BY <1>3, <2>3, <5>1, <5>2 DEF GraphShape
          <5> QED BY <5>1, <5>3
        <4> QED BY <4>1, <4>2
      <3> HIDE DEF found
      <3>2. found # {} /\ (CHOOSE m \in found : TRUE) = d.nodes[g]
        BY <3>1
      <3>3. Named(d.nodes, target) = IF found = {} THEN <<>> ELSE <<CHOOSE m \in found : TRUE>>
        BY DEF Named, found
      <3> QED BY <3>2, <3>3
    <2> HIDE DEF target
    <2>5. /\ Len(vis2) = Len(visited) + 1 /\ (\A j \in 1..Len(visited) : vis2[j] = visited[j])
          /\ vis2[Len(visited) + 1] = n.id /\ vis2 \in Seq(names \cup {n.id}) /\ vis2 # <<>>
      BY <1>1
    <2> HIDE DEF vis2
    <2>6. \A j \in 1..Len(vis2) : Leads(d, vis2, j, g)
      <3> TAKE j \in 1..Len(vis2)
      <3>1. CASE j = Len(vis2)
        <4>1. d.nodes[i].id = vis2[j] /\ d.nodes[g].id \in Range(d.nodes[i].next)
          BY <1>4, <1>7, <2>1, <2>2, <2>5, <3>1
        <4> QED BY <2>3, <3>1, <4>1 DEF Leads
      <3>2. CASE j # Len(vis2)
        <4>1. j \in 1..Len(visited)
          BY <1>7, <2>5, <3>2
        <4>2. PICK h \in 1..N : /\ h < i /\ d.nodes[h].id = visited[j]
                 /\ IF j = Len(visited) THEN d.nodes[i].id \in Range(d.nodes[h].next)
                    ELSE visited[j + 1] \in Range(d.nodes[h].next)
          BY <1>8, <4>1 DEF Leads
        <4>3. vis2[j] = visited[j] /\ h < g
          BY <1>5, <2>3, <2>5, <4>1, <4>2
        <4>4. vis2[j + 1] \in Range(d.nodes[h].next)
          <5>1. CASE j = Len(visited)
            BY <1>4, <2>5, <4>2, <5>1
          <5>2. CASE j # Len(visited)
            <6>1. j + 1 \in 1..Len(visited)
              <7>1. Len(visited) \in Nat
                BY <1>7
              <7> QED BY <4>1, <5>2, <7>1
            <6> QED BY <2>5, <4>2, <5>2, <6>1
          <5> QED BY <5>1, <5>2
        <4> QED BY <3>2, <4>2, <4>3, <4>4 DEF Leads
      <3> QED BY <3>1, <3>2
    <2>7. vis2[1] = d.nodes[1].id
      <3>1. CASE visited = <<>>
        BY <1>2, <1>4, <2>5, <3>1 DEF GraphAt
      <3>2. CASE visited # <<>>
        <4>1. 1 \in 1..Len(visited)
          BY <1>1, <3>2
        <4> QED BY <1>2, <2>5, <3>2, <4>1 DEF GraphAt
      <3> QED BY <3>1, <3>2
    <2>8. GraphAt(d, vis2, Named(d.nodes, target), g)
      BY <2>4, <2>5, <2>6, <2>7 DEF GraphAt
    <2> QED BY <2>3, <2>5, <2>8 DEF InGraph, vis2, target
  <1> QED BY <1>5, <1>6, <1>9, <1>10 DEF n

\* At the callback, the nodes visited lead from the first node to the last.
LEMMA GraphEnds ==
  ASSUME NEW d, d.version = 1, d.nodes \in Seq(Nodes), ParsesV1(d.nodes), NEW visited, NEW todo,
         InGraph(d, visited, todo), todo[1].type = "callback"
  PROVE  WholePath(d, Append(visited, todo[1].id))
  <1> DEFINE N == Len(d.nodes)  path == Append(visited, todo[1].id)
  <1>1. PICK names : visited \in Seq(names)
    BY DEF InGraph
  <1>2. PICK i \in 1..N : GraphAt(d, visited, todo, i)
    BY DEF InGraph
  <1>3. GraphShape(d)
    BY GraphsAreShaped
  <1>4. todo[1] = d.nodes[i] /\ i = N /\ d.nodes[i] = Callback(d) /\ N \in Nat /\ N >= 2
    BY <1>2, <1>3 DEF GraphAt, GraphShape
  <1>5. visited # <<>> /\ visited[1] = d.nodes[1].id /\ \A j \in 1..Len(visited) : Leads(d, visited, j, i)
    BY <1>2, <1>4 DEF GraphAt
  <1>6. /\ Len(path) = Len(visited) + 1 /\ (\A j \in 1..Len(visited) : path[j] = visited[j])
        /\ path[Len(visited) + 1] = todo[1].id /\ Len(visited) \in Nat /\ 1 \in 1..Len(visited)
        /\ Head(path) = path[1]
    BY <1>1, <1>5
  <1> HIDE DEF path
  <1>7. Head(path) = Head(d.nodes).id /\ path[Len(path)] = Callback(d).id
    BY <1>4, <1>5, <1>6
  <1>8. \A j \in 1..Len(path) - 1 : \E n \in Parts(d) : n.id = path[j] /\ path[j + 1] \in Range(n.next)
    <2> TAKE j \in 1..Len(path) - 1
    <2>1. j \in 1..Len(visited)
      BY <1>6
    <2>2. PICK h \in 1..N : /\ h < i /\ d.nodes[h].id = visited[j]
                 /\ IF j = Len(visited) THEN d.nodes[i].id \in Range(d.nodes[h].next)
                    ELSE visited[j + 1] \in Range(d.nodes[h].next)
      BY <1>5, <2>1 DEF Leads
    <2>3. d.nodes[h] \in Parts(d)
      BY DEF Parts, Range
    <2>4. path[j + 1] \in Range(d.nodes[h].next)
      <3>1. CASE j = Len(visited)
        BY <1>4, <1>6, <2>2, <3>1
      <3>2. CASE j # Len(visited)
        <4>1. j + 1 \in 1..Len(visited)
          BY <1>6, <2>1, <3>2
        <4> QED BY <1>6, <2>2, <3>2, <4>1
      <3> QED BY <3>1, <3>2
    <2> QED BY <1>6, <2>1, <2>2, <2>3, <2>4
  <1>9. d.version # 2
    OBVIOUS
  <1> QED BY <1>7, <1>8, <1>9 DEF WholePath, path
-----------------------------------------------------------------------------
(* What every execution satisfies.                                          *)

Ids  == {m.id : m \in Nodes}
Mail == [node : Ids, box : {Mailbox[v] : v \in Values}, to : Values]

AllKinds == {"flow", "title", "text", "email", "checkbox", "gone"}
Catalog  == [Columns \cup {Title} -> AllKinds]
Replies  == {"none", "forbidden", "validation", "lost", "succeeded", "server_error"}
Assignments   == UNION {[D -> Values] : D \in SUBSET Fields}

Execution ==
    [at : {"idle", "read", "walk", "commit", "done"}, by : Everyone \cup {Nobody},
     from : {"button", "form", "visitor"}, flow : Drafts \cup {NoFlow},
     kinds : Catalog \cup {Unread}, values : [RowKeys -> Values] \cup {Unread},
     todo : Seq(Nodes), visited : Seq(Ids), writes : Assignments, mails : SUBSET Mail,
     could : SUBSET Columns, reply : Replies]

Ready(r) == r.flow \in Documents /\ r.kinds # Unread /\ r.values # Unread

\* What is ahead of a document that was admitted is a way to its end.
Walks(r) ==
    IF r.flow.version = 1 THEN InGraph(r.flow, r.visited, r.todo)
    ELSE InList(r.flow, r.visited, r.todo)

ToPeople(mails) == \A m \in mails : \E k \in Contacts : Mailbox[Address[k]] = m.box

\* The mail of an execution is that of nodes it has been at.
Posted(r) ==
    /\ Deduped(r)
    /\ \A m \in r.mails : m.node \in Range(r.visited)
    /\ r.from = "visitor" => ToPeople(r.mails)

Decided(r) == r.at = "commit" \/ r.reply \in {"succeeded", "server_error"}
Allowed(r) == DOMAIN r.writes \cup {Flow} \subseteq r.could

Sound(r, l) ==
    /\ r.reply # "lost" /\ (r.reply # "none" => r.at = "done")
    /\ Posted(r)
    /\ r.at \in {"idle", "read"} => r.mails = {} /\ r.writes = Unread
    /\ r.at \in {"read", "walk"} => \A f \in Columns : r.by \in l[f] => f \in r.could
    /\ r.at = "walk" => Ready(r) /\ Walks(r) /\ Allowed(r)
    /\ Decided(r) => WholePath(r.flow, r.visited) /\ Allowed(r)

SentBy(m, r) == r.at = "done" /\ (r.from = "visitor" => \E k \in Contacts : Mailbox[Address[k]] = m.box)

FlowsData ==
    /\ kinds \in Catalog /\ cells \in [RowKeys -> Values]
    /\ flow \in Documents \cup {NoFlow} /\ draft \in Documents \cup {NoFlow}
    /\ result \in Executions \cup {Nobody}
LocksData == locks \in [Columns -> SUBSET Everyone]
RunsSound == run \in [Executions -> Execution] /\ \A t \in Executions : Sound(run[t], locks)
OutboxSound == \A m \in outbox : m.by \in Executions /\ SentBy(m, run[m.by])

FlowsInd == FlowsData /\ LocksData /\ RunsSound /\ OutboxSound

LEMMA RestingIsSound == Resting \in Execution /\ \A l : Sound(Resting, l)
  <1> DEFINE r == Resting
  <1>1. /\ r.at = "idle" /\ r.by = Nobody /\ r.from = "button" /\ r.flow = NoFlow /\ r.kinds = Unread
        /\ r.values = Unread /\ r.todo = <<>> /\ r.visited = <<>> /\ r.writes = Unread /\ r.mails = {}
        /\ r.could = {} /\ r.reply = "none"
    BY DEF Resting
  <1>2. Unread \in Assignments
    <2>1. Unread \in [{} -> Values]
      BY DEF Unread
    <2> QED BY <2>1 DEF Assignments
  <1>3. r \in Execution
    BY <1>2 DEF Resting, Execution, Replies
  <1>4. Posted(r)
    BY <1>1 DEF Posted, Deduped
  <1> HIDE DEF r
  <1>5. ASSUME NEW l PROVE Sound(r, l)
    BY <1>1, <1>4 DEF Sound, Decided
  <1> QED BY <1>3, <1>5 DEF r

LEMMA FlowsStart == FormsInit /\ FlowsInit => FlowsInd
  <1> SUFFICES ASSUME FormsInit, FlowsInit PROVE FlowsInd
    OBVIOUS
  <1>1. kinds \in Catalog
    <2>1. ASSUME NEW c \in Columns \cup {Title}
          PROVE  (IF c = Flow THEN "flow" ELSE IF c = Title THEN "title" ELSE Kinds[c]) \in AllKinds
      <3>1. c # Flow /\ c # Title => c \in Fields
        BY DEF Columns
      <3>2. c \in Fields => Kinds[c] \in {"text", "email", "checkbox"}
        BY FlowsAssumption
      <3> QED BY <3>1, <3>2 DEF AllKinds
    <2> QED BY <2>1 DEF FlowsInit, Catalog
  <1>2. cells \in [RowKeys -> Values]
    BY FlowsAssumption DEF FlowsInit
  <1>3. FlowsData
    BY <1>1, <1>2 DEF FlowsInit, FlowsData
  <1>4. LocksData
    BY DEF FormsInit, LocksData
  <1>5. RunsSound
    BY RestingIsSound DEF FlowsInit, RunsSound
  <1>6. OutboxSound
    BY DEF FlowsInit, OutboxSound
  <1> QED BY <1>3, <1>4, <1>5, <1>6 DEF FlowsInd

LEMMA IndImplies == FlowsInd => FlowsInv
  <1> SUFFICES ASSUME FlowsInd PROVE FlowsInv
    OBVIOUS
  <1>1. \A t \in Executions : run[t] \in Execution /\ Sound(run[t], locks)
    BY DEF FlowsInd, RunsSound
  <1>2. FlowsTypeOK
    <2>1. \A t \in Executions : run[t].at \in {"idle", "read", "walk", "commit", "done"}
      BY <1>1 DEF Execution
    <2> QED BY <2>1 DEF FlowsInd, FlowsData, FlowsTypeOK, Documents, Catalog, AllKinds
  <1>3. AdmittedFlowsEnd
    BY <1>1 DEF AdmittedFlowsEnd, Sound
  <1>4. PathsAreWhole
    BY <1>1 DEF PathsAreWhole, WasPlanned, Sound, Decided
  <1>5. MailsAreDeduped
    BY <1>1 DEF MailsAreDeduped, Sound, Posted
  <1>6. VisitorsMailPeople
    BY DEF FlowsInd, OutboxSound, SentBy, VisitorsMailPeople
  <1>7. WritesWereAllowed
    BY <1>1 DEF WritesWereAllowed, WasPlanned, Sound, Decided, Allowed
  <1> QED BY <1>2, <1>3, <1>4, <1>5, <1>6, <1>7 DEF FlowsInv

\* A step of one execution, its new record being as sound as the others.
LEMMA OneExecution ==
  ASSUME FlowsInd, locks' = locks, UNCHANGED <<kinds, cells, flow, draft, result, outbox>>,
         NEW t \in Executions, run[t].at # "done",
         NEW r \in Execution, Sound(r, locks), run' = [run EXCEPT ![t] = r]
  PROVE  FlowsInd'
  <1>1. FlowsData'
    BY DEF FlowsInd, FlowsData
  <1>2. LocksData'
    BY DEF FlowsInd, LocksData
  <1>3. run' \in [Executions -> Execution]
    BY DEF FlowsInd, RunsSound
  <1>4. \A s \in Executions : Sound(run'[s], locks')
    BY DEF FlowsInd, RunsSound
  <1>5. ASSUME NEW m \in outbox PROVE m.by \in Executions /\ SentBy(m, run'[m.by])
    <2>1. m.by \in Executions /\ SentBy(m, run[m.by])
      BY DEF FlowsInd, OutboxSound
    <2>2. m.by # t
      BY <2>1 DEF SentBy
    <2>3. run'[m.by] = run[m.by]
      BY <2>1, <2>2 DEF FlowsInd, RunsSound
    <2> QED BY <2>1, <2>3
  <1>6. OutboxSound'
    BY <1>5 DEF OutboxSound
  <1>7. RunsSound'
    BY <1>3, <1>4 DEF RunsSound
  <1> QED BY <1>1, <1>2, <1>6, <1>7 DEF FlowsInd

LEMMA EndsSoundly ==
  ASSUME NEW r \in Execution, NEW l, Sound(r, l), NEW reply \in {"forbidden", "validation"},
         r.at # "done"
  PROVE  /\ [r EXCEPT !.at = "done", !.reply = reply] \in Execution
         /\ r.at # "commit" => Sound([r EXCEPT !.at = "done", !.reply = reply], l)
  <1> DEFINE q == [r EXCEPT !.at = "done", !.reply = reply]
  <1>1. q \in Execution
    BY DEF Execution, Replies
  <1>2. /\ q.at = "done" /\ q.reply = reply /\ q.from = r.from /\ q.mails = r.mails
        /\ q.visited = r.visited
    BY DEF Execution
  <1> HIDE DEF q
  <1>3. Posted(q)
    BY <1>2 DEF Sound, Posted, Deduped
  <1>4. Sound(q, l)
    BY <1>2, <1>3 DEF Sound, Decided
  <1> QED BY <1>1, <1>4 DEF q

LEMMA LockKeeps ==
  ASSUME FlowsInd, NEW u \in People, NEW c \in Columns, NEW list \in SUBSET People, Lock(u, c, list)
  PROVE  FlowsInd'
  <1>1. LocksData'
    BY DEF FlowsInd, LocksData, Lock, SaveLock, Everyone
  <1>2. FlowsData'
    BY DEF FlowsInd, FlowsData, Lock
  <1>3. ASSUME NEW t \in Executions
        PROVE  /\ run'[t] \in Execution /\ Sound(run'[t], locks')
               /\ run'[t].at = run[t].at /\ run'[t].from = run[t].from
    <2> DEFINE r == run[t]  more == {f \in Columns : r.by \in locks'[f]}  q == [r EXCEPT !.could = @ \cup more]
    <2>1. r \in Execution /\ Sound(r, locks)
      BY DEF FlowsInd, RunsSound
    <2>2. run'[t] = q
      BY DEF Lock
    <2> HIDE DEF r
    <2>3. more \subseteq Columns /\ \A f \in Columns : r.by \in locks'[f] => f \in more
      OBVIOUS
    <2> HIDE DEF more
    <2>4. q \in Execution
      BY <2>1, <2>3 DEF Execution
    <2>5. /\ q.at = r.at /\ q.by = r.by /\ q.from = r.from /\ q.flow = r.flow /\ q.kinds = r.kinds
          /\ q.values = r.values /\ q.todo = r.todo /\ q.visited = r.visited /\ q.writes = r.writes
          /\ q.mails = r.mails /\ q.reply = r.reply /\ q.could = r.could \cup more
      BY <2>1 DEF Execution
    <2> HIDE DEF q
    <2>6. Posted(q)
      BY <2>1, <2>5 DEF Sound, Posted, Deduped
    <2>7. Ready(q) = Ready(r) /\ Walks(q) = Walks(r) /\ (Allowed(r) => Allowed(q))
      BY <2>5 DEF Ready, Walks, Allowed
    <2>8. Sound(q, locks')
      BY <2>1, <2>3, <2>5, <2>6, <2>7 DEF Sound, Decided
    <2> QED BY <2>2, <2>4, <2>5, <2>8 DEF r
  <1>4. RunsSound'
    <2>1. run' = [t \in Executions |-> run'[t]]
      BY DEF Lock
    <2>2. run' \in [Executions -> Execution]
      BY <1>3, <2>1
    <2> QED BY <1>3, <2>2 DEF RunsSound
  <1>5. OutboxSound'
    BY <1>3 DEF FlowsInd, OutboxSound, SentBy, Lock
  <1> QED BY <1>1, <1>2, <1>4, <1>5 DEF FlowsInd

LEMMA EditingKeeps ==
  ASSUME FlowsInd, Editing, locks' = locks
  PROVE  FlowsInd'
  <1>1. run' = run /\ outbox' = outbox
    BY DEF Editing, CheckDraft, SaveDefinition, ChangeCell, RetypeColumn
  <1>2. LocksData' /\ RunsSound' /\ OutboxSound'
    BY <1>1 DEF FlowsInd, LocksData, RunsSound, OutboxSound
  <1>3. FlowsData'
    <2>0. FlowsData
      BY DEF FlowsInd
    <2>1. ASSUME NEW u \in People, NEW d \in Documents, CheckDraft(u, d) PROVE FlowsData'
      BY <2>0, <2>1 DEF FlowsData, CheckDraft
    <2>2. CASE SaveDefinition
      BY <2>0, <2>2 DEF FlowsData, SaveDefinition
    <2>3. ASSUME NEW c \in RowKeys, NEW v \in Values, ChangeCell(c, v) PROVE FlowsData'
      BY <2>0, <2>3 DEF FlowsData, ChangeCell
    <2>4. ASSUME NEW c \in Columns, NEW kind \in {"text", "checkbox", "gone"}, RetypeColumn(c, kind) PROVE FlowsData'
      BY <2>0, <2>4 DEF FlowsData, RetypeColumn, Catalog, AllKinds
    <2> QED BY <2>1, <2>2, <2>3, <2>4 DEF Editing
  <1> QED BY <1>2, <1>3 DEF FlowsInd

\* What an execution begins with.
LEMMA StartsSoundly ==
  ASSUME FlowsInd, NEW u \in People
  PROVE  /\ Started(u) \in Execution /\ Sound(Started(u), locks)
         /\ \A from \in {"form", "visitor"}, answers \in Filled :
               LET q == [Started(u) EXCEPT !.from = from, !.values = answers]
               IN q \in Execution /\ Sound(q, locks)
  <1> DEFINE s == Started(u)  could == {f \in Columns : u \in locks[f]}
  <1>1. /\ s.at = "read" /\ s.by = u /\ s.from = "button" /\ s.flow = flow /\ s.mails = {} /\ s.writes = Unread
        /\ s.could = could /\ s.reply = "none"
    BY DEF Started, Resting
  <1>2. s \in Execution
    <2>1. Resting \in Execution
      BY RestingIsSound
    <2>2. u \in Everyone /\ flow \in Drafts \cup {NoFlow}
      BY DEF FlowsInd, FlowsData, Documents, Everyone
    <2>3. could \subseteq Columns
      OBVIOUS
    <2> HIDE DEF could
    <2>4. s = [Resting EXCEPT !.at = "read", !.by = u, !.flow = flow, !.could = could]
      BY DEF Started, could
    <2> HIDE DEF s
    <2> QED BY <2>1, <2>2, <2>3, <2>4 DEF Execution
  <1>3. \A f \in Columns : u \in locks[f] => f \in could
    OBVIOUS
  <1> HIDE DEF s, could
  <1>4. Posted(s)
    BY <1>1 DEF Posted, Deduped
  <1>5. Sound(s, locks)
    BY <1>1, <1>3, <1>4 DEF Sound, Decided
  <1>6. ASSUME NEW from \in {"form", "visitor"}, NEW answers \in Filled
        PROVE  [s EXCEPT !.from = from, !.values = answers] \in Execution
               /\ Sound([s EXCEPT !.from = from, !.values = answers], locks)
    <2> DEFINE q == [s EXCEPT !.from = from, !.values = answers]
    <2>1. answers \in [RowKeys -> Values]
      BY FlowsAssumption
    <2>2. q \in Execution
      BY <1>2, <2>1 DEF Execution
    <2>3. /\ q.at = "read" /\ q.by = u /\ q.from = from /\ q.mails = {} /\ q.writes = Unread
          /\ q.could = could /\ q.reply = "none"
      BY <1>1, <1>2 DEF Execution
    <2> HIDE DEF q
    <2>4. Posted(q)
      BY <2>3 DEF Posted, Deduped, ToPeople
    <2>5. Sound(q, locks)
      BY <1>3, <2>3, <2>4 DEF Sound, Decided
    <2> QED BY <2>2, <2>5 DEF q
  <1> QED BY <1>2, <1>5, <1>6 DEF s

LEMMA StartingKeeps ==
  ASSUME FlowsInd, locks' = locks, NEW t \in Executions,
         \/ \E u \in People : Press(t, u)
         \/ \E u \in People, from \in {"form", "visitor"}, answers \in Filled : Submit(t, u, from, answers)
         \/ ReadCatalog(t) \/ ReadValues(t)
  PROVE  FlowsInd'
  <1>1. ASSUME NEW u \in People, Press(t, u) PROVE FlowsInd'
    <2>1. run' = [run EXCEPT ![t] = Started(u)] /\ run[t].at # "done"
          /\ UNCHANGED <<kinds, cells, flow, draft, result, outbox>>
      BY <1>1 DEF Press, Set, NothingElse
    <2> QED BY <2>1, StartsSoundly, OneExecution
  <1>2. ASSUME NEW u \in People, NEW from \in {"form", "visitor"}, NEW answers \in Filled,
               Submit(t, u, from, answers)
        PROVE  FlowsInd'
    <2> DEFINE q == [Started(u) EXCEPT !.from = from, !.values = answers]
    <2>1. run' = [run EXCEPT ![t] = q] /\ run[t].at # "done"
          /\ UNCHANGED <<kinds, cells, flow, draft, result, outbox>>
      BY <1>2 DEF Submit, Set, NothingElse
    <2>2. q \in Execution /\ Sound(q, locks)
      BY StartsSoundly
    <2> HIDE DEF q
    <2> QED BY <2>1, <2>2, OneExecution
  <1>3. ASSUME NEW q \in Execution, run' = [run EXCEPT ![t] = q], run[t].at = "read",
               UNCHANGED <<kinds, cells, flow, draft, result, outbox>>,
               q.at = "read", q.by = run[t].by, q.mails = run[t].mails, q.writes = run[t].writes,
               q.could = run[t].could, q.reply = run[t].reply
        PROVE  FlowsInd'
    <2>1. Sound(run[t], locks)
      BY DEF FlowsInd, RunsSound
    <2>2. q.mails = {}
      BY <1>3, <2>1 DEF Sound
    <2>3. Posted(q)
      BY <2>2 DEF Posted, Deduped, ToPeople
    <2>4. Sound(q, locks)
      BY <1>3, <2>1, <2>3 DEF Sound, Decided
    <2>5. run[t].at # "done"
      BY <1>3
    <2> QED BY <1>3, <2>4, <2>5, OneExecution
  <1>4. run[t] \in Execution
    BY DEF FlowsInd, RunsSound
  <1>5. CASE ReadCatalog(t)
    <2> DEFINE r == run[t]  q == [r EXCEPT !.kinds = kinds]
    <2>1. kinds \in Catalog
      BY DEF FlowsInd, FlowsData
    <2>2. run' = [run EXCEPT ![t] = q] /\ r.at = "read"
          /\ UNCHANGED <<kinds, cells, flow, draft, result, outbox>>
      BY <1>5 DEF ReadCatalog, Set, NothingElse
    <2>3. q \in Execution /\ q.at = r.at /\ q.by = r.by /\ q.mails = r.mails /\ q.writes = r.writes
          /\ q.could = r.could /\ q.reply = r.reply
      BY <1>4, <2>1 DEF Execution
    <2> HIDE DEF q
    <2> QED BY <1>3, <2>2, <2>3
  <1>6. CASE ReadValues(t)
    <2> DEFINE r == run[t]  q == [r EXCEPT !.values = cells]
    <2>1. cells \in [RowKeys -> Values]
      BY DEF FlowsInd, FlowsData
    <2>2. run' = [run EXCEPT ![t] = q] /\ r.at = "read"
          /\ UNCHANGED <<kinds, cells, flow, draft, result, outbox>>
      BY <1>6 DEF ReadValues, Set, NothingElse
    <2>3. q \in Execution /\ q.at = r.at /\ q.by = r.by /\ q.mails = r.mails /\ q.writes = r.writes
          /\ q.could = r.could /\ q.reply = r.reply
      BY <1>4, <2>1 DEF Execution
    <2> HIDE DEF q
    <2> QED BY <1>3, <2>2, <2>3
  <1> QED BY <1>1, <1>2, <1>5, <1>6

\* An execution that ends with a refusal.
LEMMA EndingKeeps ==
  ASSUME FlowsInd, locks' = locks, NEW t \in Executions, run[t].at \in {"read", "walk"},
         NEW reply \in {"forbidden", "validation"}, End(t, reply), NothingElse
  PROVE  FlowsInd'
  <1> DEFINE r == run[t]  q == [r EXCEPT !.at = "done", !.reply = reply]
  <1>1. r \in Execution /\ Sound(r, locks)
    BY DEF FlowsInd, RunsSound
  <1>2. run' = [run EXCEPT ![t] = q] /\ UNCHANGED <<kinds, cells, flow, draft, result, outbox>>
    BY DEF End, Set, NothingElse
  <1>3. r.at # "done" /\ r.at # "commit"
    OBVIOUS
  <1> HIDE DEF r
  <1>4. q \in Execution /\ Sound(q, locks)
    BY <1>1, <1>3, EndsSoundly
  <1> HIDE DEF q
  <1> QED BY <1>2, <1>3, <1>4, OneExecution DEF r

LEMMA DocumentsAre ==
  ASSUME NEW d \in Documents
  PROVE  /\ d.nodes \in Seq(Nodes) /\ (d.version = 1 \/ d.version = 2)
         /\ d.version = 1 => ParsesV1(d.nodes)
         /\ d.version # 1 => ParsesV2(d.nodes) /\ d.version = 2
  BY FlowsAssumption DEF Documents, Parses

LEMMA AuthorizeKeeps ==
  ASSUME FlowsInd, locks' = locks, NEW t \in Executions, Authorize(t)
  PROVE  FlowsInd'
  <1> DEFINE r == run[t]  d == r.flow
             q == [r EXCEPT !.at = "walk", !.todo = Walk(d),
                            !.visited = IF d.version = 1 THEN <<>> ELSE <<d.nodes[1].id>>]
  <1>1. r \in Execution /\ Sound(r, locks) /\ r.at = "read" /\ r.kinds # Unread /\ r.values # Unread
    BY DEF FlowsInd, RunsSound, Authorize
  <1>2. CASE r.by \notin locks[Flow]
    <2>1. End(t, "forbidden") /\ NothingElse
      BY <1>2 DEF Authorize
    <2> QED BY <1>1, <2>1, EndingKeeps
  <1>3. CASE r.by \in locks[Flow] /\ ~Valid(d, r.kinds)
    <2>1. End(t, "validation") /\ NothingElse
      BY <1>3 DEF Authorize
    <2> QED BY <1>1, <2>1, EndingKeeps
  <1>4. CASE r.by \in locks[Flow] /\ Valid(d, r.kinds)
    <2>1. run' = [run EXCEPT ![t] = q] /\ UNCHANGED <<kinds, cells, flow, draft, result, outbox>>
      BY <1>4 DEF Authorize, Set, NothingElse
    <2>2. d \in Documents
      <3>1. Parses(d)
        BY <1>4 DEF Valid
      <3>2. ~Parses(NoFlow)
        BY DEF Parses, NoFlow
      <3>3. d \in Drafts \cup {NoFlow}
        BY <1>1 DEF Execution
      <3> QED BY <3>1, <3>2, <3>3 DEF Documents
    <2>3. /\ d.nodes \in Seq(Nodes)
          /\ d.version = 1 => ParsesV1(d.nodes)
          /\ d.version # 1 => ParsesV2(d.nodes)
      BY <2>2, DocumentsAre
    <2> DEFINE vis == IF d.version = 1 THEN <<>> ELSE <<d.nodes[1].id>>  todo == Walk(d)
    <2>4. /\ IF d.version = 1 THEN InGraph(d, vis, todo) ELSE InList(d, vis, todo)
          /\ vis \in Seq(Ids) /\ todo \in Seq(Nodes)
      <3>1. CASE d.version = 1
        <4>1. vis = <<>> /\ todo = <<d.nodes[1]>>
          BY <3>1 DEF Walk
        <4>2. InGraph(d, <<>>, <<d.nodes[1]>>)
          BY <2>3, <3>1, GraphBegins
        <4>3. d.nodes[1] \in Nodes
          BY <2>3, <3>1, <4>2, GraphGoesOn
        <4> QED BY <3>1, <4>1, <4>2, <4>3
      <3>2. CASE d.version # 1
        <4>1. vis = <<d.nodes[1].id>> /\ todo = Tail(d.nodes)
          BY <3>2 DEF Walk
        <4>2. InList(d, <<d.nodes[1].id>>, Tail(d.nodes))
          BY <2>3, <3>2, ListBegins
        <4>3. Len(d.nodes) >= 2
          BY <2>3, <3>2 DEF ParsesV2
        <4>4. d.nodes[1] \in Nodes /\ Tail(d.nodes) \in Seq(Nodes)
          BY <2>3, <4>3
        <4>5. d.nodes[1].id \in Ids
          BY <4>4 DEF Ids
        <4> QED BY <3>2, <4>1, <4>2, <4>4, <4>5
      <3> QED BY <3>1, <3>2
    <2> HIDE DEF vis, todo
    <2>5. q = [r EXCEPT !.at = "walk", !.todo = todo, !.visited = vis]
      BY DEF vis, todo
    <2> HIDE DEF q
    <2>6. q \in Execution
      BY <1>1, <2>4, <2>5 DEF Execution
    <2>7. /\ q.at = "walk" /\ q.by = r.by /\ q.from = r.from /\ q.flow = d /\ q.kinds = r.kinds
          /\ q.values = r.values /\ q.todo = todo /\ q.visited = vis /\ q.writes = r.writes
          /\ q.mails = r.mails /\ q.could = r.could /\ q.reply = r.reply
      BY <1>1, <2>5 DEF Execution
    <2> HIDE DEF r, d
    <2>8. q.mails = {} /\ q.writes = Unread /\ q.reply = "none"
      BY <1>1, <2>7 DEF Sound
    <2>9. Posted(q)
      BY <2>8 DEF Posted, Deduped, ToPeople
    <2>10. Ready(q) /\ Walks(q)
      BY <1>1, <2>2, <2>4, <2>7 DEF Ready, Walks
    <2>11. \A f \in Columns : q.by \in locks[f] => f \in q.could
      BY <1>1, <2>7 DEF Sound
    <2>12. Allowed(q)
      <3>1. Flow \in Columns
        BY DEF Columns
      <3>2. Flow \in q.could
        BY <1>4, <2>7, <2>11, <3>1
      <3>3. DOMAIN q.writes = {}
        BY <2>8 DEF Unread
      <3> QED BY <3>2, <3>3 DEF Allowed
    <2>13. Sound(q, locks)
      BY <2>7, <2>8, <2>9, <2>10, <2>11, <2>12 DEF Sound, Decided
    <2>14. run[t].at # "done"
      BY <1>1 DEF r
    <2> QED BY <2>1, <2>6, <2>13, <2>14, OneExecution
  <1> QED BY <1>2, <1>3, <1>4

PassedTo(r, n, q) ==
    /\ q \in Execution /\ Walks(q) /\ n \in Nodes /\ n.id \notin Range(r.visited)
    /\ q.at = r.at /\ q.by = r.by /\ q.from = r.from /\ q.flow = r.flow /\ q.kinds = r.kinds
    /\ q.values = r.values /\ q.writes = r.writes /\ q.mails = r.mails /\ q.could = r.could
    /\ q.reply = r.reply /\ Range(q.visited) = Range(r.visited) \cup {n.id}

\* Past a node the walk goes on, and had not been at it.
LEMMA PastGoesOn ==
  ASSUME NEW r \in Execution, Ready(r), Walks(r), NEW n, n = Head(r.todo), n.type # "callback",
         NEW i \in {1, 2}, i = 2 => n.type = "switch"
  PROVE  PassedTo(r, n, Past(r, n, i))
  <1> DEFINE d == r.flow  vis == Append(r.visited, n.id)
             todo == IF d.version = 1 THEN Named(d.nodes, n.next[i])
                     ELSE (IF i = 1 THEN n.yes ELSE n.no) \o Tail(r.todo)
             q == Past(r, n, i)
  <1>1. /\ d.nodes \in Seq(Nodes)
        /\ d.version = 1 => ParsesV1(d.nodes)
        /\ d.version # 1 => ParsesV2(d.nodes)
    BY DocumentsAre DEF Ready
  <1>2. r.visited \in Seq(Ids) /\ r.todo \in Seq(Nodes)
    BY DEF Execution
  <1>3. /\ n \in Nodes /\ n.id \notin Range(r.visited) /\ todo \in Seq(Nodes)
        /\ IF d.version = 1 THEN InGraph(d, vis, todo) ELSE InList(d, vis, todo)
    <2>1. CASE d.version = 1
      <3>1. InGraph(d, r.visited, r.todo)
        BY <2>1 DEF Walks
      <3>2. /\ r.todo # <<>> /\ r.todo[1] \in Nodes /\ r.todo[1].id \notin Range(r.visited)
            /\ ShapedNode(r.todo[1])
            /\ \A k \in 1..Len(r.todo[1].next) :
                  InGraph(d, Append(r.visited, r.todo[1].id), Named(d.nodes, r.todo[1].next[k]))
        BY <1>1, <2>1, <3>1, GraphGoesOn
      <3>3. n = r.todo[1]
        BY <1>2, <3>2, TailOf
      <3>4. i \in 1..Len(n.next)
        BY <3>2, <3>3 DEF ShapedNode
      <3>5. InGraph(d, vis, todo)
        BY <2>1, <3>2, <3>3, <3>4
      <3>6. todo \in Seq(Nodes)
        <4> DEFINE found == {m \in Range(d.nodes) : m.id = n.next[i]}
        <4>1. todo = IF found = {} THEN <<>> ELSE <<CHOOSE m \in found : TRUE>>
          BY <2>1 DEF Named
        <4>2. found \subseteq Nodes
          BY <1>1 DEF Range
        <4> HIDE DEF found, todo
        <4>3. found # {} => (CHOOSE m \in found : TRUE) \in Nodes
          BY <4>2
        <4> QED BY <4>1, <4>3
      <3> QED BY <2>1, <3>2, <3>3, <3>5, <3>6
    <2>2. CASE d.version # 1
      <3>1. InList(d, r.visited, r.todo)
        BY <2>2 DEF Walks
      <3>2. r.todo # <<>> /\ r.todo[1] \in Nodes
        BY <1>1, <2>2, <3>1, ListGoesSomewhere
      <3>3. n = r.todo[1]
        BY <1>2, <3>2, TailOf
      <3> DEFINE b == IF i = 1 THEN n.yes ELSE n.no
      <3>4. b \in {r.todo[1].yes, r.todo[1].no}
        BY <3>3
      <3>5. todo = b \o Tail(r.todo)
        BY <2>2
      <3> HIDE DEF b
      <3>6. InList(d, Append(r.visited, r.todo[1].id), b \o Tail(r.todo)) /\ r.todo[1].id \notin Range(r.visited)
        BY <1>1, <2>2, <3>1, <3>2, <3>3, <3>4, ListGoesOn
      <3>7. InList(d, vis, todo)
        BY <3>3, <3>5, <3>6
      <3>8. todo \in Seq(Nodes)
        BY <3>7 DEF InList
      <3> QED BY <2>2, <3>2, <3>3, <3>6, <3>7, <3>8
    <2> QED BY <2>1, <2>2
  <1>4. n.id \in Ids
    BY <1>3 DEF Ids
  <1>5. vis \in Seq(Ids) /\ Len(vis) = Len(r.visited) + 1 /\ (\A j \in 1..Len(r.visited) : vis[j] = r.visited[j])
        /\ vis[Len(r.visited) + 1] = n.id /\ Len(r.visited) \in Nat
    BY <1>2, <1>4
  <1>6. q = [r EXCEPT !.visited = vis, !.todo = todo]
    BY DEF Past
  <1> HIDE DEF vis, todo, q
  <1>7. Range(vis) = Range(r.visited) \cup {n.id}
    <2>1. DOMAIN vis = 1..Len(vis) /\ DOMAIN r.visited = 1..Len(r.visited)
      BY <1>2, <1>5
    <2>2. \A j \in 1..Len(vis) : j \in 1..Len(r.visited) \/ j = Len(r.visited) + 1
      BY <1>5
    <2>3. Range(vis) \subseteq Range(r.visited) \cup {n.id}
      BY <1>5, <2>1, <2>2 DEF Range
    <2>4. \A j \in 1..Len(r.visited) : j \in 1..Len(vis)
      BY <1>5
    <2>5. Range(r.visited) \subseteq Range(vis)
      BY <1>5, <2>1, <2>4 DEF Range
    <2>6. Len(r.visited) + 1 \in 1..Len(vis)
      BY <1>5
    <2>7. n.id \in Range(vis)
      BY <1>5, <2>1, <2>6 DEF Range
    <2> QED BY <2>3, <2>5, <2>7
  <1>8. q \in Execution
    BY <1>3, <1>5, <1>6 DEF Execution
  <1>9. /\ q.at = r.at /\ q.by = r.by /\ q.from = r.from /\ q.flow = d /\ q.kinds = r.kinds
        /\ q.values = r.values /\ q.todo = todo /\ q.visited = vis /\ q.writes = r.writes
        /\ q.mails = r.mails /\ q.could = r.could /\ q.reply = r.reply
    BY <1>6 DEF Execution
  <1>10. Walks(q)
    BY <1>3, <1>9 DEF Walks
  <1> QED BY <1>3, <1>7, <1>8, <1>9, <1>10 DEF q, PassedTo

LEMMA WalkingIs ==
  ASSUME FlowsInd, NEW t \in Executions, run[t].at = "walk"
  PROVE  /\ run[t] \in Execution /\ Sound(run[t], locks) /\ Ready(run[t]) /\ Walks(run[t]) /\ Allowed(run[t])
         /\ run[t].todo # <<>> /\ ~Repeated(t)
         /\ run[t].values \in [RowKeys -> Values] /\ Head(run[t].todo) = run[t].todo[1]
         /\ Head(run[t].todo) \in Nodes /\ run[t].flow \in Documents
  <1> DEFINE r == run[t]  d == r.flow
  <1>1. r \in Execution /\ Sound(r, locks) /\ Ready(r) /\ Walks(r) /\ Allowed(r)
    BY DEF FlowsInd, RunsSound, Sound
  <1>2. /\ d.nodes \in Seq(Nodes)
        /\ d.version = 1 => ParsesV1(d.nodes)
        /\ d.version # 1 => ParsesV2(d.nodes)
    BY <1>1, DocumentsAre DEF Ready
  <1>3. /\ r.todo # <<>> /\ r.todo[1] \in Nodes
        /\ d.version = 1 => r.todo[1].id \notin Range(r.visited)
    <2>1. CASE d.version = 1
      <3>1. InGraph(d, r.visited, r.todo)
        BY <1>1, <2>1 DEF Walks
      <3> QED BY <1>2, <2>1, <3>1, GraphGoesOn
    <2>2. CASE d.version # 1
      <3>1. InList(d, r.visited, r.todo)
        BY <1>1, <2>2 DEF Walks
      <3> QED BY <1>2, <2>2, <3>1, ListGoesSomewhere
    <2> QED BY <2>1, <2>2
  <1>4. r.todo \in Seq(Nodes) /\ r.values \in [RowKeys -> Values] \cup {Unread}
    BY <1>1 DEF Execution
  <1>5. Head(r.todo) = r.todo[1]
    BY <1>3, <1>4, TailOf
  <1>6. ~Repeated(t)
    BY <1>3, <1>5 DEF Repeated
  <1> QED BY <1>1, <1>3, <1>4, <1>5, <1>6 DEF Ready

\* The record of an execution after a node: where it was, with what it set
\* and what it posts there.
NodeStep(t, n, i, values, writes, mails) ==
    /\ run[t].at = "walk" /\ n = Head(run[t].todo) /\ n.type # "callback"
    /\ i \in {1, 2} /\ (i = 2 => n.type = "switch")
    /\ values \in [RowKeys -> Values] /\ writes \in Assignments /\ mails \in SUBSET Mail
    /\ DOMAIN writes \subseteq run[t].could
    /\ \A m \in mails : m.node = n.id
    /\ \A m, o \in mails : m.box = o.box => m = o
    /\ run[t].from = "visitor" => ToPeople(mails)
    /\ run' = [run EXCEPT ![t] = [Past(run[t], n, i) EXCEPT
                    !.values = values, !.writes = writes, !.mails = @ \cup mails]]
    /\ NothingElse

LEMMA NodeKeeps ==
  ASSUME FlowsInd, locks' = locks, NEW t \in Executions,
         NEW n, NEW i, NEW values, NEW writes, NEW mails, NodeStep(t, n, i, values, writes, mails)
  PROVE  FlowsInd'
  <1> SUFFICES ASSUME run[t].at = "walk", n = Head(run[t].todo), n.type # "callback",
                      i \in {1, 2}, i = 2 => n.type = "switch",
                      values \in [RowKeys -> Values], writes \in Assignments, mails \in SUBSET Mail,
                      DOMAIN writes \subseteq run[t].could,
                      \A m \in mails : m.node = n.id,
                      \A m, o \in mails : m.box = o.box => m = o,
                      run[t].from = "visitor" => ToPeople(mails),
                      run' = [run EXCEPT ![t] = [Past(run[t], n, i) EXCEPT
                          !.values = values, !.writes = writes, !.mails = @ \cup mails]],
                      NothingElse
               PROVE  FlowsInd'
    BY DEF NodeStep
  <1> DEFINE r == run[t]  p == Past(r, n, i)
             q == [p EXCEPT !.values = values, !.writes = writes, !.mails = @ \cup mails]
  <1>1. /\ r \in Execution /\ Sound(r, locks) /\ Ready(r) /\ Walks(r) /\ Allowed(r)
    BY WalkingIs
  <1>2. /\ p \in Execution /\ Walks(p) /\ n.id \notin Range(r.visited)
        /\ p.at = r.at /\ p.by = r.by /\ p.from = r.from /\ p.flow = r.flow /\ p.kinds = r.kinds
        /\ p.values = r.values /\ p.writes = r.writes /\ p.mails = r.mails /\ p.could = r.could
        /\ p.reply = r.reply /\ Range(p.visited) = Range(r.visited) \cup {n.id}
    <2>1. PassedTo(r, n, Past(r, n, i))
      BY <1>1, PastGoesOn
    <2> QED BY <2>1 DEF PassedTo
  <1>3. run' = [run EXCEPT ![t] = q] /\ UNCHANGED <<kinds, cells, flow, draft, result, outbox>>
        /\ r.at = "walk"
    BY DEF NothingElse
  <1> HIDE DEF p, r
  <1>4. q \in Execution
    BY <1>2 DEF Execution
  <1>5. /\ q.at = p.at /\ q.by = p.by /\ q.from = p.from /\ q.flow = p.flow /\ q.kinds = p.kinds
        /\ q.values = values /\ q.todo = p.todo /\ q.visited = p.visited /\ q.writes = writes
        /\ q.mails = p.mails \cup mails /\ q.could = p.could /\ q.reply = p.reply
    BY <1>2 DEF Execution
  <1> HIDE DEF q
  <1>6. Posted(q)
    <2>1. Posted(r)
      BY <1>1 DEF Sound
    <2>2. \A m \in r.mails : m.node \in Range(r.visited) /\ m.node # n.id
      BY <1>2, <2>1 DEF Posted
    <2>3. Deduped(q)
      <3> SUFFICES ASSUME NEW m \in q.mails, NEW o \in q.mails, m.node = o.node, m.box = o.box PROVE m = o
        BY DEF Deduped
      <3>1. m \in r.mails \/ m \in mails
        BY <1>2, <1>5
      <3>2. o \in r.mails \/ o \in mails
        BY <1>2, <1>5
      <3>3. CASE m \in r.mails
        <4>1. o \in r.mails
          BY <2>2, <3>2, <3>3
        <4> QED BY <2>1, <3>3, <4>1 DEF Posted, Deduped
      <3>4. CASE m \in mails
        <4>1. o \in mails
          BY <2>2, <3>2, <3>4
        <4> QED BY <3>4, <4>1
      <3> QED BY <3>1, <3>3, <3>4
    <2>4. \A m \in q.mails : m.node \in Range(q.visited)
      BY <1>2, <1>5, <2>2
    <2>5. q.from = "visitor" => ToPeople(q.mails)
      <3>1. r.from = "visitor" => ToPeople(r.mails) /\ ToPeople(mails)
        BY <2>1 DEF Posted, r
      <3> QED BY <1>2, <1>5, <3>1 DEF ToPeople
    <2> QED BY <2>3, <2>4, <2>5 DEF Posted
  <1>7. Ready(q)
    <2>1. q.values # Unread
      <3>1. DOMAIN values = RowKeys /\ Title \in RowKeys /\ DOMAIN Unread = {}
        BY DEF RowKeys, Unread
      <3> QED BY <1>5, <3>1
    <2> QED BY <1>1, <1>2, <1>5, <2>1 DEF Ready
  <1>8. Walks(q)
    BY <1>2, <1>5 DEF Walks
  <1>9. Allowed(q)
    BY <1>1, <1>2, <1>5 DEF Allowed, r
  <1>10. Sound(q, locks)
    BY <1>1, <1>2, <1>3, <1>5, <1>6, <1>7, <1>8, <1>9 DEF Sound, Decided
  <1>11. run[t].at # "done"
    OBVIOUS
  <1> QED BY <1>3, <1>4, <1>10, <1>11, OneExecution

LEMMA ResolveIs ==
  ASSUME NEW r, r.values \in [RowKeys -> Values], NEW v \in RowKeys \cup Contacts \cup Values
  PROVE  Resolve(r, v) \in Values
  BY FlowsAssumption DEF Resolve

\* A node that sets and posts nothing.
LEMMA PlainNodeKeeps ==
  ASSUME FlowsInd, locks' = locks, NEW t \in Executions, run[t].at = "walk",
         NEW n, n = Head(run[t].todo), n.type # "callback", NEW i \in {1, 2}, i = 2 => n.type = "switch",
         run' = [run EXCEPT ![t] = Past(run[t], n, i)], NothingElse
  PROVE  FlowsInd'
  <1> DEFINE r == run[t]  p == Past(r, n, i)
  <1>1. /\ r \in Execution /\ Sound(r, locks) /\ Ready(r) /\ Walks(r) /\ Allowed(r)
        /\ r.values \in [RowKeys -> Values] /\ r.writes \in Assignments /\ DOMAIN r.writes \subseteq r.could
    BY WalkingIs DEF Execution, Allowed
  <1>2. p \in Execution /\ p.values = r.values /\ p.writes = r.writes
    <2>1. PassedTo(r, n, Past(r, n, i))
      BY <1>1, PastGoesOn
    <2> QED BY <2>1 DEF PassedTo
  <1> HIDE DEF p
  <1>3. [p EXCEPT !.values = r.values, !.writes = r.writes, !.mails = @ \cup {}] = p
    BY <1>2 DEF Execution
  <1>4. run' = [run EXCEPT ![t] = [p EXCEPT !.values = r.values, !.writes = r.writes, !.mails = @ \cup {}]]
    BY <1>3 DEF p
  <1>5. {} \in SUBSET Mail /\ ToPeople({})
    BY DEF ToPeople
  <1>6. NodeStep(t, n, i, r.values, r.writes, {})
    BY <1>1, <1>4, <1>5 DEF NodeStep, p
  <1> QED BY <1>6, NodeKeeps

LEMMA WritingKeeps ==
  ASSUME FlowsInd, locks' = locks, NEW t \in Executions, WriteValue(t)
  PROVE  FlowsInd'
  <1> DEFINE r == run[t]  n == Head(r.todo)  v == Resolve(r, n.value)  p == Past(r, n, 1)
  <1>1. r.at = "walk" /\ n.type = "set_value"
    BY DEF WriteValue, Here, Walking
  <1>2. /\ r \in Execution /\ Sound(r, locks) /\ Ready(r) /\ Walks(r) /\ Allowed(r)
        /\ r.values \in [RowKeys -> Values] /\ n \in Nodes
    BY <1>1, WalkingIs
  <1>3. CASE ~Target(n.column, r.kinds)
    <2>1. End(t, "validation") /\ NothingElse
      BY <1>3 DEF WriteValue
    <2> QED BY <1>1, <2>1, EndingKeeps
  <1>4. CASE Target(n.column, r.kinds) /\ r.by \notin locks[n.column]
    <2>1. End(t, "forbidden") /\ NothingElse
      BY <1>4 DEF WriteValue
    <2> QED BY <1>1, <2>1, EndingKeeps
  <1>5. CASE Target(n.column, r.kinds) /\ r.by \in locks[n.column]
    <2> DEFINE values == [r.values EXCEPT ![n.column] = v]
               writes == [c \in DOMAIN r.writes \cup {n.column} |-> IF c = n.column THEN v ELSE r.writes[c]]
    <2>1. run' = [run EXCEPT ![t] = [p EXCEPT
                    !.values = [@ EXCEPT ![n.column] = v],
                    !.writes = [c \in DOMAIN @ \cup {n.column} |->
                                    IF c = n.column THEN v ELSE @[c]]]] /\ NothingElse
      BY <1>5 DEF WriteValue, Set
    <2>2. p \in Execution /\ p.values = r.values /\ p.writes = r.writes
      <3>1. n.type # "callback" /\ n = Head(r.todo) /\ 1 \in {1, 2} /\ (1 = 2 => n.type = "switch")
        BY <1>1
      <3>2. PassedTo(r, n, Past(r, n, 1))
        BY <1>2, <3>1, PastGoesOn
      <3> QED BY <3>2 DEF PassedTo
    <2>3. v \in Values
      <3>1. n.value \in RowKeys \cup Contacts \cup Values
        BY <1>1, <1>2, FlowsAssumption
      <3> QED BY <1>2, <3>1, ResolveIs
    <2>4. n.column \in Fields
      BY <1>5 DEF Target
    <2> HIDE DEF v, p, n
    <2>5. values \in [RowKeys -> Values]
      BY <1>2, <2>3
    <2>6. writes \in Assignments /\ DOMAIN writes = DOMAIN r.writes \cup {n.column}
      <3>1. r.writes \in Assignments
        BY <1>2 DEF Execution
      <3>2. PICK D \in SUBSET Fields : r.writes \in [D -> Values]
        BY <3>1 DEF Assignments
      <3>3. writes \in [D \cup {n.column} -> Values]
        BY <2>3, <3>2
      <3>4. D \cup {n.column} \in SUBSET Fields
        BY <2>4
      <3> QED BY <3>3, <3>4 DEF Assignments
    <2>7. DOMAIN writes \subseteq r.could
      <3>1. n.column \in Columns
        BY <2>4 DEF Columns
      <3>2. n.column \in r.could
        BY <1>1, <1>2, <1>5, <3>1 DEF Sound
      <3> QED BY <1>2, <2>6, <3>2 DEF Allowed
    <2>8. run' = [run EXCEPT ![t] = [p EXCEPT !.values = values, !.writes = writes, !.mails = @ \cup {}]]
      <3>1. [p EXCEPT !.values = [@ EXCEPT ![n.column] = v],
                      !.writes = [c \in DOMAIN @ \cup {n.column} |-> IF c = n.column THEN v ELSE @[c]]]
            = [p EXCEPT !.values = values, !.writes = writes]
        BY <2>2
      <3>2. [p EXCEPT !.values = values, !.writes = writes, !.mails = @ \cup {}]
            = [p EXCEPT !.values = values, !.writes = writes]
        <4> HIDE DEF values, writes
        <4> QED BY <2>2 DEF Execution
      <3> HIDE DEF values, writes
      <3> QED BY <2>1, <3>1, <3>2
    <2>9. {} \in SUBSET Mail /\ ToPeople({})
      BY DEF ToPeople
    <2>10. n.type # "callback" /\ n = Head(run[t].todo) /\ n.type # "switch"
      BY <1>1 DEF n
    <2> HIDE DEF values, writes
    <2>11. NodeStep(t, n, 1, values, writes, {})
      <3>1. n = Head(run[t].todo) /\ 1 \in {1, 2} /\ (1 = 2 => n.type = "switch")
        BY <2>10
      <3>2. run[t].from = "visitor" => ToPeople({})
        BY <2>9
      <3>3. run' = [run EXCEPT ![t] = [Past(run[t], n, 1) EXCEPT
                    !.values = values, !.writes = writes, !.mails = @ \cup {}]]
        BY <2>8 DEF p
      <3> QED BY <1>1, <2>1, <2>5, <2>6, <2>7, <2>9, <2>10, <3>1, <3>2, <3>3 DEF NodeStep
    <2> QED BY <2>11, NodeKeeps
  <1> QED BY <1>3, <1>4, <1>5

\* The messages of one node: one for each address.
LEMMA SpelledIs ==
  ASSUME NEW r, r.values \in [RowKeys -> Values], NEW n \in Nodes
  PROVE  /\ Spelled(r, n) \in SUBSET Mail
         /\ \A m \in Spelled(r, n) : m.node = n.id
         /\ \A m, o \in Spelled(r, n) : m.box = o.box => m = o
         /\ Range(n.to) \subseteq Contacts => ToPeople(Spelled(r, n))
  <1> DEFINE v(i) == Resolve(r, n.to[i])
             last == {i \in DOMAIN n.to : \A j \in i + 1..Len(n.to) : Mailbox[v(j)] # Mailbox[v(i)]}
             mail(i) == [node |-> n.id, box |-> Mailbox[v(i)], to |-> v(i)]
  <1>1. Spelled(r, n) = {mail(i) : i \in last}
    BY DEF Spelled
  <1>2. n.to \in Seq(RowKeys \cup Contacts) /\ DOMAIN n.to = 1..Len(n.to) /\ Len(n.to) \in Nat
        /\ \A i \in 1..Len(n.to) : n.to[i] \in RowKeys \cup Contacts
    <2>1. n.to \in Seq(RowKeys \cup Contacts)
      BY FlowsAssumption
    <2> QED BY <2>1
  <1>3. \A i \in DOMAIN n.to : v(i) \in Values
    BY <1>2, ResolveIs
  <1>4. ASSUME NEW i \in last, NEW j \in last, Mailbox[v(i)] = Mailbox[v(j)] PROVE i = j
    <2>1. i \in 1..Len(n.to) /\ j \in 1..Len(n.to)
      BY <1>2
    <2>2. ~(i < j)
      <3> SUFFICES ASSUME i < j PROVE FALSE
        OBVIOUS
      <3>1. j \in i + 1..Len(n.to)
        BY <1>2, <2>1
      <3> QED BY <1>4, <3>1
    <2>3. ~(j < i)
      <3> SUFFICES ASSUME j < i PROVE FALSE
        OBVIOUS
      <3>1. i \in j + 1..Len(n.to)
        BY <1>2, <2>1
      <3> QED BY <1>4, <3>1
    <2> QED BY <2>1, <2>2, <2>3
  <1>5. n.id \in Ids
    BY DEF Ids
  <1>6. ASSUME NEW i \in last PROVE mail(i) \in Mail /\ mail(i).node = n.id /\ mail(i).box = Mailbox[v(i)]
    <2>1. v(i) \in Values
      BY <1>3
    <2> HIDE DEF v
    <2> QED BY <1>5, <2>1 DEF Mail
  <1>7. ASSUME Range(n.to) \subseteq Contacts, NEW i \in last PROVE \E k \in Contacts : Mailbox[Address[k]] = mail(i).box
    <2>1. n.to[i] \in Contacts
      BY <1>7 DEF Range
    <2>2. n.to[i] \notin RowKeys
      BY <2>1, FlowsAssumption
    <2>3. v(i) = Address[n.to[i]]
      BY <2>1, <2>2 DEF Resolve
    <2>4. mail(i).box = Mailbox[v(i)]
      BY <1>6
    <2> QED BY <2>1, <2>3, <2>4
  <1> HIDE DEF last
  <1>8. Spelled(r, n) \in SUBSET Mail /\ \A m \in Spelled(r, n) : m.node = n.id
    <2> HIDE DEF mail
    <2> QED BY <1>1, <1>6
  <1>9. \A m, o \in Spelled(r, n) : m.box = o.box => m = o
    <2> SUFFICES ASSUME NEW m \in Spelled(r, n), NEW o \in Spelled(r, n), m.box = o.box PROVE m = o
      OBVIOUS
    <2>1. PICK i \in last : m = mail(i)
      BY <1>1
    <2>2. PICK j \in last : o = mail(j)
      BY <1>1
    <2>3. Mailbox[v(i)] = Mailbox[v(j)]
      <3>1. mail(i).box = Mailbox[v(i)] /\ mail(j).box = Mailbox[v(j)]
        BY <1>6
      <3> HIDE DEF mail, v
      <3> QED BY <2>1, <2>2, <3>1
    <2>4. i = j
      BY <1>4, <2>3
    <2> QED BY <2>1, <2>2, <2>4
  <1>10. Range(n.to) \subseteq Contacts => ToPeople(Spelled(r, n))
    <2> HIDE DEF mail
    <2> QED BY <1>1, <1>7 DEF ToPeople
  <1> QED BY <1>8, <1>9, <1>10

LEMMA MailingKeeps ==
  ASSUME FlowsInd, locks' = locks, NEW t \in Executions, EnqueueEmail(t)
  PROVE  FlowsInd'
  <1> DEFINE r == run[t]  n == Head(r.todo)  keys == Range(n.to)  p == Past(r, n, 1)
             unknown == \E key \in keys : ~Recipient(key, r.kinds)
             strangers == r.from = "visitor" /\ ~(keys \subseteq Contacts)
             nowhere == \E key \in keys : Mailbox[Resolve(r, key)] = NoMail
  <1>1. r.at = "walk" /\ n.type = "email" /\ NothingElse
    BY DEF EnqueueEmail, Here, Walking
  <1>2. /\ r \in Execution /\ Sound(r, locks) /\ Ready(r) /\ Walks(r) /\ Allowed(r)
        /\ r.values \in [RowKeys -> Values] /\ n \in Nodes
    BY <1>1, WalkingIs
  <1>3. \/ End(t, "validation") \/ End(t, "forbidden")
        \/ ~strangers /\ run' = [run EXCEPT ![t] = [p EXCEPT !.mails = @ \cup Spelled(r, n)]]
    BY DEF EnqueueEmail, Set
  <1>4. CASE End(t, "validation") \/ End(t, "forbidden")
    BY <1>1, <1>4, EndingKeeps
  <1>5. CASE ~strangers /\ run' = [run EXCEPT ![t] = [p EXCEPT !.mails = @ \cup Spelled(r, n)]]
    <2> DEFINE mails == Spelled(r, n)
    <2>1. /\ mails \in SUBSET Mail
          /\ \A m \in mails : m.node = n.id
          /\ \A m, o \in mails : m.box = o.box => m = o
          /\ keys \subseteq Contacts => ToPeople(mails)
      BY <1>2, SpelledIs
    <2> HIDE DEF mails
    <2>2. p \in Execution /\ p.values = r.values /\ p.writes = r.writes
      <3>1. n.type # "callback" /\ n = Head(r.todo) /\ 1 \in {1, 2} /\ (1 = 2 => n.type = "switch")
        BY <1>1
      <3>2. PassedTo(r, n, Past(r, n, 1))
        BY <1>2, <3>1, PastGoesOn
      <3> QED BY <3>2 DEF PassedTo
    <2> HIDE DEF p
    <2>3. [p EXCEPT !.values = r.values, !.writes = r.writes, !.mails = @ \cup mails]
          = [p EXCEPT !.mails = @ \cup mails]
      BY <2>2 DEF Execution
    <2>4. run' = [run EXCEPT ![t] = [p EXCEPT !.values = r.values, !.writes = r.writes, !.mails = @ \cup mails]]
      BY <1>5, <2>3 DEF mails
    <2>5. r.writes \in Assignments /\ DOMAIN r.writes \subseteq r.could
      BY <1>2 DEF Execution, Allowed
    <2>6. r.from = "visitor" => ToPeople(mails)
      BY <1>5, <2>1
    <2>7. NodeStep(t, n, 1, r.values, r.writes, mails)
      BY <1>1, <1>2, <2>1, <2>4, <2>5, <2>6 DEF NodeStep, p
    <2> QED BY <2>7, NodeKeeps
  <1> QED BY <1>3, <1>4, <1>5

LEMMA FinishKeeps ==
  ASSUME FlowsInd, locks' = locks, NEW t \in Executions, Finish(t)
  PROVE  FlowsInd'
  <1> DEFINE r == run[t]  n == Head(r.todo)  d == r.flow  path == Append(r.visited, n.id)
             q == [r EXCEPT !.at = "commit", !.visited = path, !.todo = <<>>]
  <1>1. r.at = "walk" /\ n.type = "callback" /\ NothingElse
    BY DEF Finish, Here, Walking
  <1>2. /\ r \in Execution /\ Sound(r, locks) /\ Ready(r) /\ Walks(r) /\ Allowed(r)
        /\ n = r.todo[1] /\ n \in Nodes
    BY <1>1, WalkingIs
  <1>3. n = Callback(d) /\ WholePath(d, path)
    <2>1. /\ d.nodes \in Seq(Nodes)
          /\ d.version = 1 => ParsesV1(d.nodes)
          /\ d.version # 1 => ParsesV2(d.nodes) /\ d.version = 2
      BY <1>2, DocumentsAre DEF Ready
    <2>2. CASE d.version = 1
      <3>1. InGraph(d, r.visited, r.todo)
        BY <1>2, <2>2 DEF Walks
      <3>2. r.todo[1].type = "callback"
        BY <1>1, <1>2
      <3>3. WholePath(d, Append(r.visited, r.todo[1].id))
        BY <2>1, <2>2, <3>1, <3>2, GraphEnds
      <3>4. r.todo[1] = Callback(d)
        BY <2>1, <2>2, <3>1, <3>2, GraphGoesOn
      <3> QED BY <1>2, <3>3, <3>4
    <2>3. CASE d.version # 1
      <3>1. InList(d, r.visited, r.todo)
        BY <1>2, <2>3 DEF Walks
      <3>2. r.todo[1].type = "callback"
        BY <1>1, <1>2
      <3>3. r.todo[1] = Callback(d) /\ OneWay(d, Append(r.visited, r.todo[1].id))
        BY <2>1, <2>3, <3>1, <3>2, ListEnds
      <3> QED BY <1>2, <2>1, <2>3, <3>3 DEF WholePath
    <2> QED BY <2>2, <2>3
  <1>4. run' = [run EXCEPT ![t] = q] /\ UNCHANGED <<kinds, cells, flow, draft, result, outbox>>
    BY <1>1, <1>3 DEF Finish, Set, NothingElse
  <1>5. r.visited \in Seq(Ids) /\ n.id \in Ids
    BY <1>2 DEF Execution, Ids
  <1> HIDE DEF n
  <1>6. path \in Seq(Ids) /\ \A j \in 1..Len(r.visited) : j \in DOMAIN path /\ path[j] = r.visited[j]
    BY <1>5
  <1>7. Range(r.visited) \subseteq Range(path)
    BY <1>5, <1>6 DEF Range
  <1> HIDE DEF path, r, d
  <1>8. q \in Execution
    <2>1. path \in Seq(Ids) /\ <<>> \in Seq(Nodes)
      BY <1>6
    <2> QED BY <1>2, <2>1 DEF Execution
  <1>9. /\ q.at = "commit" /\ q.by = r.by /\ q.from = r.from /\ q.flow = r.flow
        /\ q.visited = path /\ q.writes = r.writes
        /\ q.mails = r.mails /\ q.could = r.could /\ q.reply = r.reply
    BY <1>2 DEF Execution
  <1> HIDE DEF q
  <1>10. Posted(q)
    BY <1>2, <1>7, <1>9 DEF Sound, Posted, Deduped
  <1>11. Allowed(q) /\ q.reply = "none"
    BY <1>1, <1>2, <1>9 DEF Allowed, Sound
  <1>12. Sound(q, locks)
    BY <1>3, <1>9, <1>10, <1>11 DEF Sound, Decided, d
  <1>13. run[t].at # "done"
    BY <1>1 DEF r
  <1> QED BY <1>4, <1>8, <1>12, <1>13, OneExecution

LEMMA CommitKeeps ==
  ASSUME FlowsInd, locks' = locks, NEW t \in Executions, NEW reply \in {"succeeded", "server_error"},
         CommitExecution(t, reply)
  PROVE  FlowsInd'
  <1> DEFINE r == run[t]  q == [r EXCEPT !.at = "done", !.reply = reply]
             sent == {[by |-> t, node |-> m.node, box |-> m.box] : m \in r.mails}
  <1>1. r \in Execution /\ Sound(r, locks) /\ r.at = "commit"
    BY DEF FlowsInd, RunsSound, CommitExecution
  <1>2. run' = [run EXCEPT ![t] = q] /\ UNCHANGED <<kinds, flow, draft>> /\ outbox' = outbox \cup sent
    BY DEF CommitExecution, End, Set
  <1>3. q \in Execution
    BY <1>1 DEF Execution, Replies
  <1>4. /\ q.at = "done" /\ q.by = r.by /\ q.from = r.from /\ q.flow = r.flow
        /\ q.visited = r.visited /\ q.writes = r.writes
        /\ q.mails = r.mails /\ q.could = r.could /\ q.reply = reply
    BY <1>1 DEF Execution
  <1>5. FlowsData'
    <2>1. cells' \in [RowKeys -> Values]
      <3>1. CASE r.from # "button"
        BY <3>1 DEF CommitExecution, FlowsInd, FlowsData
      <3>2. CASE r.from = "button"
        <4>1. PICK D \in SUBSET Fields : r.writes \in [D -> Values]
          BY <1>1 DEF Execution, Assignments
        <4>2. cells' = [c \in RowKeys |-> IF c \in DOMAIN r.writes THEN r.writes[c] ELSE cells[c]]
          BY <3>2 DEF CommitExecution
        <4>3. cells \in [RowKeys -> Values]
          BY DEF FlowsInd, FlowsData
        <4> QED BY <4>1, <4>2, <4>3
      <3> QED BY <3>1, <3>2
    <2>2. result' \in Executions \cup {Nobody}
      BY DEF CommitExecution, FlowsInd, FlowsData
    <2> QED BY <1>2, <2>1, <2>2 DEF FlowsInd, FlowsData
  <1>6. LocksData'
    BY DEF FlowsInd, LocksData
  <1>7. Posted(r)
    BY <1>1 DEF Sound
  <1>8. OutboxSound'
    <2> SUFFICES ASSUME NEW m \in outbox \cup sent PROVE m.by \in Executions /\ SentBy(m, run'[m.by])
      BY <1>2 DEF OutboxSound
    <2>1. CASE m \in outbox
      <3>1. m.by \in Executions /\ SentBy(m, run[m.by])
        BY <2>1 DEF FlowsInd, OutboxSound
      <3>2. m.by # t
        BY <1>1, <3>1 DEF SentBy
      <3>3. run'[m.by] = run[m.by]
        BY <1>2, <3>1, <3>2 DEF FlowsInd, RunsSound
      <3> QED BY <3>1, <3>3
    <2>2. CASE m \in sent
      <3>1. PICK o \in r.mails : m = [by |-> t, node |-> o.node, box |-> o.box]
        BY <2>2
      <3>2. m.by = t /\ m.box = o.box
        BY <3>1
      <3>3. run'[t] = q
        BY <1>2 DEF FlowsInd, RunsSound
      <3> HIDE DEF q
      <3>4. q.from = "visitor" => \E k \in Contacts : Mailbox[Address[k]] = m.box
        BY <1>4, <1>7, <3>2 DEF Posted, ToPeople
      <3> QED BY <1>4, <3>2, <3>3, <3>4 DEF SentBy
    <2> QED BY <2>1, <2>2
  <1> HIDE DEF q
  <1>9. Posted(q)
    BY <1>4, <1>7 DEF Posted, Deduped
  <1>10. Sound(q, locks)
    <2>1. WholePath(q.flow, q.visited) /\ Allowed(q)
      BY <1>1, <1>4 DEF Sound, Decided, Allowed
    <2> QED BY <1>4, <1>9, <2>1 DEF Sound, Decided
  <1>11. RunsSound'
    <2>1. run' \in [Executions -> Execution]
      BY <1>2, <1>3 DEF FlowsInd, RunsSound
    <2>2. \A s \in Executions : Sound(run'[s], locks')
      BY <1>2, <1>10 DEF FlowsInd, RunsSound
    <2> QED BY <2>1, <2>2 DEF RunsSound
  <1> QED BY <1>5, <1>6, <1>8, <1>11 DEF FlowsInd

LEMMA RunningKeeps ==
  ASSUME FlowsInd, locks' = locks, NEW t \in Executions, Running(t)
  PROVE  FlowsInd'
  <1>1. CASE Lost(t)
    BY <1>1, WalkingIs DEF Lost
  <1>2. CASE Begin(t)
    <2> DEFINE n == Head(run[t].todo)
    <2>1. run[t].at = "walk" /\ n.type = "start" /\ run' = [run EXCEPT ![t] = Past(run[t], n, 1)] /\ NothingElse
      BY <1>2 DEF Begin, Here, Walking, Set
    <2>2. n = Head(run[t].todo) /\ n.type # "callback" /\ 1 \in {1, 2} /\ (1 = 2 => n.type = "switch")
      BY <2>1
    <2> HIDE DEF n
    <2> QED BY <2>1, <2>2, PlainNodeKeeps
  <1>3. CASE Switch(t)
    <2> DEFINE n == Head(run[t].todo)
               right == IF run[t].flow.version = 1 THEN Resolve(run[t], n.value) ELSE n.value
               i == IF Compare(n.operator, run[t].values[n.column], right) THEN 1 ELSE 2
    <2>1. run[t].at = "walk" /\ n.type = "switch" /\ run' = [run EXCEPT ![t] = Past(run[t], n, i)] /\ NothingElse
      BY <1>3 DEF Switch, Here, Walking, Set
    <2>2. i \in {1, 2}
      OBVIOUS
    <2>3. n = Head(run[t].todo) /\ n.type # "callback" /\ (i = 2 => n.type = "switch")
      BY <2>1
    <2> HIDE DEF i, n
    <2> QED BY <2>1, <2>2, <2>3, PlainNodeKeeps
  <1>4. CASE WriteValue(t)
    BY <1>4, WritingKeeps
  <1>5. CASE EnqueueEmail(t)
    BY <1>5, MailingKeeps
  <1>6. CASE Finish(t)
    BY <1>6, FinishKeeps
  <1>7. ASSUME NEW reply \in {"succeeded", "server_error"}, CommitExecution(t, reply) PROVE FlowsInd'
    BY <1>7, CommitKeeps
  <1>8. CASE Authorize(t)
    BY <1>8, AuthorizeKeeps
  <1>9. CASE \/ \E u \in People : Press(t, u)
             \/ \E u \in People, from \in {"form", "visitor"}, answers \in Filled : Submit(t, u, from, answers)
             \/ ReadCatalog(t) \/ ReadValues(t)
    BY <1>9, StartingKeeps
  <1> QED BY <1>1, <1>2, <1>3, <1>4, <1>5, <1>6, <1>7, <1>8, <1>9 DEF Running

LEMMA FlowsStay == FlowsInd /\ [FlowsNext]_<<formsVars, flowsVars>> => FlowsInd'
  <1> SUFFICES ASSUME FlowsInd, [FlowsNext]_<<formsVars, flowsVars>> PROVE FlowsInd'
    OBVIOUS
  <1>1. ASSUME NEW u \in People, NEW c \in Columns, NEW list \in SUBSET People, Lock(u, c, list) PROVE FlowsInd'
    BY <1>1, LockKeeps
  <1>2. CASE Editing /\ UNCHANGED formsVars
    BY <1>2, EditingKeeps DEF formsVars
  <1>3. ASSUME NEW t \in Executions, Running(t), UNCHANGED formsVars PROVE FlowsInd'
    BY <1>3, RunningKeeps DEF formsVars
  <1>4. CASE UNCHANGED <<formsVars, flowsVars>>
    BY <1>4 DEF formsVars, flowsVars, FlowsInd, FlowsData, LocksData, RunsSound, OutboxSound
  <1> QED BY <1>1, <1>2, <1>3, <1>4 DEF FlowsNext

\* Whatever the documents: an execution of an admitted flow never gets lost
\* and reports one whole way through it; its mail is without repetitions, a
\* visitor's reaches people of the database only, and what it writes somebody
\* could.  For every flow, lock, retyped column and interleaving.
THEOREM FlowsAreWhole == FlowsSpec => []FlowsInv
  <1>1. FormsInit /\ FlowsInit => FlowsInd
    BY FlowsStart
  <1>2. FlowsInd /\ [FlowsNext]_<<formsVars, flowsVars>> => FlowsInd'
    BY FlowsStay
  <1>3. FlowsInd => FlowsInv
    BY IndImplies
  <1> QED BY <1>1, <1>2, <1>3, PTL DEF FlowsSpec

-----------------------------------------------------------------------------
(* PageRelations.                                                          *)

EditFields == {"at", "by", "what", "column", "page", "want", "defs", "cells", "newDefs", "newCells"}
Shape(e) == e = [f \in EditFields |-> e[f]]

\* What the requests hold before they plan.
ColumnRead(e) ==
    /\ e.column \in Properties /\ DOMAIN e.defs = {e.column}
    /\ e.defs[e.column] \in Definition /\ e.defs[e.column].pair # e.column

CellRead(e) ==
    /\ ColumnRead(e) /\ e.page \in Pages
    /\ e.defs[e.column].kind = "relation" /\ Home[e.page] = e.defs[e.column].from
    /\ e.want \subseteq RowsIn(e.defs[e.column].to)
    /\ DOMAIN e.cells = {<<e.page, e.column>>} /\ e.cells[<<e.page, e.column>>] \in SUBSET Pages

\* A definition leads where another does.
SameEnds(new, old) == new.from = old.from /\ new.to = old.to

\* What a plan writes: nothing over a deleted column, and another target only
\* for its own column, not shown at the target.
PlanTypes(e) ==
    /\ e.column \in Properties /\ DOMAIN e.defs \subseteq Properties
    /\ e.column \in DOMAIN e.defs /\ e.defs[e.column] \in Definition
    /\ \A c \in DOMAIN e.defs : e.defs[c] \in Definition \cup {Absent}
    /\ DOMAIN e.newDefs \subseteq DOMAIN e.defs
    /\ \A c \in DOMAIN e.newDefs :
          /\ e.newDefs[c] \in Definition
          /\ e.defs[c] # Absent =>
                \/ SameEnds(e.newDefs[c], e.defs[c])
                \/ c = e.column /\ e.defs[c].pair = Absent /\ e.newDefs[c].from = e.defs[c].from
    /\ DOMAIN e.newCells \subseteq DOMAIN e.cells /\ DOMAIN e.cells \subseteq Cells
    /\ \A x \in DOMAIN e.newCells : e.newCells[x] \in SUBSET Pages

\* The cell and its mirrors change by the same links.
CellPlan(e) ==
    LET c == e.column  row == e.page  d == e.defs[c]
        old == e.cells[<<row, c>>]  new == e.newCells[<<row, c>>]
        mirrors == ((old \ new) \cup (new \ old)) \X (BothSides(c, d) \ {c})
    IN /\ row \in Pages /\ d.kind = "relation" /\ Home[row] = d.from
       /\ DOMAIN e.defs = BothSides(c, d) /\ DOMAIN e.newDefs = {}
       /\ d.pair # Absent => LeadsBack(c, d, e.defs[d.pair])
       /\ new \ old \subseteq RowsIn(d.to)
       /\ \A x \in mirrors : x[1] \in RowsIn(d.to)
       /\ DOMAIN e.cells = {<<row, c>>} \cup mirrors /\ DOMAIN e.newCells = DOMAIN e.cells
       /\ \A x \in mirrors : e.newCells[x] = IF x[1] \in new THEN e.cells[x] \cup {row}
                                                            ELSE e.cells[x] \ {row}

\* A new inverse property has the mirrors of all the cells there are.
CreatePlan(e) ==
    LET c == e.column  d == e.defs[c] IN
    \E i \in Properties \ {c} :
        /\ d.pair = Absent /\ DOMAIN e.defs = {c, i} /\ e.defs[i] = Absent
        /\ DOMAIN e.newDefs = {c, i}
        /\ e.newDefs[c].kind = "relation" /\ e.newDefs[c].pair = i
        /\ LeadsBack(c, e.newDefs[c], e.newDefs[i])
        /\ \A p \in RowsIn(d.from) : <<p, c>> \in DOMAIN e.cells
        /\ DOMAIN e.newCells = (UNION {e.cells[<<p, c>>] : p \in RowsIn(d.from)}) \X {i}
        /\ \A x \in DOMAIN e.newCells :
              /\ x[1] \in RowsIn(e.newDefs[c].to)
              /\ e.newCells[x] = {p \in RowsIn(d.from) : x[1] \in e.cells[<<p, c>>]}

SavePlan(e) ==
    LET c == e.column  i == e.defs[c].pair IN
    /\ i # Absent /\ DOMAIN e.defs = {c, i} /\ DOMAIN e.newDefs = {c, i} /\ DOMAIN e.newCells = {}
    /\ LeadsBack(c, e.defs[c], e.defs[i])
    /\ e.newDefs[c].pair = i /\ e.newDefs[i].pair = c
    /\ e.newDefs[c].kind = "relation" /\ e.newDefs[i].kind = "relation"
    /\ SameEnds(e.newDefs[c], e.defs[c]) /\ SameEnds(e.newDefs[i], e.defs[i])

SeparatePlan(e) ==
    LET c == e.column  d == e.defs[c] IN
    /\ DOMAIN e.defs = BothSides(c, d) /\ DOMAIN e.newDefs = BothSides(c, d) /\ DOMAIN e.newCells = {}
    /\ d.pair # Absent => LeadsBack(c, d, e.defs[d.pair])
    /\ \A i \in DOMAIN e.newDefs : e.newDefs[i].pair = Absent

RelationPlan(e) == PlanTypes(e) /\ (CellPlan(e) \/ CreatePlan(e) \/ SavePlan(e) \/ SeparatePlan(e))

\* A column read is still there, in the database it was in.
StillThere(e) ==
    \A c \in DOMAIN e.defs :
        /\ c \in Properties
        /\ e.defs[c] # Absent => property[c] # Absent /\ property[c].from = e.defs[c].from

\* A request may give its column another target, and asked to.
Retargets(e) == e.at = "definition" \/ (e.at = "commit" /\ e.column \in DOMAIN e.newDefs)
TargetOf(e)  == IF e.at = "definition" THEN e.want.to ELSE e.newDefs[e.column].to

RequestHolds(e) ==
    /\ Shape(e) /\ e.at \in {"idle", "cell", "asking", "definition", "commit", "overwrite"}
    /\ e.at = "cell" => CellRead(e)
    /\ e.at \in {"asking", "definition"} => ColumnRead(e) /\ e.want \in Configurations
    /\ e.at = "asking" \/ Retargets(e) => e.what = "definition"
    /\ e.at = "overwrite" =>
          /\ ColumnRead(e) /\ e.what \in {"retype", "redefine", "reset", "delete"}
          /\ e.want \in Databases \cup {Absent}
          /\ e.what # "reset" /\ e.defs[e.column].kind = "relation" => e.defs[e.column].pair = Absent
    /\ e.at = "commit" => RelationPlan(e)
    /\ e.at # "idle" => StillThere(e)

NotItself == \A c \in Properties : property[c] # Absent => property[c].pair # c

RelationTypes ==
    /\ property \in [Properties -> Definition \cup {Absent}]
    /\ cell \in [Cells -> SUBSET Pages] /\ outdated \in BOOLEAN /\ stray \subseteq Properties

RelationTables ==
    /\ RelationTypes /\ NotItself /\ OnePageEach /\ CellsNameTargets
    /\ ~outdated => PairsHold /\ Mirrored

RequestsHold ==
    /\ edit = [t \in Edits |-> edit[t]] /\ overtaken \subseteq Edits
    /\ \A t \in Edits : RequestHolds(edit[t])

\* Not overtaken, a request for a column that is not stray finds no value in it,
\* or the target it asks for.
Checked(e) ==
    Retargets(e) /\ e.column \notin stray =>
        ~HasValues(e.column) \/ property[e.column].to = TargetOf(e)
ChecksHold == \A t \in Edits \ overtaken : Checked(edit[t])

RelationsInd == RelationTables /\ RequestsHold /\ ChecksHold

\* What every step keeps: no column goes or moves, and one with values that
\* gets another target is stray from then on.
ColumnsStay ==
    \A c \in Properties :
        property[c] # Absent => property'[c] # Absent /\ property'[c].from = property[c].from
TargetsStay ==
    /\ stray \subseteq stray'
    /\ \A c \in Properties \ stray' : HasValues(c) => property'[c].to = property[c].to

-----------------------------------------------------------------------------
(* A commit.                                                                *)

\* A plan that finds what it read, about to be written.
Commits(e) ==
    /\ RelationPlan(e)
    /\ \A c \in DOMAIN e.defs : property[c] = e.defs[c]
    /\ \A x \in DOMAIN e.cells : cell[x] = e.cells[x]
    /\ property' = Upon(e.newDefs, property) /\ cell' = Upon(e.newCells, cell)
    /\ TargetsStay /\ stray' \subseteq Properties /\ UNCHANGED outdated

\* Each definition and cell is the plan's or what it was; no column that was
\* there goes or moves, and what is shown at its target keeps it.
LEMMA PlannedTables ==
  ASSUME RelationTables, NEW e, Commits(e)
  PROVE  /\ property' \in [Properties -> Definition \cup {Absent}]
         /\ cell' \in [Cells -> SUBSET Pages]
         /\ \A c \in Properties :
               property'[c] = IF c \in DOMAIN e.newDefs THEN e.newDefs[c] ELSE property[c]
         /\ \A x \in Cells : cell'[x] = IF x \in DOMAIN e.newCells THEN e.newCells[x] ELSE cell[x]
         /\ ColumnsStay
         /\ \A c \in Properties : Paired(c) => property'[c].to = property[c].to
  <1>1. /\ DOMAIN e.newDefs \subseteq Properties /\ DOMAIN e.newCells \subseteq Cells
        /\ property \in [Properties -> Definition \cup {Absent}] /\ cell \in [Cells -> SUBSET Pages]
    BY DEF Commits, RelationPlan, PlanTypes, RelationTables, RelationTypes
  <1>2. /\ \A c \in DOMAIN e.newDefs : e.newDefs[c] \in Definition
        /\ \A x \in DOMAIN e.newCells : e.newCells[x] \in SUBSET Pages
    BY DEF Commits, RelationPlan, PlanTypes
  <1>3. property' = [c \in Properties |-> IF c \in DOMAIN e.newDefs THEN e.newDefs[c] ELSE property[c]]
    <2>1. DOMAIN e.newDefs \cup DOMAIN property = Properties
      BY <1>1
    <2> QED BY <2>1 DEF Commits, Upon
  <1>4. cell' = [x \in Cells |-> IF x \in DOMAIN e.newCells THEN e.newCells[x] ELSE cell[x]]
    <2>1. DOMAIN e.newCells \cup DOMAIN cell = Cells
      BY <1>1
    <2> QED BY <2>1 DEF Commits, Upon
  <1>5. property' \in [Properties -> Definition \cup {Absent}] /\ cell' \in [Cells -> SUBSET Pages]
    BY <1>1, <1>2, <1>3, <1>4
  <1>6. ASSUME NEW c \in Properties, property[c] # Absent
        PROVE  /\ property'[c] # Absent /\ property'[c].from = property[c].from
               /\ property[c].pair # Absent => property'[c].to = property[c].to
    <2>1. CASE c \in DOMAIN e.newDefs
      <3>1. property'[c] = e.newDefs[c] /\ e.newDefs[c] \in Definition /\ property[c] = e.defs[c]
        BY <1>2, <1>3, <2>1 DEF Commits, RelationPlan, PlanTypes
      <3>2. \/ SameEnds(e.newDefs[c], e.defs[c])
            \/ e.defs[c].pair = Absent /\ e.newDefs[c].from = e.defs[c].from
        BY <1>6, <2>1, <3>1 DEF Commits, RelationPlan, PlanTypes
      <3> QED BY <3>1, <3>2, DefinitionsAssumption DEF SameEnds
    <2>2. CASE c \notin DOMAIN e.newDefs
      BY <1>3, <1>6, <2>2
    <2> QED BY <2>1, <2>2
  <1> QED BY <1>3, <1>4, <1>5, <1>6 DEF ColumnsStay, Paired

\* Cells that are not written name rows of the target still: no column moves,
\* and one that gets another target is stray.
LEMMA NamesTargets ==
  ASSUME RelationTables, NEW x \in Cells, cell[x] # {}, cell'[x] = cell[x], ColumnsStay, TargetsStay,
         (x[2] \in stray' => Paired(x[2])' /\ ~outdated') =>
            (x[2] \in stray' => Paired(x[2]) /\ ~outdated /\ property'[x[2]].to = property[x[2]].to)
  PROVE  /\ property'[x[2]] # Absent /\ Home[x[1]] = property'[x[2]].from
         /\ (x[2] \in stray' => Paired(x[2])' /\ ~outdated') =>
                cell'[x] \subseteq RowsIn(property'[x[2]].to)
  <1>1. x[2] \in Properties /\ x[1] \in Pages /\ x = <<x[1], x[2]>>
    BY DEF Cells
  <1>2. /\ property[x[2]] # Absent /\ Home[x[1]] = property[x[2]].from
        /\ (x[2] \in stray => Paired(x[2]) /\ ~outdated) => cell[x] \subseteq RowsIn(property[x[2]].to)
    BY DEF RelationTables, CellsNameTargets
  <1>3. property'[x[2]] # Absent /\ Home[x[1]] = property'[x[2]].from
    BY <1>1, <1>2 DEF ColumnsStay
  <1>4. ASSUME x[2] \in stray' => Paired(x[2])' /\ ~outdated'
        PROVE  cell'[x] \subseteq RowsIn(property'[x[2]].to)
    <2>1. CASE x[2] \notin stray'
      <3>1. x[2] \notin stray /\ HasValues(x[2])
        BY <1>1, <2>1 DEF TargetsStay, HasValues
      <3>2. property'[x[2]].to = property[x[2]].to
        BY <1>1, <2>1, <3>1 DEF TargetsStay
      <3> QED BY <1>2, <3>1, <3>2
    <2>2. CASE x[2] \in stray'
      BY <1>2, <1>4, <2>2
    <2> QED BY <2>1, <2>2
  <1> QED BY <1>3, <1>4

\* Nothing else is paired with a property whose pair is known.
LEMMA PairsAreDisjoint ==
  ASSUME RelationTables, PairsHold, NEW b \in Properties, Paired(b)
  PROVE  /\ property[b].pair \in Properties /\ property[property[b].pair] # Absent
         /\ property[property[b].pair].pair = b
  BY DEF RelationTables, RelationTypes, PairsHold, Paired, LeadsBack, Definition

-----------------------------------------------------------------------------
(* An edit of a cell.                                                       *)

LEMMA CellCommit ==
  ASSUME RelationTables, NEW e, Commits(e), CellPlan(e)
  PROVE  /\ CellsNameTargets' /\ NotItself'
         /\ PairsHold /\ Mirrored => PairsHold' /\ Mirrored'
  <1> DEFINE c == e.column
             row == e.page
             d == e.defs[c]
             old == e.cells[<<row, c>>]
             new == e.newCells[<<row, c>>]
             changed == (old \ new) \cup (new \ old)
  <1>1. /\ c \in Properties /\ row \in Pages /\ d \in Definition /\ d = property[c] /\ d # Absent
        /\ d.kind = "relation" /\ Home[row] = d.from /\ new \ old \subseteq RowsIn(d.to)
    BY DefinitionsAssumption DEF Commits, RelationPlan, PlanTypes, CellPlan
  <1>2. property' = property
    <2>1. property \in [Properties -> Definition \cup {Absent}] /\ DOMAIN e.newDefs = {}
      BY DEF RelationTables, RelationTypes, CellPlan
    <2> QED BY <2>1, PlannedTables
  <1>3. <<row, c>> \in Cells /\ cell[<<row, c>>] = old /\ cell'[<<row, c>>] = new
    BY <1>1, PlannedTables DEF CellPlan, Commits, Cells
  <1>4. (c \in stray => Paired(c) /\ ~outdated) => new \subseteq RowsIn(d.to)
    <2>1. old # {} /\ (c \in stray => Paired(c) /\ ~outdated) => old \subseteq RowsIn(d.to)
      BY <1>1, <1>3 DEF RelationTables, CellsNameTargets
    <2> QED BY <1>1, <2>1
  <1>5. ASSUME d.pair # Absent
        PROVE  /\ d.pair \in Properties \ {c} /\ LeadsBack(c, d, property[d.pair])
               /\ BothSides(c, d) \ {c} = {d.pair}
    <2>1. d.pair \in Properties \ {c}
      BY <1>1, <1>5 DEF RelationTables, NotItself, Definition
    <2>2. BothSides(c, d) \ {c} = {d.pair}
      BY <1>5, <2>1 DEF BothSides
    <2>3. d.pair \in DOMAIN e.defs
      BY <2>2 DEF CellPlan
    <2> QED BY <1>5, <2>1, <2>2, <2>3 DEF CellPlan, Commits
  <1>6. ASSUME d.pair = Absent
        PROVE  DOMAIN e.newCells = {<<row, c>>}
    BY <1>6 DEF CellPlan, BothSides
  <1>7. ASSUME d.pair # Absent
        PROVE  /\ DOMAIN e.newCells = {<<row, c>>} \cup (changed \X {d.pair})
               /\ changed \subseteq RowsIn(d.to)
               /\ \A q \in changed : cell'[<<q, d.pair>>] = IF q \in new THEN cell[<<q, d.pair>>] \cup {row}
                                                            ELSE cell[<<q, d.pair>>] \ {row}
    <2>1. BothSides(c, d) \ {c} = {d.pair}
      BY <1>5, <1>7
    <2>2. DOMAIN e.newCells = {<<row, c>>} \cup (changed \X {d.pair})
      BY <2>1 DEF CellPlan
    <2>3. ASSUME NEW q \in changed
          PROVE  cell'[<<q, d.pair>>] = IF q \in new THEN cell[<<q, d.pair>>] \cup {row}
                                        ELSE cell[<<q, d.pair>>] \ {row}
      <3>1. /\ e.newCells[<<q, d.pair>>] = IF q \in new THEN e.cells[<<q, d.pair>>] \cup {row}
                                           ELSE e.cells[<<q, d.pair>>] \ {row}
            /\ DOMAIN e.newCells = DOMAIN e.cells
        BY <2>1 DEF CellPlan
      <3>2. <<q, d.pair>> \in DOMAIN e.newCells /\ <<q, d.pair>> \in DOMAIN e.cells
        BY <2>2, <3>1
      <3>3. <<q, d.pair>> \in Cells
        BY <3>2 DEF Commits, RelationPlan, PlanTypes
      <3> QED BY <3>1, <3>2, <3>3, PlannedTables DEF Commits
    <2>4. ASSUME NEW q \in changed PROVE q \in RowsIn(d.to)
      <3>1. <<q, d.pair>> \in changed \X (BothSides(c, d) \ {c})
        BY <2>1
      <3>2. \A x \in changed \X (BothSides(c, d) \ {c}) : x[1] \in RowsIn(d.to)
        BY DEF CellPlan
      <3> QED BY <3>1, <3>2
    <2> QED BY <2>2, <2>3, <2>4
  <1> HIDE DEF c, row, d, old, new
  <1>8. CellsNameTargets'
    <2> SUFFICES ASSUME NEW x \in Cells, cell'[x] # {}
                 PROVE  /\ property'[x[2]] # Absent /\ Home[x[1]] = property'[x[2]].from
                        /\ (x[2] \in stray' => Paired(x[2])' /\ ~outdated') =>
                              cell'[x] \subseteq RowsIn(property'[x[2]].to)
      BY DEF CellsNameTargets, Paired
    <2>1. /\ stray \subseteq stray' /\ outdated' = outdated /\ ColumnsStay /\ TargetsStay
          /\ \A b \in Properties : Paired(b)' <=> Paired(b)
      BY <1>2, PlannedTables DEF Commits, TargetsStay, Paired
    <2>2. CASE x \notin DOMAIN e.newCells
      <3>1. cell'[x] = cell[x]
        BY <2>2, PlannedTables
      <3>2. x[2] \in Properties
        BY DEF Cells
      <3> QED BY <1>2, <2>1, <3>1, <3>2, NamesTargets
    <2>3. CASE x = <<row, c>>
      <3>1. x[1] = row /\ x[2] = c /\ cell'[x] = new
        BY <1>3, <2>3
      <3>2. property'[c] = d
        BY <1>1, <1>2
      <3>3. (c \in stray' => Paired(c)' /\ ~outdated') => (c \in stray => Paired(c) /\ ~outdated)
        BY <1>1, <2>1
      <3> QED BY <1>1, <1>4, <3>1, <3>2, <3>3
    <2>4. CASE x \in DOMAIN e.newCells /\ x # <<row, c>>
      <3>1. d.pair # Absent
        BY <1>6, <2>4
      <3>2. PICK q \in changed : x = <<q, d.pair>>
        BY <1>7, <2>4, <3>1
      <3>3. cell'[x] \subseteq cell[x] \cup {row}
        BY <1>7, <3>1, <3>2
      <3>4. q \in RowsIn(d.to) /\ LeadsBack(c, d, property[d.pair]) /\ d.pair \in Properties
        BY <1>5, <1>7, <3>1
      <3>5. row \in RowsIn(d.from)
        BY <1>1 DEF RowsIn
      <3>6. ASSUME d.pair \in stray' => Paired(d.pair)' /\ ~outdated'
            PROVE  cell[x] \subseteq RowsIn(property[d.pair].to)
        <4>1. x[2] = d.pair /\ (x[2] \in stray => Paired(x[2]) /\ ~outdated)
          BY <2>1, <3>2, <3>4, <3>6
        <4> QED BY <4>1 DEF RelationTables, CellsNameTargets
      <3>7. x[1] = q /\ x[2] = d.pair /\ property' = property
        BY <1>2, <3>2
      <3>8. /\ property[d.pair] # Absent /\ property[d.pair].from = d.to /\ property[d.pair].to = d.from
            /\ Home[q] = d.to
        BY <3>4 DEF LeadsBack, RowsIn
      <3> QED BY <3>3, <3>5, <3>6, <3>7, <3>8
    <2> QED BY <2>2, <2>3, <2>4
  <1>9. ASSUME PairsHold, Mirrored PROVE Mirrored'
    <2> SUFFICES ASSUME NEW b \in Properties, Paired(b), NEW p \in RowsIn(property[b].from),
                        NEW q \in RowsIn(property[b].to)
                 PROVE  q \in cell'[<<p, b>>] <=> p \in cell'[<<q, property[b].pair>>]
      BY <1>2 DEF Mirrored, Paired
    <2> DEFINE i == property[b].pair
    <2>1. i \in Properties /\ property[i] # Absent /\ property[i].pair = b /\ p \in Pages /\ q \in Pages
      BY <1>9, PairsAreDisjoint DEF RowsIn
    <2>2. q \in cell[<<p, b>>] <=> p \in cell[<<q, i>>]
      BY <1>9 DEF Mirrored
    <2>3. <<p, b>> \in Cells /\ <<q, i>> \in Cells
      BY <2>1 DEF Cells
    <2>4. CASE b # c /\ i # c
      <3>1. <<p, b>> \notin DOMAIN e.newCells /\ <<q, i>> \notin DOMAIN e.newCells
        <4>1. CASE d.pair = Absent
          BY <1>6, <2>4, <4>1
        <4>2. CASE d.pair # Absent
          <5>1. b # d.pair /\ i # d.pair
            BY <1>1, <1>5, <2>1, <2>4, <4>2 DEF LeadsBack
          <5> QED BY <1>7, <2>4, <4>2, <5>1
        <4> QED BY <4>1, <4>2
      <3> QED BY <2>2, <2>3, <3>1, PlannedTables
    <2>5. CASE b = c
      <3>1. i = d.pair /\ d.pair # Absent /\ i # c
        BY <1>1, <1>5, <2>5 DEF Paired
      <3>2. \A r \in Pages, s \in Pages :
              /\ r # row => cell'[<<r, c>>] = cell[<<r, c>>]
              /\ s \notin changed => cell'[<<s, i>>] = cell[<<s, i>>]
        <4> SUFFICES ASSUME NEW r \in Pages, NEW s \in Pages
                     PROVE  /\ r # row => cell'[<<r, c>>] = cell[<<r, c>>]
                            /\ s \notin changed => cell'[<<s, i>>] = cell[<<s, i>>]
          OBVIOUS
        <4>1. <<r, c>> \in Cells /\ <<s, i>> \in Cells
          BY <1>1, <2>1 DEF Cells
        <4>2. r # row => <<r, c>> \notin DOMAIN e.newCells
          BY <1>7, <3>1
        <4>3. s \notin changed => <<s, i>> \notin DOMAIN e.newCells
          BY <1>7, <3>1
        <4> QED BY <4>1, <4>2, <4>3, PlannedTables
      <3>3. CASE p # row /\ q \in changed
        BY <1>7, <2>2, <2>5, <3>1, <3>2, <3>3, <2>1
      <3>4. CASE p # row /\ q \notin changed
        BY <2>2, <2>5, <3>1, <3>2, <3>4, <2>1
      <3>5. CASE p = row /\ q \in changed
        BY <1>3, <1>7, <2>5, <3>1, <3>5
      <3>6. CASE p = row /\ q \notin changed
        BY <1>3, <2>1, <2>2, <2>5, <3>1, <3>2, <3>6
      <3> QED BY <3>3, <3>4, <3>5, <3>6
    <2>6. CASE i = c
      <3>1. d.pair = b /\ b # c /\ d.pair # Absent /\ LeadsBack(c, d, property[b])
        BY <1>1, <1>5, <2>1, <2>6, RelationsAssumption DEF Paired
      <3>2. \A r \in Pages, s \in Pages :
              /\ r # row => cell'[<<r, c>>] = cell[<<r, c>>]
              /\ s \notin changed => cell'[<<s, b>>] = cell[<<s, b>>]
        <4> SUFFICES ASSUME NEW r \in Pages, NEW s \in Pages
                     PROVE  /\ r # row => cell'[<<r, c>>] = cell[<<r, c>>]
                            /\ s \notin changed => cell'[<<s, b>>] = cell[<<s, b>>]
          OBVIOUS
        <4>1. <<r, c>> \in Cells /\ <<s, b>> \in Cells
          BY <1>1, <2>1 DEF Cells
        <4>2. r # row => <<r, c>> \notin DOMAIN e.newCells
          BY <1>7, <3>1
        <4>3. s \notin changed => <<s, b>> \notin DOMAIN e.newCells
          BY <1>7, <3>1
        <4> QED BY <4>1, <4>2, <4>3, PlannedTables
      <3>3. CASE q # row /\ p \in changed
        <4>1. cell'[<<p, b>>] = IF p \in new THEN cell[<<p, b>>] \cup {row} ELSE cell[<<p, b>>] \ {row}
          BY <1>7, <3>1, <3>3
        <4>2. cell'[<<q, c>>] = cell[<<q, c>>]
          BY <2>1, <3>2, <3>3
        <4> QED BY <2>2, <2>6, <3>3, <4>1, <4>2
      <3>4. CASE q # row /\ p \notin changed
        BY <2>2, <2>6, <3>1, <3>2, <3>4, <2>1
      <3>5. CASE q = row /\ p \in changed
        BY <1>3, <1>7, <2>6, <3>1, <3>5
      <3>6. CASE q = row /\ p \notin changed
        BY <1>3, <2>1, <2>2, <2>6, <3>1, <3>2, <3>6
      <3> QED BY <3>3, <3>4, <3>5, <3>6
    <2> QED BY <2>4, <2>5, <2>6
  <1>10. NotItself' /\ (PairsHold => PairsHold')
    BY <1>2 DEF RelationTables, NotItself, PairsHold, Paired
  <1> QED BY <1>8, <1>9, <1>10

-----------------------------------------------------------------------------
(* A change of the configuration.                                           *)

\* CreateInverse.
LEMMA CreateCommit ==
  ASSUME RelationTables, NEW e, Commits(e), CreatePlan(e)
  PROVE  /\ CellsNameTargets' /\ NotItself'
         /\ PairsHold /\ Mirrored => PairsHold' /\ Mirrored'
  <1> DEFINE c == e.column
             d == e.defs[c]
  <1>1. PICK i \in Properties \ {c} :
          /\ d.pair = Absent /\ DOMAIN e.defs = {c, i} /\ e.defs[i] = Absent
          /\ DOMAIN e.newDefs = {c, i}
          /\ e.newDefs[c].kind = "relation" /\ e.newDefs[c].pair = i
          /\ LeadsBack(c, e.newDefs[c], e.newDefs[i])
          /\ \A p \in RowsIn(d.from) : <<p, c>> \in DOMAIN e.cells
          /\ DOMAIN e.newCells = (UNION {e.cells[<<p, c>>] : p \in RowsIn(d.from)}) \X {i}
          /\ \A x \in DOMAIN e.newCells :
                /\ x[1] \in RowsIn(e.newDefs[c].to)
                /\ e.newCells[x] = {p \in RowsIn(d.from) : x[1] \in e.cells[<<p, c>>]}
    BY DEF CreatePlan
  <1>2. /\ c \in Properties /\ d \in Definition /\ d = property[c] /\ d # Absent
        /\ property[i] = Absent
    BY <1>1, DefinitionsAssumption DEF Commits, RelationPlan, PlanTypes
  <1>3. /\ property'[c] = e.newDefs[c] /\ property'[i] = e.newDefs[i]
        /\ \A b \in Properties \ {c, i} : property'[b] = property[b]
    BY <1>1, <1>2, PlannedTables
  <1>4. /\ property'[c].from = d.from
        /\ property'[i].from = property'[c].to /\ property'[i].to = d.from
        /\ property'[c].pair = i /\ property'[i].pair = c
        /\ property'[c].kind = "relation" /\ property'[i].kind = "relation"
        /\ property'[c] # Absent /\ property'[i] # Absent
    <2>1. property'[c].from = d.from /\ property'[c] # Absent
      BY <1>2, PlannedTables DEF ColumnsStay
    <2> QED BY <1>1, <1>3, <2>1 DEF LeadsBack
  <1>5. /\ \A p \in RowsIn(d.from) : e.cells[<<p, c>>] = cell[<<p, c>>]
        /\ \A p \in Pages \ RowsIn(d.from) : cell[<<p, c>>] = {}
        /\ \A q \in Pages : cell[<<q, i>>] = {}
    <2>1. ASSUME NEW p \in RowsIn(d.from)
          PROVE  e.cells[<<p, c>>] = cell[<<p, c>>]
      <3>1. <<p, c>> \in Cells
        BY <1>2 DEF Cells, RowsIn
      <3>2. <<p, c>> \in DOMAIN e.cells
        BY <1>1
      <3> QED BY <3>1, <3>2 DEF Commits
    <2>2. ASSUME NEW p \in Pages \ RowsIn(d.from)
          PROVE  cell[<<p, c>>] = {}
      <3>1. <<p, c>> \in Cells
        BY <1>2 DEF Cells
      <3> QED BY <1>2, <3>1 DEF RelationTables, CellsNameTargets, RowsIn
    <2>3. ASSUME NEW q \in Pages
          PROVE  cell[<<q, i>>] = {}
      <3>1. <<q, i>> \in Cells
        BY DEF Cells
      <3> QED BY <1>2, <3>1 DEF RelationTables, CellsNameTargets
    <2> QED BY <2>1, <2>2, <2>3
  <1>6. ASSUME NEW q \in Pages
        PROVE  cell'[<<q, i>>] = {p \in RowsIn(d.from) : q \in cell[<<p, c>>]}
    <2>1. <<q, i>> \in Cells
      BY DEF Cells
    <2>2. CASE <<q, i>> \in DOMAIN e.newCells
      BY <1>1, <1>5, <2>1, <2>2, PlannedTables
    <2>3. CASE <<q, i>> \notin DOMAIN e.newCells
      <3>1. \A p \in RowsIn(d.from) : q \notin cell[<<p, c>>]
        BY <1>1, <1>5, <2>3
      <3> QED BY <1>5, <2>1, <2>3, <3>1, PlannedTables
    <2> QED BY <2>2, <2>3
  <1>7. ASSUME NEW x \in Cells, x[2] # i
        PROVE  cell'[x] = cell[x]
    <2>1. x \notin DOMAIN e.newCells
      BY <1>1, <1>7
    <2> QED BY <2>1, PlannedTables
  <1>12. \A p \in Pages : cell[<<p, c>>] \subseteq RowsIn(property'[c].to)
    <2> SUFFICES ASSUME NEW p \in Pages, NEW q \in cell[<<p, c>>]
                 PROVE  q \in RowsIn(property'[c].to)
      OBVIOUS
    <2>1. p \in RowsIn(d.from) /\ q \in e.cells[<<p, c>>]
      BY <1>5
    <2>2. <<q, i>> \in DOMAIN e.newCells
      BY <1>1, <2>1
    <2>3. \A x \in DOMAIN e.newCells : x[1] \in RowsIn(e.newDefs[c].to)
      BY <1>1
    <2> QED BY <1>3, <2>2, <2>3
  <1> HIDE DEF c, d
  <1>8. CellsNameTargets'
    <2> SUFFICES ASSUME NEW x \in Cells, cell'[x] # {}
                 PROVE  /\ property'[x[2]] # Absent /\ Home[x[1]] = property'[x[2]].from
                        /\ (x[2] \in stray' => Paired(x[2])' /\ ~outdated') =>
                              cell'[x] \subseteq RowsIn(property'[x[2]].to)
      BY DEF CellsNameTargets, Paired
    <2>0. PICK q \in Pages, b \in Properties : x = <<q, b>>
      BY DEF Cells
    <2>1. CASE b \notin {c, i}
      <3>1. property'[b] = property[b] /\ cell'[x] = cell[x] /\ x[2] = b
        BY <1>3, <1>7, <2>0, <2>1
      <3>2. (b \in stray' => Paired(b)' /\ ~outdated') => (b \in stray' => Paired(b) /\ ~outdated)
        BY <3>1 DEF Paired, Commits
      <3> QED BY <3>1, <3>2, NamesTargets, PlannedTables DEF Commits
    <2>2. CASE b = c
      <3>1. cell'[x] = cell[<<q, c>>] /\ cell[<<q, c>>] # {}
        BY <1>1, <1>7, <2>0, <2>2
      <3>2. q \in RowsIn(d.from)
        BY <1>5, <3>1
      <3> QED BY <1>4, <1>12, <2>0, <2>2, <3>1, <3>2 DEF RowsIn
    <2>3. CASE b = i
      <3>1. cell'[x] = {p \in RowsIn(d.from) : q \in cell[<<p, c>>]}
        BY <1>6, <2>0, <2>3
      <3>2. PICK p \in RowsIn(d.from) : q \in cell[<<p, c>>]
        BY <3>1
      <3>3. q \in RowsIn(property'[c].to)
        BY <1>12, <3>2 DEF RowsIn
      <3> QED BY <1>4, <2>0, <2>3, <3>1, <3>3 DEF RowsIn
    <2> QED BY <2>1, <2>2, <2>3
  <1>9. NotItself'
    <2> SUFFICES ASSUME NEW b \in Properties, property'[b] # Absent PROVE property'[b].pair # b
      BY DEF NotItself
    <2>1. CASE b \in {c, i}
      BY <1>1, <1>4, <2>1
    <2>2. CASE b \notin {c, i}
      BY <1>3, <2>2 DEF RelationTables, NotItself
    <2> QED BY <2>1, <2>2
  <1>10. ASSUME PairsHold, NEW b \in Properties \ {c, i}, property[b] # Absent, property[b].pair # Absent
         PROVE  property[b].pair \in Properties \ {c, i}
    <2>1. /\ property[b].pair \in Properties /\ property[property[b].pair] # Absent
          /\ property[property[b].pair].pair = b
      BY <1>10, PairsAreDisjoint DEF Paired
    <2> QED BY <1>1, <1>2, <2>1, RelationsAssumption
  <1>11. ASSUME PairsHold, Mirrored
         PROVE  PairsHold' /\ Mirrored'
    <2>1. ASSUME NEW b \in Properties, property'[b] # Absent /\ property'[b].pair # Absent
          PROVE  /\ property'[b].kind = "relation"
                 /\ LeadsBack(b, property'[b], property'[property'[b].pair])
                 /\ \A p \in RowsIn(property'[b].from), q \in RowsIn(property'[b].to) :
                       q \in cell'[<<p, b>>] <=> p \in cell'[<<q, property'[b].pair>>]
      <3>1. CASE b \notin {c, i}
        <4>1. property[b] # Absent /\ property[b].pair \in Properties \ {c, i} /\ property'[b] = property[b]
          BY <1>3, <1>10, <1>11, <2>1, <3>1
        <4>2. property'[property[b].pair] = property[property[b].pair]
          BY <1>3, <4>1
        <4>3. ASSUME NEW p \in RowsIn(property[b].from), NEW q \in RowsIn(property[b].to)
              PROVE  q \in cell'[<<p, b>>] <=> p \in cell'[<<q, property[b].pair>>]
          <5>1. <<p, b>> \in Cells /\ <<q, property[b].pair>> \in Cells
            BY <4>1 DEF Cells, RowsIn
          <5>2. q \in cell[<<p, b>>] <=> p \in cell[<<q, property[b].pair>>]
            BY <1>11, <2>1, <4>1 DEF Mirrored, Paired
          <5> QED BY <1>7, <3>1, <4>1, <5>1, <5>2
        <4> QED BY <1>11, <2>1, <4>1, <4>2, <4>3 DEF PairsHold, Paired
      <3>2. CASE b = c
        <4>1. ASSUME NEW p \in RowsIn(d.from), NEW q \in RowsIn(property'[c].to)
              PROVE  q \in cell'[<<p, c>>] <=> p \in cell'[<<q, i>>]
          <5>1. <<p, c>> \in Cells /\ q \in Pages
            BY <1>2 DEF Cells, RowsIn
          <5> QED BY <1>1, <1>6, <1>7, <5>1
        <4> QED BY <1>4, <3>2, <4>1 DEF LeadsBack
      <3>3. CASE b = i
        <4>1. ASSUME NEW p \in RowsIn(property'[c].to), NEW q \in RowsIn(d.from)
              PROVE  q \in cell'[<<p, i>>] <=> p \in cell'[<<q, c>>]
          <5>1. <<q, c>> \in Cells /\ p \in Pages
            BY <1>2 DEF Cells, RowsIn
          <5> QED BY <1>1, <1>6, <1>7, <5>1
        <4> QED BY <1>4, <3>3, <4>1 DEF LeadsBack
      <3> QED BY <3>1, <3>2, <3>3
    <2> QED BY <2>1 DEF PairsHold, Mirrored, Paired
  <1> QED BY <1>8, <1>9, <1>11

\* No cell is written: the pairs that stay have the cells they had.
LEMMA SettingsCommit ==
  ASSUME RelationTables, NEW e, Commits(e), SavePlan(e) \/ SeparatePlan(e)
  PROVE  /\ CellsNameTargets' /\ NotItself'
         /\ PairsHold /\ Mirrored => PairsHold' /\ Mirrored'
  <1> DEFINE c == e.column
             i == property[c].pair
  <1>1. /\ c \in Properties /\ property[c] \in Definition /\ property[c] # Absent /\ i # c
        /\ e.defs[c] = property[c]
        /\ i # Absent => i \in Properties
    BY DefinitionsAssumption DEF Commits, RelationPlan, PlanTypes, RelationTables, NotItself, Definition
  <1>2. cell' = cell
    <2>1. DOMAIN e.newCells = {} /\ cell \in [Cells -> SUBSET Pages]
      BY DEF SavePlan, SeparatePlan, RelationTables, RelationTypes
    <2> QED BY <2>1, PlannedTables
  <1>3. ASSUME NEW b \in Properties, Paired(b)'
        PROVE  Paired(b) /\ property'[b].to = property[b].to
    <2>1. CASE b \in DOMAIN e.newDefs
      <3>1. property'[b] = e.newDefs[b]
        BY <2>1, PlannedTables
      <3>2. SavePlan(e) /\ b \in {c, i} /\ i # Absent
        BY <1>1, <1>3, <2>1, <3>1 DEF SavePlan, SeparatePlan, Paired
      <3>3. LeadsBack(c, property[c], property[i]) /\ property[i] # Absent
        BY <1>1, <3>2 DEF SavePlan, LeadsBack, Commits
      <3>4. Paired(b)
        BY <1>1, <3>2, <3>3, RelationsAssumption DEF Paired, LeadsBack
      <3> QED BY <3>4, PlannedTables
    <2>2. CASE b \notin DOMAIN e.newDefs
      BY <1>3, <2>2, PlannedTables DEF Paired
    <2> QED BY <2>1, <2>2
  <1>9. CellsNameTargets'
    <2> SUFFICES ASSUME NEW x \in Cells, cell'[x] # {}
                 PROVE  /\ property'[x[2]] # Absent /\ Home[x[1]] = property'[x[2]].from
                        /\ (x[2] \in stray' => Paired(x[2])' /\ ~outdated') =>
                              cell'[x] \subseteq RowsIn(property'[x[2]].to)
      BY DEF CellsNameTargets, Paired
    <2>1. x[2] \in Properties /\ cell'[x] = cell[x]
      BY <1>2 DEF Cells
    <2>2. (x[2] \in stray' => Paired(x[2])' /\ ~outdated') =>
             (x[2] \in stray' => Paired(x[2]) /\ ~outdated /\ property'[x[2]].to = property[x[2]].to)
      BY <1>3, <2>1 DEF Commits
    <2> QED BY <2>1, <2>2, NamesTargets, PlannedTables DEF Commits
  <1>4. DOMAIN e.newDefs = BothSides(c, property[c]) /\ DOMAIN e.defs = DOMAIN e.newDefs
    BY <1>1 DEF SavePlan, SeparatePlan, BothSides
  <1>5. i # Absent => LeadsBack(c, property[c], property[i])
    <2>1. i # Absent => i \in DOMAIN e.defs
      BY <1>4 DEF BothSides
    <2> QED BY <1>1, <2>1 DEF SavePlan, SeparatePlan, Commits
  <1>6. \A b \in Properties : b \notin {c, i} => property'[b] = property[b]
    BY <1>4, PlannedTables DEF BothSides
  <1>7. CASE SavePlan(e)
    <2>1. /\ i # Absent /\ property'[c].pair = i /\ property'[i].pair = c
          /\ property'[c].kind = "relation" /\ property'[i].kind = "relation"
          /\ property'[c] # Absent /\ property'[i] # Absent
          /\ SameEnds(property'[c], property[c]) /\ SameEnds(property'[i], property[i])
      <3>1. i # Absent /\ i \in Properties /\ DOMAIN e.newDefs = {c, i} /\ property[i] # Absent
        BY <1>1, <1>5, <1>7 DEF SavePlan, LeadsBack
      <3>2. e.defs[i] = property[i] /\ property'[c] # Absent /\ property'[i] # Absent
        BY <1>1, <1>7, <3>1, PlannedTables DEF SavePlan, Commits, ColumnsStay
      <3> QED BY <1>1, <1>7, <3>1, <3>2, PlannedTables DEF SavePlan
    <2>2. NotItself'
      BY <1>1, <1>6, <2>1 DEF RelationTables, NotItself
    <2>3. ASSUME PairsHold, Mirrored, NEW b \in Properties, property'[b] # Absent, property'[b].pair # Absent
          PROVE  /\ property'[b].kind = "relation"
                 /\ LeadsBack(b, property'[b], property'[property'[b].pair])
                 /\ \A p \in RowsIn(property'[b].from), q \in RowsIn(property'[b].to) :
                       q \in cell[<<p, b>>] <=> p \in cell[<<q, property'[b].pair>>]
      <3>1. /\ property[b] # Absent /\ property'[b].pair = property[b].pair /\ SameEnds(property'[b], property[b])
            /\ property'[b].kind = property[b].kind \/ property'[b].kind = "relation"
        BY <1>1, <1>5, <1>6, <2>1, <2>3 DEF LeadsBack, SameEnds
      <3>2. /\ property[b].kind = "relation" /\ LeadsBack(b, property[b], property[property[b].pair])
            /\ property[b].pair \in Properties
        BY <2>3, <3>1, PairsAreDisjoint DEF PairsHold, Paired
      <3>3. LeadsBack(b, property'[b], property'[property[b].pair])
        <4>1. property[b].pair \in {c, i} \/ property'[property[b].pair] = property[property[b].pair]
          BY <1>6, <3>2
        <4> QED BY <1>5, <2>1, <3>1, <3>2, <4>1 DEF LeadsBack, SameEnds
      <3>4. \A p \in RowsIn(property[b].from), q \in RowsIn(property[b].to) :
               q \in cell[<<p, b>>] <=> p \in cell[<<q, property[b].pair>>]
        BY <2>3, <3>1 DEF Mirrored, Paired
      <3> QED BY <3>1, <3>2, <3>3, <3>4 DEF SameEnds
    <2>4. PairsHold /\ Mirrored => PairsHold' /\ Mirrored'
      BY <1>2, <2>3 DEF PairsHold, Mirrored, Paired
    <2> QED BY <1>9, <2>2, <2>4
  <1>8. CASE SeparatePlan(e)
    <2>1. /\ property'[c] # Absent /\ property'[c].pair = Absent
          /\ i # Absent => property'[i] # Absent /\ property'[i].pair = Absent
      <3>1. i # Absent => i \in DOMAIN e.newDefs
        BY <1>4 DEF BothSides
      <3>2. c \in DOMAIN e.newDefs
        BY <1>4 DEF BothSides
      <3>3. i # Absent => property[i] # Absent
        BY <1>5 DEF LeadsBack
      <3> QED BY <1>1, <1>8, <3>1, <3>2, <3>3, PlannedTables DEF SeparatePlan, ColumnsStay
    <2>2. NotItself'
      BY <1>1, <1>6, <2>1, RelationsAssumption DEF RelationTables, NotItself
    <2>3. ASSUME PairsHold, Mirrored, NEW b \in Properties, property'[b] # Absent, property'[b].pair # Absent
          PROVE  /\ property'[b].kind = "relation"
                 /\ LeadsBack(b, property'[b], property'[property'[b].pair])
                 /\ \A p \in RowsIn(property'[b].from), q \in RowsIn(property'[b].to) :
                       q \in cell[<<p, b>>] <=> p \in cell[<<q, property'[b].pair>>]
      <3>1. property'[b] = property[b] /\ b \notin {c, i}
        BY <1>1, <1>6, <2>1, <2>3, RelationsAssumption
      <3>2. property[b].pair \in Properties /\ property[property[b].pair].pair = b
        BY <2>3, <3>1, PairsAreDisjoint DEF Paired
      <3>3. property[b].pair \notin {c, i}
        BY <1>5, <3>1, <3>2, RelationsAssumption DEF LeadsBack
      <3> QED BY <1>6, <2>3, <3>1, <3>2, <3>3 DEF PairsHold, Mirrored, Paired
    <2>4. PairsHold /\ Mirrored => PairsHold' /\ Mirrored'
      BY <1>2, <2>3 DEF PairsHold, Mirrored, Paired
    <2> QED BY <1>9, <2>2, <2>4
  <1> QED BY <1>7, <1>8

\* Whatever the plan, what it writes over what it read is in order.
LEMMA CommitInOrder ==
  ASSUME RelationTables, NEW e, Commits(e), OnePageEach'
  PROVE  RelationTables'
  <1>1. /\ CellsNameTargets' /\ NotItself'
        /\ PairsHold /\ Mirrored => PairsHold' /\ Mirrored'
    BY CellCommit, CreateCommit, SettingsCommit DEF Commits, RelationPlan
  <1>2. outdated' = outdated /\ stray' \subseteq Properties
    BY DEF Commits
  <1> QED BY <1>1, <1>2, PlannedTables DEF RelationTables, RelationTypes

-----------------------------------------------------------------------------
(* Requests.                                                                *)

\* The other requests go on as long as no column goes or moves.
LEMMA OneRequest ==
  ASSUME RequestsHold, NEW t \in Edits, NEW new, RequestHolds(new)', edit' = [edit EXCEPT ![t] = new],
         ColumnsStay, overtaken' \subseteq Edits
  PROVE  RequestsHold'
  <1>1. edit' = [s \in Edits |-> IF s = t THEN new ELSE edit[s]]
    BY DEF RequestsHold
  <1>2. ASSUME NEW s \in Edits \ {t}
        PROVE  RequestHolds(edit[s])'
    <2>1. edit'[s] = edit[s] /\ RequestHolds(edit[s])
      BY <1>1 DEF RequestsHold
    <2>2. ASSUME NEW e, RequestHolds(e)
          PROVE  RequestHolds(e)'
      <3>1. StillThere(e) => StillThere(e)'
        BY DEF StillThere, ColumnsStay
      <3> QED BY <2>2, <3>1 DEF RequestHolds, CellRead, ColumnRead, RelationPlan, PlanTypes, CellPlan,
                 CreatePlan, SavePlan, SeparatePlan, LeadsBack, RowsIn, BothSides, SameEnds, Shape, Retargets
    <2> QED BY <2>1, <2>2
  <1> QED BY <1>1, <1>2 DEF RequestsHold

\* A request that is over.
LEMMA QuietHolds == RequestHolds(Quiet) /\ RequestHolds(Quiet)' /\ Checked(Quiet)
  BY DEF RequestHolds, Shape, Quiet, EditFields, Retargets, Checked

\* Forget, when no column goes or moves.
LEMMA ForgetHolds ==
  ASSUME RequestsHold, NEW t \in Edits, edit' = [edit EXCEPT ![t] = Quiet],
         ColumnsStay, overtaken' \subseteq Edits
  PROVE  RequestsHold'
  BY QuietHolds, OneRequest

\* A step that writes nothing: what it checks is true by now.
LEMMA ReadingHolds ==
  ASSUME RelationsInd, NEW t \in Edits, NEW new, RequestHolds(new), edit' = [edit EXCEPT ![t] = new],
         UNCHANGED tables, overtaken' \in {overtaken, overtaken \ {t}},
         t \in overtaken' \/ Checked(new)
  PROVE  RelationsInd'
  <1> USE DEF tables
  <1>1. RequestHolds(new)'
    BY DEF RequestHolds, CellRead, ColumnRead, RelationPlan, PlanTypes, CellPlan, StillThere, Retargets,
           CreatePlan, SavePlan, SeparatePlan, LeadsBack, RowsIn, BothSides, SameEnds, Shape
  <1>2. RequestsHold'
    <2>1. ColumnsStay /\ overtaken' \subseteq Edits
      BY DEF ColumnsStay, RelationsInd, RequestsHold
    <2> QED BY <1>1, <2>1, OneRequest DEF RelationsInd
  <1>3. RelationTables'
    BY DEF RelationsInd, RelationTables, RelationTypes, NotItself, OnePageEach, WithinLimits,
           CellsNameTargets, PairsHold, Mirrored, Paired
  <1>4. ChecksHold'
    <2> SUFFICES ASSUME NEW s \in Edits, s \notin overtaken' PROVE Checked(edit[s])'
      BY DEF ChecksHold
    <2>1. edit'[s] = IF s = t THEN new ELSE edit[s]
      BY DEF RelationsInd, RequestsHold
    <2>2. Checked(edit'[s])
      BY <2>1 DEF RelationsInd, ChecksHold
    <2>3. ASSUME NEW e, Checked(e) PROVE Checked(e)'
      BY <2>3 DEF Checked, HasValues, Retargets, TargetOf
    <2> QED BY <2>2, <2>3
  <1> QED BY <1>2, <1>3, <1>4 DEF RelationsInd

\* A step that writes and is over leaves what the others checked true, unless
\* it overtakes them.
LEMMA ChecksStay ==
  ASSUME RelationsInd, NEW t \in Edits, edit' = [edit EXCEPT ![t] = Quiet],
         TargetsStay, overtaken \ {t} \subseteq overtaken',
         \A s \in Edits \ {t}, c \in Properties :
            s \notin overtaken' /\ Retargets(edit[s]) /\ edit[s].column = c /\ HasValues(c)' => HasValues(c)
  PROVE  ChecksHold'
  <1> SUFFICES ASSUME NEW s \in Edits, s \notin overtaken' PROVE Checked(edit[s])'
    BY DEF ChecksHold
  <1>1. edit'[s] = IF s = t THEN Quiet ELSE edit[s]
    BY DEF RelationsInd, RequestsHold
  <1>2. CASE s = t
    BY <1>1, <1>2 DEF Checked, Retargets, Quiet
  <1>3. CASE s # t
    <2>1. Checked(edit[s]) /\ RequestHolds(edit[s])
      BY <1>3 DEF RelationsInd, ChecksHold, RequestsHold
    <2> DEFINE e == edit[s]
    <2>2. Retargets(e) => e.column \in Properties
      BY <2>1 DEF Retargets, RequestHolds, ColumnRead, RelationPlan, PlanTypes
    <2>3. ASSUME NEW f, f = e PROVE Checked(f)'
      <3> SUFFICES ASSUME Retargets(f), f.column \notin stray', HasValues(f.column)'
                   PROVE  property'[f.column].to = TargetOf(f)
        BY DEF Checked, Retargets, TargetOf
      <3>1. f.column \in Properties /\ f.column \notin stray /\ HasValues(f.column)
        BY <1>3, <2>2, <2>3 DEF TargetsStay
      <3>2. property[f.column].to = TargetOf(f)
        BY <2>1, <2>3, <3>1 DEF Checked
      <3> QED BY <3>1, <3>2 DEF TargetsStay
    <2> QED BY <1>1, <1>3, <2>3
  <1> QED BY <1>2, <1>3

\* ReadCell.
LEMMA ReadCellHolds ==
  ASSUME RelationsInd, NEW t \in Edits, NEW c \in Properties, NEW p \in Pages, NEW u \in Editors,
         NEW want \in SUBSET Pages, ReadCell(t, u, p, c, want)
  PROVE  RelationsInd'
  <1> DEFINE new == [Quiet EXCEPT !.at = "cell", !.by = u, !.what = "cell",
            !.column = c, !.page = p, !.want = want,
            !.defs = [i \in {c} |-> property[i]], !.cells = [x \in {<<p, c>>} |-> cell[x]]]
  <1>1. /\ Shape(new) /\ new.at = "cell" /\ new.column = c /\ new.page = p /\ new.want = want
        /\ new.defs = [i \in {c} |-> property[i]] /\ new.cells = [x \in {<<p, c>>} |-> cell[x]]
    BY DEF Shape, Quiet, EditFields
  <1> HIDE DEF new
  <1>2. property[c] \in Definition /\ property[c].pair # c
    BY DEF ReadCell, RelationsInd, RelationTables, RelationTypes, NotItself
  <1>3. /\ DOMAIN new.defs = {c} /\ new.defs[c] = property[c]
        /\ DOMAIN new.cells = {<<p, c>>} /\ new.cells[<<p, c>>] \in SUBSET Pages
    <2>1. cell[<<p, c>>] \in SUBSET Pages
      BY DEF RelationsInd, RelationTables, RelationTypes, Cells
    <2> QED BY <1>1, <2>1
  <1>4. CellRead(new) /\ StillThere(new)
    BY <1>1, <1>2, <1>3 DEF CellRead, ColumnRead, StillThere, ReadCell
  <1>5. RequestHolds(new) /\ Checked(new)
    BY <1>1, <1>4 DEF RequestHolds, Checked, Retargets
  <1> QED BY <1>5, ReadingHolds DEF ReadCell, new

\* ReadDefinition.
LEMMA ReadDefinitionHolds ==
  ASSUME RelationsInd, NEW t \in Edits, NEW c \in Properties, NEW u \in Editors,
         NEW ask \in Configurations, ReadDefinition(t, u, c, ask)
  PROVE  RelationsInd'
  <1> DEFINE new == [Quiet EXCEPT !.at = "asking", !.by = u, !.what = "definition", !.column = c,
            !.want = ask, !.defs = [i \in {c} |-> property[i]]]
  <1>1. /\ Shape(new) /\ new.at = "asking" /\ new.column = c /\ new.want = ask
        /\ new.what = "definition" /\ new.defs = [i \in {c} |-> property[i]]
    BY DEF Shape, Quiet, EditFields
  <1> HIDE DEF new
  <1>2. property[c] \in Definition /\ property[c].pair # c
    BY DEF ReadDefinition, RelationsInd, RelationTables, RelationTypes, NotItself
  <1>3. DOMAIN new.defs = {c} /\ new.defs[c] = property[c]
    BY <1>1
  <1>4. ColumnRead(new) /\ StillThere(new)
    BY <1>1, <1>2, <1>3 DEF ColumnRead, StillThere, ReadDefinition
  <1>5. RequestHolds(new) /\ Checked(new)
    BY <1>1, <1>4 DEF RequestHolds, Checked, Retargets
  <1> QED BY <1>5, ReadingHolds DEF ReadDefinition, new

\* ReadColumn.
LEMMA ReadColumnHolds ==
  ASSUME RelationsInd, NEW t \in Edits, NEW c \in Properties,
         NEW what \in {"retype", "redefine", "reset", "delete"}, NEW to \in Databases \cup {Absent},
         ReadColumn(t, c, what, to)
  PROVE  RelationsInd'
  <1> DEFINE new == [Quiet EXCEPT !.at = "overwrite", !.what = what, !.column = c, !.want = to,
            !.defs = [i \in {c} |-> property[i]]]
  <1>1. /\ Shape(new) /\ new.at = "overwrite" /\ new.column = c /\ new.what = what /\ new.want = to
        /\ new.defs = [i \in {c} |-> property[i]]
    BY DEF Shape, Quiet, EditFields
  <1>0. ReadColumn(t, c, what, to) => edit' = [edit EXCEPT ![t] = new] /\ UNCHANGED <<tables, overtaken>>
    BY DEF ReadColumn
  <1> HIDE DEF new
  <1>2. property[c] \in Definition /\ property[c].pair # c
    BY DEF ReadColumn, RelationsInd, RelationTables, RelationTypes, NotItself
  <1>3. DOMAIN new.defs = {c} /\ new.defs[c] = property[c]
    BY <1>1
  <1>4. ColumnRead(new) /\ StillThere(new)
    BY <1>1, <1>2, <1>3 DEF ColumnRead, StillThere, ReadColumn
  <1>5. RequestHolds(new) /\ Checked(new)
    BY <1>1, <1>3, <1>4 DEF RequestHolds, ReadColumn, Checked, Retargets
  <1> QED BY <1>0, <1>5, ReadingHolds

\* A request that forgets writes nothing.
LEMMA ForgettingHolds ==
  ASSUME RelationsInd, NEW t \in Edits, Forget(t), UNCHANGED tables
  PROVE  RelationsInd'
  BY QuietHolds, ReadingHolds DEF Forget

\* AssertRelationCanChange: what it finds no value in is checked.
LEMMA AssertHolds ==
  ASSUME RelationsInd, NEW t \in Edits, AssertRelationCanChange(t)
  PROVE  RelationsInd'
  <1> DEFINE e == edit[t]
             new == [e EXCEPT !.at = "definition"]
  <1>1. /\ edit = [s \in Edits |-> edit[s]] /\ RequestHolds(e) /\ e.at = "asking" /\ UNCHANGED tables
    BY DEF RelationsInd, RequestsHold, AssertRelationCanChange
  <1>2. CASE MayChangeTarget(e.column, e.want.to)
    <2>1. edit' = [edit EXCEPT ![t] = new] /\ overtaken' = overtaken \ {t}
      BY <1>1, <1>2 DEF AssertRelationCanChange
    <2>2. /\ Shape(new) /\ new.at = "definition" /\ new.what = e.what /\ new.column = e.column
          /\ new.want = e.want /\ new.defs = e.defs
      BY <1>1 DEF RequestHolds, Shape, EditFields
    <2>3. /\ ColumnRead(e) /\ e.want \in Configurations /\ e.what = "definition" /\ StillThere(e)
      BY <1>1 DEF RequestHolds
    <2> HIDE DEF new
    <2>4. ColumnRead(new) /\ StillThere(new)
      BY <2>2, <2>3 DEF ColumnRead, StillThere
    <2>5. RequestHolds(new)
      BY <2>2, <2>3, <2>4 DEF RequestHolds
    <2>6. Checked(new)
      <3> SUFFICES ASSUME e.column \notin stray, HasValues(e.column)
                   PROVE  property[e.column].to = e.want.to
        BY <2>2 DEF Checked, TargetOf
      <3>1. property[e.column].to \in {Absent, e.want.to}
        BY <1>2 DEF MayChangeTarget
      <3>2. PICK p \in Pages : cell[<<p, e.column>>] # {}
        BY DEF HasValues
      <3>3. <<p, e.column>> \in Cells
        BY <2>3 DEF ColumnRead, Cells
      <3>4. cell[<<p, e.column>>] \subseteq RowsIn(property[e.column].to)
        BY <3>2, <3>3 DEF RelationsInd, RelationTables, CellsNameTargets
      <3>5. property[e.column].to # Absent
        BY <3>2, <3>4, RelationsAssumption DEF RowsIn
      <3> QED BY <3>1, <3>5
    <2> QED BY <1>1, <2>1, <2>5, <2>6, ReadingHolds
  <1>3. CASE ~MayChangeTarget(e.column, e.want.to)
    BY <1>1, <1>3, ForgettingHolds DEF AssertRelationCanChange
  <1> QED BY <1>2, <1>3

\* CommitPlan.
LEMMA CommitHolds ==
  ASSUME RelationsInd, NEW t \in Edits, CommitPlan(t)
  PROVE  RelationsInd'
  <1> DEFINE e == edit[t]
  <1>1. CASE Unchanged(t) /\ WithinLimits(Upon(e.newDefs, property), Upon(e.newCells, cell))
    <2>1. /\ property' = Upon(e.newDefs, property) /\ cell' = Upon(e.newCells, cell)
          /\ edit' = [edit EXCEPT ![t] = Quiet] /\ UNCHANGED outdated
          /\ stray' = stray \cup Misled(t) /\ overtaken' = (overtaken \cup Overtakes(t)) \ {t}
      BY <1>1 DEF CommitPlan
    <2>2. /\ RelationPlan(e) /\ e.at = "commit" /\ RelationTables /\ RequestsHold
          /\ property \in [Properties -> Definition \cup {Absent}] /\ stray \subseteq Properties
      BY DEF CommitPlan, RelationsInd, RequestsHold, RequestHolds, RelationTables, RelationTypes
    <2>3. /\ \A c \in DOMAIN e.defs : property[c] = e.defs[c]
          /\ \A x \in DOMAIN e.cells : cell[x] = e.cells[x]
      BY <1>1 DEF Unchanged
    <2>4. \A c \in Properties : property'[c] = IF c \in DOMAIN e.newDefs THEN e.newDefs[c] ELSE property[c]
      BY <2>1, <2>2 DEF Upon
    <2>5. TargetsStay
      <3> SUFFICES ASSUME NEW c \in Properties, c \notin stray, c \notin Misled(t), HasValues(c)
                   PROVE  property'[c].to = property[c].to
        BY <2>1 DEF TargetsStay
      <3>1. CASE c \notin DOMAIN e.newDefs
        BY <2>4, <3>1
      <3>2. CASE c \in DOMAIN e.newDefs
        <4>1. property[c] # Absent
          <5>1. PICK p \in Pages : cell[<<p, c>>] # {}
            BY DEF HasValues
          <5>2. <<p, c>> \in Cells
            BY DEF Cells
          <5> QED BY <2>2, <5>1, <5>2 DEF RelationTables, CellsNameTargets
        <4>2. c \in DOMAIN e.defs /\ e.defs[c] = property[c] /\ property'[c] = e.newDefs[c]
          BY <2>2, <2>3, <2>4, <3>2 DEF RelationPlan, PlanTypes
        <4>3. SameEnds(e.newDefs[c], e.defs[c]) \/ c = e.column
          BY <2>2, <3>2, <4>1, <4>2 DEF RelationPlan, PlanTypes
        <4>4. CASE c = e.column
          <5>1. Retargets(e) /\ TargetOf(e) = e.newDefs[c].to
            BY <2>2, <3>2, <4>4 DEF Retargets, TargetOf
          <5>2. CASE t \in overtaken
            BY <3>2, <4>1, <4>2, <5>2 DEF Misled
          <5>3. CASE t \notin overtaken
            <6>1. Checked(e)
              BY <5>3 DEF RelationsInd, ChecksHold
            <6> QED BY <4>2, <4>4, <5>1, <6>1 DEF Checked
          <5> QED BY <5>2, <5>3
        <4> QED BY <4>2, <4>3, <4>4 DEF SameEnds
      <3> QED BY <3>1, <3>2
    <2>6. stray' \subseteq Properties
      BY <2>1, <2>2 DEF Misled, RelationPlan, PlanTypes
    <2>7. Commits(e)
      BY <2>1, <2>2, <2>3, <2>5, <2>6 DEF Commits
    <2>8. OnePageEach'
      <3>1. WithinLimits(property', cell')
        BY <1>1, <2>1
      <3> QED BY <3>1 DEF OnePageEach, WithinLimits, Over
    <2>9. RelationTables'
      BY <2>2, <2>7, <2>8, CommitInOrder
    <2>10. RequestsHold'
      <3>1. overtaken' \subseteq Edits
        BY <2>1, <2>2 DEF Overtakes, RequestsHold
      <3> QED BY <2>1, <2>2, <2>7, <3>1, ForgetHolds, PlannedTables
    <2>11. ChecksHold'
      <3>1. ASSUME NEW s \in Edits \ {t}, NEW c \in Properties, s \notin overtaken',
                   Retargets(edit[s]), edit[s].column = c, HasValues(c)'
            PROVE  HasValues(c)
        <4>1. s \notin Overtakes(t)
          BY <2>1, <3>1
        <4>2. edit[s].what = "definition" /\ edit[s].at # "asking"
          BY <2>2, <3>1 DEF RequestsHold, RequestHolds, Retargets
        <4>3. \A x \in DOMAIN e.newCells : x[2] # c
          BY <3>1, <4>1, <4>2 DEF Overtakes
        <4>4. PICK p \in Pages : cell'[<<p, c>>] # {}
          BY <3>1 DEF HasValues
        <4>5. <<p, c>> \in Cells /\ <<p, c>> \notin DOMAIN e.newCells
          BY <4>3 DEF Cells
        <4>6. cell'[<<p, c>>] = cell[<<p, c>>]
          BY <2>2, <2>7, <4>5, PlannedTables
        <4> QED BY <4>4, <4>6 DEF HasValues
      <3>2. overtaken \ {t} \subseteq overtaken'
        BY <2>1
      <3> QED BY <2>1, <2>5, <3>1, <3>2, ChecksStay
    <2> QED BY <2>9, <2>10, <2>11 DEF RelationsInd
  <1>2. CASE ~(Unchanged(t) /\ WithinLimits(Upon(e.newDefs, property), Upon(e.newCells, cell)))
    BY <1>2, ForgettingHolds DEF CommitPlan, tables
  <1> QED BY <1>1, <1>2

\* A plan replaces what a request read; the target it writes is the one that
\* was asked for and checked.
LEMMA PlanHolds ==
  ASSUME RelationsInd, NEW t \in Edits, NEW defs, NEW held, NEW newDefs, NEW newCells,
         Planned(t, defs, held, newDefs, newCells),
         \A e : /\ e.column = edit[t].column /\ e.page = edit[t].page /\ e.defs = defs
                /\ e.cells = held /\ e.newDefs = newDefs /\ e.newCells = newCells
                => RelationPlan(e) /\ StillThere(e),
         edit[t].column \in DOMAIN newDefs =>
            edit[t].at = "definition" /\ newDefs[edit[t].column].to = edit[t].want.to,
         UNCHANGED tables
  PROVE  RelationsInd'
  <1> DEFINE new == [edit[t] EXCEPT !.at = "commit", !.want = Absent, !.defs = defs, !.cells = held,
                                    !.newDefs = newDefs, !.newCells = newCells]
  <1>1. edit = [s \in Edits |-> edit[s]] /\ RequestHolds(edit[t]) /\ Shape(edit[t])
    BY DEF RelationsInd, RequestsHold, RequestHolds
  <1>2. edit' = [edit EXCEPT ![t] = new] /\ overtaken' = overtaken
    BY <1>1 DEF Planned
  <1>3. /\ Shape(new) /\ new.at = "commit" /\ new.column = edit[t].column /\ new.page = edit[t].page
        /\ new.what = edit[t].what
        /\ new.defs = defs /\ new.cells = held /\ new.newDefs = newDefs /\ new.newCells = newCells
    BY <1>1 DEF Shape, EditFields
  <1> HIDE DEF new
  <1>4. RelationPlan(new) /\ StillThere(new)
    BY <1>3
  <1>5. Retargets(new) => Retargets(edit[t]) /\ edit[t].what = "definition" /\ TargetOf(new) = TargetOf(edit[t])
    BY <1>1, <1>3 DEF Retargets, TargetOf, RequestHolds
  <1>6. RequestHolds(new)
    BY <1>3, <1>4, <1>5 DEF RequestHolds
  <1>7. t \in overtaken \/ Checked(new)
    BY <1>3, <1>5 DEF RelationsInd, ChecksHold, Checked
  <1> QED BY <1>2, <1>6, <1>7, ReadingHolds

\* PlanCell.
LEMMA PlanCellHolds ==
  ASSUME RelationsInd, NEW t \in Edits, PlanCell(t)
  PROVE  RelationsInd'
  <1> DEFINE c == edit[t].column
             row == edit[t].page
             d == edit[t].defs[c]
             old == edit[t].cells[<<row, c>>]
             new == Targets(t)
             changed == (old \ new) \cup (new \ old)
             mirrors == changed \X (BothSides(c, d) \ {c})
             mirror == [x \in mirrors |-> IF x[1] \in new THEN cell[x] \cup {row} ELSE cell[x] \ {row}]
             refused == \/ ~NamedBack(c, d) \/ Over(d, new) \/ \E q \in new \ old : ~Reaches(t, q, d.to)
                        \/ \E x \in mirrors : ~Reaches(t, x[1], d.to) \/ Over(property[d.pair], mirror[x])
             defs == [i \in BothSides(c, d) |-> IF i = c THEN d ELSE property[i]]
             held == [x \in {<<row, c>>} \cup mirrors |-> IF x = <<row, c>> THEN old ELSE cell[x]]
             newCells == [x \in {<<row, c>>} \cup mirrors |-> IF x = <<row, c>> THEN new ELSE mirror[x]]
  <1>1. CellRead(edit[t]) /\ StillThere(edit[t]) /\ UNCHANGED tables
    BY DEF RelationsInd, RequestsHold, RequestHolds, PlanCell
  <1>2. CASE refused
    <2>1. Forget(t)
      BY <1>2 DEF PlanCell
    <2> QED BY <1>1, <2>1, ForgettingHolds
  <1>3. CASE ~refused
    <2>1. /\ Planned(t, defs, held, <<>>, newCells) /\ NamedBack(c, d)
          /\ \A q \in new \ old : q \in RowsIn(d.to)
          /\ \A x \in mirrors : x[1] \in RowsIn(d.to)
      BY <1>3 DEF PlanCell, Reaches
    <2>2. /\ c \in Properties /\ row \in Pages /\ d \in Definition /\ d # Absent
          /\ d.kind = "relation" /\ Home[row] = d.from /\ edit[t].want \subseteq RowsIn(d.to)
          /\ property[c] # Absent /\ property[c].from = d.from
          /\ property \in [Properties -> Definition \cup {Absent}] /\ cell \in [Cells -> SUBSET Pages]
          /\ property[c].pair # c
      BY <1>1, DefinitionsAssumption
         DEF CellRead, ColumnRead, StillThere, RelationsInd, RelationTables, RelationTypes, NotItself
    <2>3. new \subseteq Pages
      <3>1. <<row, c>> \in Cells
        BY <2>2 DEF Cells
      <3> QED BY <2>2, <3>1 DEF Targets, RowsIn
    <2>4. /\ BothSides(c, d) \subseteq Properties /\ c \in BothSides(c, d)
          /\ d.pair # Absent => d.pair \in BothSides(c, d) /\ LeadsBack(c, d, property[d.pair])
          /\ \A i \in BothSides(c, d) : i = c \/ i = d.pair
      BY <2>1, <2>2 DEF BothSides, Definition, NamedBack
    <2> HIDE DEF c, row, d, old, new, mirror, refused, changed
    <2>5. ASSUME NEW e, e.column = c, e.page = row, e.defs = defs, e.cells = held,
                 e.newDefs = <<>>, e.newCells = newCells
          PROVE  RelationPlan(e) /\ StillThere(e)
      <3>1. /\ DOMAIN e.defs = BothSides(c, d) /\ e.defs[c] = d /\ DOMAIN e.newDefs = {}
            /\ \A i \in BothSides(c, d) : i # c => e.defs[i] = property[i]
            /\ DOMAIN e.cells = {<<row, c>>} \cup mirrors /\ DOMAIN e.newCells = {<<row, c>>} \cup mirrors
            /\ e.cells[<<row, c>>] = old /\ e.newCells[<<row, c>>] = new
        BY <2>4, <2>5
      <3>2. ASSUME NEW x \in mirrors
            PROVE  /\ x \in Pages \X Properties /\ x # <<row, c>>
                   /\ e.newCells[x] = IF x[1] \in new THEN e.cells[x] \cup {row} ELSE e.cells[x] \ {row}
                   /\ e.newCells[x] \in SUBSET Pages
        <4>1. x[1] \in changed /\ x[2] \in Properties \ {c} /\ x = <<x[1], x[2]>>
          BY <2>4
        <4>2. changed \subseteq Pages
          <5>1. old \in SUBSET Pages
            BY <1>1 DEF CellRead, old, c, row
          <5> QED BY <2>3, <5>1 DEF changed
        <4>3. x # <<row, c>> /\ x \in Cells
          BY <4>1, <4>2 DEF Cells
        <4>4. e.cells[x] = cell[x] /\ e.newCells[x] = mirror[x]
          BY <2>5, <4>3
        <4>5. mirror[x] = IF x[1] \in new THEN cell[x] \cup {row} ELSE cell[x] \ {row}
          BY DEF mirror
        <4> QED BY <2>2, <4>1, <4>2, <4>3, <4>4, <4>5 DEF Cells
      <3>3. CellPlan(e)
        <4>1. ((old \ new) \cup (new \ old)) \X (BothSides(c, d) \ {c}) = mirrors
          BY DEF changed
        <4>2. d.pair # Absent => LeadsBack(c, d, e.defs[d.pair])
          <5>1. CASE d.pair = c
            BY <2>2, <2>4, <5>1 DEF LeadsBack
          <5>2. CASE d.pair # c
            BY <2>4, <3>1, <5>2
          <5> QED BY <5>1, <5>2
        <4> QED BY <2>1, <2>2, <2>5, <3>1, <3>2, <4>1, <4>2 DEF CellPlan
      <3>4. PlanTypes(e)
        <4>1. \A i \in DOMAIN e.defs : e.defs[i] \in Definition \cup {Absent}
          BY <2>2, <2>4, <3>1
        <4>2. DOMAIN e.cells \subseteq Cells
          BY <2>2, <3>1, <3>2 DEF Cells
        <4>3. \A x \in DOMAIN e.newCells : e.newCells[x] \in SUBSET Pages
          BY <2>3, <3>1, <3>2
        <4> QED BY <2>2, <2>4, <2>5, <3>1, <4>1, <4>2, <4>3 DEF PlanTypes
      <3>5. StillThere(e)
        BY <2>2, <2>4, <3>1 DEF StillThere
      <3> QED BY <3>3, <3>4, <3>5 DEF RelationPlan
    <2>6. c = edit[t].column /\ row = edit[t].page /\ DOMAIN <<>> = {}
      BY DEF c, row
    <2> HIDE DEF defs, held, newCells, mirrors
    <2> QED BY <1>1, <2>1, <2>5, <2>6, PlanHolds
  <1> QED BY <1>2, <1>3

\* The definition that is asked for.
AsAsked(old, ask) == [old EXCEPT !.kind = "relation", !.one = ask.one, !.to = ask.to]

\* What PlanDefinition knows once it goes on.
LEMMA DefinitionRead ==
  ASSUME RelationsInd, NEW t \in Edits, PlanDefinition(t), NEW c, c = edit[t].column,
         NEW old, old = edit[t].defs[c], NEW ask, ask = edit[t].want, NamedBack(c, old),
         NEW next, next = AsAsked(old, ask)
  PROVE  /\ c \in Properties /\ old \in Definition /\ old # Absent /\ old.pair # c
         /\ property[c] # Absent /\ property[c].from = old.from
         /\ property \in [Properties -> Definition \cup {Absent}] /\ cell \in [Cells -> SUBSET Pages]
         /\ ask \in [enable : BOOLEAN, one : BOOLEAN, inverseOne : BOOLEAN, to : Databases]
         /\ next \in Definition /\ next.from = old.from /\ next.to = ask.to /\ next.pair = old.pair
         /\ next.kind = "relation"
         /\ old.pair # Absent => old.pair \in Properties /\ LeadsBack(c, old, property[old.pair])
  <1>1. ColumnRead(edit[t]) /\ StillThere(edit[t]) /\ ask \in Configurations
    BY DEF RelationsInd, RequestsHold, RequestHolds, PlanDefinition
  <1>2. /\ c \in Properties /\ old \in Definition /\ old # Absent
        /\ property[c] # Absent /\ property[c].from = old.from /\ property[c].pair # c
        /\ property \in [Properties -> Definition \cup {Absent}] /\ cell \in [Cells -> SUBSET Pages]
    BY <1>1, DefinitionsAssumption
       DEF ColumnRead, StillThere, RelationsInd, RelationTables, RelationTypes, NotItself
  <1>3. ask \in [enable : BOOLEAN, one : BOOLEAN, inverseOne : BOOLEAN, to : Databases]
    BY <1>1, RelationsAssumption
  <1>4. old.pair # Absent => old.pair \in Properties /\ LeadsBack(c, old, property[old.pair])
    BY <1>2 DEF NamedBack, Definition
  <1>5. old.pair # c
    BY <1>2, <1>4, RelationsAssumption DEF LeadsBack
  <1>6. /\ next \in Definition /\ next.from = old.from /\ next.to = ask.to /\ next.pair = old.pair
        /\ next.kind = "relation"
    BY <1>2, <1>3 DEF AsAsked, Definition
  <1> QED BY <1>2, <1>3, <1>4, <1>5, <1>6

\* PlanDefinition, taking the relation away from its target.
LEMMA SeparateHolds ==
  ASSUME RelationsInd, NEW t \in Edits, PlanDefinition(t), NEW c, c = edit[t].column,
         NEW old, old = edit[t].defs[c], NEW ask, ask = edit[t].want, NamedBack(c, old),
         NEW next, next = AsAsked(old, ask),
         old.pair # Absent => ask.to = old.to,
         Separate(t, c, old, next)
  PROVE  RelationsInd'
  <1> DEFINE defs == [i \in BothSides(c, old) |-> IF i = c THEN old ELSE property[i]]
             newDefs == [i \in BothSides(c, old) |->
                            [(IF i = c THEN next ELSE property[i]) EXCEPT !.pair = Absent]]
  <1>1. /\ c \in Properties /\ old \in Definition /\ old # Absent /\ old.pair # c
        /\ property[c] # Absent /\ property[c].from = old.from
        /\ property \in [Properties -> Definition \cup {Absent}]
        /\ next \in Definition /\ next.from = old.from /\ next.to = ask.to
        /\ SameEnds(next, old) \/ old.pair = Absent
        /\ old.pair # Absent => old.pair \in Properties /\ LeadsBack(c, old, property[old.pair])
    <2>1. /\ c \in Properties /\ old \in Definition /\ old # Absent /\ old.pair # c
          /\ property[c] # Absent /\ property[c].from = old.from
          /\ property \in [Properties -> Definition \cup {Absent}]
          /\ next \in Definition /\ next.from = old.from /\ next.to = ask.to
          /\ old.pair # Absent => old.pair \in Properties /\ LeadsBack(c, old, property[old.pair])
      BY DefinitionRead
    <2>2. /\ next.from = old.from /\ next.to = ask.to
          /\ SameEnds(next, old) \/ old.pair = Absent
      BY <2>1 DEF SameEnds
    <2> QED BY <2>1, <2>2
  <1>2. /\ BothSides(c, old) \subseteq Properties /\ c \in BothSides(c, old)
        /\ \A i \in BothSides(c, old) : i # c => i = old.pair /\ old.pair # Absent
        /\ old.pair # Absent => old.pair \in BothSides(c, old)
    BY <1>1 DEF BothSides
  <1>3. ASSUME NEW e, e.column = c, e.defs = defs, e.cells = <<>>, e.newDefs = newDefs, e.newCells = <<>>
        PROVE  RelationPlan(e) /\ StillThere(e)
    <2>1. /\ DOMAIN e.defs = BothSides(c, old) /\ e.defs[c] = old
          /\ \A i \in BothSides(c, old) : i # c => e.defs[i] = property[i]
          /\ DOMAIN e.newDefs = BothSides(c, old) /\ DOMAIN e.newCells = {} /\ DOMAIN e.cells = {}
      BY <1>2, <1>3
    <2>2. ASSUME NEW i \in BothSides(c, old)
          PROVE  /\ e.newDefs[i] \in Definition /\ e.newDefs[i].pair = Absent
                 /\ e.defs[i] \in Definition \cup {Absent}
                 /\ \/ SameEnds(e.newDefs[i], e.defs[i])
                    \/ i = c /\ e.defs[i].pair = Absent /\ e.newDefs[i].from = e.defs[i].from
      <3>1. e.newDefs[i] = [(IF i = c THEN next ELSE property[i]) EXCEPT !.pair = Absent]
        BY <1>3
      <3>2. CASE i = c
        BY <1>1, <2>1, <3>1, <3>2 DEF Definition, SameEnds
      <3>3. CASE i # c
        <4>1. property[i] \in Definition /\ e.defs[i] = property[i]
          BY <1>1, <1>2, <2>1, <3>3 DEF LeadsBack
        <4> QED BY <3>1, <3>3, <4>1 DEF Definition, SameEnds
      <3> QED BY <3>2, <3>3
    <2>3. PlanTypes(e)
      BY <1>1, <1>2, <1>3, <2>1, <2>2 DEF PlanTypes
    <2>4. SeparatePlan(e)
      <3>1. old.pair # Absent => LeadsBack(c, old, e.defs[old.pair])
        BY <1>1, <1>2, <2>1
      <3> QED BY <1>3, <2>1, <2>2, <3>1 DEF SeparatePlan
    <2>5. StillThere(e)
      BY <1>1, <1>2, <2>1 DEF StillThere
    <2> QED BY <2>3, <2>4, <2>5 DEF RelationPlan
  <1>4. Planned(t, defs, <<>>, newDefs, <<>>) /\ UNCHANGED tables /\ edit[t].at = "definition"
    BY DEF Separate, PlanDefinition
  <1>5. newDefs[c].to = ask.to
    <2>1. newDefs[c] = [next EXCEPT !.pair = Absent]
      BY <1>2
    <2> QED BY <1>1, <2>1 DEF Definition
  <1> HIDE DEF defs, newDefs
  <1> QED BY <1>3, <1>4, <1>5, PlanHolds

\* PlanDefinition, of a relation shown at its target already.
LEMMA SaveHolds ==
  ASSUME RelationsInd, NEW t \in Edits, PlanDefinition(t), NEW c, c = edit[t].column,
         NEW old, old = edit[t].defs[c], NEW ask, ask = edit[t].want, NamedBack(c, old),
         NEW next, next = AsAsked(old, ask),
         old.pair # Absent, ask.to = old.to, SaveBoth(t, c, old, next)
  PROVE  RelationsInd'
  <1> DEFINE i == old.pair
             inverse == [property[i] EXCEPT !.one = ask.inverseOne]
             defs == [j \in {c, i} |-> IF j = c THEN old ELSE property[j]]
             newDefs == [j \in {c, i} |-> IF j = c THEN next ELSE inverse]
  <1>1. /\ c \in Properties /\ old \in Definition /\ old # Absent /\ i # c
        /\ property[c] # Absent /\ property[c].from = old.from
        /\ property \in [Properties -> Definition \cup {Absent}]
        /\ ask \in [enable : BOOLEAN, one : BOOLEAN, inverseOne : BOOLEAN, to : Databases]
        /\ next \in Definition /\ next.from = old.from /\ next.to = ask.to /\ next.pair = i
        /\ next.kind = "relation" /\ i \in Properties /\ LeadsBack(c, old, property[i])
    BY DefinitionRead
  <1>2. /\ property[i] \in Definition /\ inverse \in Definition
        /\ SameEnds(next, old) /\ SameEnds(inverse, property[i]) /\ next.to = ask.to
        /\ next.pair = i /\ inverse.pair = c /\ next.kind = "relation" /\ inverse.kind = "relation"
    <2>1. property[i] \in Definition /\ property[i].pair = c /\ property[i].kind = "relation"
      BY <1>1 DEF LeadsBack
    <2>2. /\ inverse \in Definition /\ inverse.pair = c /\ inverse.kind = "relation"
          /\ inverse.from = property[i].from /\ inverse.to = property[i].to
      BY <1>1, <2>1 DEF Definition
    <2> HIDE DEF inverse
    <2> QED BY <1>1, <2>1, <2>2 DEF SameEnds
  <1>3. CASE ~Fits(i, inverse)
    <2>1. Forget(t) /\ UNCHANGED tables
      BY <1>3 DEF SaveBoth, PlanDefinition
    <2> QED BY <2>1, ForgettingHolds
  <1>4. CASE Fits(i, inverse)
    <2>1. Planned(t, defs, <<>>, newDefs, <<>>) /\ UNCHANGED tables /\ edit[t].at = "definition"
      BY <1>4 DEF SaveBoth, PlanDefinition
    <2> HIDE DEF inverse, i
    <2>2. ASSUME NEW e, e.column = c, e.defs = defs, e.cells = <<>>, e.newDefs = newDefs, e.newCells = <<>>
          PROVE  RelationPlan(e) /\ StillThere(e)
      <3>1. /\ DOMAIN e.defs = {c, i} /\ e.defs[c] = old /\ e.defs[i] = property[i]
            /\ DOMAIN e.newDefs = {c, i} /\ e.newDefs[c] = next /\ e.newDefs[i] = inverse
            /\ DOMAIN e.newCells = {} /\ DOMAIN e.cells = {} /\ e.defs[c].pair = i
        <4>1. /\ e.defs = [j \in {c, i} |-> IF j = c THEN old ELSE property[j]]
              /\ e.newDefs = [j \in {c, i} |-> IF j = c THEN next ELSE inverse]
          BY <2>2
        <4>2. i # c /\ old.pair = i
          BY <1>1 DEF i
        <4>3. DOMAIN e.newCells = {} /\ DOMAIN e.cells = {}
          BY <2>2
        <4> HIDE DEF defs, newDefs
        <4> QED BY <4>1, <4>2, <4>3
      <3>2. PlanTypes(e)
        BY <1>1, <1>2, <2>2, <3>1 DEF PlanTypes
      <3>3. SavePlan(e)
        <4>1. i # Absent /\ LeadsBack(c, e.defs[c], e.defs[i])
          BY <1>1, <3>1 DEF i
        <4> QED BY <1>2, <2>2, <3>1, <4>1 DEF SavePlan
      <3>4. StillThere(e)
        BY <1>1, <1>2, <3>1 DEF StillThere, LeadsBack
      <3> QED BY <3>2, <3>3, <3>4 DEF RelationPlan
    <2>3. newDefs[c].to = ask.to
      BY <1>2
    <2> HIDE DEF defs, newDefs
    <2> QED BY <2>1, <2>2, <2>3, PlanHolds
  <1> QED BY <1>3, <1>4

\* PlanDefinition, showing the relation at its target.
LEMMA CreateHolds ==
  ASSUME RelationsInd, NEW t \in Edits, PlanDefinition(t), NEW c, c = edit[t].column,
         NEW old, old = edit[t].defs[c], NEW ask, ask = edit[t].want, NamedBack(c, old),
         NEW next, next = AsAsked(old, ask),
         old.pair = Absent, CreateInverse(t, c, old, next)
  PROVE  RelationsInd'
  <1> DEFINE inverse == [kind |-> "relation", from |-> next.to, to |-> old.from,
                         one |-> ask.inverseOne, pair |-> c]
             refused(i) == \E x \in DOMAIN Mirrors(c, old, i) :
                              ~Reaches(t, x[1], next.to) \/ Over(inverse, Mirrors(c, old, i)[x])
             defs(i) == [j \in {c, i} |-> IF j = c THEN old ELSE Absent]
             held(i) == [x \in (RowsIn(old.from) \X {c}) \cup DOMAIN Mirrors(c, old, i) |-> cell[x]]
             newDefs(i) == [j \in {c, i} |-> IF j = c THEN [next EXCEPT !.pair = i] ELSE inverse]
  <1>1. /\ c \in Properties /\ old \in Definition /\ old # Absent
        /\ property[c] # Absent /\ property[c].from = old.from
        /\ property \in [Properties -> Definition \cup {Absent}] /\ cell \in [Cells -> SUBSET Pages]
        /\ ask \in [enable : BOOLEAN, one : BOOLEAN, inverseOne : BOOLEAN, to : Databases]
        /\ next \in Definition /\ next.from = old.from /\ next.to = ask.to /\ next.kind = "relation"
    BY DefinitionRead
  <1>2. PICK i \in Properties :
          /\ property[i] = Absent
          /\ IF refused(i) THEN Forget(t) ELSE Planned(t, defs(i), held(i), newDefs(i), Mirrors(c, old, i))
    BY DEF CreateInverse
  <1>3. UNCHANGED tables /\ edit[t].at = "definition"
    BY DEF PlanDefinition
  <1>4. CASE refused(i)
    BY <1>2, <1>3, <1>4, ForgettingHolds
  <1>5. CASE ~refused(i)
    <2>1. /\ Planned(t, defs(i), held(i), newDefs(i), Mirrors(c, old, i))
          /\ \A x \in DOMAIN Mirrors(c, old, i) : x[1] \in RowsIn(next.to)
      BY <1>2, <1>5 DEF Reaches
    <2>2. i # c
      BY <1>1, <1>2
    <2>3. /\ inverse \in Definition /\ inverse.kind = "relation" /\ inverse.pair = c
          /\ inverse.from = next.to /\ inverse.to = old.from
      BY <1>1 DEF Definition
    <2>4. /\ [next EXCEPT !.pair = i] \in Definition /\ next.to = ask.to
          /\ [next EXCEPT !.pair = i].from = old.from /\ [next EXCEPT !.pair = i].to = next.to
          /\ [next EXCEPT !.pair = i].kind = "relation" /\ [next EXCEPT !.pair = i].pair = i
      BY <1>1 DEF Definition
    <2> HIDE DEF inverse, refused
    <2>5. ASSUME NEW e, e.column = c, e.defs = defs(i), e.cells = held(i), e.newDefs = newDefs(i),
                 e.newCells = Mirrors(c, old, i)
          PROVE  RelationPlan(e) /\ StillThere(e)
      <3>1. /\ DOMAIN e.defs = {c, i} /\ e.defs[c] = old /\ e.defs[i] = Absent
            /\ DOMAIN e.newDefs = {c, i} /\ e.newDefs[c] = [next EXCEPT !.pair = i] /\ e.newDefs[i] = inverse
        BY <2>2, <2>5
      <3>2. /\ RowsIn(old.from) \subseteq Pages
            /\ \A p \in RowsIn(old.from) : <<p, c>> \in Cells /\ cell[<<p, c>>] \subseteq Pages
        BY <1>1 DEF RowsIn, Cells
      <3>3. /\ DOMAIN e.newCells = (UNION {cell[<<p, c>>] : p \in RowsIn(old.from)}) \X {i}
            /\ \A x \in DOMAIN e.newCells : e.newCells[x] = {p \in RowsIn(old.from) : x[1] \in cell[<<p, c>>]}
        BY <2>5 DEF Mirrors
      <3>4. /\ DOMAIN e.cells = (RowsIn(old.from) \X {c}) \cup DOMAIN e.newCells
            /\ \A p \in RowsIn(old.from) : <<p, c>> \in DOMAIN e.cells /\ e.cells[<<p, c>>] = cell[<<p, c>>]
        BY <2>5
      <3>5. DOMAIN e.cells \subseteq Cells
        <4>1. RowsIn(old.from) \X {c} \subseteq Cells
          BY <1>1, <3>2 DEF Cells
        <4>2. UNION {cell[<<p, c>>] : p \in RowsIn(old.from)} \subseteq Pages
          BY <3>2
        <4>3. DOMAIN e.newCells \subseteq Cells
          BY <3>3, <4>2 DEF Cells
        <4> QED BY <3>4, <4>1, <4>3
      <3>6. \A x \in DOMAIN e.newCells : e.newCells[x] \in SUBSET Pages
        BY <3>2, <3>3
      <3>7. PlanTypes(e)
        <4>1. /\ c \in Properties /\ e.column = c /\ e.defs[c] = old /\ old \in Definition /\ old.pair = Absent
              /\ DOMAIN e.defs = {c, i} /\ DOMAIN e.newDefs = {c, i} /\ e.defs[i] = Absent
          BY <1>1, <2>5, <3>1
        <4>2. /\ e.newDefs[c] \in Definition /\ e.newDefs[c].from = old.from
              /\ e.newDefs[i] \in Definition
          BY <2>3, <2>4, <3>1
        <4> HIDE DEF defs, held, newDefs
        <4> QED BY <3>4, <3>5, <3>6, <4>1, <4>2 DEF PlanTypes
      <3>8. CreatePlan(e)
        <4>1. DOMAIN e.newCells = (UNION {e.cells[<<p, c>>] : p \in RowsIn(old.from)}) \X {i}
          <5>1. {e.cells[<<p, c>>] : p \in RowsIn(old.from)} = {cell[<<p, c>>] : p \in RowsIn(old.from)}
            BY <3>4
          <5> QED BY <3>3, <5>1
        <4>2. LeadsBack(c, e.newDefs[c], e.newDefs[i])
          BY <2>3, <2>4, <3>1, DefinitionsAssumption DEF LeadsBack
        <4>3. ASSUME NEW x \in DOMAIN e.newCells
              PROVE  /\ x[1] \in RowsIn(e.newDefs[c].to)
                     /\ e.newCells[x] = {p \in RowsIn(old.from) : x[1] \in e.cells[<<p, c>>]}
          BY <2>1, <2>4, <2>5, <3>1, <3>3, <3>4
        <4>4. /\ i \in Properties \ {c} /\ e.newDefs[c].kind = "relation" /\ e.newDefs[c].pair = i
              /\ \A p \in RowsIn(old.from) : <<p, c>> \in DOMAIN e.cells
          BY <2>2, <2>4, <3>1, <3>4
        <4>5. e.column = c /\ e.defs[c] = old /\ DOMAIN e.defs = {c, i} /\ e.defs[i] = Absent
              /\ DOMAIN e.newDefs = {c, i}
          BY <2>5, <3>1
        <4> QED BY <4>1, <4>2, <4>3, <4>4, <4>5 DEF CreatePlan
      <3>9. StillThere(e)
        BY <1>1, <1>2, <3>1 DEF StillThere
      <3> QED BY <3>7, <3>8, <3>9 DEF RelationPlan
    <2>6. newDefs(i)[c].to = ask.to
      BY <2>4
    <2> HIDE DEF defs, held, newDefs
    <2> QED BY <1>3, <2>1, <2>5, <2>6, PlanHolds
  <1> QED BY <1>4, <1>5

\* PlanDefinition.
LEMMA PlanDefinitionHolds ==
  ASSUME RelationsInd, NEW t \in Edits, PlanDefinition(t)
  PROVE  RelationsInd'
  <1> DEFINE c == edit[t].column
             old == edit[t].defs[c]
             ask == edit[t].want
             next == [old EXCEPT !.kind = "relation", !.one = ask.one, !.to = ask.to]
             taken == Fits(c, next) /\ NamedBack(c, old) /\ (old.pair # Absent => ask.to = old.to)
  <1>1. /\ UNCHANGED tables
        /\ \/ ~taken /\ Forget(t)
           \/ taken /\ old.pair = Absent /\ CreateInverse(t, c, old, next)
           \/ taken /\ old.pair # Absent /\ SaveBoth(t, c, old, next)
           \/ taken /\ Separate(t, c, old, next)
    BY DEF PlanDefinition
  <1>0. next = AsAsked(old, ask)
    BY DEF AsAsked
  <1> HIDE DEF next
  <1>2. CASE ~taken /\ Forget(t)
    BY <1>1, <1>2, ForgettingHolds
  <1>3. CASE taken /\ old.pair = Absent /\ CreateInverse(t, c, old, next)
    BY <1>3, <1>0, CreateHolds
  <1>4. CASE taken /\ old.pair # Absent /\ SaveBoth(t, c, old, next)
    BY <1>4, <1>0, SaveHolds
  <1>5. CASE taken /\ Separate(t, c, old, next)
    BY <1>5, <1>0, SeparateHolds
  <1> QED BY <1>1, <1>2, <1>3, <1>4, <1>5

-----------------------------------------------------------------------------
(* Updates that compare nothing.                                            *)

\* What an update writes stays in its database, and is what it read changed in
\* nothing a pair rests on, unless a newer one was there.
LEMMA OverwriteHolds ==
  ASSUME RelationsInd, NEW t \in Edits, Overwrite(t)
  PROVE  RelationsInd'
  <1> DEFINE c == edit[t].column
             now == property[c]
             read == edit[t].defs[c]
             new == Overwritten(t)
  <1>1. /\ ColumnRead(edit[t]) /\ StillThere(edit[t]) /\ RelationTables /\ RequestsHold
        /\ edit[t].what \in {"retype", "redefine", "reset", "delete"}
        /\ edit[t].want \in Databases \cup {Absent}
        /\ edit[t].what # "reset" /\ read.kind = "relation" => read.pair = Absent
    BY DEF RelationsInd, RequestsHold, RequestHolds, Overwrite
  <1>2. /\ c \in Properties /\ read \in Definition /\ now \in Definition /\ now.from = read.from
        /\ property \in [Properties -> Definition \cup {Absent}]
    BY <1>1, DefinitionsAssumption DEF ColumnRead, StillThere, RelationTables, RelationTypes
  <1>3. /\ property' = [property EXCEPT ![c] = new] /\ cell' = cell
        /\ outdated' = (outdated \/ read # now) /\ edit' = [edit EXCEPT ![t] = Quiet]
        /\ overtaken' = overtaken \ {t}
        /\ stray' = stray \cup (IF HasValues(c) /\ [property EXCEPT ![c] = new][c].to # now.to THEN {c} ELSE {})
        /\ WithinLimits([property EXCEPT ![c] = new], cell)
    BY DEF Overwrite, Forget
  <1>4. /\ new \in Definition /\ new.from = now.from /\ new.pair \in {now.pair, read.pair, Absent}
        /\ edit[t].what # "reset" => new.pair \in {read.pair, now.pair, Absent} /\ new.kind # "relation"
    <2>1. CASE edit[t].what = "retype"
      BY <1>2, <2>1 DEF Overwritten, Definition
    <2>2. CASE edit[t].what = "delete"
      BY <1>2, <2>2 DEF Overwritten, Definition
    <2>3. CASE edit[t].what = "redefine"
      <3>1. new = [kind |-> "text", from |-> read.from, to |-> edit[t].want,
                   one |-> edit[t].want # Absent /\ read.one,
                   pair |-> IF edit[t].want = Absent THEN Absent ELSE read.pair]
        BY <2>3 DEF Overwritten
      <3>2. (edit[t].want # Absent /\ read.one) \in BOOLEAN
        OBVIOUS
      <3>3. (IF edit[t].want = Absent THEN Absent ELSE read.pair) \in {read.pair, Absent}
        OBVIOUS
      <3>4. read.from \in Databases /\ read.pair \in Properties \cup {Absent}
        BY <1>2 DEF Definition
      <3> HIDE DEF new
      <3>5. new \in Definition
        BY <1>1, <3>1, <3>2, <3>3, <3>4 DEF Definition
      <3> QED BY <1>2, <2>3, <3>1, <3>3, <3>5
    <2>4. CASE edit[t].what = "reset"
      <3>1. new = [read EXCEPT !.kind = now.kind]
        BY <2>4 DEF Overwritten
      <3> QED BY <1>2, <2>4, <3>1 DEF Definition
    <2> QED BY <1>1, <2>1, <2>2, <2>3, <2>4
  <1>5. ASSUME read = now, PairsHold
        PROVE  /\ now.pair # Absent => new = now
               /\ now.pair = Absent => new.pair = Absent
    <2>1. ASSUME now.pair # Absent PROVE new = now
      <3>1. now.kind = "relation"
        BY <1>2, <1>5, <2>1, DefinitionsAssumption DEF PairsHold, Paired
      <3>2. edit[t].what = "reset"
        BY <1>1, <1>5, <2>1, <3>1
      <3>3. new = [read EXCEPT !.kind = now.kind]
        BY <3>2 DEF Overwritten
      <3> QED BY <1>2, <1>5, <3>3 DEF Definition
    <2> QED BY <1>4, <1>5, <2>1
  <1> HIDE DEF new, c
  <1>6. property' = [b \in Properties |-> IF b = c THEN new ELSE property[b]]
    BY <1>2, <1>3
  <1>7. NotItself'
    <2>1. now.pair # c
      BY <1>1, <1>2, DefinitionsAssumption DEF RelationTables, NotItself
    <2>2. read.pair # c
      BY <1>1 DEF ColumnRead, c
    <2>3. Absent # c
      BY <1>2, RelationsAssumption
    <2> QED BY <1>1, <1>4, <1>6, <2>1, <2>2, <2>3 DEF RelationTables, NotItself
  <1>8. OnePageEach'
    <2>1. WithinLimits(property', cell')
      BY <1>3
    <2> QED BY <2>1 DEF OnePageEach, WithinLimits, Over
  <1>9. ColumnsStay /\ TargetsStay /\ stray' \subseteq Properties
    <2>1. ColumnsStay
      BY <1>2, <1>4, <1>6, DefinitionsAssumption DEF ColumnsStay
    <2>2. stray' = stray \cup (IF HasValues(c) /\ new.to # now.to THEN {c} ELSE {})
      BY <1>2, <1>3
    <2>3. TargetsStay
      BY <1>6, <2>2 DEF TargetsStay
    <2> QED BY <1>1, <1>2, <2>1, <2>2, <2>3 DEF RelationTables, RelationTypes
  <1>10. CellsNameTargets'
    <2> SUFFICES ASSUME NEW x \in Cells, cell'[x] # {}
                 PROVE  /\ property'[x[2]] # Absent /\ Home[x[1]] = property'[x[2]].from
                        /\ (x[2] \in stray' => Paired(x[2])' /\ ~outdated') =>
                              cell'[x] \subseteq RowsIn(property'[x[2]].to)
      BY DEF CellsNameTargets, Paired
    <2>1. x[2] \in Properties /\ cell'[x] = cell[x]
      BY <1>3 DEF Cells
    <2>2. ASSUME Paired(x[2])', ~outdated'
          PROVE  Paired(x[2]) /\ ~outdated /\ property'[x[2]].to = property[x[2]].to
      <3>1. ~outdated /\ read = now /\ PairsHold
        BY <1>1, <1>3, <2>2 DEF RelationTables
      <3>2. property'[x[2]] = property[x[2]]
        BY <1>5, <1>6, <2>1, <2>2, <3>1 DEF Paired
      <3> QED BY <2>2, <3>1, <3>2 DEF Paired
    <2> QED BY <1>1, <1>9, <2>1, <2>2, NamesTargets
  <1>11. ASSUME ~outdated'
         PROVE  PairsHold' /\ Mirrored'
    <2>1. read = now /\ PairsHold /\ Mirrored
      BY <1>1, <1>3, <1>11 DEF RelationTables
    <2>2. CASE now.pair # Absent
      <3>1. property' = property
        BY <1>2, <1>5, <1>6, <2>1, <2>2
      <3> QED BY <1>3, <2>1, <3>1 DEF PairsHold, Mirrored, Paired
    <2>3. CASE now.pair = Absent
      <3>1. ASSUME NEW b \in Properties, property'[b] # Absent, property'[b].pair # Absent
            PROVE  /\ property'[b] = property[b] /\ Paired(b)
                   /\ property'[property[b].pair] = property[property[b].pair]
        <4>1. property'[b] = property[b] /\ b # c
          BY <1>5, <1>6, <2>1, <2>3, <3>1
        <4>2. /\ Paired(b) /\ property[b].pair \in Properties
              /\ property[property[b].pair].pair = b
          BY <1>1, <2>1, <3>1, <4>1, PairsAreDisjoint DEF Paired
        <4>3. property[b].pair # c
          BY <2>3, <4>2, RelationsAssumption
        <4> QED BY <1>6, <4>1, <4>2, <4>3
      <3>2. PairsHold'
        <4> SUFFICES ASSUME NEW b \in Properties, property'[b] # Absent, property'[b].pair # Absent
                     PROVE  /\ property'[b].kind = "relation"
                            /\ LeadsBack(b, property'[b], property'[property'[b].pair])
          BY DEF PairsHold, Paired
        <4> QED BY <2>1, <3>1 DEF PairsHold
      <3>3. Mirrored'
        <4> SUFFICES ASSUME NEW b \in Properties, property'[b] # Absent, property'[b].pair # Absent,
                            NEW p \in RowsIn(property'[b].from), NEW q \in RowsIn(property'[b].to)
                     PROVE  q \in cell'[<<p, b>>] <=> p \in cell'[<<q, property'[b].pair>>]
          BY DEF Mirrored, Paired
        <4> QED BY <1>3, <2>1, <3>1 DEF Mirrored
      <3> QED BY <3>2, <3>3
    <2> QED BY <2>2, <2>3
  <1>12. RelationTables'
    <2>1. RelationTypes'
      BY <1>1, <1>2, <1>3, <1>4, <1>6, <1>9 DEF RelationTables, RelationTypes
    <2> QED BY <1>7, <1>8, <1>10, <1>11, <2>1 DEF RelationTables
  <1>13. RequestsHold'
    <2>1. overtaken' \subseteq Edits
      BY <1>1, <1>3 DEF RequestsHold
    <2> QED BY <1>1, <1>3, <1>9, <2>1, ForgetHolds
  <1>14. ChecksHold'
    <2>1. \A b \in Properties : HasValues(b)' => HasValues(b)
      BY <1>3 DEF HasValues
    <2> QED BY <1>3, <1>9, <2>1, ChecksStay
  <1> QED BY <1>12, <1>13, <1>14 DEF RelationsInd

-----------------------------------------------------------------------------
(* Every behaviour.                                                         *)

\* The pairs there are at first answer each other, and no cell holds a link.
LEMMA RelationsStart == RelationsInit => RelationsInd
  <1> SUFFICES ASSUME RelationsInit PROVE RelationsInd
    OBVIOUS
  <1>1. RelationTypes
    BY RelationsAssumption, DefinitionsAssumption DEF RelationsInit, RelationTypes
  <1>2. \A c \in Properties : property[c] # Absent => c \in DOMAIN Given /\ property[c] = Given[c]
    BY DEF RelationsInit
  <1>3. NotItself
    BY <1>2, RelationsAssumption, DefinitionsAssumption DEF NotItself
  <1>4. \A x \in Cells : cell[x] = {}
    BY DEF RelationsInit
  <1>5. OnePageEach
    <2>1. Cardinality({}) = 0
      BY FS_EmptySet
    <2> QED BY <1>4, <2>1 DEF OnePageEach, WithinLimits, Over
  <1>6. CellsNameTargets
    BY <1>4 DEF CellsNameTargets
  <1>7. PairsHold
    <2> SUFFICES ASSUME NEW c \in Properties, property[c] # Absent, property[c].pair # Absent
                 PROVE  property[c].kind = "relation" /\ LeadsBack(c, property[c], property[property[c].pair])
      BY DEF PairsHold, Paired
    <2>1. /\ c \in DOMAIN Given /\ property[c] = Given[c] /\ Given[c].kind = "relation"
          /\ Given[c].pair \in DOMAIN Given /\ LeadsBack(c, Given[c], Given[Given[c].pair])
      BY <1>2, DefinitionsAssumption
    <2>2. property[Given[c].pair] = Given[Given[c].pair]
      BY <2>1, RelationsAssumption DEF RelationsInit
    <2> QED BY <2>1, <2>2
  <1>8. Mirrored
    <2> SUFFICES ASSUME NEW c \in Properties, Paired(c), NEW p \in RowsIn(property[c].from),
                        NEW q \in RowsIn(property[c].to)
                 PROVE  q \in cell[<<p, c>>] <=> p \in cell[<<q, property[c].pair>>]
      BY DEF Mirrored
    <2>1. property[c].pair \in Properties
      BY <1>1 DEF RelationTypes, Paired, Definition
    <2>2. <<p, c>> \in Cells /\ <<q, property[c].pair>> \in Cells
      BY <2>1 DEF Cells, RowsIn
    <2> QED BY <1>4, <2>2
  <1>9. RequestsHold
    BY QuietHolds DEF RequestsHold, RelationsInit
  <1>10. ChecksHold
    BY QuietHolds DEF ChecksHold, RelationsInit
  <1> QED BY <1>1, <1>3, <1>5, <1>6, <1>7, <1>8, <1>9, <1>10 DEF RelationsInd, RelationTables

\* GiveUp.
LEMMA GiveUpHolds ==
  ASSUME RelationsInd, NEW t \in Edits, GiveUp(t)
  PROVE  RelationsInd'
  BY ForgettingHolds DEF GiveUp

LEMMA RelationsStays == RelationsInd /\ [RelationsNext]_relationsVars => RelationsInd'
  <1> SUFFICES ASSUME RelationsInd, [RelationsNext]_relationsVars
               PROVE  RelationsInd'
    OBVIOUS
  <1>1. CASE UNCHANGED relationsVars
    <2>1. RelationTables'
      BY <1>1 DEF relationsVars, RelationsInd, RelationTables, RelationTypes, NotItself, OnePageEach,
         WithinLimits, CellsNameTargets, PairsHold, Mirrored, Paired
    <2>2. ASSUME NEW e, RequestHolds(e)
          PROVE  RequestHolds(e)'
      BY <1>1, <2>2 DEF relationsVars, RequestHolds, CellRead, ColumnRead, RelationPlan, PlanTypes,
         CellPlan, StillThere, Retargets, CreatePlan, SavePlan, SeparatePlan, LeadsBack, RowsIn, BothSides,
         SameEnds, Shape
    <2>3. RequestsHold'
      BY <1>1, <2>2 DEF relationsVars, RelationsInd, RequestsHold
    <2>4. ChecksHold'
      BY <1>1 DEF relationsVars, RelationsInd, ChecksHold, Checked, HasValues, Retargets, TargetOf
    <2> QED BY <2>1, <2>3, <2>4 DEF RelationsInd
  <1>2. CASE RelationsNext
    <2> PICK t \in Edits :
        \/ \E c \in Properties, p \in Pages, u \in Editors : \E want \in SUBSET Pages :
              ReadCell(t, u, p, c, want)
        \/ \E c \in Properties, u \in Editors, ask \in Configurations : ReadDefinition(t, u, c, ask)
        \/ \E c \in Properties, what \in {"retype", "redefine", "reset", "delete"},
              to \in Databases \cup {Absent} : ReadColumn(t, c, what, to)
        \/ PlanCell(t) \/ AssertRelationCanChange(t) \/ PlanDefinition(t) \/ CommitPlan(t)
        \/ GiveUp(t) \/ Overwrite(t)
      BY <1>2 DEF RelationsNext
    <2>1. CASE \E c \in Properties, p \in Pages, u \in Editors : \E want \in SUBSET Pages :
                  ReadCell(t, u, p, c, want)
      BY <2>1, ReadCellHolds
    <2>2. CASE \E c \in Properties, u \in Editors, ask \in Configurations : ReadDefinition(t, u, c, ask)
      BY <2>2, ReadDefinitionHolds
    <2>3. CASE \E c \in Properties, what \in {"retype", "redefine", "reset", "delete"},
                  to \in Databases \cup {Absent} : ReadColumn(t, c, what, to)
      BY <2>3, ReadColumnHolds
    <2> QED BY <2>1, <2>2, <2>3, PlanCellHolds, AssertHolds, PlanDefinitionHolds, CommitHolds,
               GiveUpHolds, OverwriteHolds
  <1> QED BY <1>1, <1>2

\* Whatever edits of cells, of both configurations and of their columns cross
\* each other, a relation of one page has no cell with more, and a cell names
\* pages of its relation's target, unless that target was changed over cells
\* written since none were found, or over those of a column that was not a
\* relation then.  Until an update that compares nothing is written over a
\* newer definition, a relation shown at its target is answered by a property
\* there that names it back and holds the same links, and its cells name pages
\* of its target whatever became of it before.
THEOREM RelationsSafe == RelationsSpec => []RelationsInv
  <1>1. RelationsInd => RelationsInv
    <2> SUFFICES ASSUME RelationsInd PROVE RelationsInv
      OBVIOUS
    <2>1. RelationsTypeOK
      BY DEF RelationsTypeOK, RelationsInd, RelationTables, RelationTypes, RequestsHold, RequestHolds
    <2> QED BY <2>1 DEF RelationsInv, RelationsInd, RelationTables
  <1> QED BY <1>1, RelationsStart, RelationsStays, PTL DEF RelationsSpec
==============================================================================
