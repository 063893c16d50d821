----------------------------- MODULE SchedulePins -----------------------------
(***************************************************************************)
(* Pages pinned to people's agendas in one workspace: pins made directly,  *)
(* pins one person asks another to accept, and the reminders the workers   *)
(* enqueue when a pinned page's date begins (schedule-controller.ts,       *)
(* schedule-repository.ts, schedule-pin-request-repository.ts and the first*)
(* half of notification-worker.ts).                                        *)
(*                                                                         *)
(* A handler reads access, columns and requests first and writes later, in *)
(* a transaction of its own; a worker reads the pins, then what each person*)
(* may see, then enqueues one reminder at a time.  Everything else runs in *)
(* between.  The optional colour column is left out.                       *)
(***************************************************************************)
EXTENDS Integers, Sequences

CONSTANTS
    Users, Pages, Columns,
    Requests,       \* rows schedule_pin_requests may come to hold
    Handlers,       \* HTTP requests served at the same time
    Workers,        \* processes running the notification worker
    Day,            \* DAY_MS, in units of the clock
    MaxTime,        \* bound: the clock stops here
    Changes,        \* bound: what other parts of the program change
    MaxPins,        \* bound: direct pins inserted
    Gone, Blank,    \* a column the page cannot be pinned by; one with no valid date
    None

Times  == 0 .. MaxTime
Dates  == Times \cup {Gone, Blank}
PinIds == 1 .. MaxPins \cup Requests

ASSUME SchedulePinsAssumption ==
    /\ Day \in Nat /\ MaxTime \in Nat /\ MaxPins \in Nat
    /\ Requests \cap Nat = {}
    /\ {Gone, Blank} \cap Nat = {}
    /\ None \notin PinIds \cup Users \cup Pages \cup Columns

VARIABLES
    now,        \* the clock, the database's and the workers'
    readers,    \* by page: who may view it
    members,    \* who may view the workspace
    placed,     \* pages below a root of the workspace
    date,       \* by page and column: when the page starts
    pin,        \* pinned_schedule_pages, by user and page
    minted,     \* how many direct pins have been inserted
    request,    \* schedule_pin_requests
    notice,     \* the notification of each request
    task,       \* by handler: what it has read
    watch,      \* by worker: its tick
    reminders   \* the reminders enqueued, in order

access   == <<readers, members, placed, date>>
pinning  == <<pin, minted, request, notice>>
vars     == <<now, access, pinning, task, watch, reminders>>

NoPin   == [id |-> None, column |-> None, since |-> 0]
Pin     == [id : PinIds, column : Columns, since : Times]

NoRequest == [status |-> "none", by |-> None, for |-> None, page |-> None, column |-> None]
Request   == [status : {"pending", "accepted", "declined"}, by : Users, for : Users,
              page : Pages, column : Columns]
NoNotice  == [status |-> "none", read |-> FALSE]
Notice    == [status : {"pending", "accepted", "declined"}, read : BOOLEAN]

Idle == [at |-> "idle"]
Task == {Idle}
   \cup [at : {"pin", "unpin"}, user : Users, page : Pages, column : Columns]
   \cup [at : {"request"}, by : Users, for : Users, page : Pages, column : Columns]
   \cup [at : {"decide"}, request : Requests, decision : {"accepted", "declined"}]

\* A reminder: its dedupe_key is the pin and the start; the rest says whose.
Reminder == [pin : PinIds, user : Users, page : Pages, start : Times, since : Times]
Read     == [pin : PinIds, user : Users, page : Pages, start : Dates, since : Times]
Asleep   == [busy |-> FALSE, at |-> 0, todo |-> {}, ready |-> {}]
Watch    == [busy : BOOLEAN, at : Times, todo : SUBSET Read, ready : SUBSET Reminder]

Init ==
    /\ now = 0
    /\ readers = [p \in Pages |-> Users]
    /\ members = Users
    /\ placed = Pages
    /\ date \in [Pages -> [Columns -> Dates]]
    /\ pin = [u \in Users |-> [p \in Pages |-> NoPin]]
    /\ minted = 0
    /\ request = [r \in Requests |-> NoRequest]
    /\ notice = [r \in Requests |-> NoNotice]
    /\ task = [h \in Handlers |-> Idle]
    /\ watch = [w \in Workers |-> Asleep]
    /\ reminders = <<>>

Pinned(u, p) == pin[u][p] # NoPin
Views(u, p)  == u \in readers[p]

\* structuralTargetSql, resolvePinTarget.
Target(p, c) == p \in placed /\ date[p][c] # Gone

-----------------------------------------------------------------------------
(* The rest of the program: time, permissions, page structure and values.   *)

ClockTicks ==
    /\ now < MaxTime
    /\ now' = now + 1
    /\ UNCHANGED <<access, pinning, task, watch, reminders>>

Elsewhere ==
    /\ \/ /\ "readers" \in Changes
          /\ \E p \in Pages, s \in SUBSET Users : readers' = [readers EXCEPT ![p] = s]
          /\ UNCHANGED <<members, placed, date>>
       \/ /\ "members" \in Changes
          /\ members' \in SUBSET Users
          /\ UNCHANGED <<readers, placed, date>>
       \/ /\ "placed" \in Changes
          /\ placed' \in SUBSET Pages
          /\ UNCHANGED <<readers, members, date>>
       \/ /\ "date" \in Changes
          /\ \E p \in Pages, c \in Columns, d \in Dates : date' = [date EXCEPT ![p][c] = d]
          /\ UNCHANGED <<readers, members, placed>>
    /\ UNCHANGED <<now, pinning, task, watch, reminders>>

-----------------------------------------------------------------------------
(* HTTP handlers: what each reads before it writes.                         *)

Begin(h, t) ==
    /\ task[h] = Idle
    /\ task' = [task EXCEPT ![h] = t]
    /\ UNCHANGED <<now, access, pinning, watch, reminders>>

StartPin(h, u, p, c) ==
    /\ u \in members /\ Views(u, p) /\ Target(p, c)
    /\ Begin(h, [at |-> "pin", user |-> u, page |-> p, column |-> c])

StartUnpin(h, u, p, c) ==
    /\ u \in members
    /\ Begin(h, [at |-> "unpin", user |-> u, page |-> p, column |-> c])

\* requestPin: the recipient is one of listEligibleRecipients.
StartRequest(h, u, v, p, c) ==
    /\ u # v
    /\ u \in members /\ Views(u, p) /\ Target(p, c)
    /\ v \in members /\ Views(v, p)
    /\ Begin(h, [at |-> "request", by |-> u, for |-> v, page |-> p, column |-> c])

\* decidePinRequest: a request already answered is refused here.
StartDecision(h, r, decision) ==
    /\ request[r].status = "pending" /\ request[r].for \in members
    /\ Begin(h, [at |-> "decide", request |-> r, decision |-> decision])

\* The process stops, or a statement fails, before the transaction.
Drop(h) ==
    /\ task[h] # Idle
    /\ task' = [task EXCEPT ![h] = Idle]
    /\ UNCHANGED <<now, access, pinning, watch, reminders>>

-----------------------------------------------------------------------------
(* HTTP handlers: what each writes.                                         *)

Finish(h) == task' = [task EXCEPT ![h] = Idle] /\ UNCHANGED <<now, access, watch, reminders>>

\* INSERT ... ON CONFLICT DO UPDATE: a pin already there keeps its id and its
\* created_at.
UpsertFirst(u, p, c, id) ==                                         \* mutant
    pin' = [pin EXCEPT ![u][p] =
              IF Pinned(u, p) THEN @ ELSE [id |-> id, column |-> c, since |-> now]]
Upsert(u, p, c, id) ==
    pin' = [pin EXCEPT ![u][p] =
              IF Pinned(u, p) THEN [@ EXCEPT !.column = c]
                              ELSE [id |-> id, column |-> c, since |-> now]]

\* pin: nothing is checked again.
CommitPin(h) ==
    LET t == task[h] IN
    /\ t.at = "pin"
    /\ minted < MaxPins
    /\ Upsert(t.user, t.page, t.column, minted + 1)
    /\ minted' = IF Pinned(t.user, t.page) THEN minted ELSE minted + 1
    /\ Finish(h)
    /\ UNCHANGED <<request, notice>>

CommitUnpin(h) ==
    LET t == task[h] IN
    /\ t.at = "unpin"
    /\ pin' = [pin EXCEPT ![t.user][t.page] = NoPin]
    /\ Finish(h)
    /\ UNCHANGED <<minted, request, notice>>

\* idx_schedule_pin_requests_pending_unique.
PendingUnseen(t) ==                                                 \* mutant
    \E r \in Requests : /\ request[r].status = "pending" /\ ~notice[r].read
                        /\ request[r].for = t.for /\ request[r].page = t.page
Pending(t) ==
    \E r \in Requests : /\ request[r].status = "pending"
                        /\ request[r].for = t.for /\ request[r].page = t.page

\* The WHERE of create's INSERT.
Allowed(t) ==
    /\ t.by # t.for
    /\ Views(t.by, t.page)
    /\ Views(t.for, t.page) /\ t.for \in members
    /\ Target(t.page, t.column)

\* create: request and notification (its e-mail goes to the outbox), or none.
CommitRequest(h, r) ==
    LET t == task[h] IN
    /\ t.at = "request"
    /\ request[r].status = "none"
    /\ IF Allowed(t) /\ ~Pending(t)
       THEN /\ request' = [request EXCEPT ![r] =
                   [status |-> "pending", by |-> t.by, for |-> t.for,
                    page |-> t.page, column |-> t.column]]
            /\ notice' = [notice EXCEPT ![r] = [status |-> "pending", read |-> FALSE]]
       ELSE UNCHANGED <<request, notice>>
    /\ Finish(h)
    /\ UNCHANGED <<pin, minted>>

\* The WHERE of decide's UPDATE; when it matches no row the next statement
\* breaks a constraint and the transaction is rolled back.
DecidableAsRead(r, decision) ==                                     \* mutant
    decision = "accepted" =>
        /\ Views(request[r].for, request[r].page) /\ request[r].for \in members
        /\ Target(request[r].page, request[r].column)
Decidable(r, decision) ==
    /\ request[r].status = "pending"
    /\ decision = "accepted" =>
        /\ Views(request[r].for, request[r].page) /\ request[r].for \in members
        /\ Target(request[r].page, request[r].column)

MarkDecided(r, decision) ==
    notice' = [notice EXCEPT ![r] = [status |-> decision, read |-> TRUE]]

CommitDecision(h) ==
    LET r == task[h].request  decision == task[h].decision  q == request[r] IN
    /\ task[h].at = "decide"
    /\ IF Decidable(r, decision)
       THEN /\ request' = [request EXCEPT ![r].status = decision]
            /\ MarkDecided(r, decision)
            /\ IF decision = "accepted" THEN Upsert(q.for, q.page, q.column, r)
                                        ELSE UNCHANGED pin
       ELSE UNCHANGED <<request, notice, pin>>
    /\ Finish(h)
    /\ UNCHANGED minted

\* markRead, from the list of notifications.
MarkRead(r) ==
    /\ notice[r] # NoNotice
    /\ notice' = [notice EXCEPT ![r].read = TRUE]
    /\ UNCHANGED <<now, access, pin, minted, request, task, watch, reminders>>

-----------------------------------------------------------------------------
(* The worker: enqueueDueScheduleReminders.                                 *)

\* listReminderCandidates: wherever the page is, whoever may read it.
Candidate(u, p) ==
    [pin |-> pin[u][p].id, user |-> u, page |-> p,
     start |-> date[p][pin[u][p].column], since |-> pin[u][p].since]

Candidates ==
    {Candidate(k[1], k[2]) :
        k \in {k \in Users \X Pages : /\ Pinned(k[1], k[2])
                                      /\ date[k[2]][pin[k[1]][k[2]].column] # Gone}}

Wake(w) ==
    /\ ~watch[w].busy
    /\ watch' = [watch EXCEPT ![w] = [busy |-> TRUE, at |-> now,
                                      todo |-> Candidates, ready |-> {}]]
    /\ UNCHANGED <<now, access, pinning, task, reminders>>

\* A valid date that began in the last Day, not before the page was pinned.
Due(c, t) ==
    /\ c.start \in Times
    /\ c.start <= t /\ t - Day <= c.start
    /\ c.since <= c.start

\* listReadablePageIds for one person, whose reminders are then enqueued.
Look(w, u) ==
    LET mine == {c \in watch[w].todo : c.user = u} IN
    /\ watch[w].ready = {} /\ mine # {}
    /\ watch' = [watch EXCEPT ![w].todo = @ \ mine,
                              ![w].ready = {c \in mine : /\ Views(u, c.page)
                                                         /\ Due(c, watch[w].at)}]
    /\ UNCHANGED <<now, access, pinning, task, reminders>>

\* enqueue, which ignores a dedupe_key it already has.
EnqueueAlways(c) == reminders' = Append(reminders, c)               \* mutant
Enqueue(c) ==
    reminders' = IF \E i \in DOMAIN reminders :
                        reminders[i].pin = c.pin /\ reminders[i].start = c.start
                 THEN reminders ELSE Append(reminders, c)

Remind(w) ==
    \E c \in watch[w].ready :
        /\ Enqueue(c)
        /\ watch' = [watch EXCEPT ![w].ready = @ \ {c}]
        /\ UNCHANGED <<now, access, pinning, task>>

\* The tick is over, fails, or its process stops.
Sleep(w) ==
    /\ watch[w].busy
    /\ watch' = [watch EXCEPT ![w] = Asleep]
    /\ UNCHANGED <<now, access, pinning, task, reminders>>

Reading(h) ==
    \/ \E u \in Users, p \in Pages, c \in Columns :
          \/ StartPin(h, u, p, c) \/ StartUnpin(h, u, p, c)
          \/ \E v \in Users : StartRequest(h, u, v, p, c)
    \/ \E r \in Requests, d \in {"accepted", "declined"} : StartDecision(h, r, d)

Writing(h) ==
    \/ CommitPin(h) \/ CommitUnpin(h) \/ CommitDecision(h)
    \/ \E r \in Requests : CommitRequest(h, r)

Working(w) == Wake(w) \/ (\E u \in Users : Look(w, u)) \/ Remind(w) \/ Sleep(w)

Next ==
    \/ ClockTicks \/ Elsewhere
    \/ \E h \in Handlers : Reading(h) \/ Writing(h) \/ Drop(h)
    \/ \E r \in Requests : MarkRead(r)
    \/ \E w \in Workers : Working(w)

Spec == Init /\ [][Next]_vars

-----------------------------------------------------------------------------
(* Properties.                                                              *)

\* Rows, tasks and ticks have the types of their columns and locals.
TypeOK ==
    /\ now \in Times
    /\ readers \in [Pages -> SUBSET Users] /\ members \subseteq Users
    /\ placed \subseteq Pages
    /\ date \in [Pages -> [Columns -> Dates]]
    /\ pin \in [Users -> [Pages -> Pin \cup {NoPin}]]
    /\ minted \in 0 .. MaxPins
    /\ request \in [Requests -> Request \cup {NoRequest}]
    /\ notice \in [Requests -> Notice \cup {NoNotice}]
    /\ task \in [Handlers -> Task]
    /\ watch \in [Workers -> Watch]
    /\ reminders \in Seq(Reminder)

\* At most one request waits for each person and page, whoever asks and
\* however many requests are being created.
OnePending ==
    \A r, q \in Requests :
        /\ request[r].status = "pending" /\ request[q].status = "pending"
        /\ request[r].for = request[q].for /\ request[r].page = request[q].page
        => r = q

\* The notification shows the state of its request, and a decision reads it.
NoticesMirror ==
    \A r \in Requests :
        /\ notice[r].status = request[r].status
        /\ request[r].status \in {"accepted", "declined"} => notice[r].read

\* Nobody is reminded twice of the same start of a page, by any number of
\* workers and pins; except by a page pinned anew in the instant it starts.
RemindedOnce ==
    \A i, j \in DOMAIN reminders :
        LET a == reminders[i]  b == reminders[j] IN
        /\ i # j /\ a.user = b.user /\ a.page = b.page /\ a.start = b.start
        => a.pin # b.pin /\ (a.since = a.start \/ b.since = b.start)

\* Where RemindedOnce comes from.  An id names one pin for ever: a direct pin
\* takes a new one, an accepted request gives its own.
Taken(id) == id \in 1 .. minted \/ (id \in Requests /\ request[id].status = "accepted")

Held(w) == watch[w].todo \cup watch[w].ready

\* Two readings of pins: of one pin they agree whose it is; of two pins on one
\* page the later pin was made after the earlier one had been seen (at s, t).
Apart(c, s, d, t) ==
    /\ c.pin = d.pin => c.user = d.user /\ c.page = d.page /\ c.since = d.since
    /\ c.pin # d.pin /\ c.user = d.user /\ c.page = d.page => t <= c.since \/ s <= d.since

\* A reading made at s and the pin there is now, if it is not the same, which
\* is then the later one.
Behind(c, s) ==
    /\ Taken(c.pin)
    /\ \A u \in Users, p \in Pages : Pinned(u, p) =>
          /\ c.pin = pin[u][p].id => c.user = u /\ c.page = p /\ c.since = pin[u][p].since
          /\ c.pin # pin[u][p].id /\ c.user = u /\ c.page = p => s <= pin[u][p].since

PinsInOrder ==
    \A u \in Users, p \in Pages : Pinned(u, p) =>
        /\ Taken(pin[u][p].id) /\ pin[u][p].since <= now
        /\ \A v \in Users, q \in Pages :
              Pinned(v, q) /\ pin[v][q].id = pin[u][p].id => u = v /\ p = q

TicksInOrder ==
    \A w \in Workers :
        /\ watch[w].at <= now
        /\ \A c \in watch[w].ready : Due(c, watch[w].at)
        /\ \A c \in Held(w) :
              /\ Behind(c, watch[w].at)
              /\ \A x \in Workers : \A d \in Held(x) : Apart(c, watch[w].at, d, watch[x].at)

RemindersInOrder ==
    \A i \in DOMAIN reminders :
        LET a == reminders[i] IN
        /\ a.since <= a.start /\ a.start <= now
        /\ Behind(a, a.start)
        /\ \A w \in Workers : \A c \in Held(w) : Apart(a, a.start, c, watch[w].at)
        /\ \A j \in DOMAIN reminders :
              /\ Apart(a, a.start, reminders[j], reminders[j].start)
              /\ i # j => a.pin # reminders[j].pin \/ a.start # reminders[j].start

\* The inductive invariant.
SchedulePinsInv ==
    /\ TypeOK /\ OnePending /\ NoticesMirror
    /\ PinsInOrder /\ TicksInOrder /\ RemindersInOrder

\* A decision is taken once: what was answered is not answered again.
DecidedForGood ==
    [][\A r \in Requests : request[r].status \in {"accepted", "declined"} =>
          request'[r] = request[r]]_vars

\* A request becomes pending, or accepted, only if in that very step the
\* recipient may view the page and the workspace and the column still suits;
\* accepting it leaves the page pinned by that column, and one's own earlier
\* pin of the page is the only other thing it may write.
AskedAndAcceptedWithAccess ==
    [][\A r \in Requests :
          LET q == request'[r] IN
          q # request[r] /\ q.status \in {"pending", "accepted"} =>
              /\ Views(q.for, q.page) /\ q.for \in members
              /\ Target(q.page, q.column)
              /\ q.status = "accepted" =>
                    /\ pin'[q.for][q.page].column = q.column
                    /\ pin' = [pin EXCEPT ![q.for][q.page] = pin'[q.for][q.page]]]_vars
==============================================================================
