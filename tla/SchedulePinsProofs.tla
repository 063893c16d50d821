-------------------------- MODULE SchedulePinsProofs --------------------------
(***************************************************************************)
(* Proofs about SchedulePins for any users, pages, requests, handlers and  *)
(* workers and any bound on the clock: a person is reminded once of each   *)
(* start of a page, and requests are pending once and decided once.        *)
(***************************************************************************)
EXTENDS SchedulePins, TLAPS

\* What a task holds, by the step its handler is at.
LEMMA TaskFields ==
  ASSUME TypeOK, NEW h \in Handlers
  PROVE  /\ task[h].at \in {"pin", "unpin"} =>
              task[h].user \in Users /\ task[h].page \in Pages /\ task[h].column \in Columns
         /\ task[h].at = "request" =>
              /\ task[h].by \in Users /\ task[h].for \in Users
              /\ task[h].page \in Pages /\ task[h].column \in Columns
         /\ task[h].at = "decide" =>
              /\ task[h].request \in Requests
              /\ task[h].decision \in {"accepted", "declined"}
  BY DEF TypeOK, Task, Idle

\* A pin that exists has the types of its columns.
LEMMA PinFields ==
  ASSUME TypeOK, NEW u \in Users, NEW p \in Pages, Pinned(u, p)
  PROVE  pin[u][p] \in Pin
  BY DEF TypeOK, Pinned

\* A request that exists has the types of its columns.
LEMMA RequestFields ==
  ASSUME TypeOK, NEW r \in Requests, request[r].status # "none"
  PROVE  request[r] \in Request
  BY DEF TypeOK, NoRequest

-----------------------------------------------------------------------------
(* Types.                                                                   *)

\* An upsert leaves rows of the type of the table.
LEMMA UpsertType ==
  ASSUME TypeOK, NEW u \in Users, NEW p \in Pages, NEW c \in Columns,
         NEW id \in PinIds, Upsert(u, p, c, id)
  PROVE  pin' \in [Users -> [Pages -> Pin \cup {NoPin}]]
  <1> DEFINE row == IF Pinned(u, p) THEN [pin[u][p] EXCEPT !.column = c]
                                    ELSE [id |-> id, column |-> c, since |-> now]
  <1>1. row \in Pin
    <2>1. CASE Pinned(u, p)
      BY <2>1, PinFields DEF Pin
    <2>2. CASE ~Pinned(u, p)
      BY <2>2 DEF Pin, TypeOK
    <2> QED BY <2>1, <2>2
  <1>2. pin' = [pin EXCEPT ![u][p] = row]
    BY DEF Upsert
  <1> HIDE DEF row
  <1> QED BY <1>1, <1>2 DEF TypeOK

\* Everything a worker may read of the pins is a reading.
LEMMA CandidatesType ==
  ASSUME TypeOK
  PROVE  Candidates \subseteq Read
  <1> SUFFICES ASSUME NEW k \in Users \X Pages, Pinned(k[1], k[2])
               PROVE  Candidate(k[1], k[2]) \in Read
    BY DEF Candidates
  <1>1. pin[k[1]][k[2]] \in Pin
    BY PinFields
  <1>2. date[k[2]][pin[k[1]][k[2]].column] \in Dates
    BY <1>1 DEF TypeOK, Pin
  <1> QED BY <1>1, <1>2 DEF Candidate, Read, Pin

\* Every handler step that does not write keeps the types.
LEMMA TypeReading ==
  ASSUME TypeOK, NEW h \in Handlers, Reading(h) \/ Drop(h)
  PROVE  TypeOK'
  <1>1. task' \in [Handlers -> Task] /\ UNCHANGED <<now, access, pinning, watch, reminders>>
    <2>1. CASE \E u \in Users, p \in Pages, c \in Columns :
                 StartPin(h, u, p, c) \/ StartUnpin(h, u, p, c)
      BY <2>1 DEF StartPin, StartUnpin, Begin, TypeOK, Task
    <2>2. CASE \E u \in Users, p \in Pages, c \in Columns, v \in Users :
                 StartRequest(h, u, v, p, c)
      BY <2>2 DEF StartRequest, Begin, TypeOK, Task
    <2>3. CASE \E r \in Requests, d \in {"accepted", "declined"} : StartDecision(h, r, d)
      BY <2>3 DEF StartDecision, Begin, TypeOK, Task
    <2>4. CASE Drop(h)
      BY <2>4 DEF Drop, TypeOK, Task
    <2> QED BY <2>1, <2>2, <2>3, <2>4 DEF Reading
  <1> QED BY <1>1 DEF TypeOK, access, pinning

\* Every handler step that writes keeps the types.
LEMMA TypeWriting ==
  ASSUME TypeOK, NEW h \in Handlers, Writing(h)
  PROVE  TypeOK'
  <1>1. ASSUME Finish(h) PROVE task' \in [Handlers -> Task]
    BY <1>1 DEF Finish, TypeOK, Task
  <1>2. CASE CommitPin(h)
    <2>1. pin' \in [Users -> [Pages -> Pin \cup {NoPin}]]
      <3>1. minted + 1 \in PinIds
        BY <1>2, SchedulePinsAssumption DEF CommitPin, TypeOK, PinIds
      <3> QED BY <1>2, <3>1, TaskFields, UpsertType DEF CommitPin
    <2>2. minted' \in 0 .. MaxPins
      BY <1>2, SchedulePinsAssumption DEF CommitPin, TypeOK
    <2> QED BY <1>1, <1>2, <2>1, <2>2 DEF CommitPin, Finish, TypeOK, access
  <1>3. CASE CommitUnpin(h)
    <2>1. pin' \in [Users -> [Pages -> Pin \cup {NoPin}]]
      BY <1>3 DEF CommitUnpin, TypeOK
    <2> QED BY <1>1, <1>3, <2>1 DEF CommitUnpin, Finish, TypeOK, access
  <1>4. CASE \E r \in Requests : CommitRequest(h, r)
    <2> PICK r \in Requests : CommitRequest(h, r)
      BY <1>4
    <2>1. task[h].by \in Users /\ task[h].for \in Users
          /\ task[h].page \in Pages /\ task[h].column \in Columns
      BY TaskFields DEF CommitRequest
    <2> DEFINE t == task[h]
               row == [status |-> "pending", by |-> t.by, for |-> t.for,
                       page |-> t.page, column |-> t.column]
               told == [status |-> "pending", read |-> FALSE]
    <2>2. row \in Request /\ told \in Notice
      BY <2>1 DEF Request, Notice
    <2>3. \/ /\ request' = [request EXCEPT ![r] = row]
             /\ notice' = [notice EXCEPT ![r] = told]
          \/ request' = request /\ notice' = notice
      BY DEF CommitRequest
    <2> HIDE DEF row, told
    <2>4. /\ request' \in [Requests -> Request \cup {NoRequest}]
          /\ notice' \in [Requests -> Notice \cup {NoNotice}]
      BY <2>2, <2>3 DEF TypeOK
    <2>5. UNCHANGED <<pin, minted>> /\ Finish(h)
      BY DEF CommitRequest
    <2> QED BY <1>1, <2>4, <2>5 DEF Finish, TypeOK, access
  <1>5. CASE CommitDecision(h)
    <2> DEFINE r == task[h].request
               d == task[h].decision
    <2>1. r \in Requests /\ d \in {"accepted", "declined"}
      BY <1>5, TaskFields DEF CommitDecision
    <2>2. CASE ~Decidable(r, d)
      <3>1. UNCHANGED <<request, notice, pin, minted>> /\ Finish(h)
        BY <1>5, <2>2 DEF CommitDecision
      <3> QED BY <1>1, <3>1 DEF Finish, TypeOK, access
    <2>3. CASE Decidable(r, d)
      <3>1. request[r] \in Request
        BY <2>1, <2>3, RequestFields DEF Decidable
      <3>2. request' \in [Requests -> Request \cup {NoRequest}]
        <4>1. [request[r] EXCEPT !.status = d] \in Request
          BY <2>1, <3>1 DEF Request
        <4>2. request' = [request EXCEPT ![r] = [request[r] EXCEPT !.status = d]]
          BY <1>5, <2>3 DEF CommitDecision
        <4> QED BY <2>1, <4>1, <4>2 DEF TypeOK
      <3>3. notice' \in [Requests -> Notice \cup {NoNotice}]
        <4>1. [status |-> d, read |-> TRUE] \in Notice
          BY <2>1 DEF Notice
        <4>2. notice' = [notice EXCEPT ![r] = [status |-> d, read |-> TRUE]]
          BY <1>5, <2>3 DEF CommitDecision, MarkDecided
        <4> QED BY <2>1, <4>1, <4>2 DEF TypeOK
      <3>4. pin' \in [Users -> [Pages -> Pin \cup {NoPin}]]
        <4>1. CASE d = "accepted"
          <5>1. Upsert(request[r].for, request[r].page, request[r].column, r)
            BY <1>5, <2>3, <4>1 DEF CommitDecision
          <5> QED BY <2>1, <3>1, <5>1, UpsertType DEF Request, PinIds
        <4>2. CASE d # "accepted"
          BY <1>5, <2>3, <4>2 DEF CommitDecision, TypeOK
        <4> QED BY <4>1, <4>2
      <3>5. minted' = minted /\ Finish(h)
        BY <1>5 DEF CommitDecision
      <3> QED BY <1>1, <3>2, <3>3, <3>4, <3>5 DEF Finish, TypeOK, access
    <2> QED BY <2>2, <2>3
  <1> QED BY <1>2, <1>3, <1>4, <1>5 DEF Writing

\* Every step of a worker keeps the types.
LEMMA TypeWorking ==
  ASSUME TypeOK, NEW w \in Workers, Working(w)
  PROVE  TypeOK'
  <1>1. watch[w] \in Watch
    BY DEF TypeOK
  <1>2. CASE Wake(w)
    <2>1. [busy |-> TRUE, at |-> now, todo |-> Candidates, ready |-> {}] \in Watch
      BY CandidatesType DEF TypeOK, Watch
    <2>2. watch' \in [Workers -> Watch]
      BY <1>2, <2>1 DEF Wake, TypeOK
    <2> QED BY <1>2, <2>2 DEF Wake, TypeOK, access, pinning
  <1>3. CASE \E u \in Users : Look(w, u)
    <2> PICK u \in Users : Look(w, u)
      BY <1>3
    <2> DEFINE mine == {c \in watch[w].todo : c.user = u}
               due  == {c \in mine : Views(u, c.page) /\ Due(c, watch[w].at)}
    <2>1. due \subseteq Reminder /\ watch[w].todo \ mine \subseteq Read
      BY <1>1 DEF Watch, Read, Reminder, Due
    <2>2. watch' = [watch EXCEPT ![w].todo = @ \ mine, ![w].ready = due]
      BY DEF Look
    <2> HIDE DEF due, mine
    <2>3. watch' \in [Workers -> Watch]
      BY <1>1, <2>1, <2>2 DEF TypeOK, Watch
    <2> QED BY <2>3 DEF Look, TypeOK, access, pinning
  <1>4. CASE Remind(w)
    <2> PICK c \in watch[w].ready : /\ Enqueue(c)
                                    /\ watch' = [watch EXCEPT ![w].ready = @ \ {c}]
                                    /\ UNCHANGED <<now, access, pinning, task>>
      BY <1>4 DEF Remind
    <2>1. c \in Reminder
      BY <1>1 DEF Watch
    <2>2. reminders' \in Seq(Reminder)
      BY <2>1 DEF Enqueue, TypeOK
    <2>3. watch' \in [Workers -> Watch]
      BY <1>1 DEF TypeOK, Watch
    <2> QED BY <2>2, <2>3 DEF TypeOK, access, pinning
  <1>5. CASE Sleep(w)
    <2>1. Asleep \in Watch
      BY SchedulePinsAssumption DEF Asleep, Watch, Times
    <2> QED BY <1>5, <2>1 DEF Sleep, TypeOK, access, pinning
  <1> QED BY <1>2, <1>3, <1>4, <1>5 DEF Working

\* Every step keeps the types.
LEMMA TypeKept ==
  ASSUME TypeOK, [Next]_vars
  PROVE  TypeOK'
  <1>1. CASE ClockTicks
    BY <1>1, SchedulePinsAssumption DEF ClockTicks, TypeOK, Times, access, pinning
  <1>2. CASE Elsewhere
    <2>1. /\ readers' \in [Pages -> SUBSET Users]
          /\ members' \subseteq Users /\ placed' \subseteq Pages
      BY <1>2 DEF Elsewhere, TypeOK
    <2>3. date' \in [Pages -> [Columns -> Dates]]
      BY <1>2 DEF Elsewhere, TypeOK
    <2>2. UNCHANGED <<now, pinning, task, watch, reminders>>
      BY <1>2 DEF Elsewhere
    <2> QED BY <2>1, <2>2, <2>3 DEF TypeOK, pinning
  <1>3. CASE \E h \in Handlers : Reading(h) \/ Writing(h) \/ Drop(h)
    BY <1>3, TypeReading, TypeWriting
  <1>4. CASE \E r \in Requests : MarkRead(r)
    <2> PICK r \in Requests : MarkRead(r)
      BY <1>4
    <2>1. notice' \in [Requests -> Notice \cup {NoNotice}]
      <3>1. [notice[r] EXCEPT !.read = TRUE] \in Notice
        BY DEF MarkRead, TypeOK, Notice
      <3> QED BY <3>1 DEF MarkRead, TypeOK
    <2> QED BY <2>1 DEF MarkRead, TypeOK, access
  <1>5. CASE \E w \in Workers : Working(w)
    BY <1>5, TypeWorking
  <1>6. CASE UNCHANGED vars
    BY <1>6 DEF vars, TypeOK, access, pinning
  <1> QED BY <1>1, <1>2, <1>3, <1>4, <1>5, <1>6 DEF Next

-----------------------------------------------------------------------------
(* Pins and the readings of them.                                           *)

\* How a step may change the pins: it removes some, changes columns, and may
\* insert one, on page p of u, under an id nobody has had.
PinsMove(u, p) ==
    \A v \in Users, q \in Pages : Pinned(v, q)' =>
        \/ /\ Pinned(v, q)
           /\ pin'[v][q].id = pin[v][q].id /\ pin'[v][q].since = pin[v][q].since
        \/ /\ v = u /\ q = p
           /\ ~Taken(pin'[v][q].id) /\ Taken(pin[v][q].id)'
           /\ pin'[v][q].since = now

\* No step takes an id back.
TakenStays == \A id \in PinIds : Taken(id) => Taken(id)'

\* A reading stays behind the pins when they move.
LEMMA BehindStays ==
  ASSUME TypeOK, TypeOK', NEW u, NEW p, PinsMove(u, p), TakenStays,
         NEW c \in Read, NEW s \in Nat, s <= now, Behind(c, s)
  PROVE  Behind(c, s)'
  <1>1. Taken(c.pin)'
    BY DEF Behind, TakenStays, Read
  <1>2. ASSUME NEW v \in Users, NEW q \in Pages, Pinned(v, q)'
        PROVE  /\ c.pin = pin'[v][q].id =>
                    c.user = v /\ c.page = q /\ c.since = pin'[v][q].since
               /\ c.pin # pin'[v][q].id /\ c.user = v /\ c.page = q =>
                    s <= pin'[v][q].since
    <2>1. CASE /\ Pinned(v, q)
               /\ pin'[v][q].id = pin[v][q].id /\ pin'[v][q].since = pin[v][q].since
      BY <2>1 DEF Behind
    <2>2. CASE ~Taken(pin'[v][q].id) /\ pin'[v][q].since = now
      BY <2>2 DEF Behind
    <2> QED BY <1>2, <2>1, <2>2 DEF PinsMove
  <1> QED BY <1>1, <1>2 DEF Behind

\* A step that moves pins and leaves the workers alone keeps the order of
\* pins, ticks and reminders.
LEMMA MoveKeeps ==
  ASSUME SchedulePinsInv, TypeOK', NEW u, NEW p, PinsMove(u, p), TakenStays,
         now <= now', UNCHANGED <<watch, reminders>>
  PROVE  PinsInOrder' /\ TicksInOrder' /\ RemindersInOrder'
  <1> USE DEF SchedulePinsInv
  <1>1. PinsInOrder'
    <2> SUFFICES ASSUME NEW v \in Users, NEW q \in Pages, Pinned(v, q)'
                 PROVE  /\ Taken(pin[v][q].id)' /\ pin'[v][q].since <= now'
                        /\ \A x \in Users, y \in Pages :
                              Pinned(x, y)' /\ pin'[x][y].id = pin'[v][q].id => v = x /\ q = y
      BY DEF PinsInOrder
    <2>1. /\ Taken(pin[v][q].id)' /\ pin'[v][q].since <= now'
      <3>1. CASE /\ Pinned(v, q)
                 /\ pin'[v][q].id = pin[v][q].id /\ pin'[v][q].since = pin[v][q].since
        <4>1. pin[v][q] \in Pin
          BY <3>1, PinFields
        <4>2. Taken(pin[v][q].id) /\ pin[v][q].since <= now
          BY <3>1 DEF PinsInOrder
        <4> QED BY <3>1, <4>1, <4>2 DEF TakenStays, Pin, TypeOK, Times
      <3>2. CASE Taken(pin[v][q].id)' /\ pin'[v][q].since = now
        BY <3>2
      <3> QED BY <3>1, <3>2 DEF PinsMove
    <2>2. ASSUME NEW x \in Users, NEW y \in Pages, Pinned(x, y)', pin'[x][y].id = pin'[v][q].id
          PROVE  v = x /\ q = y
      <3>1. \A a \in Users, b \in Pages : Pinned(a, b) => Taken(pin[a][b].id)
        BY DEF PinsInOrder
      <3>2. \A a, x1 \in Users, b, y1 \in Pages :
               Pinned(a, b) /\ Pinned(x1, y1) /\ pin[a][b].id = pin[x1][y1].id
                 => a = x1 /\ b = y1
        BY DEF PinsInOrder
      <3> QED BY <2>2, <3>1, <3>2 DEF PinsMove
    <2> QED BY <2>1, <2>2
  <1>2. TicksInOrder'
    <2> SUFFICES ASSUME NEW w \in Workers
                 PROVE  /\ watch[w].at <= now'
                        /\ \A c \in watch[w].ready : Due(c, watch[w].at)
                        /\ \A c \in Held(w) :
                              /\ Behind(c, watch[w].at)'
                              /\ \A x \in Workers : \A d \in Held(x) :
                                    Apart(c, watch[w].at, d, watch[x].at)
      BY DEF TicksInOrder, Held, Due, Apart, Behind
    <2>1. watch[w] \in Watch /\ watch[w].at <= now
      BY DEF TypeOK, TicksInOrder
    <2>2. watch[w].at <= now'
      BY <2>1 DEF TypeOK, Watch, Times
    <2>3. ASSUME NEW c \in Held(w) PROVE Behind(c, watch[w].at)'
      <3>1. c \in Read /\ watch[w].at \in Nat
        BY <2>1 DEF Held, Watch, Read, Reminder, Times, Dates
      <3>2. Behind(c, watch[w].at)
        BY DEF TicksInOrder
      <3> QED BY <2>1, <3>1, <3>2, BehindStays
    <2> QED BY <2>2, <2>3 DEF TicksInOrder
  <1>3. RemindersInOrder'
    <2>1. ASSUME NEW i \in DOMAIN reminders
          PROVE  /\ reminders[i].start <= now'
                 /\ Behind(reminders[i], reminders[i].start)'
      <3>1. reminders[i] \in Reminder
        BY DEF TypeOK
      <3>2. reminders[i].start <= now /\ Behind(reminders[i], reminders[i].start)
        BY DEF RemindersInOrder
      <3>3. reminders[i] \in Read /\ reminders[i].start \in Nat
        BY <3>1 DEF Reminder, Read, Dates, Times
      <3>4. Behind(reminders[i], reminders[i].start)'
        BY <3>2, <3>3, BehindStays
      <3> QED BY <3>2, <3>3, <3>4 DEF TypeOK, Times
    <2>2. /\ \A w \in Workers : Held(w)' = Held(w) /\ watch'[w].at = watch[w].at
      BY DEF Held
    <2> QED BY <2>1, <2>2 DEF RemindersInOrder, Apart
  <1> QED BY <1>1, <1>2, <1>3

-----------------------------------------------------------------------------
(* Workers.                                                                 *)

\* A reading of the pins there are, beside any earlier reading.
LEMMA CandidateApart ==
  ASSUME SchedulePinsInv, NEW c \in Candidates, NEW s, NEW d, NEW t, Behind(d, t)
  PROVE  Apart(c, s, d, t) /\ Apart(d, t, c, s)
  <1>1. PICK k \in Users \X Pages : Pinned(k[1], k[2]) /\ c = Candidate(k[1], k[2])
    BY DEF Candidates
  <1> QED BY <1>1 DEF Behind, Apart, Candidate

\* A reading of the pins there are is behind none of them.
LEMMA CandidateBehind ==
  ASSUME SchedulePinsInv, NEW c \in Candidates, NEW s
  PROVE  Behind(c, s)
  <1>1. PICK k \in Users \X Pages : Pinned(k[1], k[2]) /\ c = Candidate(k[1], k[2])
    BY DEF Candidates
  <1> QED BY <1>1 DEF Behind, Candidate, SchedulePinsInv, PinsInOrder

\* What is known of a reading made at s is known of one made earlier.
LEMMA Earlier ==
  ASSUME TypeOK, NEW c \in Read, NEW s \in Nat, NEW r \in Nat, r <= s
  PROVE  /\ Behind(c, s) => Behind(c, r)
         /\ \A d \in Read, t \in Nat :
               /\ Apart(c, s, d, t) => Apart(c, r, d, t)
               /\ Apart(d, t, c, s) => Apart(d, t, c, r)
  <1>1. Behind(c, s) => Behind(c, r)
    <2> SUFFICES ASSUME Behind(c, s), NEW u \in Users, NEW p \in Pages, Pinned(u, p),
                        c.pin # pin[u][p].id, c.user = u, c.page = p
                 PROVE  r <= pin[u][p].since
      BY DEF Behind
    <2>1. pin[u][p].since \in Nat
      BY PinFields DEF Pin, Times
    <2> QED BY <2>1 DEF Behind
  <1>2. ASSUME NEW d \in Read, NEW t \in Nat
        PROVE  /\ Apart(c, s, d, t) => Apart(c, r, d, t)
               /\ Apart(d, t, c, s) => Apart(d, t, c, r)
    BY DEF Apart, Read, Times
  <1> QED BY <1>1, <1>2

\* What the step of a worker leaves alone.
LEMMA WorkingLeaves ==
  ASSUME TypeOK, NEW w \in Workers, Working(w)
  PROVE  /\ UNCHANGED <<now, pin, minted, request, notice>>
         /\ \A x \in Workers \ {w} : watch'[x] = watch[x]
         /\ \A c, s : Behind(c, s)' <=> Behind(c, s)
         /\ PinsInOrder' <=> PinsInOrder
  <1>1. UNCHANGED <<now, pin, minted, request, notice>>
    BY DEF Working, Wake, Look, Remind, Sleep, pinning
  <1>2. \A x \in Workers \ {w} : watch'[x] = watch[x]
    BY DEF Working, Wake, Look, Remind, Sleep, TypeOK
  <1> QED BY <1>1, <1>2 DEF Behind, PinsInOrder, Taken, Pinned

\* Readings of a worker whose tick forgets some and keeps its time.
LEMMA ForgetKeeps ==
  ASSUME SchedulePinsInv, NEW w \in Workers, Working(w), watch'[w].at = watch[w].at,
         Held(w)' \subseteq Held(w),
         \A c \in watch'[w].ready : Due(c, watch'[w].at)
  PROVE  TicksInOrder'
  <1>1. \A x \in Workers : watch'[x].at = watch[x].at /\ Held(x)' \subseteq Held(x)
    BY WorkingLeaves DEF Held, SchedulePinsInv
  <1>2. \A x \in Workers : \A c \in watch'[x].ready : Due(c, watch'[x].at)
    BY WorkingLeaves DEF SchedulePinsInv, TicksInOrder
  <1>3. \A x \in Workers : watch'[x].at <= now'
    BY <1>1, WorkingLeaves DEF SchedulePinsInv, TicksInOrder
  <1>4. \A x \in Workers : \A c \in Held(x)' : Behind(c, watch'[x].at)
    BY <1>1, WorkingLeaves DEF SchedulePinsInv, TicksInOrder
  <1>5. \A x, y \in Workers : \A c \in Held(x)', d \in Held(y)' :
           Apart(c, watch'[x].at, d, watch'[y].at)
    BY <1>1 DEF SchedulePinsInv, TicksInOrder
  <1>6. \A c, s : Behind(c, s)' <=> Behind(c, s)
    BY WorkingLeaves DEF SchedulePinsInv
  <1> QED BY <1>2, <1>3, <1>4, <1>5, <1>6 DEF TicksInOrder, Apart, Due

\* Reminders that are there, while ticks forget some of what they hold.
LEMMA RemindersStay ==
  ASSUME SchedulePinsInv, NEW w \in Workers, Working(w), watch'[w].at = watch[w].at,
         Held(w)' \subseteq Held(w), reminders' = reminders
  PROVE  RemindersInOrder'
  <1>1. \A x \in Workers : watch'[x].at = watch[x].at /\ Held(x)' \subseteq Held(x)
    BY WorkingLeaves DEF Held, SchedulePinsInv
  <1>2. now' = now /\ \A c, s : Behind(c, s)' <=> Behind(c, s)
    BY WorkingLeaves DEF SchedulePinsInv
  <1> SUFFICES ASSUME NEW i \in DOMAIN reminders
               PROVE  LET a == reminders[i] IN
                      /\ a.since <= a.start /\ a.start <= now
                      /\ Behind(a, a.start)
                      /\ \A x \in Workers : \A c \in Held(x)' :
                            Apart(a, a.start, c, watch[x].at)
                      /\ \A j \in DOMAIN reminders :
                            /\ Apart(a, a.start, reminders[j], reminders[j].start)
                            /\ i # j => a.pin # reminders[j].pin \/ a.start # reminders[j].start
    BY <1>1, <1>2 DEF RemindersInOrder, Apart
  <1> QED BY <1>1 DEF SchedulePinsInv, RemindersInOrder

\* A tick that begins reads the pins as they are.
LEMMA WakeKeeps ==
  ASSUME SchedulePinsInv, NEW w \in Workers, Working(w), Wake(w)
  PROVE  TicksInOrder' /\ RemindersInOrder'
  <1>1. /\ watch'[w] = [busy |-> TRUE, at |-> now, todo |-> Candidates, ready |-> {}]
        /\ Held(w)' = Candidates /\ reminders' = reminders
    BY DEF Wake, Held, SchedulePinsInv, TypeOK
  <1>2. /\ \A x \in Workers \ {w} : Held(x)' = Held(x) /\ watch'[x] = watch[x]
        /\ now' = now /\ \A c, s : Behind(c, s)' <=> Behind(c, s)
    BY WorkingLeaves DEF Held, SchedulePinsInv
  <1>3. now \in Nat
    BY DEF SchedulePinsInv, TypeOK, Times
  <1>4. \A x \in Workers : \A c \in Held(x)' : Behind(c, watch'[x].at)
    BY <1>1, <1>2, CandidateBehind DEF SchedulePinsInv, TicksInOrder
  <1>5. \A x, y \in Workers : \A c \in Held(x)', d \in Held(y)' :
           Apart(c, watch'[x].at, d, watch'[y].at)
    <2> SUFFICES ASSUME NEW x \in Workers, NEW y \in Workers,
                        NEW c \in Held(x)', NEW d \in Held(y)'
                 PROVE  Apart(c, watch'[x].at, d, watch'[y].at)
      OBVIOUS
    <2>1. CASE x = w
      BY <1>1, <1>4, <2>1, CandidateApart
    <2>2. CASE y = w
      BY <1>1, <1>4, <2>2, CandidateApart
    <2>3. CASE x # w /\ y # w
      BY <1>2, <2>3 DEF SchedulePinsInv, TicksInOrder
    <2> QED BY <2>1, <2>2, <2>3
  <1>6. \A x \in Workers : /\ watch'[x].at <= now'
                           /\ \A c \in watch'[x].ready : Due(c, watch'[x].at)
    BY <1>1, <1>2, <1>3 DEF SchedulePinsInv, TicksInOrder
  <1>7. TicksInOrder'
    BY <1>2, <1>4, <1>5, <1>6 DEF TicksInOrder, Apart, Due
  <1>8. RemindersInOrder'
    <2>1. ASSUME NEW i \in DOMAIN reminders, NEW x \in Workers, NEW c \in Held(x)'
          PROVE  Apart(reminders[i], reminders[i].start, c, watch'[x].at)
      <3>1. Behind(reminders[i], reminders[i].start)
        BY DEF SchedulePinsInv, RemindersInOrder
      <3>2. CASE x = w
        BY <1>1, <3>1, <3>2, CandidateApart
      <3>3. CASE x # w
        BY <1>2, <3>3 DEF SchedulePinsInv, RemindersInOrder
      <3> QED BY <3>2, <3>3
    <2> QED BY <1>1, <1>2, <2>1 DEF SchedulePinsInv, RemindersInOrder, Apart
  <1> QED BY <1>7, <1>8

\* A tick that asks what somebody may see only forgets.
LEMMA LookKeeps ==
  ASSUME SchedulePinsInv, NEW w \in Workers, Working(w), NEW u \in Users, Look(w, u)
  PROVE  TicksInOrder' /\ RemindersInOrder'
  <1> DEFINE mine == {c \in watch[w].todo : c.user = u}
             due  == {c \in mine : Views(u, c.page) /\ Due(c, watch[w].at)}
  <1>1. watch' = [watch EXCEPT ![w].todo = @ \ mine, ![w].ready = due]
    BY DEF Look
  <1>2. due \subseteq watch[w].todo /\ \A c \in due : Due(c, watch[w].at)
    OBVIOUS
  <1> HIDE DEF due, mine
  <1>3. /\ watch'[w].at = watch[w].at /\ Held(w)' \subseteq Held(w)
        /\ watch'[w].ready = due
    BY <1>1, <1>2 DEF Held, SchedulePinsInv, TypeOK, Watch
  <1> QED BY <1>2, <1>3, ForgetKeeps, RemindersStay DEF Look

\* A reminder enqueued is a reading of its tick, unless it was there.
LEMMA RemindKeeps ==
  ASSUME SchedulePinsInv, NEW w \in Workers, Working(w), Remind(w)
  PROVE  TicksInOrder' /\ RemindersInOrder'
  <1> PICK c \in watch[w].ready : /\ Enqueue(c)
                                  /\ watch' = [watch EXCEPT ![w].ready = @ \ {c}]
    BY DEF Remind
  <1>1. watch[w] \in Watch
    BY DEF SchedulePinsInv, TypeOK
  <1>2. /\ watch'[w].at = watch[w].at /\ watch'[w].ready \subseteq watch[w].ready
        /\ Held(w)' \subseteq Held(w)
    BY <1>1 DEF Held, SchedulePinsInv, TypeOK, Watch
  <1>3. TicksInOrder'
    BY <1>2, ForgetKeeps DEF SchedulePinsInv, TicksInOrder
  <1>4. CASE reminders' = reminders
    BY <1>2, <1>3, <1>4, RemindersStay
  <1>5. CASE /\ reminders' = Append(reminders, c)
             /\ ~ \E i \in DOMAIN reminders :
                     reminders[i].pin = c.pin /\ reminders[i].start = c.start
    <2>1. /\ c \in Reminder /\ c \in Read /\ c \in Held(w)
          /\ watch[w].at \in Nat /\ c.start \in Nat /\ c.since \in Nat
      BY <1>1 DEF Watch, Reminder, Read, Times, Dates, Held
    <2>2. c.since <= c.start /\ c.start <= watch[w].at
      BY <2>1 DEF SchedulePinsInv, TicksInOrder, Due
    <2>3. watch[w].at <= now /\ now \in Nat
      BY DEF SchedulePinsInv, TicksInOrder, TypeOK, Times
    <2>4. /\ \A x \in Workers : watch'[x].at = watch[x].at /\ Held(x)' \subseteq Held(x)
          /\ now' = now /\ \A d, s : Behind(d, s)' <=> Behind(d, s)
      BY <1>2, WorkingLeaves DEF Held, SchedulePinsInv
    <2>5. Behind(c, c.start)
      BY <2>1, <2>2, Earlier DEF SchedulePinsInv, TicksInOrder
    <2>6. ASSUME NEW x \in Workers, NEW d \in Held(x)
          PROVE  Apart(c, c.start, d, watch[x].at)
      <3>1. d \in Read /\ watch[x].at \in Nat
        BY DEF SchedulePinsInv, TypeOK, Watch, Held, Read, Reminder, Times, Dates
      <3>2. Apart(c, watch[w].at, d, watch[x].at)
        BY <2>1 DEF SchedulePinsInv, TicksInOrder
      <3> QED BY <2>1, <2>2, <3>1, <3>2, Earlier DEF SchedulePinsInv
    <2>7. ASSUME NEW i \in DOMAIN reminders
          PROVE  /\ Apart(reminders[i], reminders[i].start, c, c.start)
                 /\ Apart(c, c.start, reminders[i], reminders[i].start)
      <3>0. reminders[i] \in Reminder
        BY DEF SchedulePinsInv, TypeOK
      <3>1. reminders[i] \in Read /\ reminders[i].start \in Nat
        BY <3>0 DEF Read, Reminder, Times, Dates
      <3>2. Apart(reminders[i], reminders[i].start, c, watch[w].at)
        BY <2>1 DEF SchedulePinsInv, RemindersInOrder
      <3>3. Apart(reminders[i], reminders[i].start, c, c.start)
        BY <2>1, <2>2, <3>1, <3>2, Earlier DEF SchedulePinsInv
      <3> QED BY <3>3 DEF Apart
    <2>8. Apart(c, c.start, c, c.start)
      BY DEF Apart
    <2>9. /\ DOMAIN reminders' = DOMAIN reminders \cup {Len(reminders) + 1}
          /\ reminders'[Len(reminders) + 1] = c
          /\ \A i \in DOMAIN reminders : reminders'[i] = reminders[i]
      BY <1>5, <2>1 DEF SchedulePinsInv, TypeOK
    <2>10. \A i \in DOMAIN reminders' :
              /\ reminders'[i].since <= reminders'[i].start /\ reminders'[i].start <= now
              /\ Behind(reminders'[i], reminders'[i].start)
              /\ \A x \in Workers : \A d \in Held(x) :
                    Apart(reminders'[i], reminders'[i].start, d, watch[x].at)
      BY <2>2, <2>3, <2>1, <2>5, <2>6, <2>9 DEF SchedulePinsInv, RemindersInOrder
    <2>11. \A i, j \in DOMAIN reminders' :
              /\ Apart(reminders'[i], reminders'[i].start, reminders'[j], reminders'[j].start)
              /\ i # j => \/ reminders'[i].pin # reminders'[j].pin
                          \/ reminders'[i].start # reminders'[j].start
      BY <1>5, <2>7, <2>8, <2>9 DEF SchedulePinsInv, RemindersInOrder
    <2>12. RemindersInOrder'
      BY <2>4, <2>10, <2>11 DEF RemindersInOrder, Apart
    <2> QED BY <1>3, <2>12
  <1> QED BY <1>4, <1>5 DEF Enqueue

\* A tick that ends forgets everything.
LEMMA SleepKeeps ==
  ASSUME SchedulePinsInv, NEW w \in Workers, Working(w), Sleep(w)
  PROVE  TicksInOrder' /\ RemindersInOrder'
  <1>1. /\ watch'[w] = Asleep /\ Held(w)' = {} /\ reminders' = reminders
    BY DEF Sleep, Held, Asleep, SchedulePinsInv, TypeOK
  <1>2. /\ \A x \in Workers \ {w} : Held(x)' = Held(x) /\ watch'[x] = watch[x]
        /\ now' = now /\ \A c, s : Behind(c, s)' <=> Behind(c, s)
    BY WorkingLeaves DEF Held, SchedulePinsInv
  <1>3. now \in Nat
    BY DEF SchedulePinsInv, TypeOK, Times
  <1>4. TicksInOrder'
    <2>1. \A x \in Workers : /\ watch'[x].at <= now'
                             /\ \A c \in watch'[x].ready : Due(c, watch'[x].at)
      BY <1>1, <1>2, <1>3 DEF SchedulePinsInv, TicksInOrder, Asleep
    <2>2. \A x \in Workers : \A c \in Held(x)' :
             /\ Behind(c, watch'[x].at)
             /\ \A y \in Workers : \A d \in Held(y)' :
                   Apart(c, watch'[x].at, d, watch'[y].at)
      BY <1>1, <1>2 DEF SchedulePinsInv, TicksInOrder
    <2> QED BY <1>2, <2>1, <2>2 DEF TicksInOrder, Apart, Due
  <1>5. RemindersInOrder'
    <2>1. \A i \in DOMAIN reminders, x \in Workers : \A c \in Held(x)' :
             Apart(reminders[i], reminders[i].start, c, watch'[x].at)
      BY <1>1, <1>2 DEF SchedulePinsInv, RemindersInOrder
    <2> QED BY <1>1, <1>2, <2>1 DEF SchedulePinsInv, RemindersInOrder, Apart
  <1> QED BY <1>4, <1>5

-----------------------------------------------------------------------------
(* Handlers.                                                                *)

\* An upsert under an id nobody has had moves the pins.
LEMMA UpsertMoves ==
  ASSUME TypeOK, NEW u \in Users, NEW p \in Pages, NEW c \in Columns, NEW id \in PinIds,
         Upsert(u, p, c, id), ~Pinned(u, p) => ~Taken(id) /\ Taken(id)'
  PROVE  PinsMove(u, p)
  <1> SUFFICES ASSUME NEW v \in Users, NEW q \in Pages, Pinned(v, q)'
               PROVE  \/ /\ Pinned(v, q)
                         /\ pin'[v][q].id = pin[v][q].id /\ pin'[v][q].since = pin[v][q].since
                      \/ /\ v = u /\ q = p
                         /\ ~Taken(pin'[v][q].id) /\ Taken(pin[v][q].id)'
                         /\ pin'[v][q].since = now
    BY DEF PinsMove
  <1>1. CASE v = u /\ q = p /\ Pinned(u, p)
    <2>1. pin[u][p] \in Pin /\ pin'[u][p] = [pin[u][p] EXCEPT !.column = c]
      BY <1>1, PinFields DEF Upsert, TypeOK
    <2> QED BY <1>1, <2>1 DEF Pin
  <1>2. CASE v = u /\ q = p /\ ~Pinned(u, p)
    <2>1. pin'[u][p] = [id |-> id, column |-> c, since |-> now]
      BY <1>2 DEF Upsert, TypeOK
    <2>2. pin'[u][p].id = id /\ pin'[u][p].since = now
      BY <2>1
    <2>3. ~Taken(id) /\ Taken(id)'
      BY <1>2
    <2>4. Taken(pin[u][p].id)'
      BY <2>2, <2>3 DEF Taken
    <2> QED BY <1>2, <2>2, <2>3, <2>4
  <1>3. CASE ~(v = u /\ q = p)
    <2>1. pin'[v][q] = pin[v][q]
      BY <1>3 DEF Upsert, TypeOK
    <2> QED BY <2>1 DEF Pinned
  <1> QED BY <1>1, <1>2, <1>3

\* Pins that stay as they are, or go, have moved.
LEMMA PinsStay ==
  ASSUME NEW u, NEW p,
         \A v \in Users, q \in Pages : pin'[v][q] \in {pin[v][q], NoPin}
  PROVE  PinsMove(u, p)
  BY DEF PinsMove, Pinned

\* What a writing handler leaves alone, and how it moves pins and ids.
LEMMA WritingMoves ==
  ASSUME SchedulePinsInv, NEW h \in Handlers, Writing(h)
  PROVE  /\ UNCHANGED <<now, watch, reminders>>
         /\ TakenStays
         /\ \E u, p : PinsMove(u, p)
  <1> USE DEF SchedulePinsInv
  <1>1. UNCHANGED <<now, watch, reminders>>
    BY DEF Writing, CommitPin, CommitUnpin, CommitRequest, CommitDecision, Finish
  <1>2. CASE CommitPin(h)
    <2> PICK u, p, c, id : /\ u = task[h].user /\ p = task[h].page
                           /\ c = task[h].column /\ id = minted + 1
      OBVIOUS
    <2>1. u \in Users /\ p \in Pages /\ c \in Columns
      BY <1>2, TaskFields DEF CommitPin
    <2>2. /\ minted \in Nat /\ minted < MaxPins /\ request' = request
          /\ Upsert(u, p, c, id)
          /\ minted' = IF Pinned(u, p) THEN minted ELSE minted + 1
      BY <1>2, SchedulePinsAssumption DEF CommitPin, TypeOK
    <2>3. id \in PinIds /\ id \notin Requests /\ id \in Nat
      BY <2>2, SchedulePinsAssumption DEF PinIds
    <2>4. ~Taken(id)
      BY <2>2, <2>3 DEF Taken
    <2>5. ~Pinned(u, p) => Taken(id)'
      <3>1. ASSUME ~Pinned(u, p) PROVE id \in 1 .. minted'
        BY <2>2, <2>3, <3>1
      <3> QED BY <3>1 DEF Taken
    <2>6. TakenStays
      <3>1. ASSUME NEW x \in 1 .. minted PROVE x \in 1 .. minted'
        BY <2>2, <3>1
      <3>2. \A x : Taken(x) => Taken(x)'
        BY <2>2, <3>1 DEF Taken
      <3> QED BY <3>2 DEF TakenStays
    <2>7. PinsMove(u, p)
      BY <2>1, <2>2, <2>3, <2>4, <2>5, UpsertMoves
    <2> QED BY <1>1, <2>6, <2>7
  <1>3. CASE CommitUnpin(h)
    <2>1. \A v \in Users, q \in Pages : pin'[v][q] \in {pin[v][q], NoPin}
      BY <1>3 DEF CommitUnpin, TypeOK
    <2>2. TakenStays
      BY <1>3 DEF CommitUnpin, TakenStays, Taken
    <2> QED BY <1>1, <2>1, <2>2, PinsStay
  <1>4. CASE \E r \in Requests : CommitRequest(h, r)
    <2> PICK r \in Requests : CommitRequest(h, r)
      BY <1>4
    <2>1. pin' = pin /\ minted' = minted
      BY DEF CommitRequest
    <2>2. \A q \in Requests : request[q].status = "accepted" => request'[q] = request[q]
      BY DEF CommitRequest, TypeOK
    <2>3. TakenStays
      BY <2>1, <2>2 DEF TakenStays, Taken
    <2> QED BY <1>1, <2>1, <2>3, PinsStay
  <1>5. CASE CommitDecision(h)
    <2> PICK r, d : r = task[h].request /\ d = task[h].decision
      OBVIOUS
    <2>1. r \in Requests /\ d \in {"accepted", "declined"} /\ minted' = minted
      BY <1>5, TaskFields DEF CommitDecision
    <2>2. CASE ~Decidable(r, d)
      <3>1. request' = request /\ pin' = pin
        BY <1>5, <2>2 DEF CommitDecision
      <3> QED BY <1>1, <2>1, <3>1, PinsStay DEF TakenStays, Taken
    <2>3. CASE Decidable(r, d)
      <3>1. request[r] \in Request /\ request[r].status = "pending"
        BY <2>1, <2>3, RequestFields DEF Decidable
      <3>2. request' = [request EXCEPT ![r].status = d]
        BY <1>5, <2>3 DEF CommitDecision
      <3>3. /\ request'[r].status = d
            /\ \A q \in Requests \ {r} : request'[q] = request[q]
        BY <2>1, <3>1, <3>2 DEF TypeOK, Request
      <3>4. TakenStays
        BY <2>1, <3>1, <3>3 DEF TakenStays, Taken
      <3>5. CASE d = "accepted"
        <4>1. Upsert(request[r].for, request[r].page, request[r].column, r)
          BY <1>5, <2>3, <3>5 DEF CommitDecision
        <4>2. r \in PinIds /\ r \notin 1 .. minted
          BY <2>1, SchedulePinsAssumption DEF PinIds
        <4>3. ~Taken(r)
          BY <3>1, <4>2 DEF Taken
        <4>4. Taken(r)'
          BY <2>1, <3>3, <3>5 DEF Taken
        <4>5. /\ request[r].for \in Users /\ request[r].page \in Pages
              /\ request[r].column \in Columns
          BY <3>1 DEF Request
        <4> PICK u, p, c : /\ u = request[r].for /\ p = request[r].page
                           /\ c = request[r].column
          OBVIOUS
        <4>6. PinsMove(u, p)
          BY <4>1, <4>2, <4>3, <4>4, <4>5, UpsertMoves
        <4> QED BY <1>1, <3>4, <4>6
      <3>6. CASE d # "accepted"
        <4>1. pin' = pin
          BY <1>5, <2>3, <3>6 DEF CommitDecision
        <4> QED BY <1>1, <3>4, <4>1, PinsStay
      <3> QED BY <3>5, <3>6
    <2> QED BY <2>2, <2>3
  <1> QED BY <1>2, <1>3, <1>4, <1>5 DEF Writing

\* Requests and their notifications, step by step of the handlers.
LEMMA RequestsKept ==
  ASSUME SchedulePinsInv, NEW h \in Handlers, Writing(h)
  PROVE  OnePending' /\ NoticesMirror'
  <1> USE DEF SchedulePinsInv
  <1>1. CASE CommitPin(h) \/ CommitUnpin(h)
    <2>1. UNCHANGED <<request, notice>>
      BY <1>1 DEF CommitPin, CommitUnpin
    <2> QED BY <2>1 DEF OnePending, NoticesMirror
  <1>2. CASE \E r \in Requests : CommitRequest(h, r)
    <2> PICK r \in Requests : CommitRequest(h, r)
      BY <1>2
    <2>1. CASE UNCHANGED <<request, notice>>
      BY <2>1 DEF OnePending, NoticesMirror
    <2>2. CASE Allowed(task[h]) /\ ~Pending(task[h])
      <3>1. /\ \A q \in Requests \ {r} : request'[q] = request[q] /\ notice'[q] = notice[q]
            /\ request'[r].status = "pending"
            /\ request'[r].for = task[h].for /\ request'[r].page = task[h].page
            /\ notice'[r].status = "pending"
        BY <2>2 DEF CommitRequest, TypeOK
      <3>2. NoticesMirror'
        BY <3>1 DEF NoticesMirror
      <3>3. OnePending'
        BY <2>2, <3>1 DEF OnePending, Pending
      <3> QED BY <3>2, <3>3
    <2> QED BY <2>1, <2>2 DEF CommitRequest
  <1>3. CASE CommitDecision(h)
    <2> DEFINE r == task[h].request
               d == task[h].decision
    <2>1. r \in Requests /\ d \in {"accepted", "declined"}
      BY <1>3, TaskFields DEF CommitDecision
    <2>2. CASE ~Decidable(r, d)
      <3>1. UNCHANGED <<request, notice>>
        BY <1>3, <2>2 DEF CommitDecision
      <3> QED BY <3>1 DEF OnePending, NoticesMirror
    <2>3. CASE Decidable(r, d)
      <3>1. request[r] \in Request
        BY <2>1, <2>3, RequestFields DEF Decidable
      <3>2. request' = [request EXCEPT ![r].status = d]
            /\ notice' = [notice EXCEPT ![r] = [status |-> d, read |-> TRUE]]
        BY <1>3, <2>3 DEF CommitDecision, MarkDecided
      <3> HIDE DEF r, d
      <3>3. /\ \A q \in Requests \ {r} : request'[q] = request[q] /\ notice'[q] = notice[q]
            /\ request'[r].status = d
            /\ notice'[r].status = d /\ notice'[r].read = TRUE
        BY <2>1, <3>1, <3>2 DEF TypeOK, Request
      <3>4. OnePending'
        BY <2>1, <3>3 DEF OnePending
      <3>5. NoticesMirror'
        BY <2>1, <3>3 DEF NoticesMirror
      <3> QED BY <3>4, <3>5
    <2> QED BY <2>2, <2>3
  <1> QED BY <1>1, <1>2, <1>3 DEF Writing

-----------------------------------------------------------------------------
(* The theorems.                                                            *)

\* The first state is in order.
LEMMA InitInv ==
  ASSUME Init
  PROVE  SchedulePinsInv
  <1>1. TypeOK
    BY SchedulePinsAssumption DEF Init, TypeOK, Times, Task, Watch, Asleep
  <1>2. OnePending /\ NoticesMirror
    BY DEF Init, OnePending, NoticesMirror, NoRequest, NoNotice
  <1>3. PinsInOrder
    BY DEF Init, PinsInOrder, Pinned
  <1>4. \A w \in Workers : Held(w) = {} /\ watch[w].ready = {} /\ watch[w].at = 0
    BY DEF Init, Held, Asleep
  <1>5. TicksInOrder
    BY <1>4 DEF TicksInOrder, Init
  <1>6. RemindersInOrder
    BY DEF Init, RemindersInOrder
  <1> QED BY <1>1, <1>2, <1>3, <1>5, <1>6 DEF SchedulePinsInv

\* A step that writes no pin, request, tick or reminder.
LEMMA QuietKeeps ==
  ASSUME SchedulePinsInv, TypeOK', now <= now',
         UNCHANGED <<pin, minted, request, watch, reminders>>, NoticesMirror'
  PROVE  SchedulePinsInv'
  <1>1. PinsMove(None, None)
    BY PinsStay
  <1>2. TakenStays /\ OnePending'
    BY DEF TakenStays, Taken, OnePending, SchedulePinsInv
  <1> QED BY <1>1, <1>2, MoveKeeps DEF SchedulePinsInv

\* Every step keeps the invariant.
LEMMA StepKeeps ==
  ASSUME SchedulePinsInv, [Next]_vars
  PROVE  SchedulePinsInv'
  <1>1. TypeOK' /\ TypeOK /\ NoticesMirror /\ now \in Nat
    BY TypeKept DEF SchedulePinsInv, TypeOK, Times
  <1>2. CASE ClockTicks
    BY <1>1, <1>2, QuietKeeps DEF ClockTicks, pinning, NoticesMirror
  <1>3. CASE Elsewhere
    BY <1>1, <1>3, QuietKeeps DEF Elsewhere, pinning, NoticesMirror
  <1>4. CASE \E h \in Handlers : Reading(h) \/ Drop(h)
    <2>1. UNCHANGED <<now, pinning, watch, reminders>>
      BY <1>4 DEF Reading, Drop, StartPin, StartUnpin, StartRequest, StartDecision, Begin
    <2> QED BY <1>1, <2>1, QuietKeeps DEF pinning, NoticesMirror
  <1>5. CASE \E h \in Handlers : Writing(h)
    <2>1. OnePending' /\ NoticesMirror'
      BY <1>5, RequestsKept
    <2>2. PICK u, p : PinsMove(u, p)
      BY <1>5, WritingMoves
    <2>3. TakenStays /\ UNCHANGED <<now, watch, reminders>>
      BY <1>5, WritingMoves
    <2>4. now <= now'
      BY <1>1, <2>3
    <2>5. PinsInOrder' /\ TicksInOrder' /\ RemindersInOrder'
      BY <1>1, <2>2, <2>3, <2>4, MoveKeeps
    <2> QED BY <1>1, <2>1, <2>5 DEF SchedulePinsInv
  <1>6. CASE \E r \in Requests : MarkRead(r)
    <2> PICK r \in Requests : MarkRead(r)
      BY <1>6
    <2>1. NoticesMirror'
      <3>1. /\ \A q \in Requests : notice'[q].status = notice[q].status
            /\ \A q \in Requests : notice[q].read => notice'[q].read
        BY <1>1 DEF MarkRead, TypeOK, Notice
      <3> QED BY <1>1, <3>1 DEF MarkRead, NoticesMirror
    <2> QED BY <1>1, <2>1, QuietKeeps DEF MarkRead
  <1>7. CASE \E w \in Workers : Working(w)
    <2> PICK w \in Workers : Working(w)
      BY <1>7
    <2>1. TicksInOrder' /\ RemindersInOrder'
      BY WakeKeeps, LookKeeps, RemindKeeps, SleepKeeps DEF Working
    <2>2. PinsInOrder' /\ UNCHANGED <<request, notice>>
      BY <1>1, WorkingLeaves DEF SchedulePinsInv
    <2> QED BY <1>1, <2>1, <2>2 DEF SchedulePinsInv, OnePending, NoticesMirror
  <1>8. CASE UNCHANGED vars
    BY <1>1, <1>8, QuietKeeps DEF vars, pinning, NoticesMirror
  <1> QED BY <1>2, <1>3, <1>4, <1>5, <1>6, <1>7, <1>8 DEF Next

\* Pins, requests, notifications, ticks and reminders are in order in every
\* reachable state: the inductive invariant (SchedulePinsInv).
THEOREM SchedulePinsSafe == Spec => []SchedulePinsInv
  <1>1. Init => SchedulePinsInv
    BY InitInv
  <1>2. SchedulePinsInv /\ [Next]_vars => SchedulePinsInv'
    BY StepKeeps
  <1> QED BY <1>1, <1>2, PTL DEF Spec

\* Nobody is reminded twice of the same start of a page, by any number of
\* workers, except by a page pinned anew in the instant it starts.
THEOREM RemindersOnce == Spec => []RemindedOnce
  <1>1. SchedulePinsInv => RemindedOnce
    <2> SUFFICES ASSUME SchedulePinsInv, NEW i \in DOMAIN reminders, NEW j \in DOMAIN reminders,
                        i # j, reminders[i].user = reminders[j].user,
                        reminders[i].page = reminders[j].page,
                        reminders[i].start = reminders[j].start
                 PROVE  /\ reminders[i].pin # reminders[j].pin
                        /\ \/ reminders[i].since = reminders[i].start
                           \/ reminders[j].since = reminders[j].start
      BY DEF RemindedOnce
    <2>1. reminders[i] \in Reminder /\ reminders[j] \in Reminder
      BY DEF SchedulePinsInv, TypeOK
    <2>2. /\ reminders[i].since <= reminders[i].start
          /\ reminders[j].since <= reminders[j].start
          /\ reminders[i].pin # reminders[j].pin
          /\ Apart(reminders[i], reminders[i].start, reminders[j], reminders[j].start)
      BY DEF SchedulePinsInv, RemindersInOrder
    <2> QED BY <2>1, <2>2 DEF Apart, Reminder, Times
  <1> QED BY <1>1, SchedulePinsSafe, PTL

\* At most one request waits for each person and page.
THEOREM RequestsWaitAlone == Spec => []OnePending
  <1>1. SchedulePinsInv => OnePending
    BY DEF SchedulePinsInv
  <1> QED BY <1>1, SchedulePinsSafe, PTL

\* A notification shows the state of its request.
THEOREM NoticesInStep == Spec => []NoticesMirror
  <1>1. SchedulePinsInv => NoticesMirror
    BY DEF SchedulePinsInv
  <1> QED BY <1>1, SchedulePinsSafe, PTL

\* How a step may change a request: it is created, or it is decided.
LEMMA RequestMoves ==
  ASSUME SchedulePinsInv, [Next]_vars, NEW r \in Requests, request'[r] # request[r]
  PROVE  \E h \in Handlers :
            \/ CommitRequest(h, r) /\ Allowed(task[h]) /\ ~Pending(task[h])
            \/ /\ CommitDecision(h) /\ task[h].request = r
               /\ Decidable(r, task[h].decision)
  <1> USE DEF SchedulePinsInv
  <1>1. CASE UNCHANGED request
    BY <1>1
  <1>2. ASSUME NEW h \in Handlers, NEW q \in Requests, CommitRequest(h, q)
        PROVE  q = r /\ Allowed(task[h]) /\ ~Pending(task[h])
    BY <1>2 DEF CommitRequest, TypeOK
  <1>3. ASSUME NEW h \in Handlers, CommitDecision(h)
        PROVE  task[h].request = r /\ Decidable(r, task[h].decision)
    <2>1. task[h].request \in Requests
      BY <1>3, TaskFields DEF CommitDecision
    <2> QED BY <1>3, <2>1 DEF CommitDecision, TypeOK
  <1>4. ASSUME NEW h \in Handlers, Writing(h)
        PROVE  \/ UNCHANGED request
               \/ \E q \in Requests : CommitRequest(h, q)
               \/ CommitDecision(h)
    BY <1>4 DEF Writing, CommitPin, CommitUnpin
  <1>5. CASE \E h \in Handlers : Writing(h)
    BY <1>1, <1>2, <1>3, <1>4, <1>5
  <1>6. CASE ~(\E h \in Handlers : Writing(h))
    <2>1. ASSUME NEW h \in Handlers, Reading(h) \/ Drop(h) PROVE UNCHANGED request
      BY <2>1 DEF Reading, Drop, StartPin, StartUnpin, StartRequest, StartDecision,
                  Begin, pinning
    <2>2. ASSUME ClockTicks \/ Elsewhere \/ UNCHANGED vars PROVE UNCHANGED request
      BY <2>2 DEF ClockTicks, Elsewhere, vars, pinning
    <2>3. ASSUME NEW q \in Requests, MarkRead(q) PROVE UNCHANGED request
      BY <2>3 DEF MarkRead
    <2>4. ASSUME NEW w \in Workers, Working(w) PROVE UNCHANGED request
      BY <2>4, WorkingLeaves
    <2> QED BY <1>1, <1>6, <2>1, <2>2, <2>3, <2>4 DEF Next
  <1> QED BY <1>5, <1>6

\* An answered request is never answered again.
THEOREM AnsweredOnce == Spec => DecidedForGood
  <1>1. SchedulePinsInv /\ [Next]_vars =>
          [\A r \in Requests : request[r].status \in {"accepted", "declined"} =>
              request'[r] = request[r]]_vars
    BY RequestMoves DEF CommitRequest, Decidable
  <1> QED BY <1>1, SchedulePinsSafe, PTL DEF Spec, DecidedForGood

\* Requests become pending, and accepted, only while the recipient may view
\* page and workspace; what was accepted is then pinned, and nothing else.
THEOREM AcceptedIsPinned == Spec => AskedAndAcceptedWithAccess
  <1> DEFINE Consented ==
        \A r \in Requests :
          LET q == request'[r] IN
          q # request[r] /\ q.status \in {"pending", "accepted"} =>
              /\ Views(q.for, q.page) /\ q.for \in members
              /\ Target(q.page, q.column)
              /\ q.status = "accepted" =>
                    /\ pin'[q.for][q.page].column = q.column
                    /\ pin' = [pin EXCEPT ![q.for][q.page] = pin'[q.for][q.page]]
  <1>1. ASSUME SchedulePinsInv, [Next]_vars PROVE Consented
    <2> SUFFICES ASSUME NEW r \in Requests, request'[r] # request[r],
                        request'[r].status \in {"pending", "accepted"}
                 PROVE  LET q == request'[r] IN
                        /\ Views(q.for, q.page) /\ q.for \in members
                        /\ Target(q.page, q.column)
                        /\ q.status = "accepted" =>
                              /\ pin'[q.for][q.page].column = q.column
                              /\ pin' = [pin EXCEPT ![q.for][q.page] = pin'[q.for][q.page]]
      OBVIOUS
    <2>1. TypeOK
      BY <1>1 DEF SchedulePinsInv
    <2> PICK h \in Handlers :
            \/ CommitRequest(h, r) /\ Allowed(task[h]) /\ ~Pending(task[h])
            \/ /\ CommitDecision(h) /\ task[h].request = r
               /\ Decidable(r, task[h].decision)
      BY <1>1, RequestMoves
    <2>2. CASE CommitRequest(h, r) /\ Allowed(task[h]) /\ ~Pending(task[h])
      <3>1. request'[r] = [status |-> "pending", by |-> task[h].by, for |-> task[h].for,
                           page |-> task[h].page, column |-> task[h].column]
        BY <2>1, <2>2 DEF CommitRequest, TypeOK
      <3> QED BY <2>2, <3>1 DEF Allowed
    <2>3. CASE CommitDecision(h) /\ task[h].request = r /\ Decidable(r, task[h].decision)
      <3> DEFINE u == request[r].for
                 p == request[r].page
                 c == request[r].column
      <3>1. request[r] \in Request
        BY <2>1, <2>3, RequestFields DEF Decidable
      <3>2. request'[r] = [request[r] EXCEPT !.status = task[h].decision]
        BY <2>1, <2>3 DEF CommitDecision, TypeOK
      <3>3. /\ request'[r].for = u /\ request'[r].page = p /\ request'[r].column = c
            /\ request'[r].status = task[h].decision
        BY <3>1, <3>2 DEF Request
      <3>4. task[h].decision = "accepted"
        BY <2>1, <2>3, <3>3, TaskFields DEF CommitDecision
      <3>5. Views(u, p) /\ u \in members /\ Target(p, c)
        BY <2>3, <3>4 DEF Decidable
      <3>6. Upsert(u, p, c, r)
        BY <2>3, <3>4 DEF CommitDecision
      <3>7. u \in Users /\ p \in Pages
        BY <3>1 DEF Request
      <3> HIDE DEF u, p, c
      <3>8. pin'[u][p].column = c
        <4>1. CASE Pinned(u, p)
          <5>1. pin[u][p] \in Pin
            BY <2>1, <3>7, <4>1, PinFields
          <5>2. pin'[u][p] = [pin[u][p] EXCEPT !.column = c]
            BY <2>1, <3>6, <3>7, <4>1 DEF Upsert, TypeOK
          <5> QED BY <5>1, <5>2 DEF Pin
        <4>2. CASE ~Pinned(u, p)
          BY <2>1, <3>6, <3>7, <4>2 DEF Upsert, TypeOK
        <4> QED BY <4>1, <4>2
      <3>9. pin' = [pin EXCEPT ![u][p] = pin'[u][p]]
        <4>1. \E row : pin' = [pin EXCEPT ![u][p] = row]
          BY <3>6 DEF Upsert
        <4> QED BY <2>1, <3>7, <4>1 DEF TypeOK
      <3> QED BY <3>3, <3>5, <3>8, <3>9
    <2> QED BY <2>2, <2>3
  <1>2. SchedulePinsInv /\ [Next]_vars => [Consented]_vars
    BY <1>1
  <1> QED BY <1>2, SchedulePinsSafe, PTL DEF Spec, AskedAndAcceptedWithAccess
==============================================================================
