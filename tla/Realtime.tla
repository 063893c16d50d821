------------------------------ MODULE Realtime ------------------------------
(***************************************************************************)
(* What the sockets in the room of one page are told of its changes: the   *)
(* queue that takes one event after the other and asks the database, for   *)
(* each socket, for the rights of its person (authorized-page-delivery.ts),*)
(* and who enters and leaves the room meanwhile (page-room-channel.ts).    *)
(* Rights are changed by others between a question, its answer and what    *)
(* follows.  One process: the Redis adapter is left out, and so are the    *)
(* presence counts, the previews of a resize and what an event carries.    *)
(***************************************************************************)
EXTENDS Integers, Sequences

LOCAL INSTANCE SequencesExt

CONSTANTS
    Sockets, PersonOf,
    Restless,       \* bound: the persons whose rights change
    MaxEvents,      \* bound: events published
    MaxJoins,       \* bound: requests to enter the room
    MaxChanges      \* bound: changes of rights

Persons == {PersonOf[s] : s \in Sockets}
Rights  == {"page", "row"}

ASSUME RealtimeAssumption == Restless \subseteq Persons /\ MaxEvents \in Nat /\ MaxJoins \in Nat /\ MaxChanges \in Nat

VARIABLES
    rights,         \* by person: read of the page, read of its row
    online, room,   \* sockets connected, and in the room
    asking,         \* sockets allowed to enter, who are about to
    events,         \* what was handed to deliver, in that order: what it needs
    task,           \* by event: its promise in the queue of the page
    received,       \* by socket: the events emitted to it, in order
    joins, changes,
    \* History:
    steady,         \* by socket: the first event since it is in the room and reads all
    without,        \* by event: rights missing ever since it was published
    failed          \* events whose delivery an error cut short

roomVars     == <<online, room, asking, joins, steady>>
queueVars    == <<events, without>>
rightsVars   == <<rights, changes>>
realtimeVars == <<roomVars, queueVars, rightsVars, task, received, failed>>

Never   == 0
NoOne   == "no socket"
Waiting == [at |-> "queued", left |-> {}, with |-> NoOne, knows |-> {}]
Done    == [Waiting EXCEPT !.at = "done"]

RealtimeInit ==
    /\ rights = [u \in Persons |-> Rights]
    /\ online = Sockets /\ room = {} /\ asking = {}
    /\ events = <<>> /\ task = <<>> /\ without = <<>>
    /\ received = [s \in Sockets |-> <<>>]
    /\ joins = 0 /\ changes = 0
    /\ steady = [s \in Sockets |-> Never]
    /\ failed = {}

\* The answer of the database to a question asked now.
Granted(s) == rights[PersonOf[s]]

-----------------------------------------------------------------------------
(* The room.                                                                *)

\* canAccessPage; a refusal or an error changes nothing.
AskToJoin(s) ==
    /\ s \in online \ asking /\ joins < MaxJoins
    /\ "page" \in Granted(s)
    /\ asking' = asking \cup {s}
    /\ joins' = joins + 1
    /\ UNCHANGED <<online, room, steady, queueVars, rightsVars, task, received, failed>>

\* A socket that disconnected meanwhile enters no room.
Join(s) ==
    /\ s \in asking
    /\ asking' = asking \ {s}
    /\ room' = room \cup ({s} \cap online)
    /\ steady' = IF s \in online /\ steady[s] = Never /\ Granted(s) = Rights
                 THEN [steady EXCEPT ![s] = Len(events) + 1] ELSE steady
    /\ UNCHANGED <<online, joins, queueVars, rightsVars, task, received, failed>>

GoOut(s) == room' = room \ {s} /\ steady' = [steady EXCEPT ![s] = Never]

Leave(s) ==
    /\ s \in room
    /\ GoOut(s)
    /\ UNCHANGED <<online, asking, joins, queueVars, rightsVars, task, received, failed>>

Disconnect(s) ==
    /\ s \in online
    /\ online' = online \ {s}
    /\ GoOut(s)
    /\ UNCHANGED <<asking, joins, queueVars, rightsVars, task, received, failed>>

\* Roles and collaborators change elsewhere.
ChangeRights(u, held) ==
    /\ changes < MaxChanges /\ held # rights[u]
    /\ rights' = [rights EXCEPT ![u] = held]
    /\ without' = [n \in DOMAIN without |-> without[n] \ ({u} \X held)]
    /\ steady' = [s \in Sockets |->
            CASE PersonOf[s] # u -> steady[s]
              [] s \in room /\ held = Rights -> Len(events) + 1
              [] OTHER -> Never]
    /\ changes' = changes + 1
    /\ UNCHANGED <<online, room, asking, joins, events, task, received, failed>>

-----------------------------------------------------------------------------
(* Delivery.                                                                *)

\* After the commit, and after whatever the publisher reads then.  An event
\* with the cells of a row needs its row, too; one that it was created or
\* deleted does not.
Deliver(needs) ==
    /\ Len(events) < MaxEvents
    /\ events' = Append(events, needs)
    /\ task' = Append(task, Waiting)
    /\ without' = Append(without, UNION {{u} \X (Rights \ rights[u]) : u \in Persons})
    /\ UNCHANGED <<roomVars, rightsVars, received, failed>>

MayStartAtOnce(n) == TRUE                                            \* mutant
MayStart(n) == \A m \in 1 .. n - 1 : task[m].at = "done"

\* The sockets in the room when the turn of the event comes.
StartDelivery(n) ==
    /\ task[n].at = "queued" /\ MayStart(n)
    /\ task' = [task EXCEPT ![n] = [Waiting EXCEPT !.at = "next", !.left = room]]
    /\ UNCHANGED <<roomVars, queueVars, rightsVars, received, failed>>

\* The next socket: skipped when it left; else its read of the page is asked.
AskPageMember(n, s) ==                                               \* mutant
    /\ task[n].at = "next" /\ s \in task[n].left
    /\ task' = [task EXCEPT ![n].left = @ \ {s}, ![n].with = s,
                            ![n].at = "page", ![n].knows = {"page"}]
AskPage(n, s) ==
    /\ task[n].at = "next" /\ s \in task[n].left
    /\ task' = [task EXCEPT ![n].left = @ \ {s},
                            ![n].with = IF s \in room THEN s ELSE NoOne,
                            ![n].at = IF s \in room THEN "page" ELSE "next",
                            ![n].knows = IF s \in room THEN Granted(s) \cap {"page"} ELSE {}]

AskRow(n) ==
    /\ task[n].at = "page" /\ "page" \in task[n].knows /\ "row" \in events[n]
    /\ task' = [task EXCEPT ![n].at = "row", ![n].knows = @ \cup (Granted(task[n].with) \cap {"row"})]

\* The answer is here; rights and room may have changed since.
GoOn(n) == task' = [task EXCEPT ![n].at = "next", ![n].with = NoOne, ![n].knows = {}]

Evict(n) ==
    /\ task[n].at = "page" /\ "page" \notin task[n].knows
    /\ GoOut(task[n].with)
    /\ GoOn(n)

SkipRow(n) == task[n].at = "row" /\ "row" \notin task[n].knows /\ GoOn(n)

\* A socket that disconnected meanwhile gets nothing.
Emit(n) ==
    /\ task[n].at \in {"page", "row"} /\ events[n] \subseteq task[n].knows
    /\ received' = IF task[n].with \in online
                   THEN [received EXCEPT ![task[n].with] = Append(@, n)] ELSE received
    /\ GoOn(n)

EndDelivery(n) == task[n].at = "next" /\ task[n].left = {} /\ task' = [task EXCEPT ![n] = Done]

\* A question was not answered: the other sockets miss the event, and the
\* catch lets the next one pass.
Rejected(n) == [task[n] EXCEPT !.at = "rejected"]                    \* mutant
Caught(n)   == Done

FailDelivery(n) ==
    /\ task[n].at \in {"page", "row"}
    /\ task' = [task EXCEPT ![n] = Caught(n)]
    /\ failed' = failed \cup {n}
    /\ UNCHANGED <<roomVars, queueVars, rightsVars, received>>

Attend(n) ==
    \/ StartDelivery(n) \/ FailDelivery(n)
    \/ /\ (\E s \in Sockets : AskPage(n, s)) \/ AskRow(n) \/ SkipRow(n) \/ EndDelivery(n)
       /\ UNCHANGED <<roomVars, queueVars, rightsVars, received, failed>>
    \/ Emit(n) /\ UNCHANGED <<roomVars, queueVars, rightsVars, failed>>
    \/ Evict(n) /\ UNCHANGED <<online, asking, joins, queueVars, rightsVars, received, failed>>

RealtimeNext ==
    \/ \E needs \in {{"page"}, Rights} : Deliver(needs)
    \/ \E s \in Sockets : AskToJoin(s) \/ Join(s) \/ Leave(s) \/ Disconnect(s)
    \/ \E u \in Restless, held \in SUBSET Rights : ChangeRights(u, held)
    \/ \E n \in DOMAIN events : Attend(n)

\* Questions are answered or fail, and the promises of the queue settle.
RealtimeFairness ==
    \A n \in 1 .. MaxEvents : WF_realtimeVars(n \in DOMAIN events /\ Attend(n))

RealtimeSpec == RealtimeInit /\ [][RealtimeNext]_realtimeVars /\ RealtimeFairness

-----------------------------------------------------------------------------
(* Properties.                                                              *)

\* The sockets, the room, the queue and the history have their types.
RealtimeTypeOK ==
    /\ rights \in [Persons -> SUBSET Rights]
    /\ room \subseteq online /\ online \subseteq Sockets /\ asking \subseteq Sockets
    /\ DOMAIN task = DOMAIN events /\ DOMAIN without = DOMAIN events
    /\ \A n \in DOMAIN task :
          /\ task[n].at \in {"queued", "next", "page", "row", "done", "rejected"}
          /\ task[n].at \in {"page", "row"} => task[n].with \in Sockets
    /\ \A s \in Sockets : received[s] \in Seq(DOMAIN events) /\ steady[s] \in 0 .. Len(events) + 1
    /\ failed \subseteq DOMAIN events

\* Each socket gets the events of the page in the order they were published
\* and each of them once, however long the rights of one socket take to read,
\* and though sockets leave and enter again meanwhile.
InPublicationOrder ==
    \A s \in Sockets : \A i, j \in DOMAIN received[s] : i < j => received[s][i] < received[s][j]

\* What every reachable state satisfies: the order of publication, with the
\* types of the state.
RealtimeInv == RealtimeTypeOK /\ InPublicationOrder

\* Nobody is told of a page, or of the cells of a row, they could not read at
\* any instant since the event was published: a socket still in the room, or
\* one whose request to enter was allowed before, does not get it.
NothingAfterRevocation ==
    [][\A s \in Sockets, n \in DOMAIN events :
          n \in Range(received'[s]) \ Range(received[s]) =>
              \A right \in events[n] : <<PersonOf[s], right>> \notin without[n]]_realtimeVars

\* What is published reaches who was in the room and stays there with the
\* right to read, whatever became of the events before it and of the other
\* sockets; an error in its own delivery is the only excuse.
EventsReachReaders ==
    \A s \in Sockets, n \in 1 .. MaxEvents :
        n \in DOMAIN events /\ steady[s] \in 1 .. n
            ~> n \in Range(received[s]) \/ steady[s] = Never \/ n \in failed
==============================================================================
