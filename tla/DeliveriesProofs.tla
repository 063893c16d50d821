--------------------------- MODULE DeliveriesProofs --------------------------
(***************************************************************************)
(* What is delivered: proofs about Realtime, for any sockets, and about    *)
(* NotificationOutbox, for any processes, deliveries and bounds. Events of *)
(* a page come in the order of their publication, once, and to nobody      *)
(* without the right: at most one delivery is under way, those before it   *)
(* are over and those after it have not begun. The table of mails with its *)
(* workers implements the mailbox of AtLeastOnceMail.                      *)
(***************************************************************************)
EXTENDS Realtime, NotificationOutbox, TLAPS

LOCAL INSTANCE SequencesExt

-----------------------------------------------------------------------------
(* Realtime.                                                               *)

Turn == [at : {"queued", "next", "page", "row", "done"}, left : SUBSET Sockets,
         with : Sockets \cup {NoOne}, knows : SUBSET Rights]

\* The types of the state in full.
DeliveryTypes ==
    /\ rights \in [Persons -> SUBSET Rights]
    /\ online \subseteq Sockets /\ room \subseteq online /\ asking \subseteq Sockets
    /\ events \in Seq(SUBSET Rights)
    /\ task \in Seq(Turn) /\ Len(task) = Len(events)
    /\ without \in Seq(SUBSET (Persons \X Rights)) /\ Len(without) = Len(events)
    /\ received \in [Sockets -> Seq(Nat)]
    /\ steady \in [Sockets -> Nat] /\ \A s \in Sockets : steady[s] <= Len(events) + 1
    /\ failed \subseteq 1 .. Len(events)

Asking(n) == task[n].at \in {"page", "row"}

\* Questions are asked about a socket that was in the room.
AboutSomebody == \A n \in 1 .. Len(task) : Asking(n) => task[n].with \in Sockets

\* What began finds everything before it finished.
OneAtATime ==
    \A m, n \in 1 .. Len(task) : m < n /\ task[n].at # "queued" => task[m].at = "done"

\* Sockets a delivery still has to do with.
Ahead(n) == CASE task[n].at = "next" -> task[n].left
              [] Asking(n)           -> task[n].left \cup {task[n].with}
              [] OTHER               -> {}

\* Nobody has an event whose delivery has not begun, or has still to reach them.
NotYet ==
    \A s \in Sockets : \A i \in 1 .. Len(received[s]) :
        /\ received[s][i] \in 1 .. Len(task)
        /\ task[received[s][i]].at # "queued"
        /\ s \notin Ahead(received[s][i])

NotAgain == \A n \in 1 .. Len(task) : Asking(n) => task[n].with \notin task[n].left

InOrder ==
    \A s \in Sockets : \A i, j \in 1 .. Len(received[s]) : i < j => received[s][i] < received[s][j]

\* What a person lacked ever since an event is not theirs now, and is nothing
\* that the delivery of the event was told they have.
LackedThroughout ==
    \A n \in 1 .. Len(without) : \A u \in Persons : \A r \in rights[u] : <<u, r>> \notin without[n]
ToldTruly ==
    \A n \in 1 .. Len(task) : Asking(n) =>
        \A r \in task[n].knows : <<PersonOf[task[n].with], r>> \notin without[n]

RealtimeInd ==
    /\ DeliveryTypes /\ AboutSomebody /\ OneAtATime /\ NotYet /\ NotAgain /\ InOrder
    /\ LackedThroughout /\ ToldTruly

-----------------------------------------------------------------------------
(* How the queue moves.                                                     *)

\* The nothing a finished or a waiting delivery remembers.
LEMMA Rests == Waiting \in Turn /\ Done \in Turn /\ Done.at = "done" /\ Waiting.at = "queued"
  BY DEF Waiting, Done, Turn

\* One turn is replaced in the queue.
LEMMA OneTurn ==
  ASSUME DeliveryTypes, NEW n \in 1 .. Len(task), NEW new \in Turn, task' = [task EXCEPT ![n] = new]
  PROVE  /\ task' \in Seq(Turn) /\ Len(task') = Len(task)
         /\ \A m \in 1 .. Len(task) : task'[m] = IF m = n THEN new ELSE task[m]
  BY DEF DeliveryTypes

\* A delivery that is attended to moves on by one turn: it begins behind
\* finished ones, or goes on, and is never ahead of more sockets than before.
MovesOn(n, new) ==
    /\ task' = [task EXCEPT ![n] = new]
    /\ UNCHANGED <<online, asking, joins, events, without, rights, changes>>
    /\ \/ task[n].at = "queued" /\ MayStart(n) /\ new.at = "next"
       \/ /\ task[n].at \in {"next", "page", "row"} /\ new.at \in {"next", "page", "row", "done"}
          /\ new.at # "done" => new.left \subseteq task[n].left
          /\ new.at = "row" => task[n].at = "page" /\ new.with = task[n].with
          /\ new.at = "page" => new.with \in task[n].left /\ task[n].at = "next"
    /\ new.at \in {"page", "row"} =>
          /\ new.with \in Sockets /\ new.with \notin new.left
          /\ task[n].at = "page" \/ new.knows \subseteq Granted(new.with)
          /\ task[n].at = "page" => new.knows \subseteq task[n].knows \cup Granted(new.with)

\* StartDelivery.
LEMMA StartMoves ==
  ASSUME RealtimeInd, NEW n \in 1 .. Len(task), StartDelivery(n)
  PROVE  \E new \in Turn : MovesOn(n, new) /\ UNCHANGED <<room, steady, received, failed>>
  <1> DEFINE new == [Waiting EXCEPT !.at = "next", !.left = room]
  <1>1. new \in Turn /\ new.at = "next"
    BY DEF RealtimeInd, DeliveryTypes, Turn, Waiting
  <1>2. MovesOn(n, new)
    BY <1>1 DEF StartDelivery, MovesOn, roomVars, queueVars, rightsVars
  <1> QED BY <1>1, <1>2 DEF StartDelivery, roomVars

\* AskPage.
LEMMA AskPageMoves ==
  ASSUME RealtimeInd, NEW n \in 1 .. Len(task), NEW s \in Sockets, AskPage(n, s),
         UNCHANGED <<roomVars, queueVars, rightsVars>>
  PROVE  \E new \in Turn : MovesOn(n, new)
  <1> DEFINE new == [task[n] EXCEPT !.left = @ \ {s}, !.with = IF s \in room THEN s ELSE NoOne,
                         !.at = IF s \in room THEN "page" ELSE "next",
                         !.knows = IF s \in room THEN Granted(s) \cap {"page"} ELSE {}]
  <1>0. task \in Seq(Turn) /\ task[n] \in Turn
    BY DEF RealtimeInd, DeliveryTypes
  <1>1. Granted(s) \cap {"page"} \subseteq Rights
    BY DEF Rights
  <1>2. new \in Turn
    BY <1>0, <1>1 DEF Turn
  <1>3. task' = [task EXCEPT ![n] = new]
    BY <1>0 DEF AskPage, Turn
  <1>4. /\ new.left = task[n].left \ {s} /\ s \in task[n].left /\ task[n].at = "next"
        /\ s \in room  => new.at = "page" /\ new.with = s /\ new.knows \subseteq Granted(s)
        /\ s \notin room => new.at = "next"
    BY <1>0 DEF AskPage, Turn
  <1> HIDE DEF new
  <1>5. MovesOn(n, new)
    BY <1>3, <1>4 DEF MovesOn, roomVars, queueVars, rightsVars
  <1> QED BY <1>2, <1>5

\* AskRow.
LEMMA AskRowMoves ==
  ASSUME RealtimeInd, NEW n \in 1 .. Len(task), AskRow(n),
         UNCHANGED <<roomVars, queueVars, rightsVars>>
  PROVE  \E new \in Turn : MovesOn(n, new)
  <1> DEFINE new == [task[n] EXCEPT !.at = "row",
                                    !.knows = @ \cup (Granted(task[n].with) \cap {"row"})]
  <1>0. task \in Seq(Turn) /\ task[n] \in Turn
    BY DEF RealtimeInd, DeliveryTypes
  <1>1. Granted(task[n].with) \cap {"row"} \subseteq Rights
    BY DEF Rights
  <1>2. new \in Turn
    BY <1>0, <1>1 DEF Turn
  <1>3. task' = [task EXCEPT ![n] = new] /\ task[n].at = "page"
    BY <1>0 DEF AskRow, Turn
  <1>4. /\ new.left = task[n].left /\ new.with = task[n].with /\ new.at = "row"
        /\ new.knows \subseteq task[n].knows \cup Granted(task[n].with)
    BY <1>0 DEF Turn
  <1>5. task[n].with \in Sockets /\ task[n].with \notin task[n].left
    BY <1>3 DEF RealtimeInd, AboutSomebody, NotAgain, Asking
  <1> HIDE DEF new
  <1>6. MovesOn(n, new)
    BY <1>3, <1>4, <1>5 DEF MovesOn, roomVars, queueVars, rightsVars
  <1> QED BY <1>2, <1>6

\* GoOn, after an eviction, a row that may not be read, or the event itself.
LEMMA GoOnMoves ==
  ASSUME RealtimeInd, NEW n \in 1 .. Len(task), GoOn(n), task[n].at \in {"page", "row"},
         UNCHANGED <<online, asking, joins, events, without, rights, changes>>
  PROVE  \E new \in Turn : MovesOn(n, new) /\ new.at = "next" /\ new.left = task[n].left
  <1> DEFINE new == [task[n] EXCEPT !.at = "next", !.with = NoOne, !.knows = {}]
  <1>0. task \in Seq(Turn) /\ task[n] \in Turn
    BY DEF RealtimeInd, DeliveryTypes
  <1>1. new \in Turn
    BY <1>0 DEF Turn
  <1>2. task' = [task EXCEPT ![n] = new]
    BY <1>0 DEF GoOn, Turn
  <1>3. new.left = task[n].left /\ new.at = "next"
    BY <1>0 DEF Turn
  <1> HIDE DEF new
  <1>4. MovesOn(n, new)
    BY <1>2, <1>3 DEF MovesOn
  <1> QED BY <1>1, <1>3, <1>4

\* EndDelivery, and FailDelivery with the catch that follows it.
LEMMA DoneMoves ==
  ASSUME RealtimeInd, NEW n \in 1 .. Len(task), task' = [task EXCEPT ![n] = Done],
         task[n].at \in {"next", "page", "row"},
         UNCHANGED <<online, asking, joins, events, without, rights, changes>>
  PROVE  \E new \in Turn : MovesOn(n, new)
  BY Rests DEF MovesOn

\* Whatever is done for an event, its turn moves on; rooms and history follow.
LEMMA AttendMoves ==
  ASSUME RealtimeInd, NEW n \in 1 .. Len(task), Attend(n)
  PROVE  \E new \in Turn :
            /\ MovesOn(n, new)
            /\ \/ UNCHANGED <<room, steady>>
               \/ \E s \in Sockets : GoOut(s)
            /\ \/ UNCHANGED received
               \/ Emit(n) /\ new.at = "next" /\ new.left = task[n].left
            /\ failed' \subseteq failed \cup {n}
  <1> USE DEF roomVars, queueVars, rightsVars
  <1>1. CASE StartDelivery(n)
    BY <1>1, StartMoves
  <1>2. CASE FailDelivery(n)
    BY <1>2, DoneMoves DEF FailDelivery, Caught
  <1>3. ASSUME NEW s \in Sockets, AskPage(n, s), UNCHANGED <<roomVars, queueVars, rightsVars, received, failed>>
        PROVE  \E new \in Turn : MovesOn(n, new)
    BY <1>3, AskPageMoves
  <1>4. CASE AskRow(n) /\ UNCHANGED <<roomVars, queueVars, rightsVars, received, failed>>
    BY <1>4, AskRowMoves
  <1>5. CASE SkipRow(n) /\ UNCHANGED <<roomVars, queueVars, rightsVars, received, failed>>
    BY <1>5, GoOnMoves DEF SkipRow
  <1>6. CASE EndDelivery(n) /\ UNCHANGED <<roomVars, queueVars, rightsVars, received, failed>>
    BY <1>6, DoneMoves DEF EndDelivery
  <1>7. CASE Emit(n) /\ UNCHANGED <<roomVars, queueVars, rightsVars, failed>>
    BY <1>7, GoOnMoves DEF Emit
  <1>8. CASE Evict(n) /\ UNCHANGED <<online, asking, joins, queueVars, rightsVars, received, failed>>
    <2>1. task[n].at = "page" /\ GoOut(task[n].with) /\ GoOn(n)
      BY <1>8 DEF Evict
    <2>2. task[n].with \in Sockets
      BY <2>1 DEF RealtimeInd, AboutSomebody, Asking
    <2> QED BY <1>8, <2>1, <2>2, GoOnMoves
  <1> QED BY <1>1, <1>2, <1>3, <1>4, <1>5, <1>6, <1>7, <1>8 DEF Attend

-----------------------------------------------------------------------------
(* The queue stays in order.                                                *)

\* The two kinds of steps: something is done for an event, or around the queue.
LEMMA QueueOrder ==
  ASSUME RealtimeInd, NEW n \in 1 .. Len(task), NEW new \in Turn, MovesOn(n, new)
  PROVE  /\ OneAtATime' /\ AboutSomebody' /\ NotAgain'
         /\ \A m \in 1 .. Len(task) : m > n => task[m].at = "queued" \/ new.at = "done"
  <1>0. /\ task' \in Seq(Turn) /\ Len(task') = Len(task) /\ Len(task) \in Nat
        /\ \A m \in 1 .. Len(task) : task'[m] = IF m = n THEN new ELSE task[m]
    BY OneTurn DEF RealtimeInd, MovesOn, DeliveryTypes
  <1>1. \A m \in 1 .. n - 1 : task[m].at = "done"
    BY <1>0 DEF RealtimeInd, OneAtATime, MovesOn, MayStart
  <1>2. \A m \in 1 .. Len(task) : m > n => task[m].at = "queued"
    BY <1>0 DEF RealtimeInd, OneAtATime, MovesOn
  <1>3. OneAtATime'
    <2> SUFFICES ASSUME NEW l \in 1 .. Len(task), NEW m \in 1 .. Len(task), l < m, task'[m].at # "queued"
                 PROVE  task'[l].at = "done"
      BY <1>0 DEF OneAtATime
    <2>1. CASE m = n
      BY <1>0, <1>1, <2>1
    <2>2. CASE m # n
      <3>1. task[m].at # "queued"
        BY <1>0, <2>2
      <3> QED BY <1>0, <1>2, <2>2, <3>1 DEF RealtimeInd, OneAtATime
    <2> QED BY <2>1, <2>2
  <1>4. AboutSomebody' /\ NotAgain'
    BY <1>0 DEF RealtimeInd, AboutSomebody, NotAgain, Asking, MovesOn
  <1> QED BY <1>2, <1>3, <1>4

\* The delivery under way never comes back to a socket.
LEMMA AheadShrinks ==
  ASSUME RealtimeInd, NEW n \in 1 .. Len(task), NEW new \in Turn, MovesOn(n, new),
         task[n].at # "queued"
  PROVE  Ahead(n)' \subseteq Ahead(n)
  <1>1. task'[n] = new
    BY OneTurn DEF RealtimeInd, MovesOn
  <1>2. new.at # "done" => new.left \subseteq task[n].left
    BY DEF MovesOn
  <1>3. CASE new.at \in {"page", "row"}
    BY <1>1, <1>2, <1>3 DEF MovesOn, Ahead, Asking
  <1>4. CASE new.at = "next"
    BY <1>1, <1>2, <1>4 DEF MovesOn, Ahead, Asking
  <1>5. CASE new.at = "done"
    BY <1>1, <1>5 DEF Ahead, Asking
  <1> QED BY <1>3, <1>4, <1>5 DEF MovesOn

\* What is emitted is later than all its socket has, and leaves the queue
\* nothing to send there again.
LEMMA AttendKeepsReceived ==
  ASSUME RealtimeInd, NEW n \in 1 .. Len(task), Attend(n)
  PROVE  NotYet' /\ InOrder' /\ received' \in [Sockets -> Seq(Nat)]
  <1>1. PICK new \in Turn : /\ MovesOn(n, new)
                            /\ \/ UNCHANGED received
                               \/ Emit(n) /\ new.at = "next" /\ new.left = task[n].left
    BY AttendMoves
  <1>2. /\ task' \in Seq(Turn) /\ Len(task') = Len(task) /\ Len(task) \in Nat
        /\ \A m \in 1 .. Len(task) : task'[m] = IF m = n THEN new ELSE task[m]
    BY <1>1, OneTurn DEF RealtimeInd, MovesOn, DeliveryTypes
  <1>3. received \in [Sockets -> Seq(Nat)]
    BY DEF RealtimeInd, DeliveryTypes
  <1>4. new.at # "queued"
    BY <1>1 DEF MovesOn
  <1>5. ASSUME NEW s \in Sockets, NEW m \in 1 .. Len(task), task[m].at # "queued", s \notin Ahead(m)
        PROVE  task'[m].at # "queued" /\ s \notin Ahead(m)'
    <2>1. CASE m # n
      BY <1>2, <1>5, <2>1 DEF Ahead, Asking
    <2>2. CASE m = n
      BY <1>1, <1>2, <1>4, <1>5, <2>2, AheadShrinks
    <2> QED BY <2>1, <2>2
  <1>6. CASE UNCHANGED received
    BY <1>2, <1>3, <1>5, <1>6 DEF RealtimeInd, NotYet, InOrder
  <1>7. CASE Emit(n) /\ new.at = "next" /\ new.left = task[n].left
    <2> DEFINE s == task[n].with
    <2>1. /\ Asking(n) /\ s \in Sockets /\ s \notin task[n].left
          /\ received' = IF s \in online THEN [received EXCEPT ![s] = Append(@, n)] ELSE received
      BY <1>7 DEF Emit, Asking, RealtimeInd, AboutSomebody, NotAgain
    <2>2. CASE s \notin online
      BY <1>6, <2>1, <2>2
    <2>3. CASE s \in online
      <3>1. /\ received' \in [Sockets -> Seq(Nat)]
            /\ \A o \in Sockets : o # s => received'[o] = received[o]
            /\ received'[s] = Append(received[s], n) /\ received[s] \in Seq(Nat)
        BY <1>2, <1>3, <2>1, <2>3
      <3>2. /\ Len(received'[s]) = Len(received[s]) + 1 /\ Len(received[s]) \in Nat
            /\ received'[s][Len(received[s]) + 1] = n
            /\ \A i \in 1 .. Len(received[s]) : received'[s][i] = received[s][i]
        BY <3>1
      <3>3. \A i \in 1 .. Len(received[s]) : received[s][i] < n
        <4> SUFFICES ASSUME NEW i \in 1 .. Len(received[s]) PROVE received[s][i] < n
          OBVIOUS
        <4>1. /\ received[s][i] \in 1 .. Len(task) /\ task[received[s][i]].at # "queued"
              /\ s \notin Ahead(received[s][i])
          BY <2>1 DEF RealtimeInd, NotYet
        <4>2. received[s][i] # n
          BY <2>1, <4>1 DEF Ahead, Asking
        <4>3. ~(n < received[s][i])
          BY <1>2, <2>1, <4>1 DEF RealtimeInd, OneAtATime, Asking
        <4> QED BY <1>2, <4>1, <4>2, <4>3
      <3>4. task'[n].at # "queued" /\ s \notin Ahead(n)'
        BY <1>2, <1>7, <2>1 DEF Ahead, Asking
      <3>5. NotYet'
        <4> SUFFICES ASSUME NEW o \in Sockets, NEW i \in 1 .. Len(received'[o])
                     PROVE  /\ received'[o][i] \in 1 .. Len(task)
                            /\ task'[received'[o][i]].at # "queued"
                            /\ o \notin Ahead(received[o][i])'
          BY <1>2 DEF NotYet
        <4>1. CASE o = s /\ i = Len(received[s]) + 1
          BY <1>2, <3>2, <3>4, <4>1
        <4>2. CASE ~(o = s /\ i = Len(received[s]) + 1)
          <5>1. i \in 1 .. Len(received[o]) /\ received'[o][i] = received[o][i]
            <6>1. CASE o # s
              BY <3>1, <6>1
            <6>2. CASE o = s
              BY <3>2, <4>2, <6>2
            <6> QED BY <6>1, <6>2
          <5>2. PICK m \in 1 .. Len(task) : m = received[o][i] /\ task[m].at # "queued" /\ o \notin Ahead(m)
            BY <5>1 DEF RealtimeInd, NotYet
          <5>3. task'[m].at # "queued" /\ o \notin Ahead(m)'
            BY <1>5, <5>2
          <5> QED BY <5>1, <5>2, <5>3 DEF Ahead, Asking
        <4> QED BY <4>1, <4>2
      <3>6. InOrder'
        <4> SUFFICES ASSUME NEW o \in Sockets, NEW i \in 1 .. Len(received'[o]),
                            NEW j \in 1 .. Len(received'[o]), i < j
                     PROVE  received'[o][i] < received'[o][j]
          BY DEF InOrder
        <4>1. CASE o # s
          BY <3>1, <4>1 DEF RealtimeInd, InOrder
        <4>2. CASE o = s
          <5>1. i \in 1 .. Len(received[s])
            BY <3>2, <4>2
          <5>2. CASE j = Len(received[s]) + 1
            BY <3>2, <3>3, <4>2, <5>1, <5>2
          <5>3. CASE j \in 1 .. Len(received[s])
            BY <3>2, <4>2, <5>1, <5>3 DEF RealtimeInd, InOrder
          <5> QED BY <3>2, <4>2, <5>2, <5>3
        <4> QED BY <4>1, <4>2
      <3> QED BY <3>1, <3>5, <3>6
    <2> QED BY <2>2, <2>3
  <1> QED BY <1>1, <1>6, <1>7

\* What a delivery is told of rights is the database of that instant.
LEMMA AttendTellsTruly ==
  ASSUME RealtimeInd, NEW n \in 1 .. Len(task), Attend(n)
  PROVE  ToldTruly' /\ LackedThroughout'
  <1>1. PICK new \in Turn : MovesOn(n, new)
    BY AttendMoves
  <1>2. /\ Len(task') = Len(task) /\ UNCHANGED <<without, rights>>
        /\ \A m \in 1 .. Len(task) : task'[m] = IF m = n THEN new ELSE task[m]
    BY <1>1, OneTurn DEF RealtimeInd, MovesOn
  <1>3. ASSUME new.at \in {"page", "row"}, NEW r \in new.knows
        PROVE  <<PersonOf[new.with], r>> \notin without[n]
    <2>1. PersonOf[new.with] \in Persons
      BY <1>1, <1>3 DEF MovesOn, Persons
    <2>2. CASE r \in Granted(new.with)
      BY <1>2, <2>1, <2>2 DEF RealtimeInd, DeliveryTypes, LackedThroughout, Granted
    <2>3. CASE r \notin Granted(new.with)
      <3>1. task[n].at = "page" /\ r \in task[n].knows /\ new.at = "row"
        BY <1>1, <1>3, <2>3 DEF MovesOn
      <3>2. new.with = task[n].with
        BY <1>1, <3>1 DEF MovesOn
      <3> QED BY <3>1, <3>2 DEF RealtimeInd, ToldTruly, Asking
    <2> QED BY <2>2, <2>3
  <1>4. ToldTruly'
    BY <1>2, <1>3 DEF RealtimeInd, ToldTruly, Asking
  <1> QED BY <1>2, <1>4 DEF RealtimeInd, LackedThroughout

\* Attending to an event keeps everything.
LEMMA AttendKeeps ==
  ASSUME RealtimeInd, NEW n \in 1 .. Len(task), Attend(n)
  PROVE  RealtimeInd'
  <1>1. PICK new \in Turn :
            /\ MovesOn(n, new)
            /\ \/ UNCHANGED <<room, steady>>
               \/ \E s \in Sockets : GoOut(s)
            /\ failed' \subseteq failed \cup {n}
    BY AttendMoves
  <1>2. task' \in Seq(Turn) /\ Len(task') = Len(task)
    BY <1>1, OneTurn DEF RealtimeInd, MovesOn
  <1>3. room' \subseteq room /\ steady' \in [Sockets -> Nat] /\ \A s \in Sockets : steady'[s] <= Len(events) + 1
    <2>1. Len(events) \in Nat /\ steady \in [Sockets -> Nat] /\ \A s \in Sockets : steady[s] <= Len(events) + 1
      BY DEF RealtimeInd, DeliveryTypes
    <2>2. CASE UNCHANGED <<room, steady>>
      BY <2>1, <2>2
    <2>3. ASSUME NEW s \in Sockets, GoOut(s)
          PROVE  room' \subseteq room /\ steady' \in [Sockets -> Nat]
                 /\ \A o \in Sockets : steady'[o] = steady[o] \/ steady'[o] = 0
      BY <2>1, <2>3 DEF GoOut, Never
    <2> QED BY <1>1, <2>1, <2>2, <2>3
  <1>4. DeliveryTypes'
    BY <1>1, <1>2, <1>3, AttendKeepsReceived DEF RealtimeInd, DeliveryTypes, MovesOn
  <1> QED BY <1>1, <1>4, QueueOrder, AttendKeepsReceived, AttendTellsTruly DEF RealtimeInd

-----------------------------------------------------------------------------
(* Around the queue.                                                        *)

\* No socket, nothing published, everybody allowed everything.
LEMMA RealtimeStart == RealtimeInit => RealtimeInd
  <1> SUFFICES ASSUME RealtimeInit PROVE RealtimeInd
    OBVIOUS
  <1>1. /\ Len(events) = 0 /\ Len(task) = 0 /\ Len(without) = 0
        /\ \A s \in Sockets : received[s] = <<>> /\ Len(received[s]) = 0
    BY DEF RealtimeInit
  <1>2. events \in Seq(SUBSET Rights) /\ task \in Seq(Turn) /\ without \in Seq(SUBSET (Persons \X Rights))
    BY DEF RealtimeInit
  <1>3. /\ rights \in [Persons -> SUBSET Rights] /\ received \in [Sockets -> Seq(Nat)]
        /\ steady \in [Sockets -> Nat] /\ \A s \in Sockets : steady[s] = 0
    BY DEF RealtimeInit, Never
  <1>4. DeliveryTypes
    BY <1>1, <1>2, <1>3 DEF DeliveryTypes, RealtimeInit
  <1> QED BY <1>1, <1>4 DEF RealtimeInd, AboutSomebody, OneAtATime, NotYet, NotAgain, InOrder,
                            LackedThroughout, ToldTruly

\* Whoever comes and goes leaves the queue alone.
LEMMA RoomKeeps ==
  ASSUME RealtimeInd, UNCHANGED <<rights, events, without, task, received, failed>>,
         online' \subseteq Sockets, room' \subseteq online', asking' \subseteq Sockets,
         \/ UNCHANGED steady
         \/ \E s \in Sockets, n \in {0, Len(events) + 1} : steady' = [steady EXCEPT ![s] = n]
  PROVE  RealtimeInd'
  <1>1. /\ Len(events) \in Nat /\ steady \in [Sockets -> Nat]
        /\ \A s \in Sockets : steady[s] <= Len(events) + 1
    BY DEF RealtimeInd, DeliveryTypes
  <1>2. steady' \in [Sockets -> Nat] /\ \A s \in Sockets : steady'[s] <= Len(events) + 1
    <2>1. CASE UNCHANGED steady
      BY <1>1, <2>1
    <2>2. ASSUME NEW s \in Sockets, NEW n \in {0, Len(events) + 1}, steady' = [steady EXCEPT ![s] = n]
          PROVE  steady' \in [Sockets -> Nat] /\ \A o \in Sockets : steady'[o] = steady[o] \/ steady'[o] = n
      BY <1>1, <2>2
    <2> QED BY <1>1, <2>1, <2>2
  <1>3. DeliveryTypes'
    BY <1>2 DEF RealtimeInd, DeliveryTypes
  <1> QED BY <1>3 DEF RealtimeInd, AboutSomebody, OneAtATime, NotYet, NotAgain, InOrder,
                      LackedThroughout, ToldTruly, Ahead, Asking

\* AskToJoin, Join, Leave, Disconnect.
LEMMA RoomStepsKeep ==
  ASSUME RealtimeInd, NEW s \in Sockets, AskToJoin(s) \/ Join(s) \/ Leave(s) \/ Disconnect(s)
  PROVE  RealtimeInd'
  <1> USE DEF queueVars, rightsVars
  <1>0. online \subseteq Sockets /\ room \subseteq online /\ asking \subseteq Sockets
    BY DEF RealtimeInd, DeliveryTypes
  <1>1. CASE AskToJoin(s)
    BY <1>0, <1>1, RoomKeeps DEF AskToJoin
  <1>2. CASE Join(s)
    <2>1. \/ UNCHANGED steady
          \/ \E o \in Sockets, n \in {0, Len(events) + 1} : steady' = [steady EXCEPT ![o] = n]
      BY <1>2 DEF Join
    <2> QED BY <1>0, <1>2, <2>1, RoomKeeps DEF Join
  <1>3. CASE Leave(s)
    <2>1. steady' = [steady EXCEPT ![s] = 0] /\ room' = room \ {s}
      BY <1>3 DEF Leave, GoOut, Never
    <2> QED BY <1>0, <1>3, <2>1, RoomKeeps DEF Leave
  <1>4. CASE Disconnect(s)
    <2>1. steady' = [steady EXCEPT ![s] = 0] /\ room' = room \ {s}
      BY <1>4 DEF Disconnect, GoOut, Never
    <2> QED BY <1>0, <1>4, <2>1, RoomKeeps DEF Disconnect
  <1> QED BY <1>1, <1>2, <1>3, <1>4

\* Rights given are struck from what was lacked throughout, in every event.
LEMMA ChangeKeeps ==
  ASSUME RealtimeInd, NEW u \in Persons, NEW held \in SUBSET Rights, ChangeRights(u, held)
  PROVE  RealtimeInd'
  <1>0. /\ rights \in [Persons -> SUBSET Rights] /\ Len(events) \in Nat
        /\ without \in Seq(SUBSET (Persons \X Rights)) /\ Len(without) = Len(events)
        /\ steady \in [Sockets -> Nat] /\ \A s \in Sockets : steady[s] <= Len(events) + 1
    BY DEF RealtimeInd, DeliveryTypes
  <1>1. rights' \in [Persons -> SUBSET Rights]
        /\ \A v \in Persons : rights'[v] = IF v = u THEN held ELSE rights[v]
    BY <1>0 DEF ChangeRights
  <1>2. /\ without' \in Seq(SUBSET (Persons \X Rights)) /\ Len(without') = Len(without)
        /\ \A n \in 1 .. Len(without) : without'[n] = without[n] \ ({u} \X held)
    <2>1. without' = [n \in 1 .. Len(without) |-> without[n] \ ({u} \X held)]
      BY <1>0 DEF ChangeRights
    <2>2. \A n \in 1 .. Len(without) : without[n] \ ({u} \X held) \in SUBSET (Persons \X Rights)
      BY <1>0
    <2> QED BY <1>0, <2>1, <2>2
  <1>3. steady' \in [Sockets -> Nat] /\ \A s \in Sockets : steady'[s] <= Len(events) + 1
    <2>1. \A s \in Sockets : steady'[s] \in {steady[s], 0, Len(events) + 1}
      BY DEF ChangeRights, Never
    <2>2. steady' = [s \in Sockets |-> steady'[s]]
      BY DEF ChangeRights
    <2> QED BY <1>0, <2>1, <2>2
  <1>4. UNCHANGED <<online, room, asking, events, task, received, failed>>
    BY DEF ChangeRights
  <1>5. DeliveryTypes'
    BY <1>1, <1>2, <1>3, <1>4 DEF RealtimeInd, DeliveryTypes
  <1>6. LackedThroughout'
    <2> SUFFICES ASSUME NEW n \in 1 .. Len(without), NEW v \in Persons, NEW r \in rights'[v]
                 PROVE  <<v, r>> \notin without'[n]
      BY <1>2 DEF LackedThroughout
    <2>1. CASE v = u
      BY <1>1, <1>2, <2>1
    <2>2. CASE v # u
      BY <1>1, <1>2, <2>2 DEF RealtimeInd, LackedThroughout
    <2> QED BY <2>1, <2>2
  <1>7. ToldTruly'
    <2> SUFFICES ASSUME NEW n \in 1 .. Len(task), Asking(n), NEW r \in task[n].knows
                 PROVE  <<PersonOf[task[n].with], r>> \notin without'[n]
      BY <1>4 DEF ToldTruly, Asking
    <2>1. n \in 1 .. Len(without) /\ <<PersonOf[task[n].with], r>> \notin without[n]
      BY DEF RealtimeInd, DeliveryTypes, ToldTruly
    <2> QED BY <1>2, <2>1
  <1> QED BY <1>4, <1>5, <1>6, <1>7 DEF RealtimeInd, AboutSomebody, OneAtATime, NotYet, NotAgain,
                                        InOrder, Ahead, Asking

\* An event joins the end of the queue, knowing who lacks what by then.
LEMMA DeliverKeeps ==
  ASSUME RealtimeInd, NEW needs \in SUBSET Rights, Deliver(needs)
  PROVE  RealtimeInd'
  <1> DEFINE lack == UNION {{u} \X (Rights \ rights[u]) : u \in Persons}
  <1> DEFINE n == Len(events) + 1
  <1>0. /\ events \in Seq(SUBSET Rights) /\ task \in Seq(Turn) /\ Len(task) = Len(events)
        /\ without \in Seq(SUBSET (Persons \X Rights)) /\ Len(without) = Len(events) /\ Len(events) \in Nat
    BY DEF RealtimeInd, DeliveryTypes
  <1>1. lack \in SUBSET (Persons \X Rights) /\ \A v \in Persons : \A r \in rights[v] : <<v, r>> \notin lack
    OBVIOUS
  <1> HIDE DEF lack
  <1>2. Waiting \in Turn /\ Waiting.at = "queued"
    BY Rests
  <1>3. /\ task' \in Seq(Turn) /\ Len(task') = n
        /\ task'[n] = Waiting /\ \A m \in 1 .. Len(task) : task'[m] = task[m]
    BY <1>0, <1>2 DEF Deliver
  <1>4. /\ without' \in Seq(SUBSET (Persons \X Rights)) /\ Len(without') = n
        /\ without'[n] = lack /\ \A m \in 1 .. Len(without) : without'[m] = without[m]
    BY <1>0, <1>1 DEF Deliver, lack
  <1>5. events' \in Seq(SUBSET Rights) /\ Len(events') = n
    BY <1>0 DEF Deliver
  <1>6. UNCHANGED <<rights, online, room, asking, received, steady, failed>>
    BY DEF Deliver, roomVars, rightsVars
  <1>7. DeliveryTypes'
    <2>1. \A s \in Sockets : steady'[s] <= Len(events') + 1
      BY <1>0, <1>5, <1>6 DEF RealtimeInd, DeliveryTypes
    <2>2. failed' \subseteq 1 .. Len(events')
      BY <1>0, <1>5, <1>6 DEF RealtimeInd, DeliveryTypes
    <2> QED BY <1>3, <1>4, <1>5, <1>6, <2>1, <2>2 DEF RealtimeInd, DeliveryTypes
  <1>8. \A m \in 1 .. Len(task') : m \in 1 .. Len(task) \/ m = n
    BY <1>0, <1>3
  <1>9. AboutSomebody' /\ NotAgain' /\ OneAtATime'
    BY <1>0, <1>2, <1>3, <1>8 DEF RealtimeInd, AboutSomebody, NotAgain, OneAtATime, Asking
  <1>10. NotYet' /\ InOrder'
    BY <1>0, <1>3, <1>6 DEF RealtimeInd, NotYet, InOrder, Ahead, Asking
  <1>11. LackedThroughout'
    <2> SUFFICES ASSUME NEW m \in 1 .. Len(without'), NEW v \in Persons, NEW r \in rights[v]
                 PROVE  <<v, r>> \notin without'[m]
      BY <1>6 DEF LackedThroughout
    <2> QED BY <1>0, <1>1, <1>3, <1>4, <1>8 DEF RealtimeInd, LackedThroughout
  <1>12. ToldTruly'
    BY <1>0, <1>2, <1>3, <1>4, <1>8 DEF RealtimeInd, ToldTruly, Asking
  <1> QED BY <1>7, <1>9, <1>10, <1>11, <1>12 DEF RealtimeInd

-----------------------------------------------------------------------------
(* Theorems.                                                                *)

\* Every step keeps the invariant.
LEMMA RealtimeStays == RealtimeInd /\ [RealtimeNext]_realtimeVars => RealtimeInd'
  <1> SUFFICES ASSUME RealtimeInd, [RealtimeNext]_realtimeVars PROVE RealtimeInd'
    OBVIOUS
  <1>1. CASE UNCHANGED realtimeVars
    BY <1>1 DEF realtimeVars, roomVars, queueVars, rightsVars, RealtimeInd, DeliveryTypes, AboutSomebody,
                OneAtATime, NotYet, NotAgain, InOrder, LackedThroughout, ToldTruly, Ahead, Asking
  <1>2. ASSUME NEW needs \in {{"page"}, Rights}, Deliver(needs) PROVE RealtimeInd'
    BY <1>2, DeliverKeeps DEF Rights
  <1>3. ASSUME NEW u \in Restless, NEW held \in SUBSET Rights, ChangeRights(u, held) PROVE RealtimeInd'
    BY <1>3, ChangeKeeps, RealtimeAssumption
  <1>4. ASSUME NEW n \in DOMAIN events, Attend(n) PROVE RealtimeInd'
    <2>1. n \in 1 .. Len(task)
      BY DEF RealtimeInd, DeliveryTypes
    <2> QED BY <1>4, <2>1, AttendKeeps
  <1> QED BY <1>1, <1>2, <1>3, <1>4, RoomStepsKeep DEF RealtimeNext

\* In every reachable state each socket has the events of the page in the order
\* of publication, each once, whoever enters, leaves or loses rights meanwhile.
THEOREM RealtimeSafe == RealtimeSpec => []RealtimeInv
  <1>1. RealtimeInd => RealtimeInv
    <2> SUFFICES ASSUME RealtimeInd PROVE RealtimeInv
      OBVIOUS
    <2>1. DOMAIN events = 1 .. Len(events) /\ DOMAIN task = DOMAIN events /\ DOMAIN without = DOMAIN events
      BY DEF RealtimeInd, DeliveryTypes
    <2>2. ASSUME NEW n \in DOMAIN task
          PROVE  /\ task[n].at \in {"queued", "next", "page", "row", "done"}
                 /\ task[n].at \in {"page", "row"} => task[n].with \in Sockets
      <3>1. n \in 1 .. Len(task) /\ task[n] \in Turn
        BY <2>1, <2>2 DEF RealtimeInd, DeliveryTypes
      <3> QED BY <3>1 DEF RealtimeInd, AboutSomebody, Asking, Turn
    <2>3. ASSUME NEW s \in Sockets
          PROVE  received[s] \in Seq(DOMAIN events) /\ steady[s] \in 0 .. Len(events) + 1
      <3>1. /\ received[s] \in Seq(Nat) /\ Len(task) = Len(events) /\ Len(events) \in Nat
            /\ steady[s] \in Nat /\ steady[s] <= Len(events) + 1
        BY DEF RealtimeInd, DeliveryTypes
      <3>2. \A i \in 1 .. Len(received[s]) : received[s][i] \in DOMAIN events
        BY <2>1, <3>1 DEF RealtimeInd, NotYet
      <3> QED BY <3>1, <3>2
    <2>4. RealtimeTypeOK
      BY <2>1, <2>2, <2>3 DEF RealtimeTypeOK, RealtimeInd, DeliveryTypes
    <2>5. InPublicationOrder
      <3>1. \A s \in Sockets : DOMAIN received[s] = 1 .. Len(received[s])
        BY DEF RealtimeInd, DeliveryTypes
      <3> QED BY <3>1 DEF InPublicationOrder, RealtimeInd, InOrder
    <2> QED BY <2>4, <2>5 DEF RealtimeInv
  <1> QED BY <1>1, RealtimeStart, RealtimeStays, PTL DEF RealtimeSpec

\* Nothing is told to whoever lacked a right it needs ever since it was published.
THEOREM RevokedHearNothing == RealtimeSpec => NothingAfterRevocation
  <1>1. ASSUME RealtimeInd, [RealtimeNext]_realtimeVars, NEW s \in Sockets, NEW n \in DOMAIN events,
               n \in Range(received'[s]) \ Range(received[s]), NEW right \in events[n]
        PROVE  <<PersonOf[s], right>> \notin without[n]
    <2>0. received \in [Sockets -> Seq(Nat)] /\ n \in 1 .. Len(task)
      BY <1>1 DEF RealtimeInd, DeliveryTypes
    <2>1. received' # received
      BY <1>1
    <2>2. PICK m \in 1 .. Len(task) : Emit(m)
      <3>1. ~UNCHANGED realtimeVars
        BY <2>1 DEF realtimeVars
      <3>2. \A t \in Sockets : ~AskToJoin(t) /\ ~Join(t) /\ ~Leave(t) /\ ~Disconnect(t)
        BY <2>1 DEF AskToJoin, Join, Leave, Disconnect
      <3>3. \A needs : ~Deliver(needs)
        BY <2>1 DEF Deliver
      <3>4. \A u, held : ~ChangeRights(u, held)
        BY <2>1 DEF ChangeRights
      <3>5. PICK m \in DOMAIN events : Attend(m)
        BY <1>1, <3>1, <3>2, <3>3, <3>4 DEF RealtimeNext
      <3>6. m \in 1 .. Len(task)
        BY <1>1, <3>5 DEF RealtimeInd, DeliveryTypes
      <3> QED BY <1>1, <2>1, <3>5, <3>6, AttendMoves
    <2> DEFINE w == task[m].with
    <2>3. /\ Asking(m) /\ w \in Sockets /\ events[m] \subseteq task[m].knows
          /\ received' = IF w \in online THEN [received EXCEPT ![w] = Append(@, m)] ELSE received
      BY <1>1, <2>2 DEF Emit, Asking, RealtimeInd, AboutSomebody
    <2>4. received' = [received EXCEPT ![w] = Append(@, m)]
      BY <2>1, <2>3
    <2>5. n = m /\ s = w
      <3>1. CASE s # w
        BY <1>1, <2>0, <2>3, <2>4, <3>1
      <3>2. CASE s = w
        <4>1. received'[s] = Append(received[s], m) /\ received[s] \in Seq(Nat)
          BY <2>0, <2>3, <2>4, <3>2
        <4>2. /\ DOMAIN received'[s] = 1 .. Len(received[s]) + 1 /\ DOMAIN received[s] = 1 .. Len(received[s])
              /\ Len(received[s]) \in Nat /\ received'[s][Len(received[s]) + 1] = m
              /\ \A i \in 1 .. Len(received[s]) : received'[s][i] = received[s][i]
          BY <2>0, <4>1
        <4>3. PICK i \in DOMAIN received'[s] : received'[s][i] = n
          BY <1>1 DEF Range
        <4>4. i \notin 1 .. Len(received[s])
          BY <1>1, <4>2, <4>3 DEF Range
        <4> QED BY <3>2, <4>2, <4>3, <4>4
      <3> QED BY <3>1, <3>2
    <2>6. right \in task[m].knows
      BY <2>3, <2>5
    <2> QED BY <1>1, <2>3, <2>5, <2>6 DEF RealtimeInd, ToldTruly
  <1>2. RealtimeInd /\ [RealtimeNext]_realtimeVars =>
          [\A s \in Sockets, n \in DOMAIN events :
              n \in Range(received'[s]) \ Range(received[s]) =>
                  \A right \in events[n] : <<PersonOf[s], right>> \notin without[n]]_realtimeVars
    BY <1>1
  <1> QED BY <1>2, RealtimeStart, RealtimeStays, PTL DEF RealtimeSpec, NothingAfterRevocation

-----------------------------------------------------------------------------
(* NotificationOutbox.                                                     *)

USE DEF NoTime

-----------------------------------------------------------------------------
(* Facts about the helpers.                                                 *)

\* The backoff of retryAt stays between 0 and its ceiling.
LEMMA RetryDelayBounded ==
    ASSUME NEW n \in Nat
    PROVE  RetryDelay(n) \in 0..MaxDelay
<1>1. Least(n, BackoffCap) \in 0..BackoffCap
    BY OutboxAssumption DEF Least
<1>2. 2^Least(n, BackoffCap) \in Nat
    BY <1>1, BackoffAssumption
<1> QED
    BY <1>2, OutboxAssumption DEF RetryDelay, Least

\* The sort key of a row is an integer.
LEMMA SortKeyType ==
    ASSUME TypeOK, NEW d \in Deliveries
    PROVE  SortKey(d) \in Int
<1> DEFINE t == IF nextAttemptAt[d] # NoTime THEN nextAttemptAt[d] ELSE createdAt[d]
<1>1. t \in Int
    BY OutboxAssumption DEF TypeOK
<1>2. t \div DayLength \in Int /\ t % DayLength \in Int
    BY <1>1, OutboxAssumption
<1> QED
    BY <1>2, OutboxAssumption DEF SortKey

-----------------------------------------------------------------------------
(* Type correctness.                                                        *)

\* A row in hand is a row of the table, with the attempts it was listed with.
LEMMA RowInHand ==
    ASSUME TypeOK, NEW w \in Workers, pc[w] \in InFlight
    PROVE  row[w].id \in Deliveries /\ row[w].attempts \in Nat
BY DEF TypeOK, Snapshot

\* The two counters of a row can be incremented.
LEMMA OneMore ==
    ASSUME TypeOK, NEW d \in Deliveries
    PROVE  attempts[d] + 1 \in Nat /\ copies[d] + 1 \in Nat
<1>1. attempts \in [Deliveries -> Nat] /\ copies \in [Deliveries -> Nat]
    BY DEF TypeOK
<1>2. attempts[d] \in Nat /\ copies[d] \in Nat
    BY <1>1
<1> QED
    BY <1>2

\* Recording an outcome keeps the three columns it writes well typed.
LEMMA RecordType ==
    ASSUME TypeOK, NEW d \in Deliveries, NEW outcome \in {"sent", "failed"},
           NEW next \in NoTime..(now + MaxDelay), Record(d, outcome, next)
    PROVE  /\ status' \in [Deliveries -> Statuses]
           /\ lockedAt' \in [Deliveries -> Int]
           /\ nextAttemptAt' \in [Deliveries -> NoTime..(now + MaxDelay)]
BY DEF Record, TypeOK, Statuses

\* Every step of the clock, of a use case or of a worker keeps the types.
LEMMA TypeStep ==
    ASSUME TypeOK, [Next]_vars
    PROVE  TypeOK'
<1> USE OutboxAssumption DEF Stages, InFlight, table, local, history
<1>1. CASE Advance
    BY <1>1 DEF Advance, TypeOK
<1>2. ASSUME NEW d \in Deliveries, Enqueue(d) PROVE TypeOK'
    BY <1>2 DEF Enqueue, TypeOK, Statuses
<1>3. ASSUME NEW w \in Workers, Tick(w) PROVE TypeOK'
    BY <1>3 DEF Tick, TypeOK
<1>4. ASSUME NEW w \in Workers, SkipWithoutSmtp(w) PROVE TypeOK'
    BY <1>4 DEF SkipWithoutSmtp, TypeOK
<1>5. ASSUME NEW w \in Workers, List(w) PROVE TypeOK'
  <2>1. Listed(at[w]) \subseteq Snapshot
    <3>1. \A d \in Deliveries : attempts[d] \in Nat /\ SortKey(d) \in Int
      BY SortKeyType DEF TypeOK
    <3> QED
      BY <3>1 DEF Listed, Snapshot
  <2>2. batch' \in [Workers -> SUBSET Snapshot]
    BY <1>5, <2>1 DEF List, TypeOK
  <2> QED
    BY <1>5, <2>2 DEF List, TypeOK
<1>6. ASSUME NEW w \in Workers, Finish(w) PROVE TypeOK'
    BY <1>6 DEF Finish, TypeOK
<1>7. ASSUME NEW w \in Workers, Claim(w) PROVE TypeOK'
  <2>1. PICK r \in batch[w] : Claim(w)!2!(r)
    BY <1>7 DEF Claim
  <2>2. r \in Snapshot /\ r.id \in Deliveries
    BY DEF Snapshot, TypeOK
  <2>3. UNCHANGED <<now, createdAt, nextAttemptAt, at, copies, faults>>
    BY <1>7 DEF Claim
  <2>4. batch' \in [Workers -> SUBSET Snapshot]
    BY <2>1 DEF TypeOK
  <2>5. CASE Claimable(r.id, at[w])
    <3>1. /\ status' = [status EXCEPT ![r.id] = "processing"]
          /\ lockedAt' = [lockedAt EXCEPT ![r.id] = at[w]]
          /\ attempts' = [attempts EXCEPT ![r.id] = @ + 1]
          /\ row' = [row EXCEPT ![w] = r]
          /\ pc' = [pc EXCEPT ![w] = "claimed"]
          /\ excused' \in {excused, excused \cup {r.id}}
      BY <2>1, <2>5
    <3>2. TypeOK'
      <4>1. /\ status' \in [Deliveries -> Statuses]
            /\ lockedAt' \in [Deliveries -> Int]
            /\ attempts' \in [Deliveries -> Nat]
        <5>1. attempts[r.id] + 1 \in Nat
          BY <2>2, OneMore
        <5> QED
          BY <2>2, <3>1, <5>1 DEF TypeOK, Statuses
      <4>2. /\ row' \in [Workers -> Snapshot \cup {NoRow}]
            /\ pc' \in [Workers -> Stages]
            /\ \A v \in Workers : pc'[v] \in InFlight => row'[v] \in Snapshot
        BY <2>2, <3>1 DEF TypeOK
      <4>3. excused' \subseteq Deliveries
        BY <2>2, <3>1 DEF TypeOK
      <4> QED
        BY <2>3, <2>4, <4>1, <4>2, <4>3 DEF TypeOK
    <3> QED
      BY <3>2
  <2>6. CASE ~Claimable(r.id, at[w])
    BY <2>1, <2>3, <2>4, <2>6 DEF TypeOK
  <2> QED
    BY <2>5, <2>6
<1>8. ASSUME NEW w \in Workers, Transmit(w) PROVE TypeOK'
  <2>1. row[w].id \in Deliveries
    BY <1>8, RowInHand DEF Transmit
  <2>2. copies' \in [Deliveries -> Nat]
    <3>1. copies[row[w].id] + 1 \in Nat
      BY <2>1, OneMore
    <3> QED
      BY <1>8, <2>1, <3>1 DEF Transmit, TypeOK
  <2> QED
    BY <1>8, <2>2 DEF Transmit, TypeOK
<1>9. ASSUME NEW w \in Workers, RejectMalformed(w) PROVE TypeOK'
    BY <1>9 DEF RejectMalformed, TypeOK
<1>10. ASSUME NEW w \in Workers, MarkSent(w) PROVE TypeOK'
  <2>1. row[w].id \in Deliveries
    BY <1>10, RowInHand DEF MarkSent
  <2>2. /\ status' \in [Deliveries -> Statuses]
        /\ lockedAt' \in [Deliveries -> Int]
        /\ nextAttemptAt' \in [Deliveries -> NoTime..(now + MaxDelay)]
    <3>1. NoTime \in NoTime..(now + MaxDelay)
      BY DEF TypeOK
    <3> QED
      BY <1>10, <2>1, <3>1, RecordType DEF MarkSent
  <2> QED
    BY <1>10, <2>2 DEF MarkSent, TypeOK
<1>11. ASSUME NEW w \in Workers, MarkFailed(w) PROVE TypeOK'
  <2>1. row[w].id \in Deliveries /\ row[w].attempts \in Nat
    BY <1>11, RowInHand DEF MarkFailed
  <2>2. at[w] + RetryDelay(row[w].attempts + 1) \in NoTime..(now + MaxDelay)
    BY <2>1, RetryDelayBounded DEF TypeOK
  <2>3. /\ status' \in [Deliveries -> Statuses]
        /\ lockedAt' \in [Deliveries -> Int]
        /\ nextAttemptAt' \in [Deliveries -> NoTime..(now + MaxDelay)]
    BY <1>11, <2>1, <2>2, RecordType DEF MarkFailed
  <2> QED
    BY <1>11, <2>3 DEF MarkFailed, TypeOK
<1>12. ASSUME NEW w \in Workers, Refuse(w) PROVE TypeOK'
    BY <1>12 DEF Refuse, SendThrows, TypeOK
<1>13. ASSUME NEW w \in Workers, LoseReply(w) PROVE TypeOK'
  <2>1. row[w].id \in Deliveries
    BY <1>13, RowInHand DEF LoseReply
  <2>2. copies' \in [Deliveries -> Nat] /\ excused' \subseteq Deliveries
    <3>1. copies[row[w].id] + 1 \in Nat
      BY <2>1, OneMore
    <3> QED
      BY <1>13, <2>1, <3>1 DEF LoseReply, TypeOK
  <2> QED
    BY <1>13, <2>2 DEF LoseReply, TypeOK
<1>14. ASSUME NEW w \in Workers, MarkSentFails(w) PROVE TypeOK'
  <2>1. row[w].id \in Deliveries
    BY <1>14, RowInHand DEF MarkSentFails
  <2>2. excused' \subseteq Deliveries
    BY <1>14, <2>1 DEF MarkSentFails, TypeOK
  <2> QED
    BY <1>14, <2>2 DEF MarkSentFails, TypeOK
<1>15. ASSUME NEW w \in Workers, Abandon(w) PROVE TypeOK'
  <2>1. excused' \subseteq Deliveries
    BY <1>15, RowInHand DEF Abandon, TypeOK
  <2> QED
    BY <1>15, <2>1 DEF Abandon, TypeOK
<1>16. CASE UNCHANGED vars
    BY <1>16 DEF vars, TypeOK
<1> QED
    BY <1>1, <1>2, <1>3, <1>4, <1>5, <1>6, <1>7, <1>8, <1>9, <1>10, <1>11,
       <1>12, <1>13, <1>14, <1>15, <1>16
    DEF Next, Proceed, Fault


-----------------------------------------------------------------------------
(* The inductive invariant.                                                 *)

\* The safety parts of OutboxInv, without the types.
Parts ==
    /\ OnlyExcusedDuplicates
    /\ SentWasDelivered
    /\ ClaimsExclude
    /\ OwnerMatchesRow
    /\ CopiesAccounted
    /\ ListedExist
    /\ AbsentUntouched

\* A step that touches no row, no history and no worker in flight keeps Parts.
LEMMA QuietStep ==
    ASSUME TypeOK, TypeOK', Parts, NEW w \in Workers, NEW stage \in Stages \ InFlight,
           pc[w] \notin InFlight, pc' = [pc EXCEPT ![w] = stage],
           UNCHANGED <<status, row, copies, excused>>,
           \A v \in Workers : \A r \in batch'[v] : status[r.id] # "absent"
    PROVE  Parts'
<1>1. \A v \in Workers, d \in Deliveries : Working(v, d)' <=> Working(v, d)
    BY DEF Working, TypeOK
<1>2. \A v \in Workers : pc'[v] \in InFlight => pc'[v] = pc[v]
    BY DEF TypeOK
<1>3. \A v \in Workers, d \in Deliveries : Working(v, d) => pc'[v] = pc[v]
    BY DEF Working, TypeOK
<1>4. OnlyExcusedDuplicates' /\ SentWasDelivered' /\ AbsentUntouched'
    BY DEF Parts, OnlyExcusedDuplicates, SentWasDelivered, AbsentUntouched
<1>5. ClaimsExclude' /\ OwnerMatchesRow' /\ CopiesAccounted'
    BY <1>1, <1>3 DEF Parts, ClaimsExclude, OwnerMatchesRow, CopiesAccounted
<1>6. ListedExist'
    BY <1>2 DEF Parts, ListedExist, InFlight
<1> QED
    BY <1>4, <1>5, <1>6 DEF Parts

\* A step of the clock changes nothing Parts speaks of.
LEMMA ClockStep ==
    ASSUME Parts, UNCHANGED <<status, pc, row, batch, copies, excused>>
    PROVE  Parts'
BY DEF Parts, OnlyExcusedDuplicates, SentWasDelivered, ClaimsExclude,
       OwnerMatchesRow, CopiesAccounted, ListedExist, AbsentUntouched, Working

\* A new row has no copy and no worker.
LEMMA EnqueueStep ==
    ASSUME TypeOK, Parts, NEW d \in Deliveries, Enqueue(d)
    PROVE  Parts'
<1> USE DEF Enqueue, local, history, Parts, TypeOK
<1>1. \A w \in Workers, e \in Deliveries : Working(w, e)' <=> Working(w, e)
    BY DEF Working
<1>2. \A w \in Workers : ~Working(w, d)
    BY DEF ListedExist, Working
<1>3. copies[d] = 0 /\ d \notin excused
    BY DEF AbsentUntouched
<1>4. OnlyExcusedDuplicates' /\ SentWasDelivered' /\ AbsentUntouched'
    BY DEF OnlyExcusedDuplicates, SentWasDelivered, AbsentUntouched
<1>5. ClaimsExclude' /\ OwnerMatchesRow' /\ CopiesAccounted'
    BY <1>1, <1>2, <1>3 DEF ClaimsExclude, OwnerMatchesRow, CopiesAccounted
<1>6. ListedExist'
    BY DEF ListedExist, Snapshot, InFlight
<1> QED
    BY <1>4, <1>5, <1>6

\* A claim finds a row without an owner, or one whose lock has expired and
\* which is excused from then on.
LEMMA ClaimStep ==
    ASSUME TypeOK, Parts, NEW w \in Workers, Claim(w)
    PROVE  Parts'
<1>1. PICK r \in batch[w] : Claim(w)!2!(r)
    BY DEF Claim
<1>2. r.id \in Deliveries /\ status[r.id] # "absent" /\ r \in Snapshot
    BY DEF TypeOK, Snapshot, Parts, ListedExist
<1>3. pc[w] = "listed" /\ copies' = copies
    BY DEF Claim
<1>4. CASE ~Claimable(r.id, at[w])
  <2>1. \A v \in Workers : batch'[v] \subseteq batch[v]
    BY <1>1 DEF TypeOK
  <2> QED
    BY <1>1, <1>3, <1>4, <2>1 DEF Parts, OnlyExcusedDuplicates, SentWasDelivered,
       ClaimsExclude, OwnerMatchesRow, CopiesAccounted, ListedExist, AbsentUntouched,
       Working
<1>5. CASE Claimable(r.id, at[w])
  <2> DEFINE d == r.id
  <2>1. /\ status' = [status EXCEPT ![d] = "processing"]
        /\ row' = [row EXCEPT ![w] = r]
        /\ pc' = [pc EXCEPT ![w] = "claimed"]
        /\ batch' = [batch EXCEPT ![w] = @ \ {r}]
        /\ excused' = IF (\E v \in Workers \ {w} : Working(v, d)) /\ LockExpired(d, now)
                       THEN excused \cup {d} ELSE excused
    BY <1>1, <1>5
  <2>2. status[d] # "sent"
    BY <1>5 DEF Claimable, Retriable, LockExpired
  <2>3. status[d] = "processing" => LockExpired(d, now)
    <3>1. /\ lockedAt[d] \in Int /\ at[w] \in Int /\ now \in Int /\ StaleLock \in Int
          /\ at[w] <= now
      <4>1. /\ lockedAt \in [Deliveries -> Int] /\ at \in [Workers -> 0..Horizon]
            /\ now \in 0..Horizon /\ at[w] <= now
        BY DEF TypeOK
      <4> QED
        <5>1. lockedAt[d] \in Int
          BY <1>2, <4>1
        <5>2. at[w] \in 0..Horizon
          BY <4>1
        <5>3. Horizon \in Nat /\ StaleLock \in Nat
          BY OutboxAssumption
        <5> QED
          BY <4>1, <5>1, <5>2, <5>3
    <3>2. status[d] = "processing" =>
              lockedAt[d] # NoTime /\ lockedAt[d] <= at[w] - StaleLock
      BY <1>5 DEF Claimable, Retriable, LockExpired
    <3> QED
      BY <3>1, <3>2 DEF LockExpired
  <2>4. d \notin excused' => \A v \in Workers : ~Working(v, d)
    BY <1>2, <1>3, <2>1, <2>3 DEF Working, Parts, OwnerMatchesRow, InFlight
  <2>5. d \notin excused' => copies[d] = 0
    BY <1>2, <2>1, <2>2, <2>4 DEF Parts, CopiesAccounted, TypeOK
  <2>6. /\ excused \subseteq excused'
        /\ \A e \in Deliveries \ {d} : e \in excused' => e \in excused
    BY <2>1
  <2>7. \A v \in Workers, e \in Deliveries :
            Working(v, e)' <=> IF v = w THEN e = d ELSE Working(v, e)
    BY <1>2, <2>1 DEF Working, TypeOK, InFlight
  <2>8. pc'[w] = "claimed" /\ \A v \in Workers \ {w} : pc'[v] = pc[v]
    BY <2>1 DEF TypeOK
  <2>9. ~\E e \in Deliveries : Working(w, e)
    BY <1>3 DEF Working, InFlight
  <2>10. status'[d] = "processing" /\ \A e \in Deliveries \ {d} : status'[e] = status[e]
    BY <1>2, <2>1 DEF TypeOK
  <2>11. OnlyExcusedDuplicates' /\ SentWasDelivered' /\ AbsentUntouched'
    BY <1>2, <1>3, <2>6, <2>10
    DEF Parts, OnlyExcusedDuplicates, SentWasDelivered, AbsentUntouched
  <2>12. ClaimsExclude'
    BY <2>4, <2>6, <2>7, <2>9 DEF Parts, ClaimsExclude
  <2>13. OwnerMatchesRow'
    BY <1>2, <1>3, <2>4, <2>5, <2>6, <2>7, <2>8, <2>9, <2>10 DEF Parts, OwnerMatchesRow
  <2>14. CopiesAccounted'
    BY <1>3, <2>5, <2>6, <2>7, <2>8, <2>9, <2>10, <1>2 DEF Parts, CopiesAccounted, TypeOK
  <2>15. ListedExist'
    <3>1. \A v \in Workers : batch'[v] \subseteq batch[v]
      BY <2>1 DEF TypeOK
    <3>2. \A e \in Deliveries : status[e] # "absent" => status'[e] # "absent"
      BY <2>10
    <3>3. \A v \in Workers : \A s \in batch'[v] : status'[s.id] # "absent"
      BY <3>1, <3>2 DEF Parts, ListedExist, TypeOK, Snapshot
    <3>4. \A v \in Workers : pc'[v] \in InFlight => status'[row'[v].id] # "absent"
      BY <1>2, <2>1, <2>8, <3>2 DEF Parts, ListedExist, TypeOK, Snapshot
    <3>5. \A v \in Workers : pc'[v] = "accepted" => copies'[row'[v].id] > 0
      BY <1>3, <2>1, <2>8 DEF Parts, ListedExist, TypeOK
    <3> QED
      BY <3>3, <3>4, <3>5 DEF ListedExist
  <2> QED
    BY <2>11, <2>12, <2>13, <2>14, <2>15 DEF Parts
<1> QED
    BY <1>4, <1>5


\* What a step of a worker on its row d leaves alone: the other rows, the other
\* workers, what is listed.
OnlyRow(w, d) ==
    /\ row' = row
    /\ \A v \in Workers : batch'[v] \subseteq batch[v]
    /\ \A v \in Workers \ {w} : pc'[v] = pc[v]
    /\ \A e \in Deliveries \ {d} : status'[e] = status[e] /\ copies'[e] = copies[e]
    /\ excused' \in {excused, excused \cup {d}}

\* A step of worker w on its row d keeps Parts when it leaves d itself right:
\* excused, or with one copy exactly when accepted or sent.
LEMMA RowStep ==
    ASSUME TypeOK, TypeOK', Parts, NEW w \in Workers, NEW d \in Deliveries,
           pc[w] \in InFlight, row[w].id = d, OnlyRow(w, d),
           status'[d] # "absent", copies'[d] >= copies[d],
           status'[d] = "sent" => copies'[d] > 0,
           pc'[w] = "accepted" => copies'[d] > 0,
           d \notin excused' =>
               /\ pc'[w] \in InFlight => status'[d] = "processing"
               /\ copies'[d] \in {0, 1}
               /\ copies'[d] = 1 <=> pc'[w] = "accepted" \/ status'[d] = "sent"
    PROVE  Parts'
<1> DEFINE Others == Deliveries \ {d}
<1>1. \A e \in Others : /\ status'[e] = status[e] /\ copies'[e] = copies[e]
                        /\ e \in excused' <=> e \in excused
    BY DEF OnlyRow
<1>2. \A v \in Workers \ {w}, e \in Deliveries :
          /\ Working(v, e)' <=> Working(v, e)
          /\ pc'[v] = pc[v]
    BY DEF OnlyRow, Working
<1>3. \A e \in Others : ~Working(w, e) /\ ~Working(w, e)'
    BY DEF OnlyRow, Working
<1>4. Working(w, d) /\ (Working(w, d)' <=> pc'[w] \in InFlight)
    BY DEF OnlyRow, Working
<1>5. d \notin excused' => \A v \in Workers \ {w} : ~Working(v, d)
    BY <1>4 DEF OnlyRow, Parts, ClaimsExclude
<1>6. OnlyExcusedDuplicates'
    BY <1>1 DEF Parts, OnlyExcusedDuplicates
<1>7. SentWasDelivered'
    BY <1>1 DEF Parts, SentWasDelivered
<1>8. AbsentUntouched'
    BY <1>1 DEF Parts, AbsentUntouched
<1>9. ClaimsExclude'
    BY <1>1, <1>2, <1>3, <1>5 DEF Parts, ClaimsExclude
<1>10. OwnerMatchesRow'
    BY <1>1, <1>2, <1>3, <1>4, <1>5 DEF Parts, OwnerMatchesRow
<1>11. CopiesAccounted'
    BY <1>1, <1>2, <1>3, <1>4 DEF Parts, CopiesAccounted, InFlight
<1>12. ListedExist'
  <2>1. \A e \in Deliveries : status[e] # "absent" => status'[e] # "absent"
    BY <1>1
  <2>2. \A e \in Deliveries : copies[e] > 0 => copies'[e] > 0
    BY <1>1 DEF TypeOK
  <2>3. \A v \in Workers : \A r \in batch'[v] : status'[r.id] # "absent"
    BY <2>1 DEF OnlyRow, Parts, ListedExist, TypeOK, Snapshot
  <2>4. \A v \in Workers : pc'[v] \in InFlight => status'[row'[v].id] # "absent"
    BY <1>2, <2>1 DEF OnlyRow, Parts, ListedExist, TypeOK, Snapshot
  <2>5. \A v \in Workers : pc'[v] = "accepted" => copies'[row'[v].id] > 0
    BY <1>2, <2>2 DEF OnlyRow, Parts, ListedExist, TypeOK, Snapshot, InFlight
  <2> QED
    BY <2>3, <2>4, <2>5 DEF ListedExist
<1> QED
    BY <1>6, <1>7, <1>8, <1>9, <1>10, <1>11, <1>12 DEF Parts


\* The steps of a worker on the row it has claimed.
LEMMA WorkerStep ==
    ASSUME TypeOK, TypeOK', Parts, NEW w \in Workers,
           \/ Transmit(w) \/ RejectMalformed(w) \/ Refuse(w) \/ LoseReply(w)
           \/ MarkSent(w) \/ MarkSentFails(w) \/ MarkFailed(w)
           \/ Abandon(w) /\ pc[w] \in InFlight
    PROVE  Parts'
<1> DEFINE d == row[w].id
<1>1. pc[w] \in InFlight
    BY DEF Transmit, RejectMalformed, Refuse, SendThrows, LoseReply, MarkSent,
           MarkSentFails, MarkFailed, InFlight
<1>2. d \in Deliveries
    BY <1>1, RowInHand
<1>3. /\ status[d] \in Statuses \ {"absent"} /\ copies[d] \in Nat
      /\ pc[w] = "accepted" => copies[d] > 0
      /\ status[d] = "sent" => copies[d] > 0
    BY <1>1, <1>2 DEF TypeOK, Parts, ListedExist, SentWasDelivered
<1>4. d \notin excused => /\ status[d] = "processing"
                          /\ copies[d] = IF pc[w] = "accepted" THEN 1 ELSE 0
    BY <1>1, <1>2 DEF Parts, OwnerMatchesRow, Working
<1> HIDE DEF d
<1>5. CASE Transmit(w)
  <2>1. /\ copies' = [copies EXCEPT ![d] = @ + 1] /\ pc' = [pc EXCEPT ![w] = "accepted"]
        /\ pc[w] = "claimed" /\ UNCHANGED <<status, row, batch, excused>>
    BY <1>5 DEF Transmit, table, d
  <2>2. copies'[d] = copies[d] + 1 /\ pc'[w] = "accepted" /\ OnlyRow(w, d)
    BY <1>2, <2>1 DEF TypeOK, OnlyRow
  <2> QED
    BY <1>1, <1>2, <1>3, <1>4, <2>1, <2>2, RowStep DEF d, InFlight
<1>6. CASE RejectMalformed(w) \/ Refuse(w)
  <2>1. /\ pc' = [pc EXCEPT ![w] = "rejected"]
        /\ pc[w] = "claimed" /\ UNCHANGED <<status, copies, row, batch, excused>>
    BY <1>6 DEF RejectMalformed, Refuse, SendThrows, table, history
  <2>2. pc'[w] = "rejected" /\ OnlyRow(w, d)
    BY <1>2, <2>1 DEF TypeOK, OnlyRow
  <2> QED
    BY <1>1, <1>2, <1>3, <1>4, <2>1, <2>2, RowStep DEF d, InFlight
<1>7. CASE LoseReply(w)
  <2>1. /\ copies' = [copies EXCEPT ![d] = @ + 1] /\ pc' = [pc EXCEPT ![w] = "rejected"]
        /\ excused' = excused \cup {d} /\ UNCHANGED <<status, row, batch>>
    BY <1>7 DEF LoseReply, table, d
  <2>2. copies'[d] = copies[d] + 1 /\ pc'[w] = "rejected" /\ OnlyRow(w, d)
    BY <1>2, <2>1 DEF TypeOK, OnlyRow
  <2> QED
    BY <1>1, <1>2, <1>3, <2>1, <2>2, RowStep DEF d
<1>8. CASE MarkSentFails(w)
  <2>1. /\ pc' = [pc EXCEPT ![w] = "rejected"] /\ excused' = excused \cup {d}
        /\ UNCHANGED <<status, copies, row, batch>>
    BY <1>8 DEF MarkSentFails, table, d
  <2>2. pc'[w] = "rejected" /\ OnlyRow(w, d)
    BY <1>2, <2>1 DEF TypeOK, OnlyRow
  <2> QED
    BY <1>1, <1>2, <1>3, <2>1, <2>2, RowStep DEF d
<1>9. ASSUME MarkSent(w) \/ MarkFailed(w) PROVE Parts'
  <2> DEFINE outcome == IF pc[w] = "accepted" THEN "sent" ELSE "failed"
  <2>1. /\ pc' = [pc EXCEPT ![w] = "listed"]
        /\ pc[w] \in {"accepted", "rejected"}
        /\ UNCHANGED <<copies, row, batch, excused>>
        /\ status' = IF status[d] = "processing"
                     THEN [status EXCEPT ![d] = outcome] ELSE status
    BY <1>9 DEF MarkSent, MarkFailed, Record, history, d
  <2>2. /\ pc'[w] = "listed" /\ OnlyRow(w, d)
        /\ status'[d] = IF status[d] = "processing" THEN outcome ELSE status[d]
    BY <1>2, <2>1 DEF TypeOK, OnlyRow
  <2> QED
    BY <1>1, <1>2, <1>3, <1>4, <2>1, <2>2, RowStep DEF d, InFlight
<1>10. CASE Abandon(w)
  <2>1. /\ pc' = [pc EXCEPT ![w] = "idle"] /\ batch' = [batch EXCEPT ![w] = {}]
        /\ excused' = IF pc[w] = "accepted" THEN excused \cup {d} ELSE excused
        /\ UNCHANGED <<status, copies, row>>
    BY <1>10 DEF Abandon, table, d
  <2>2. pc'[w] = "idle" /\ OnlyRow(w, d)
    BY <1>2, <2>1 DEF TypeOK, OnlyRow
  <2> QED
    BY <1>1, <1>2, <1>3, <1>4, <2>1, <2>2, RowStep DEF d, InFlight
<1> QED
    BY <1>5, <1>6, <1>7, <1>8, <1>9, <1>10


\* The empty table satisfies the invariant.
LEMMA InitInv == Init => OutboxInv
<1> SUFFICES ASSUME Init PROVE OutboxInv
    OBVIOUS
<1> USE DEF Init
<1>1. TypeOK
    BY OutboxAssumption DEF TypeOK, Statuses, Stages, InFlight
<1>2. OnlyExcusedDuplicates /\ SentWasDelivered /\ CopiesAccounted /\ AbsentUntouched
    BY DEF OnlyExcusedDuplicates, SentWasDelivered, CopiesAccounted, AbsentUntouched
<1>3. ClaimsExclude /\ OwnerMatchesRow /\ ListedExist
    BY DEF ClaimsExclude, OwnerMatchesRow, ListedExist, Working, InFlight
<1> QED
    BY <1>1, <1>2, <1>3 DEF OutboxInv

\* Every step keeps the invariant.
LEMMA InvStep ==
    ASSUME OutboxInv, [Next]_vars
    PROVE  OutboxInv'
<1> USE DEF table, local, history
<1>1. TypeOK /\ TypeOK' /\ Parts
    BY TypeStep DEF OutboxInv, Parts
<1>2. CASE Advance
    BY <1>1, <1>2, ClockStep DEF Advance, OutboxInv, Parts
<1>3. ASSUME NEW d \in Deliveries, Enqueue(d) PROVE OutboxInv'
    BY <1>1, <1>3, EnqueueStep DEF OutboxInv, Parts
<1>4. ASSUME NEW w \in Workers, Tick(w) \/ SkipWithoutSmtp(w) \/ Finish(w) \/ List(w)
      PROVE  OutboxInv'
  <2>1. PICK stage \in Stages \ InFlight : pc' = [pc EXCEPT ![w] = stage]
    BY <1>4 DEF Tick, SkipWithoutSmtp, Finish, List, Stages, InFlight
  <2>2. pc[w] \notin InFlight /\ UNCHANGED <<status, row, copies, excused>>
    BY <1>4 DEF Tick, SkipWithoutSmtp, Finish, List, InFlight
  <2>3. \A v \in Workers : \A r \in batch'[v] : status[r.id] # "absent"
    <3>1. CASE Tick(w) \/ SkipWithoutSmtp(w) \/ Finish(w)
      BY <1>1, <3>1 DEF Tick, SkipWithoutSmtp, Finish, Parts, ListedExist
    <3>2. CASE List(w)
      <4>1. \A r \in Listed(at[w]) : status[r.id] # "absent"
        BY DEF Listed, IsDue, Retriable, LockExpired
      <4>2. batch'[w] \subseteq Listed(at[w]) /\ \A v \in Workers \ {w} : batch'[v] = batch[v]
        BY <1>1, <3>2 DEF List, TypeOK
      <4> QED
        BY <1>1, <4>1, <4>2 DEF Parts, ListedExist
    <3> QED
      BY <1>4, <3>1, <3>2
  <2> QED
    BY <1>1, <2>1, <2>2, <2>3, QuietStep DEF OutboxInv, Parts
<1>5. ASSUME NEW w \in Workers, Claim(w) PROVE OutboxInv'
    BY <1>1, <1>5, ClaimStep DEF OutboxInv, Parts
<1>6. ASSUME NEW w \in Workers,
             \/ Transmit(w) \/ RejectMalformed(w) \/ Refuse(w) \/ LoseReply(w)
             \/ MarkSent(w) \/ MarkSentFails(w) \/ MarkFailed(w)
             \/ Abandon(w) /\ pc[w] \in InFlight
      PROVE  OutboxInv'
    BY <1>1, <1>6, WorkerStep DEF OutboxInv, Parts
<1>7. ASSUME NEW w \in Workers, Abandon(w), pc[w] \notin InFlight PROVE OutboxInv'
  <2>1. pc' = [pc EXCEPT ![w] = "idle"] /\ UNCHANGED <<status, row, copies, excused>>
    BY <1>7 DEF Abandon, InFlight
  <2>2. \A v \in Workers : batch'[v] \subseteq batch[v]
    BY <1>1, <1>7 DEF Abandon, TypeOK
  <2>3. "idle" \in Stages \ InFlight
    BY DEF Stages, InFlight
  <2> QED
    BY <1>1, <1>7, <2>1, <2>2, <2>3, QuietStep DEF OutboxInv, Parts, ListedExist
<1>8. CASE UNCHANGED vars
    BY <1>1, <1>8, ClockStep DEF vars, OutboxInv, Parts
<1> QED
    BY <1>2, <1>3, <1>4, <1>5, <1>6, <1>7, <1>8 DEF Next, Proceed, Fault

-----------------------------------------------------------------------------
(* The theorems.                                                            *)

\* The invariant of the outbox holds whatever the workers, the clock and the
\* faults do.
THEOREM OutboxSafe == Spec => []OutboxInv
<1> QED
    BY InitInv, InvStep, PTL DEF Spec

\* Every variable of the outbox keeps its type.
THEOREM TypeCorrect == Spec => []TypeOK
<1>1. OutboxInv => TypeOK
    BY DEF OutboxInv
<1> QED
    BY <1>1, OutboxSafe, PTL

\* However many processes drain the outbox, a second copy of a message means
\* an expired lock or a fault after the first one.
THEOREM NoUnexcusedDuplicate == Spec => []OnlyExcusedDuplicates
<1>1. OutboxInv => OnlyExcusedDuplicates
    BY DEF OutboxInv
<1> QED
    BY <1>1, OutboxSafe, PTL

\* markSent, markFailed and claimDelivery leave a sent row alone.
LEMMA SentKept ==
    ASSUME TypeOK, [Next]_vars, NEW d \in Deliveries, status[d] = "sent"
    PROVE  status'[d] = "sent" /\ attempts'[d] = attempts[d]
           /\ nextAttemptAt'[d] = nextAttemptAt[d]
<1> USE DEF table
<1>1. ASSUME NEW e \in Deliveries, Enqueue(e) PROVE UNCHANGED <<attempts, nextAttemptAt>>
                                                   /\ status'[d] = "sent"
    BY <1>1 DEF Enqueue, TypeOK
<1>2. ASSUME NEW w \in Workers, Claim(w) PROVE status'[d] = "sent" /\ attempts'[d] = attempts[d]
                                              /\ nextAttemptAt'[d] = nextAttemptAt[d]
  <2>1. PICK r \in batch[w] : Claim(w)!2!(r)
    BY <1>2 DEF Claim
  <2>2. r.id \in Deliveries /\ nextAttemptAt' = nextAttemptAt
    BY <1>2 DEF Claim, TypeOK, Snapshot
  <2>3. CASE Claimable(r.id, at[w])
    <3>1. r.id # d
      BY <2>3 DEF Claimable, Retriable, LockExpired
    <3> QED
      BY <2>1, <2>2, <2>3, <3>1 DEF TypeOK
  <2> QED
    BY <2>1, <2>2, <2>3
<1>3. ASSUME NEW w \in Workers, MarkSent(w) \/ MarkFailed(w)
      PROVE  status'[d] = "sent" /\ attempts'[d] = attempts[d]
             /\ nextAttemptAt'[d] = nextAttemptAt[d]
    BY <1>3 DEF MarkSent, MarkFailed, Record, TypeOK
<1> QED
    BY <1>1, <1>2, <1>3
    DEF Next, Proceed, Fault, Advance, Tick, SkipWithoutSmtp, List, Finish, Transmit,
        RejectMalformed, Refuse, SendThrows, LoseReply, MarkSentFails, Abandon, vars

\* Once a delivery is recorded as sent no late worker reopens it.
THEOREM SentForever == Spec => SentIsFinal
<1>1. TypeOK /\ [Next]_vars =>
          [\A d \in Deliveries :
              status[d] = "sent" =>
                 /\ status'[d] = "sent"
                 /\ attempts'[d] = attempts[d]
                 /\ nextAttemptAt'[d] = nextAttemptAt[d]]_vars
    BY SentKept
<1> QED
    BY <1>1, TypeCorrect, PTL DEF Spec, SentIsFinal


-----------------------------------------------------------------------------
(* The outbox implements the mailbox.                                       *)

Stage == [d \in Deliveries |-> StageOf(d)]

\* A step that writes status on no row changes no stage.
LEMMA StageKept == ASSUME status' = status PROVE Stage' = Stage
BY DEF Stage, StageOf

\* Reading an outcome off the row that changed.
LEMMA StageMoves ==
    ASSUME TypeOK, NEW d \in Deliveries, NEW s \in Statuses,
           status' = [status EXCEPT ![d] = s]
    PROVE  /\ s \in {"pending", "processing", "failed"} => Stage' = [Stage EXCEPT ![d] = "waiting"]
           /\ s = "sent" => Stage' = [Stage EXCEPT ![d] = "settled"]
BY DEF Stage, StageOf, TypeOK, Statuses

\* A row that is neither absent nor sent is waiting.
LEMMA StageWaiting ==
    ASSUME NEW d \in Deliveries, status[d] \notin {"absent", "sent"}
    PROVE  Stage[d] = "waiting" /\ Stage = [Stage EXCEPT ![d] = "waiting"]
BY DEF Stage, StageOf

\* Only rows never enqueued are absent from the mailbox.
LEMMA StageAbsent ==
    ASSUME NEW d \in Deliveries
    PROVE  Stage[d] = "absent" <=> status[d] = "absent"
BY DEF Stage, StageOf

\* The empty table is the empty mailbox.
LEMMA MailInitMaps == Init => Mail!MailInit
BY DEF Init, Mail!MailInit, StageOf

\* Every step of the outbox is a step of the mailbox or leaves it as it was.
LEMMA MailStepMaps ==
    ASSUME OutboxInv, OutboxInv', [Next]_vars
    PROVE  [Mail!MailNext]_Mail!mailVars
<1> USE DEF table, local, history
<1> DEFINE Same == UNCHANGED <<Stage, copies, excused>>
<1>1. Same => UNCHANGED Mail!mailVars
    BY DEF Mail!mailVars, Stage
<1>2. TypeOK /\ Parts
    BY DEF OutboxInv, Parts
<1>3. ASSUME NEW d \in Deliveries, Enqueue(d) PROVE Mail!Post(d)
  <2>1. Stage' = [Stage EXCEPT ![d] = "waiting"] /\ Stage[d] = "absent"
    BY <1>2, <1>3, StageMoves, StageAbsent DEF Enqueue, Statuses
  <2> QED
    BY <1>3, <2>1 DEF Enqueue, Mail!Post, Stage
<1>4. ASSUME NEW w \in Workers, Claim(w)
      PROVE  Same \/ \E d \in Deliveries : Mail!Suspect(d)
  <2>1. PICK r \in batch[w] : Claim(w)!2!(r)
    BY <1>4 DEF Claim
  <2>2. r.id \in Deliveries /\ status[r.id] # "absent"
    BY <1>2 DEF TypeOK, Snapshot, Parts, ListedExist
  <2>3. Stage' = Stage
    <3>1. CASE Claimable(r.id, at[w])
      <4>1. status[r.id] \notin {"absent", "sent"}
        BY <3>1 DEF Claimable, Retriable, LockExpired
      <4>2. Stage' = [Stage EXCEPT ![r.id] = "waiting"]
        BY <1>2, <2>1, <2>2, <3>1, StageMoves DEF Statuses
      <4> QED
        BY <2>2, <4>1, <4>2, StageWaiting
    <3> QED
      BY <2>1, <3>1, StageKept
  <2>4. copies' = copies /\ excused' \in {excused, excused \cup {r.id}}
    BY <1>4, <2>1 DEF Claim
  <2>5. Stage[r.id] # "absent"
    BY <2>2, StageAbsent
  <2>6. CASE excused' = excused
    BY <2>3, <2>4, <2>6
  <2>7. CASE excused' = excused \cup {r.id}
    <3>1. Mail!Suspect(r.id)
      BY <2>3, <2>4, <2>5, <2>7 DEF Mail!Suspect, Stage
    <3> QED
      BY <2>2, <3>1
  <2> QED
    BY <2>4, <2>6, <2>7
<1>5. ASSUME NEW w \in Workers, Transmit(w) \/ LoseReply(w)
      PROVE  \E d \in Deliveries : Mail!Leave(d)
  <2> DEFINE d == row[w].id
  <2>1. pc[w] = "claimed" /\ pc[w] \in InFlight
    BY <1>5 DEF Transmit, LoseReply, InFlight
  <2>2. d \in Deliveries
    BY <1>2, <2>1, RowInHand
  <2>3. Stage[d] # "absent"
    BY <1>2, <2>1, <2>2, StageAbsent DEF Parts, ListedExist
  <2>4. copies[d] = 0 \/ d \in excused
    BY <1>2, <2>1, <2>2 DEF Parts, OwnerMatchesRow, Working
  <2>5. /\ copies' = [copies EXCEPT ![d] = @ + 1]
        /\ excused' \in {excused, excused \cup {d}}
        /\ status' = status
    BY <1>5 DEF Transmit, LoseReply
  <2>6. Stage' = Stage
    BY <2>5, StageKept
  <2>7. Mail!Leave(d)
    BY <2>3, <2>4, <2>5, <2>6 DEF Mail!Leave, Stage
  <2> QED
    BY <2>2, <2>7
<1>6. ASSUME NEW w \in Workers, MarkSent(w)
      PROVE  Same \/ \E d \in Deliveries : Mail!Settle(d)
  <2> DEFINE d == row[w].id
  <2>1. pc[w] = "accepted" /\ pc[w] \in InFlight /\ UNCHANGED <<copies, excused>>
    BY <1>6 DEF MarkSent, InFlight
  <2>2. d \in Deliveries /\ copies[d] > 0
    BY <1>2, <2>1, RowInHand DEF Parts, ListedExist
  <2>3. CASE status[d] = "processing"
    <3>1. status' = [status EXCEPT ![d] = "sent"]
      BY <1>6, <2>3 DEF MarkSent, Record
    <3>2. Stage[d] = "waiting" /\ Stage' = [Stage EXCEPT ![d] = "settled"]
      BY <1>2, <2>2, <2>3, <3>1, StageMoves, StageWaiting DEF Statuses
    <3>3. Mail!Settle(d)
      BY <2>1, <2>2, <3>2 DEF Mail!Settle, Stage
    <3> QED
      BY <2>2, <3>3
  <2>4. CASE status[d] # "processing"
    BY <1>6, <2>1, <2>4, StageKept DEF MarkSent, Record
  <2> QED
    BY <2>3, <2>4
<1>7. ASSUME NEW w \in Workers, MarkFailed(w) PROVE Same
  <2> DEFINE d == row[w].id
  <2>1. d \in Deliveries /\ UNCHANGED <<copies, excused>>
    BY <1>2, <1>7, RowInHand DEF MarkFailed, InFlight
  <2>2. CASE status[d] = "processing"
    <3>1. status' = [status EXCEPT ![d] = "failed"]
      BY <1>7, <2>2 DEF MarkFailed, Record
    <3>2. Stage' = [Stage EXCEPT ![d] = "waiting"] /\ Stage = [Stage EXCEPT ![d] = "waiting"]
      BY <1>2, <2>1, <2>2, <3>1, StageMoves, StageWaiting DEF Statuses
    <3> QED
      BY <2>1, <3>2
  <2>3. CASE status[d] # "processing"
    BY <1>7, <2>1, <2>3, StageKept DEF MarkFailed, Record
  <2> QED
    BY <2>2, <2>3
<1>8. ASSUME NEW w \in Workers, MarkSentFails(w) \/ Abandon(w)
      PROVE  Same \/ \E d \in Deliveries : Mail!Suspect(d)
  <2> DEFINE d == row[w].id
  <2>1. Stage' = Stage /\ copies' = copies
    BY <1>8, StageKept DEF MarkSentFails, Abandon
  <2>2. CASE pc[w] = "accepted" /\ excused' = excused \cup {d}
    <3>1. d \in Deliveries /\ Stage[d] # "absent"
      BY <1>2, <2>2, RowInHand, StageAbsent DEF Parts, ListedExist, InFlight
    <3>2. Mail!Suspect(d)
      BY <2>1, <2>2, <3>1 DEF Mail!Suspect, Stage
    <3> QED
      BY <3>1, <3>2
  <2>3. CASE excused' = excused
    BY <2>1, <2>3
  <2> QED
    BY <1>8, <2>2, <2>3 DEF MarkSentFails, Abandon
<1>9. ASSUME \/ Advance \/ UNCHANGED vars
             \/ \E w \in Workers : \/ Tick(w) \/ SkipWithoutSmtp(w) \/ List(w) \/ Finish(w)
                                   \/ RejectMalformed(w) \/ Refuse(w)
      PROVE  Same
    BY <1>9, StageKept DEF Advance, Tick, SkipWithoutSmtp, List, Finish, RejectMalformed,
       Refuse, SendThrows, vars
<1>10. Same \/ Mail!MailNext
    BY <1>3, <1>4, <1>5, <1>6, <1>7, <1>8, <1>9 DEF Next, Proceed, Fault, Mail!MailNext
<1> QED
    BY <1>1, <1>10

\* The table and its workers implement at-least-once delivery, exactly once
\* for every message nothing excused.
THEOREM ImplementsMailbox == Spec => MailboxPromise
<1> QED
    BY MailInitMaps, MailStepMaps, OutboxSafe, PTL DEF Spec, MailboxPromise, Mail!MailSpec
==============================================================================
