------------------------- MODULE NotificationOutbox -------------------------
(***************************************************************************)
(* The e-mail outbox: the table notification_deliveries and the workers    *)
(* that drain it (notification-repository.ts, notification-worker.ts).     *)
(* Every API process runs a worker over the same database; the only thing  *)
(* that keeps two of them apart is the claim, an UPDATE guarded by the     *)
(* row's status and by the age of locked_at.                               *)
(*                                                                         *)
(* Each variable named like a column holds that column for every row.  A   *)
(* worker's local state is what runOnce keeps across its awaits: the time  *)
(* it read when the tick began, the rows it listed with the attempts they  *)
(* had then, and the row in hand.  One step is one statement sent to the   *)
(* database or one answer of the SMTP server.                              *)
(***************************************************************************)
EXTENDS Integers, FiniteSets

CONSTANTS
    Workers,        \* API processes that run a NotificationWorker
    Mailers,        \* those whose environment configures SMTP
    Deliveries,     \* delivery ids; ULIDs, so ordered: numbers
    Malformed,      \* deliveries whose payload emailPayload rejects
    StaleLock,      \* STALE_LOCK_MS
    MaxDelay,       \* the ceiling of retryAt, 24 * 60 minutes
    BackoffCap,     \* the largest exponent of retryAt, 10
    BatchLimit,     \* LIMIT of listDueDeliveries, 25
    DayLength,      \* instants in a day, the part of a timestamp before ' ' or 'T'
    Horizon,        \* bound: last instant of the clock
    MaxFaults       \* bound: faults of the environment in a behaviour

ASSUME OutboxAssumption ==
    /\ Mailers \subseteq Workers
    /\ Deliveries \subseteq Nat
    /\ Malformed \subseteq Deliveries
    /\ StaleLock \in Nat \ {0}
    /\ MaxDelay \in Nat \ {0}
    /\ BackoffCap \in Nat
    /\ BatchLimit \in Nat \ {0}
    /\ DayLength \in Nat \ {0}
    /\ Horizon \in Nat
    /\ MaxFaults \in Nat

\* 2 ^ n of retryAt is a natural number for each exponent the code can reach.
ASSUME BackoffAssumption == \A n \in 0..BackoffCap : 2^n \in Nat

VARIABLES
    now,            \* the database clock, in units of the constants above
    status, attempts, createdAt, nextAttemptAt, lockedAt,
    pc, at, batch, row,
    copies,         \* history: messages the SMTP server accepted, by delivery
    excused,        \* history: deliveries a documented fault may duplicate
    faults

table   == <<status, attempts, createdAt, nextAttemptAt, lockedAt>>
local   == <<pc, at, batch, row>>
history == <<copies, excused>>
vars    == <<now, table, local, history, faults>>

-----------------------------------------------------------------------------
NoTime   == -1
Statuses == {"absent", "pending", "processing", "failed", "sent"}
Stages   == {"idle", "ticked", "listed", "claimed", "accepted", "rejected"}

InFlight == {"claimed", "accepted", "rejected"}

\* The columns of a listed row that the worker still uses afterwards.
Snapshot == [id : Deliveries, attempts : Nat, key : Int]

NoRow == [id |-> NoTime, attempts |-> 0, key |-> 0]

Least(a, b) == IF a <= b THEN a ELSE b

RetryDelay(attempt) == Least(MaxDelay, 2^Least(attempt, BackoffCap))

\* The WHERE of listDueDeliveries.
Retriable(d, t) ==
    /\ status[d] \in {"pending", "failed"}
    /\ nextAttemptAt[d] = NoTime \/ nextAttemptAt[d] <= t
LockExpired(d, t) ==
    /\ status[d] = "processing"
    /\ lockedAt[d] # NoTime
    /\ lockedAt[d] <= t - StaleLock
IsDueOnlyUnlocked(d, t) == Retriable(d, t)                  \* mutant
IsDue(d, t) == Retriable(d, t) \/ LockExpired(d, t)

\* The WHERE of claimDelivery, evaluated again when the row is taken.
ClaimableUnlessSent(d, t) == status[d] # "sent"             \* mutant
ClaimableWhileBusy(d, t) ==                                 \* mutant
    Retriable(d, t) \/ status[d] = "processing"
Claimable(d, t) == Retriable(d, t) \/ LockExpired(d, t)

\* ORDER BY COALESCE(next_attempt_at, created_at), id.  The two columns are
\* text in two formats: created_at is 'YYYY-MM-DD hh:mm:ss' and next_attempt_at
\* 'YYYY-MM-DDThh:mm:ss.sssZ', so that within one day every row never retried
\* sorts before every row that was.
SortKey(d) ==
    LET retried == nextAttemptAt[d] # NoTime
        t       == IF retried THEN nextAttemptAt[d] ELSE createdAt[d]
    IN  2 * DayLength * (t \div DayLength)
          + (IF retried THEN DayLength ELSE 0) + (t % DayLength)
Precedes(r, s) == r.key < s.key \/ (r.key = s.key /\ r.id < s.id)
Listed(t) == {[id |-> d, attempts |-> attempts[d], key |-> SortKey(d)] :
                 d \in {e \in Deliveries : IsDue(e, t)}}

\* Worker w has claimed d and has not yet recorded how the delivery ended.
Working(w, d) == pc[w] \in InFlight /\ row[w].id = d

Init ==
    /\ now = 0
    /\ status = [d \in Deliveries |-> "absent"]
    /\ attempts = [d \in Deliveries |-> 0]
    /\ createdAt = [d \in Deliveries |-> NoTime]
    /\ nextAttemptAt = [d \in Deliveries |-> NoTime]
    /\ lockedAt = [d \in Deliveries |-> NoTime]
    /\ pc = [w \in Workers |-> "idle"]
    /\ at = [w \in Workers |-> 0]
    /\ batch = [w \in Workers |-> {}]
    /\ row = [w \in Workers |-> NoRow]
    /\ copies = [d \in Deliveries |-> 0]
    /\ excused = {}
    /\ faults = 0

-----------------------------------------------------------------------------
(* The clock, and the use cases that fill the outbox.                       *)

Advance ==
    /\ now < Horizon
    /\ now' = now + 1
    /\ UNCHANGED <<table, local, history, faults>>

\* enqueue: the row is inserted once, whoever else posts the same fact.
Enqueue(d) ==
    /\ status[d] = "absent"
    /\ status' = [status EXCEPT ![d] = "pending"]
    /\ createdAt' = [createdAt EXCEPT ![d] = now]
    /\ UNCHANGED <<now, attempts, nextAttemptAt, lockedAt, local, history, faults>>

-----------------------------------------------------------------------------
(* One worker.                                                              *)

\* tick: the running flag keeps one batch per process; the instant read here
\* serves the whole batch.
Tick(w) ==
    /\ pc[w] = "idle"
    /\ pc' = [pc EXCEPT ![w] = "ticked"]
    /\ at' = [at EXCEPT ![w] = now]
    /\ UNCHANGED <<now, table, batch, row, history, faults>>

\* deliverPendingEmails without SMTP leaves the outbox pending.
SkipWithoutSmtp(w) ==
    /\ pc[w] = "ticked"
    /\ w \notin Mailers
    /\ pc' = [pc EXCEPT ![w] = "idle"]
    /\ UNCHANGED <<now, table, at, batch, row, history, faults>>

\* listDueDeliveries: the first BatchLimit due rows, as they are now.
List(w) ==
    /\ pc[w] = "ticked"
    /\ w \in Mailers
    /\ \E rows \in SUBSET Listed(at[w]) :
          /\ Cardinality(rows) = Least(BatchLimit, Cardinality(Listed(at[w])))
          /\ \A r \in rows, s \in Listed(at[w]) \ rows : Precedes(r, s)
          /\ batch' = [batch EXCEPT ![w] = rows]
    /\ pc' = [pc EXCEPT ![w] = "listed"]
    /\ UNCHANGED <<now, table, at, row, history, faults>>

\* The loop ended, or the list was empty.
Finish(w) ==
    /\ pc[w] = "listed"
    /\ batch[w] = {}
    /\ pc' = [pc EXCEPT ![w] = "idle"]
    /\ UNCHANGED <<now, table, at, batch, row, history, faults>>

\* claimDelivery: locked_at becomes the instant of the tick, not of the claim.
\* A row another worker took meanwhile returns no id, and the loop goes on.
Claim(w) ==
    /\ pc[w] = "listed"
    /\ \E r \in batch[w] :
          /\ \A s \in batch[w] \ {r} : Precedes(r, s)
          /\ batch' = [batch EXCEPT ![w] = @ \ {r}]
          /\ \/ /\ Claimable(r.id, at[w])
                /\ status' = [status EXCEPT ![r.id] = "processing"]
                /\ lockedAt' = [lockedAt EXCEPT ![r.id] = at[w]]
                /\ attempts' = [attempts EXCEPT ![r.id] = @ + 1]
                /\ row' = [row EXCEPT ![w] = r]
                /\ pc' = [pc EXCEPT ![w] = "claimed"]
                /\ excused' = IF /\ \E v \in Workers \ {w} : Working(v, r.id)
                                 /\ LockExpired(r.id, now)
                              THEN excused \cup {r.id} ELSE excused
             \/ /\ ~Claimable(r.id, at[w])
                /\ UNCHANGED <<status, lockedAt, attempts, row, pc, excused>>
    /\ UNCHANGED <<now, createdAt, nextAttemptAt, at, copies, faults>>

\* A fault is admitted while the outbox can still recover before Horizon.
FaultAllowed(w) ==
    /\ faults < MaxFaults
    /\ at[w] + StaleLock <= Horizon
    /\ at[w] + MaxDelay <= Horizon

\* emailSender.send resolves: the server has the message.
Transmit(w) ==
    /\ pc[w] = "claimed"
    /\ row[w].id \notin Malformed
    /\ copies' = [copies EXCEPT ![row[w].id] = @ + 1]
    /\ pc' = [pc EXCEPT ![w] = "accepted"]
    /\ UNCHANGED <<now, table, at, batch, row, excused, faults>>

\* emailPayload returns null.
RejectMalformed(w) ==
    /\ pc[w] = "claimed"
    /\ row[w].id \in Malformed
    /\ pc' = [pc EXCEPT ![w] = "rejected"]
    /\ UNCHANGED <<now, table, at, batch, row, history, faults>>

\* The PDF cannot be generated or the server refuses: send throws.
SendThrows(w, stage) ==
    /\ pc[w] = "claimed"
    /\ row[w].id \notin Malformed
    /\ FaultAllowed(w)
    /\ pc' = [pc EXCEPT ![w] = stage]
    /\ faults' = faults + 1
    /\ UNCHANGED <<now, table, at, batch, row, history>>
RefuseSwallowed(w) == SendThrows(w, "accepted")             \* mutant
Refuse(w) == SendThrows(w, "rejected")

\* The server accepts but its answer times out: send throws all the same.
LoseReply(w) ==
    /\ pc[w] = "claimed"
    /\ row[w].id \notin Malformed
    /\ FaultAllowed(w)
    /\ copies' = [copies EXCEPT ![row[w].id] = @ + 1]
    /\ excused' = excused \cup {row[w].id}
    /\ pc' = [pc EXCEPT ![w] = "rejected"]
    /\ faults' = faults + 1
    /\ UNCHANGED <<now, table, at, batch, row>>

\* The UPDATE of markSent and markFailed: WHERE status = 'processing', whoever
\* holds the claim now.
Record(d, outcome, next) ==
    IF status[d] = "processing"
    THEN /\ status' = [status EXCEPT ![d] = outcome]
         /\ lockedAt' = [lockedAt EXCEPT ![d] = NoTime]
         /\ nextAttemptAt' = [nextAttemptAt EXCEPT ![d] = next]
    ELSE UNCHANGED <<status, lockedAt, nextAttemptAt>>

MarkSent(w) ==
    /\ pc[w] = "accepted"
    /\ Record(row[w].id, "sent", NoTime)
    /\ pc' = [pc EXCEPT ![w] = "listed"]
    /\ UNCHANGED <<now, attempts, createdAt, at, batch, row, history, faults>>

\* markSent throws inside the same try as send, so markFailed follows.
MarkSentFails(w) ==
    /\ pc[w] = "accepted"
    /\ FaultAllowed(w)
    /\ excused' = excused \cup {row[w].id}
    /\ pc' = [pc EXCEPT ![w] = "rejected"]
    /\ faults' = faults + 1
    /\ UNCHANGED <<now, table, at, batch, row, copies>>

\* markFailed: the delay counts from the tick and from the attempts listed.
MarkFailed(w) ==
    /\ pc[w] = "rejected"
    /\ Record(row[w].id, "failed", at[w] + RetryDelay(row[w].attempts + 1))
    /\ pc' = [pc EXCEPT ![w] = "listed"]
    /\ UNCHANGED <<now, attempts, createdAt, at, batch, row, history, faults>>

\* The process stops, or a statement outside the try throws: the batch is
\* lost and a claimed row stays 'processing' until its lock is stale.
Abandon(w) ==
    /\ pc[w] # "idle"
    /\ FaultAllowed(w)
    /\ excused' = IF pc[w] = "accepted" THEN excused \cup {row[w].id} ELSE excused
    /\ pc' = [pc EXCEPT ![w] = "idle"]
    /\ batch' = [batch EXCEPT ![w] = {}]
    /\ faults' = faults + 1
    /\ UNCHANGED <<now, table, at, row, copies>>

\* What a worker does when nothing goes wrong.
Proceed(w) ==
    \/ Tick(w) \/ SkipWithoutSmtp(w) \/ List(w) \/ Finish(w) \/ Claim(w)
    \/ Transmit(w) \/ RejectMalformed(w) \/ MarkSent(w) \/ MarkFailed(w)

Fault(w) == Refuse(w) \/ LoseReply(w) \/ MarkSentFails(w) \/ Abandon(w)

Next ==
    \/ Advance
    \/ \E d \in Deliveries : Enqueue(d)
    \/ \E w \in Workers : Proceed(w) \/ Fault(w)

Spec == Init /\ [][Next]_vars

\* setInterval keeps ticking, every await settles, and time passes.
Fairness ==
    /\ WF_vars(Advance)
    /\ \A w \in Workers : WF_vars(Proceed(w))

FairSpec == Spec /\ Fairness
-----------------------------------------------------------------------------
(* Properties.                                                              *)

\* Every column, every local of a worker and every history variable has its type.
TypeOK ==
    /\ now \in 0..Horizon
    /\ status \in [Deliveries -> Statuses]
    /\ attempts \in [Deliveries -> Nat]
    /\ createdAt \in [Deliveries -> Int]
    /\ nextAttemptAt \in [Deliveries -> NoTime..(now + MaxDelay)]
    /\ lockedAt \in [Deliveries -> Int]
    /\ pc \in [Workers -> Stages]
    /\ at \in [Workers -> 0..Horizon] /\ \A w \in Workers : at[w] <= now
    /\ batch \in [Workers -> SUBSET Snapshot]
    /\ row \in [Workers -> Snapshot \cup {NoRow}]
    /\ \A w \in Workers : pc[w] \in InFlight => row[w] \in Snapshot
    /\ copies \in [Deliveries -> Nat]
    /\ excused \subseteq Deliveries
    /\ faults \in Nat

\* A message leaves the program twice only when a lock had expired under a
\* worker still busy, or a fault hid that the server had accepted it.
OnlyExcusedDuplicates ==
    \A d \in Deliveries : copies[d] > 1 => d \in excused

\* A row reads 'sent' only when a server accepted a copy of its message.
SentWasDelivered ==
    \A d \in Deliveries : status[d] = "sent" => copies[d] > 0

\* Two workers prepare or send the same row at once only after the lock of
\* the first expired.
ClaimsExclude ==
    \A d \in Deliveries \ excused, v, w \in Workers :
        Working(v, d) /\ Working(w, d) => v = w

\* A worker busy with a row nothing excused still owns it in the table, and
\* has a copy out exactly when its server has answered.
OwnerMatchesRow ==
    \A w \in Workers, d \in Deliveries \ excused :
        Working(w, d) =>
            /\ status[d] = "processing"
            /\ copies[d] = IF pc[w] = "accepted" THEN 1 ELSE 0

\* A copy of a row that nothing excused is accounted for: the row is 'sent',
\* or the worker that sent it is about to say so.
CopiesAccounted ==
    \A d \in Deliveries \ excused :
        copies[d] > 0 =>
            \/ status[d] = "sent"
            \/ \E w \in Workers : Working(w, d) /\ pc[w] = "accepted"

\* Listed and claimed rows are rows of the table, and a worker told that the
\* message was accepted is not mistaken.
ListedExist ==
    \A w \in Workers :
        /\ \A r \in batch[w] : status[r.id] # "absent"
        /\ pc[w] \in InFlight => status[row[w].id] # "absent"
        /\ pc[w] = "accepted" => copies[row[w].id] > 0

\* A row never enqueued, or excused, has left no copy or is in the table.
AbsentUntouched ==
    \A d \in Deliveries :
        status[d] = "absent" => copies[d] = 0 /\ d \notin excused

\* The inductive invariant behind OnlyExcusedDuplicates and the refinement.
OutboxInv ==
    /\ TypeOK
    /\ OnlyExcusedDuplicates
    /\ SentWasDelivered
    /\ ClaimsExclude
    /\ OwnerMatchesRow
    /\ CopiesAccounted
    /\ ListedExist
    /\ AbsentUntouched

\* Nothing rewrites a row once it is 'sent': no late worker reopens, reclaims
\* or reschedules it.
SentIsFinal ==
    [][\A d \in Deliveries :
         status[d] = "sent" =>
            /\ status'[d] = "sent"
            /\ attempts'[d] = attempts[d]
            /\ nextAttemptAt'[d] = nextAttemptAt[d]]_vars

\* The mailbox of AtLeastOnceMail, read off the table and the history.
StageOf(d) == CASE status[d] = "absent" -> "absent"
                [] status[d] = "sent" -> "settled"
                [] OTHER -> "waiting"
Mail == INSTANCE AtLeastOnceMail
            WITH Messages <- Deliveries,
                 stage    <- [d \in Deliveries |-> StageOf(d)],
                 suspect  <- excused
MailboxPromise == Mail!MailSpec

\* Whatever crashes, loses its answer or is refused, a well-formed delivery
\* that was enqueued is eventually recorded as sent.
EnqueuedIsSent ==
    \A d \in Deliveries \ Malformed : status[d] # "absent" ~> status[d] = "sent"
=============================================================================
