--------------------------- MODULE AtLeastOnceMail ---------------------------
(***************************************************************************)
(* What the outbox promises to whoever enqueues a delivery, without rows,  *)
(* locks or workers: a message is never transmitted before it is posted,   *)
(* is transmitted once unless a fault or an expired lock made it suspect,  *)
(* and is settled only after a server has accepted a copy, once and for    *)
(* all.  NotificationOutbox implements it.                                 *)
(***************************************************************************)
EXTENDS Naturals

CONSTANTS Messages

VARIABLES
    stage,      \* "absent", "waiting" or "settled", by message
    copies,     \* copies that left, by message
    suspect     \* messages that may legitimately leave more than once

mailVars == <<stage, copies, suspect>>

MailInit ==
    /\ stage = [m \in Messages |-> "absent"]
    /\ copies = [m \in Messages |-> 0]
    /\ suspect = {}

Post(m) ==
    /\ stage[m] = "absent"
    /\ stage' = [stage EXCEPT ![m] = "waiting"]
    /\ UNCHANGED <<copies, suspect>>

Suspect(m) ==
    /\ stage[m] # "absent"
    /\ suspect' = suspect \cup {m}
    /\ UNCHANGED <<stage, copies>>

\* A copy leaves; its acknowledgement may be lost.
Leave(m) ==
    /\ stage[m] # "absent"
    /\ copies[m] = 0 \/ m \in suspect
    /\ copies' = [copies EXCEPT ![m] = @ + 1]
    /\ suspect' \in {suspect, suspect \cup {m}}
    /\ UNCHANGED stage

Settle(m) ==
    /\ stage[m] = "waiting"
    /\ copies[m] > 0
    /\ stage' = [stage EXCEPT ![m] = "settled"]
    /\ UNCHANGED <<copies, suspect>>

MailNext == \E m \in Messages : Post(m) \/ Suspect(m) \/ Leave(m) \/ Settle(m)

MailSpec == MailInit /\ [][MailNext]_mailVars
==============================================================================
