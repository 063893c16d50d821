---------------------------- MODULE MCDeliveries ----------------------------
(* What must be delivered in the end, one component at a time: the first     *)
(* state chooses between the messages of the outbox and the events of a room.*)
EXTENDS NotificationOutbox, Realtime

CONSTANTS s1, s2, ana, bia

VARIABLE focus

\* A person each.
OwnSocket == [s \in Sockets |-> IF s = s1 THEN ana ELSE bia]

DeliveriesInit == Init /\ RealtimeInit /\ focus \in {"mail", "room"}

DeliveriesNext ==
    /\ UNCHANGED focus
    /\ \/ focus = "mail" /\ Next /\ UNCHANGED realtimeVars
       \/ focus = "room" /\ RealtimeNext /\ UNCHANGED vars

\* Fairness of NotificationOutbox and RealtimeFairness, each where it moves.
DeliveriesSpec ==
    /\ DeliveriesInit /\ [][DeliveriesNext]_<<vars, realtimeVars, focus>>
    /\ WF_vars(focus = "mail" /\ Advance)
    /\ \A w \in Workers : WF_vars(focus = "mail" /\ Proceed(w))
    /\ \A n \in 1 .. MaxEvents : WF_realtimeVars(focus = "room" /\ n \in DOMAIN events /\ Attend(n))
=============================================================================
