------------------------ MODULE MCNotificationOutbox ------------------------
(* The outbox on small instances.  A process is only its name, and so are   *)
(* two processes with the same SMTP configuration.                          *)
EXTENDS NotificationOutbox, TLC

Processes == Permutations(Mailers) \cup Permutations(Workers \ Mailers)
=============================================================================
