---------------------------- MODULE MCColumnKeys ----------------------------
(* The names of two columns older than their keys, which are deleted while  *)
(* nothing is renamed.                                                       *)
EXTENDS ColumnKeys

CONSTANTS name, other

Simplified == [n \in LabelNames |-> IF n = name THEN "a" ELSE "b"]
Older      == <<<<name, 0>>, <<other, 0>>>>

Deletions   == KeysNext /\ \A t \in Renamings : intent'[t].what \notin {"update", "title"}
DeletesSpec == KeysInit /\ [][Deletions]_keysVars
=============================================================================
