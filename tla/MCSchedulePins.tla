---------------------------- MODULE MCSchedulePins ----------------------------
(* SchedulePins with interchangeable people, requests, handlers, workers.   *)
EXTENDS SchedulePins, TLC

Interchangeable ==
    Permutations(Users) \cup Permutations(Columns) \cup Permutations(Requests)
        \cup Permutations(Handlers) \cup Permutations(Workers)
==============================================================================
