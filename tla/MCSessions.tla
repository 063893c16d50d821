----------------------------- MODULE MCSessions -----------------------------
(* Sessions with interchangeable requests.                                  *)
EXTENDS Sessions, TLC

Anyone == Permutations(Requests)
=============================================================================
