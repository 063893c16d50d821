---------------------------- MODULE MCPageRowOrder ----------------------------
(* PageRowOrder with interchangeable processes and a few legacy arrays.      *)
EXTENDS PageRowOrder, TLC

TwoOrders == {<<1, 2>>, <<2, 1>>}

To(r, s, a) == [row |-> r, side |-> s, anchor |-> a]
SomeMoves == {To(2, "before", 1), To(1, "after", 3), To(1, "start", None), To(2, "end", None)}

Interchangeable == Permutations(Processes)
==============================================================================
