----------------------------- MODULE MCArrivals -----------------------------
(* Two calls on two directories, one of them in the collection that is there. *)
EXTENDS Arrivals

SomeFiles == {<<d, ".git">> : d \in Within} \cup {<<d, "a">> : d \in Dir \ Within}
=============================================================================
