----------------------------- MODULE MCRteRing -----------------------------
EXTENDS RteRing, TLC

(* The lcores of one kind are interchangeable. *)
Symmetry == Permutations(Producers) \cup Permutations(Consumers)
=============================================================================
