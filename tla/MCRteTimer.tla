----------------------------- MODULE MCRteTimer -----------------------------
EXTENDS RteTimer

(* Lcores are interchangeable, and so are timers. *)
Symmetry == Permutations(Lcores) \cup Permutations(Timers)
=============================================================================
