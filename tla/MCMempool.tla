----------------------------- MODULE MCMempool -----------------------------
EXTENDS Mempool, TLC

(* Objects are interchangeable, and so are the lcores. *)
Symmetry == Permutations(Objs) \cup Permutations(Lcores)
=============================================================================
