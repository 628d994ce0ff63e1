------------------------------- MODULE MCMbuf -------------------------------
EXTENDS Mbuf, TLC

(* Threads are interchangeable, and so are the buffers. *)
Symmetry == Permutations(Threads) \cup Permutations(Mbufs)

(* Bound on the references that the threads have at a time. *)
MaxRefs == 5

Refs == {h \in Threads \X Mbufs \X (1..MaxHolds) : h[3] <= refs[h[1]][h[2]]}

(* What follows a lost update is not explored: the counts are wrong. *)
Explored == ~lost /\ Cardinality(Refs) <= MaxRefs
=============================================================================
