------------------------------ MODULE RingFifo ------------------------------
(***************************************************************************)
(* What the ring of librte_ring promises its users: a bounded first-in     *)
(* first-out queue into which tables of objects are put whole, and from    *)
(* which each consumer takes a prefix, which it is then given unchanged.   *)
(***************************************************************************)
EXTENDS Naturals, Sequences

CONSTANTS Consumers, Objects, Capacity

VARIABLES queue,  \* the objects published and not yet taken
          held    \* for each consumer, what it has taken and not yet returned

vars == <<queue, held>>

Init ==
  /\ queue \in Seq(Objects) /\ Len(queue) <= Capacity
  /\ held = [c \in Consumers |-> << >>]

(* A table of objects is added behind what is there. *)
Put ==
  /\ queue' \in Seq(Objects)
  /\ Len(queue) < Len(queue') /\ Len(queue') <= Capacity
  /\ SubSeq(queue', 1, Len(queue)) = queue
  /\ UNCHANGED held

Take(c, n) ==
  /\ held[c] = << >>
  /\ held' = [held EXCEPT ![c] = SubSeq(queue, 1, n)]
  /\ queue' = SubSeq(queue, n + 1, Len(queue))

Return(c) ==
  /\ held[c] # << >>
  /\ held' = [held EXCEPT ![c] = << >>]
  /\ UNCHANGED queue

Next ==
  \/ Put
  \/ \E c \in Consumers :
       \/ \E n \in 1..Len(queue) : Take(c, n)
       \/ Return(c)

Spec == Init /\ [][Next]_vars
=============================================================================
