------------------------------- MODULE RteRing -------------------------------
(***************************************************************************)
(* The lockless ring of librte_ring: several lcores enqueue and dequeue    *)
(* tables of objects. Each access to the shared indexes is a step of its   *)
(* own, and so is each pointer copied: the reads of one lcore fall between *)
(* the writes of the others. The indexes are kept as the numbers they      *)
(* would be without overflow; the code sees them modulo Word (2^32).       *)
(***************************************************************************)
EXTENDS Integers, Sequences, FiniteSets

CONSTANTS
  Producers, Consumers,  \* the lcores
  Size,                  \* entries of the table, count of rte_ring_init
  Word,                  \* 2^32
  MaxBulk,               \* bound on n
  MaxObjs,               \* bound on the objects offered in a behaviour
  Used, Filled,          \* objects that have left the ring before, and that are in it
  Fixed,                 \* TRUE: bulk calls (RTE_RING_QUEUE_FIXED), FALSE: burst calls
  WaterMarks             \* the values the control thread sets

ASSUME RingAssumption ==
  /\ Size \in Nat \ {0} /\ Word \in Nat \ {0}
  /\ Word % Size = 0 /\ Word > Size
  /\ MaxBulk \in Nat /\ MaxObjs \in Nat
  /\ Used \in Nat /\ Filled \in 0..Size - 1 /\ Filled <= MaxObjs /\ Fixed \subseteq BOOLEAN
  /\ Producers \cap Consumers = {}

VARIABLES
  prod,       \* head, tail and sp_enqueue of the producers
  cons,       \* head, tail and sc_dequeue of the consumers
  watermark,  \* prod.watermark
  ring,       \* the table
  local,      \* for each lcore, where it is in its call and its locals
  offered     \* number of objects offered so far

vars == <<prod, cons, watermark, ring, local, offered>>

Lcores == Producers \cup Consumers
Objects == 1..MaxObjs
Nothing == 0
Mask == Size - 1
Slot(i) == i % Size

(* A 32-bit difference of two indexes. *)
Diff(a, b) == (a - b) % Word
SameIndex(a, b) == a % Word = b % Word

(* An lcore that read an index is not held up until the index has gone     *)
(* round: the ring "is not preemptable".                                   *)
InStep(now, read) == now - read <= Word - Size

(* The locals of a call: max is the n it was called with, i counts the     *)
(* pointers copied, free is the free_entries of an enqueue.                *)
Idle == [pc |-> "idle", max |-> 0, n |-> 0, fixed |-> TRUE, head |-> 0,
         free |-> 0, obj |-> << >>, i |-> 0, ret |-> "none"]

(* rte_ring_init with any flags, and then enqueues and dequeues that have  *)
(* ended: the indexes are anywhere, close to their overflow if need be.    *)
Init ==
  /\ prod \in [head : {Used + Filled}, tail : {Used + Filled}, sp_enqueue : BOOLEAN]
  /\ cons \in [head : {Used}, tail : {Used}, sc_dequeue : BOOLEAN]
  /\ watermark = Size
  /\ ring = [s \in 0..Mask |-> IF \E i \in 1..Filled : s = Slot(Used + i - 1)
                              THEN CHOOSE i \in 1..Filled : s = Slot(Used + i - 1)
                              ELSE Nothing]
  /\ local = [l \in Lcores |-> Idle]
  /\ offered = Filled

At(l, pc) == local[l].pc = pc

(* rte_ring_set_water_mark, from the control thread, at any time. *)
SetWaterMark(count) ==
  /\ count < Size
  /\ watermark' = IF count = 0 THEN Size ELSE count
  /\ UNCHANGED <<prod, cons, ring, local, offered>>

-----------------------------------------------------------------------------
(* Enqueue: __rte_ring_mp_do_enqueue and __rte_ring_sp_do_enqueue. A call  *)
(* with n = 0 changes nothing in either.                                   *)

(* A ring with a single producer may be used by several lcores as long as  *)
(* their calls do not overlap.                                             *)
Enqueue(p) ==
  \E n \in 1..MaxBulk, fixed \in Fixed :
    /\ At(p, "idle")
    /\ prod.sp_enqueue => \A q \in Producers : At(q, "idle")
    /\ offered + n <= MaxObjs
    /\ offered' = offered + n
    /\ local' = [local EXCEPT ![p] =
         [Idle EXCEPT !.pc = "head", !.max = n, !.fixed = fixed,
                      !.obj = [i \in 1..n |-> offered + i]]]
    /\ UNCHANGED <<prod, cons, watermark, ring>>

ReadProdHead(p) ==
  /\ At(p, "head")
  /\ local' = [local EXCEPT ![p].pc = "tail", ![p].n = local[p].max,
                            ![p].head = prod.head]
  /\ UNCHANGED <<prod, cons, watermark, ring, offered>>

(* Mutants of FreeEntries: all entries of the table are used, or all but two. *)
FreeEntriesAll(head, tail) == Diff(Size + tail, head)
FreeEntriesButTwo(head, tail) == Diff(Size - 2 + tail, head)

FreeEntries(head, tail) == Diff(Mask + tail, head)

(* How many of n the call may move when there are room of them; 0: none. *)
Granted(n, room, fixed) == IF n <= room THEN n ELSE IF fixed THEN 0 ELSE room

ReadConsTail(p) ==
  LET free == FreeEntries(local[p].head, cons.tail)
      n == Granted(local[p].max, free, local[p].fixed)
  IN /\ At(p, "tail")
     /\ InStep(cons.tail, local[p].head)
     /\ local' = IF n = 0
                 THEN [local EXCEPT ![p] = Idle]
                 ELSE [local EXCEPT ![p].pc = "move", ![p].n = n, ![p].free = free]
     /\ UNCHANGED <<prod, cons, watermark, ring, offered>>

(* Mutant of MoveProdHead: the index is stored, not compared and set. *)
MoveProdHeadStores(p) ==
  /\ At(p, "move")
  /\ InStep(prod.head, local[p].head)
  /\ prod' = [prod EXCEPT !.head = local[p].head + local[p].n]
  /\ local' = [local EXCEPT ![p].pc = "copy"]
  /\ UNCHANGED <<cons, watermark, ring, offered>>

(* The compare and set of prod.head, or the store of a single producer. *)
MoveProdHead(p) ==
  /\ At(p, "move")
  /\ InStep(prod.head, local[p].head)
  /\ IF prod.sp_enqueue \/ SameIndex(prod.head, local[p].head)
     THEN /\ prod' = [prod EXCEPT !.head = prod.head + local[p].n]
          /\ local' = [local EXCEPT ![p].pc = "copy", ![p].head = prod.head]
     ELSE /\ local' = [local EXCEPT ![p].pc = "head"]
          /\ UNCHANGED prod
  /\ UNCHANGED <<cons, watermark, ring, offered>>

(* Mutant of Quota: the objects of this call are not counted. *)
QuotaBefore(free, n) == Size - free > watermark

(* The test that makes the call return -EDQUOT. *)
Quota(free, n) == Size - free + n > watermark

(* ENQUEUE_PTRS, one pointer a step; after the last, the watermark test. *)
WriteEntry(p) ==
  LET i == local[p].i
      last == i + 1 = local[p].n
      ret == IF Quota(local[p].free, local[p].n) THEN "quota" ELSE "ok"
  IN /\ At(p, "copy")
     /\ ring' = [ring EXCEPT ![Slot(local[p].head + i)] = local[p].obj[i + 1]]
     /\ local' = [local EXCEPT ![p].i = i + 1,
                               ![p].pc = IF last THEN "wait" ELSE "copy",
                               ![p].ret = IF last THEN ret ELSE "none"]
     /\ UNCHANGED <<prod, cons, watermark, offered>>

(* Mutant of PublishProd: no waiting for the enqueues that came before. *)
PublishProdAtOnce(p) ==
  /\ At(p, "wait")
  /\ prod' = [prod EXCEPT !.tail = local[p].head + local[p].n]
  /\ local' = [local EXCEPT ![p] = Idle]
  /\ UNCHANGED <<cons, watermark, ring, offered>>

PublishProd(p) ==
  /\ At(p, "wait")
  /\ prod.sp_enqueue \/ SameIndex(prod.tail, local[p].head)
  /\ prod' = [prod EXCEPT !.tail = local[p].head + local[p].n]
  /\ local' = [local EXCEPT ![p] = Idle]
  /\ UNCHANGED <<cons, watermark, ring, offered>>

-----------------------------------------------------------------------------
(* Dequeue: __rte_ring_mc_do_dequeue and __rte_ring_sc_do_dequeue. *)

Dequeue(c) ==
  \E n \in 1..MaxBulk, fixed \in Fixed :
    /\ At(c, "idle")
    /\ cons.sc_dequeue => \A d \in Consumers : At(d, "idle")
    /\ local' = [local EXCEPT ![c] =
                   [Idle EXCEPT !.pc = "head", !.max = n, !.fixed = fixed]]
    /\ UNCHANGED <<prod, cons, watermark, ring, offered>>

ReadConsHead(c) ==
  /\ At(c, "head")
  /\ local' = [local EXCEPT ![c].pc = "tail", ![c].n = local[c].max,
                            ![c].head = cons.head]
  /\ UNCHANGED <<prod, cons, watermark, ring, offered>>

ReadProdTail(c) ==
  LET entries == Diff(prod.tail, local[c].head)
      n == Granted(local[c].max, entries, local[c].fixed)
  IN /\ At(c, "tail")
     /\ InStep(prod.tail, local[c].head)
     /\ local' = IF n = 0
                 THEN [local EXCEPT ![c] = Idle]
                 ELSE [local EXCEPT ![c].pc = "move", ![c].n = n]
     /\ UNCHANGED <<prod, cons, watermark, ring, offered>>

(* Mutant of MoveConsHead: the index is stored, not compared and set. *)
MoveConsHeadStores(c) ==
  /\ At(c, "move")
  /\ cons' = [cons EXCEPT !.head = local[c].head + local[c].n]
  /\ local' = [local EXCEPT ![c].pc = "copy"]
  /\ UNCHANGED <<prod, watermark, ring, offered>>

MoveConsHead(c) ==
  /\ At(c, "move")
  /\ InStep(cons.head, local[c].head)
  /\ IF cons.sc_dequeue \/ SameIndex(cons.head, local[c].head)
     THEN /\ cons' = [cons EXCEPT !.head = cons.head + local[c].n]
          /\ local' = [local EXCEPT ![c].pc = "copy", ![c].head = cons.head]
     ELSE /\ local' = [local EXCEPT ![c].pc = "head"]
          /\ UNCHANGED cons
  /\ UNCHANGED <<prod, watermark, ring, offered>>

(* DEQUEUE_PTRS, one pointer a step. *)
ReadEntry(c) ==
  LET i == local[c].i IN
  /\ At(c, "copy")
  /\ local' = [local EXCEPT
       ![c].i = i + 1,
       ![c].obj = Append(local[c].obj, ring[Slot(local[c].head + i)]),
       ![c].pc = IF i + 1 = local[c].n THEN "wait" ELSE "copy"]
  /\ UNCHANGED <<prod, cons, watermark, ring, offered>>

PublishCons(c) ==
  /\ At(c, "wait")
  /\ cons.sc_dequeue \/ SameIndex(cons.tail, local[c].head)
  /\ cons' = [cons EXCEPT !.tail = local[c].head + local[c].n]
  /\ local' = [local EXCEPT ![c] = Idle]
  /\ UNCHANGED <<prod, watermark, ring, offered>>
-----------------------------------------------------------------------------
EnqueueStep(p) ==
  \/ Enqueue(p) \/ ReadProdHead(p) \/ ReadConsTail(p)
  \/ MoveProdHead(p) \/ WriteEntry(p) \/ PublishProd(p)

DequeueStep(c) ==
  \/ Dequeue(c) \/ ReadConsHead(c) \/ ReadProdTail(c)
  \/ MoveConsHead(c) \/ ReadEntry(c) \/ PublishCons(c)

Next ==
  \/ \E p \in Producers : EnqueueStep(p)
  \/ \E c \in Consumers : DequeueStep(c)
  \/ \E count \in WaterMarks : SetWaterMark(count)

Spec == Init /\ [][Next]_vars

-----------------------------------------------------------------------------
Reserved(l) == local[l].pc \in {"copy", "wait"}
Entries(l) == local[l].head .. local[l].head + local[l].n - 1

(* The four indexes chase each other in order and the producers never lap  *)
(* the consumers, whichever lcores are between their read of one index and *)
(* their move of another.                                                  *)
IndexOrder ==
  /\ cons.tail <= cons.head /\ cons.head <= prod.tail
  /\ prod.tail <= prod.head /\ prod.head <= cons.tail + Mask

(* No two lcores that copy at the same time use the same entry of the      *)
(* table: producers fill entries that no consumer is reading and no other  *)
(* producer has reserved.                                                  *)
SlotsExclusive ==
  \A l, m \in Lcores : l # m /\ Reserved(l) /\ Reserved(m) =>
    \A i \in Entries(l), j \in Entries(m) : Slot(i) # Slot(j)

(* A call that waits for earlier ones waits for one that has reserved the  *)
(* entries right at the tail: the spin on prod.tail or cons.tail is never  *)
(* for an lcore that has failed or gone.                                   *)
TailReserved ==
  /\ prod.tail # prod.head =>
       \E p \in Producers : Reserved(p) /\ local[p].head = prod.tail
  /\ cons.tail # cons.head =>
       \E c \in Consumers : Reserved(c) /\ local[c].head = cons.tail

(* An enqueue that gives up does so only when the room it asked for is not *)
(* there at that moment, counting what others have reserved, and a dequeue *)
(* only when the entries are not there: reads of two indexes at different  *)
(* times never make up a full or an empty ring.                            *)
HonestFailure ==
  [][/\ \A p \in Producers : At(p, "tail") /\ At(p, "idle")' =>
          IF local[p].fixed THEN prod.head + local[p].max > cons.tail + Mask
                            ELSE prod.head = cons.tail + Mask
     /\ \A c \in Consumers : At(c, "tail") /\ At(c, "idle")' =>
          IF local[c].fixed THEN cons.head + local[c].max > prod.tail
                            ELSE cons.head = prod.tail]_vars

(* A producer that is not told that the watermark is reached has left the  *)
(* ring below it: the count it compares is from before the move of the     *)
(* index, and dequeues since then can only have made it smaller.           *)
WatermarkTold ==
  [][\A p \in Producers :
       At(p, "copy") /\ At(p, "wait")' /\ local'[p].ret = "ok" =>
         local[p].head + local[p].n - cons.tail < watermark]_vars

(* The ring implements the bounded queue: published entries are the queue, *)
(* what a consumer has reserved is what it has taken, read from the table  *)
(* itself as far as it is not copied yet.                                  *)
InRing(from, n) == [i \in 1..n |-> ring[Slot(from + i - 1)]]

Queued == InRing(cons.head, prod.tail - cons.head)

Taken == [c \in Consumers |->
  IF Reserved(c)
  THEN local[c].obj \o InRing(local[c].head + local[c].i, local[c].n - local[c].i)
  ELSE << >>]

Fifo == INSTANCE RingFifo WITH Capacity <- Mask, queue <- Queued, held <- Taken

FifoSpec == Fifo!Spec
=============================================================================
