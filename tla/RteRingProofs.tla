---------------------------- MODULE RteRingProofs ----------------------------
(***************************************************************************)
(* The ring of librte_ring for every number of lcores, every size, every   *)
(* width of the indexes and every table: the inductive invariant says      *)
(* where each lcore is between the four indexes, and from it follow the    *)
(* properties of the ring and that it implements the bounded queue.        *)
(***************************************************************************)
EXTENDS RteRing, SequenceTheorems, TLAPS

PcSet == {"idle", "head", "tail", "move", "copy", "wait"}

LocalSet ==
  [pc : PcSet, max : Nat, n : Nat, fixed : BOOLEAN, head : Nat, free : Nat,
   obj : Seq(Objects), i : Nat, ret : {"none", "ok", "quota"}]

TypeOK ==
  /\ prod \in [head : Nat, tail : Nat, sp_enqueue : BOOLEAN]
  /\ cons \in [head : Nat, tail : Nat, sc_dequeue : BOOLEAN]
  /\ watermark \in Int
  /\ ring \in [0..Mask -> Objects \cup {Nothing}]
  /\ local \in [Lcores -> LocalSet]
  /\ offered \in Nat

(* Where a producer is: what it has read lies behind the index, and what   *)
(* it means to reserve, or has reserved, fits before the consumers' tail   *)
(* of any later time.                                                      *)
ProducerOK(p) ==
  LET r == local[p] IN
  /\ r.pc # "idle" => r.max >= 1 /\ Len(r.obj) = r.max
  /\ r.pc \in {"head", "tail", "move"} => r.i = 0
  /\ r.pc \in {"tail", "move"} =>
       /\ r.head <= prod.head
       /\ prod.sp_enqueue => r.head = prod.head
  /\ r.pc \in {"move", "copy", "wait"} =>
       /\ r.n >= 1 /\ r.n <= r.max
       /\ r.head + r.n <= cons.tail + Mask
       /\ r.free + r.head <= cons.tail + Mask
  /\ Reserved(p) => prod.tail <= r.head /\ r.head + r.n <= prod.head
  /\ r.pc = "copy" => r.i < r.n
  /\ r.pc = "wait" => r.i = r.n

ConsumerOK(c) ==
  LET r == local[c] IN
  /\ r.pc # "idle" => r.max >= 1
  /\ r.pc \in {"head", "tail", "move"} => r.i = 0
  /\ r.pc \in {"tail", "move"} =>
       /\ r.head <= cons.head
       /\ cons.sc_dequeue => r.head = cons.head
  /\ r.pc \in {"move", "copy", "wait"} => r.n >= 1 /\ r.head + r.n <= prod.tail
  /\ Reserved(c) => cons.tail <= r.head /\ r.head + r.n <= cons.head
  /\ r.pc = "copy" => r.i < r.n
  /\ r.pc = "wait" => r.i = r.n
  /\ r.pc # "idle" => Len(r.obj) = r.i

(* The reservations on one side do not overlap. *)
Apart(side) ==
  \A l, m \in side : l # m /\ Reserved(l) /\ Reserved(m) =>
    \/ local[l].head + local[l].n <= local[m].head
    \/ local[m].head + local[m].n <= local[l].head

(* Every entry between the tail and the head of a side is reserved. *)
Covered(side, idx) ==
  \A k \in idx.tail .. idx.head - 1 :
    \E l \in side : Reserved(l) /\ k \in Entries(l)

(* With a single producer or consumer one call at a time is in progress. *)
Alone(side, single) ==
  single => \A l, m \in side : ~At(l, "idle") /\ ~At(m, "idle") => l = m

(* What has been published, and what the producers have copied so far. *)
Published ==
  \A k \in cons.tail .. prod.tail - 1 : ring[Slot(k)] \in Objects

Copied ==
  \A p \in Producers : Reserved(p) =>
    \A j \in 0 .. local[p].i - 1 : ring[Slot(local[p].head + j)] = local[p].obj[j + 1]

IndInv ==
  /\ TypeOK
  /\ IndexOrder
  /\ \A p \in Producers : ProducerOK(p)
  /\ \A c \in Consumers : ConsumerOK(c)
  /\ Apart(Producers) /\ Apart(Consumers)
  /\ Covered(Producers, prod) /\ Covered(Consumers, cons)
  /\ Alone(Producers, prod.sp_enqueue) /\ Alone(Consumers, cons.sc_dequeue)
  /\ Published /\ Copied

-----------------------------------------------------------------------------
(* A number below the width of the indexes is its own remainder. *)
LEMMA SmallMod ==
  ASSUME NEW a \in Nat, NEW n \in Nat \ {0}, a < n
  PROVE  a % n = a
OBVIOUS

(* Numbers less than n apart have different remainders. *)
LEMMA ModDistinct ==
  ASSUME NEW a \in Nat, NEW b \in Nat, NEW n \in Nat \ {0}, a < b, b - a < n
  PROVE  a % n # b % n
<1> DEFINE qa == a \div n
           qb == b \div n
<1>1. a = n * qa + (a % n) /\ b = n * qb + (b % n) /\ qa \in Int /\ qb \in Int
  OBVIOUS
<1>2. SUFFICES ASSUME a % n = b % n PROVE FALSE
  OBVIOUS
<1>3. b - a = n * (qb - qa)
  BY <1>1, <1>2
<1>4. CASE qb - qa <= 0
  <2>1. n * (qb - qa) <= 0
    BY <1>1, <1>4
  <2> QED BY <2>1, <1>3
<1>5. CASE qb - qa >= 1
  <2>1. n * (qb - qa) >= n
    BY <1>1, <1>5
  <2> QED BY <2>1, <1>3
<1> QED BY <1>1, <1>4, <1>5

(* Two entries less than a turn of the table apart have different slots. *)
LEMMA SlotsDiffer ==
  ASSUME NEW a \in Nat, NEW b \in Nat, a < b, b - a < Size
  PROVE  Slot(a) # Slot(b)
BY ModDistinct, RingAssumption DEF Slot

(* Two indexes less than a turn of the index apart that the code finds     *)
(* equal are the same.                                                     *)
LEMMA SameIndexEqual ==
  ASSUME NEW a \in Nat, NEW b \in Nat, b <= a, a - b < Word, SameIndex(a, b)
  PROVE  a = b
<1> SUFFICES ASSUME b < a PROVE FALSE
  OBVIOUS
<1> QED BY ModDistinct, RingAssumption DEF SameIndex

(* A slot is a place of the table. *)
LEMMA SlotRange ==
  ASSUME NEW a \in Nat
  PROVE  Slot(a) \in 0..Mask
BY RingAssumption DEF Slot, Mask

-----------------------------------------------------------------------------
(* Frames: what the step of one lcore leaves of the invariant for others.  *)

(* The record of a lcore that takes a step is the only one that changes.   *)
OnlyAt(x) == \A l \in Lcores : l # x => local'[l] = local[l]

SameReservations(side) ==
  \A l \in side :
    /\ Reserved(l)' <=> Reserved(l)
    /\ Reserved(l) => local'[l].head = local[l].head /\ local'[l].n = local[l].n

(* What an assignment to the record of one lcore leaves. *)
LEMMA LocalUpdate ==
  ASSUME TypeOK, NEW x \in Lcores, NEW r, local' = [local EXCEPT ![x] = r]
  PROVE  local'[x] = r /\ OnlyAt(x) /\ (r \in LocalSet => local' \in [Lcores -> LocalSet])
BY DEF TypeOK, OnlyAt

(* A producer that takes no step stays where the invariant says while the  *)
(* others move the indexes on.                                             *)
LEMMA ProducerFrame ==
  ASSUME TypeOK, TypeOK', NEW q \in Producers, ProducerOK(q), local'[q] = local[q],
         cons.tail <= cons'.tail, prod.head <= prod'.head,
         prod'.sp_enqueue = prod.sp_enqueue,
         local[q].pc \in {"tail", "move"} /\ prod.sp_enqueue => prod'.head = prod.head,
         Reserved(q) => prod'.tail <= local[q].head
  PROVE  ProducerOK(q)'
<1> DEFINE r == local[q]
<1>1. /\ prod.head \in Nat /\ prod.tail \in Nat /\ cons.tail \in Nat
      /\ prod'.head \in Nat /\ prod'.tail \in Nat /\ cons'.tail \in Nat
      /\ Mask \in Int
  BY RingAssumption DEF TypeOK, Mask
<1>2. r.head \in Nat /\ r.n \in Nat /\ r.free \in Nat
  BY DEF TypeOK, LocalSet, Lcores
<1>3. r.pc \in {"move", "copy", "wait"} =>
         r.head + r.n <= cons'.tail + Mask /\ r.free + r.head <= cons'.tail + Mask
  <2>1. r.pc \in {"move", "copy", "wait"} =>
          r.head + r.n <= cons.tail + Mask /\ r.free + r.head <= cons.tail + Mask
    BY DEF ProducerOK
  <2> QED BY <1>1, <1>2, <2>1
<1>4. Reserved(q) => prod'.tail <= r.head /\ r.head + r.n <= prod'.head
  BY <1>1, <1>2 DEF ProducerOK
<1>5. r.pc \in {"tail", "move"} =>
         r.head <= prod'.head /\ (prod.sp_enqueue => r.head = prod'.head)
  BY <1>1, <1>2 DEF ProducerOK
<1> QED BY <1>3, <1>4, <1>5 DEF ProducerOK, Reserved

(* A consumer that takes no step stays where the invariant says. *)
LEMMA ConsumerFrame ==
  ASSUME TypeOK, TypeOK', NEW d \in Consumers, ConsumerOK(d), local'[d] = local[d],
         prod.tail <= prod'.tail, cons.head <= cons'.head,
         cons'.sc_dequeue = cons.sc_dequeue,
         local[d].pc \in {"tail", "move"} /\ cons.sc_dequeue => cons'.head = cons.head,
         Reserved(d) => cons'.tail <= local[d].head
  PROVE  ConsumerOK(d)'
<1> DEFINE r == local[d]
<1>1. /\ prod.tail \in Nat /\ cons.head \in Nat /\ cons.tail \in Nat
      /\ prod'.tail \in Nat /\ cons'.head \in Nat /\ cons'.tail \in Nat
  BY DEF TypeOK
<1>2. r.head \in Nat /\ r.n \in Nat
  BY DEF TypeOK, LocalSet, Lcores
<1> QED BY <1>1, <1>2 DEF ConsumerOK, Reserved

(* The same reservations are still apart, and cover the same entries. *)
LEMMA SideFrame ==
  ASSUME NEW side, NEW idx, SameReservations(side), Apart(side), Covered(side, idx)
  PROVE  Apart(side)' /\ \A k \in idx.tail .. idx.head - 1 :
                           \E l \in side : Reserved(l)' /\ k \in Entries(l)'
<1>1. Apart(side)'
  BY DEF Apart, SameReservations
<1>2. \A k \in idx.tail .. idx.head - 1 : \E l \in side : Reserved(l)' /\ k \in Entries(l)'
  BY DEF Covered, SameReservations, Entries
<1> QED BY <1>1, <1>2

(* Steps that change neither an index nor the table nor a reservation. *)
LEMMA QuietStep ==
  ASSUME IndInv, NEW x \in Lcores, UNCHANGED <<prod, cons, ring>>, TypeOK', OnlyAt(x),
         ~Reserved(x), ~Reserved(x)',
         x \in Producers => ProducerOK(x)', x \in Consumers => ConsumerOK(x)',
         Alone(Producers, prod.sp_enqueue)', Alone(Consumers, cons.sc_dequeue)'
  PROVE  IndInv'
<1>0. /\ prod' = prod /\ cons' = cons /\ ring' = ring /\ TypeOK
      /\ Producers \subseteq Lcores /\ Consumers \subseteq Lcores
      /\ prod.head \in Nat /\ prod.tail \in Nat /\ cons.head \in Nat /\ cons.tail \in Nat
  BY DEF IndInv, Lcores, TypeOK
<1>1. IndexOrder'
  BY <1>0 DEF IndInv, IndexOrder
<1>2. ASSUME NEW q \in Producers PROVE ProducerOK(q)'
  <2>1. CASE q = x
    BY <2>1
  <2>2. CASE q # x
    <3>1. ProducerOK(q) /\ local'[q] = local[q] /\ (Reserved(q) => prod'.tail <= local[q].head)
      BY <1>0, <2>2 DEF IndInv, OnlyAt, ProducerOK
    <3> QED BY <3>1, <1>0, ProducerFrame
  <2> QED BY <2>1, <2>2
<1>3. ASSUME NEW d \in Consumers PROVE ConsumerOK(d)'
  <2>1. CASE d = x
    BY <2>1
  <2>2. CASE d # x
    <3>1. ConsumerOK(d) /\ local'[d] = local[d] /\ (Reserved(d) => cons'.tail <= local[d].head)
      BY <1>0, <2>2 DEF IndInv, OnlyAt, ConsumerOK
    <3> QED BY <3>1, <1>0, ConsumerFrame
  <2> QED BY <2>1, <2>2
<1>4. SameReservations(Producers) /\ SameReservations(Consumers)
  BY <1>0 DEF SameReservations, OnlyAt, Reserved
<1>5. Apart(Producers)' /\ Apart(Consumers)'
  BY <1>4, SideFrame DEF IndInv
<1>6. Covered(Producers, prod)' /\ Covered(Consumers, cons)'
  BY <1>0, <1>4, SideFrame DEF IndInv, Covered
<1>7. Published'
  BY <1>0 DEF IndInv, Published
<1>8. Copied'
  <2>1. ASSUME NEW q \in Producers, Reserved(q)'
        PROVE  local'[q] = local[q] /\ Reserved(q)
    BY <1>0, <2>1 DEF OnlyAt, Reserved
  <2> QED BY <1>0, <2>1 DEF IndInv, Copied
<1> QED BY <1>1, <1>2, <1>3, <1>5, <1>6, <1>7, <1>8 DEF IndInv

-----------------------------------------------------------------------------
(* The steps of a producer. *)

(* The record of an lcore between two calls. *)
LEMMA IdleOK == Idle \in LocalSet /\ Idle.pc = "idle" /\ Idle.i = 0 /\ Idle.obj = << >>
BY DEF Idle, LocalSet, PcSet

(* A call that begins. *)
LEMMA EnqueueStep_ ==
  ASSUME IndInv, NEW p \in Producers, Enqueue(p)
  PROVE  IndInv'
<1>1. PICK n \in 1..MaxBulk, fixed \in Fixed :
        /\ prod.sp_enqueue => \A q \in Producers : At(q, "idle")
        /\ offered + n <= MaxObjs
        /\ offered' = offered + n
        /\ local' = [local EXCEPT ![p] =
             [Idle EXCEPT !.pc = "head", !.max = n, !.fixed = fixed,
                          !.obj = [i \in 1..n |-> offered + i]]]
  BY DEF Enqueue
<1> DEFINE obj == [i \in 1..n |-> offered + i]
           s == [Idle EXCEPT !.pc = "head", !.max = n, !.fixed = fixed, !.obj = obj]
<1>2. /\ p \in Lcores /\ n \in Nat /\ n >= 1 /\ fixed \in BOOLEAN /\ offered \in Nat /\ TypeOK
      /\ At(p, "idle") /\ UNCHANGED <<prod, cons, watermark, ring>>
  BY RingAssumption DEF Lcores, IndInv, TypeOK, Enqueue
<1>3. obj \in Seq(Objects) /\ Len(obj) = n
  <2>1. \A i \in 1..n : offered + i \in Objects
    BY <1>1, <1>2, RingAssumption DEF Objects
  <2>2. obj \in [1..n -> Objects]
    BY <2>1
  <2> QED BY <1>2, <2>2
<1>0. local' = [local EXCEPT ![p] = s]
  BY <1>1
<1> HIDE DEF obj
<1>4. s \in LocalSet /\ s.pc = "head" /\ s.max = n /\ s.i = 0 /\ s.obj = obj
  BY <1>2, <1>3 DEF Idle, LocalSet, PcSet
<1> HIDE DEF s
<1>5. local'[p] = s /\ OnlyAt(p) /\ local' \in [Lcores -> LocalSet]
  BY <1>0, <1>2, <1>4, LocalUpdate
<1>6. TypeOK'
  BY <1>1, <1>2, <1>5 DEF TypeOK
<1>7. ProducerOK(p)' /\ ~Reserved(p)' /\ ~Reserved(p)
  BY <1>2, <1>3, <1>4, <1>5 DEF ProducerOK, Reserved, At
<1>8. Alone(Producers, prod.sp_enqueue)' /\ Alone(Consumers, cons.sc_dequeue)'
  <2>1. \A l \in Producers \cup Consumers : l # p => local'[l] = local[l]
    BY <1>5 DEF OnlyAt, Lcores
  <2>2. p \notin Consumers
    BY RingAssumption
  <2> QED BY <1>1, <1>2, <2>1, <2>2 DEF IndInv, Alone, At
<1> QED BY <1>2, <1>5, <1>6, <1>7, <1>8, RingAssumption, QuietStep

(* Steps of a call in progress start no call. *)
LEMMA AloneKept ==
  ASSUME IndInv, NEW x \in Lcores, OnlyAt(x), ~At(x, "idle"),
         prod'.sp_enqueue = prod.sp_enqueue, cons'.sc_dequeue = cons.sc_dequeue
  PROVE  Alone(Producers, prod.sp_enqueue)' /\ Alone(Consumers, cons.sc_dequeue)'
<1>1. \A l \in Lcores : ~At(l, "idle")' => ~At(l, "idle")
  BY DEF OnlyAt, At
<1> QED BY <1>1 DEF IndInv, Alone, Lcores

(* A producer reads prod.head. *)
LEMMA ReadProdHeadStep ==
  ASSUME IndInv, NEW p \in Producers, ReadProdHead(p)
  PROVE  IndInv'
<1> DEFINE r == local[p]
           s == [r EXCEPT !.pc = "tail", !.n = r.max, !.head = prod.head]
<1>1. /\ p \in Lcores /\ p \notin Consumers /\ r \in LocalSet /\ r.pc = "head" /\ TypeOK
      /\ ProducerOK(p) /\ prod.head \in Nat
      /\ UNCHANGED <<prod, cons, watermark, ring, offered>>
      /\ local' = [local EXCEPT ![p] = s]
  BY RingAssumption DEF Lcores, IndInv, TypeOK, ReadProdHead, At
<1>2. /\ s \in LocalSet /\ s.pc = "tail" /\ s.max = r.max /\ s.obj = r.obj /\ s.i = r.i
      /\ s.head = prod.head
  BY <1>1 DEF LocalSet, PcSet
<1> HIDE DEF s
<1>3. local'[p] = s /\ OnlyAt(p) /\ local' \in [Lcores -> LocalSet]
  BY <1>1, <1>2, LocalUpdate
<1>4. TypeOK'
  BY <1>1, <1>3 DEF TypeOK
<1>5. ProducerOK(p)' /\ ~Reserved(p) /\ ~Reserved(p)'
  BY <1>1, <1>2, <1>3 DEF ProducerOK, Reserved
<1>6. Alone(Producers, prod.sp_enqueue)' /\ Alone(Consumers, cons.sc_dequeue)'
  BY <1>1, <1>3, AloneKept DEF At
<1> QED BY <1>1, <1>3, <1>4, <1>5, <1>6, QuietStep

(* The free entries the code computes are those of the consumers' tail it  *)
(* has just read, without overflow.                                        *)
LEMMA FreeExact ==
  ASSUME IndInv, NEW p \in Producers, At(p, "tail"), InStep(cons.tail, local[p].head)
  PROVE  /\ FreeEntries(local[p].head, cons.tail) = Mask + cons.tail - local[p].head
         /\ FreeEntries(local[p].head, cons.tail) \in Nat
<1> DEFINE h == local[p].head
           d == (Mask + cons.tail) - h
<1>1. /\ h \in Nat /\ prod.head \in Nat /\ cons.tail \in Nat /\ Mask \in Nat
      /\ Word \in Nat \ {0} /\ Mask = Size - 1 /\ Size \in Nat
  BY RingAssumption DEF IndInv, TypeOK, LocalSet, Lcores, Mask
<1>2. h <= prod.head /\ prod.head <= cons.tail + Mask
  BY DEF IndInv, ProducerOK, At, IndexOrder
<1>3. d \in Nat /\ d < Word
  BY <1>1, <1>2 DEF InStep
<1>4. d % Word = d
  BY <1>1, <1>3, SmallMod
<1>5. FreeEntries(h, cons.tail) = d % Word
  BY DEF FreeEntries, Diff
<1> HIDE DEF d
<1>6. FreeEntries(h, cons.tail) = d /\ d \in Nat
  BY <1>3, <1>4, <1>5
<1> QED BY <1>1, <1>6 DEF d

(* A producer reads cons.tail, and gives up or goes on with what fits. *)
LEMMA ReadConsTailStep ==
  ASSUME IndInv, NEW p \in Producers, ReadConsTail(p)
  PROVE  IndInv'
<1> DEFINE r == local[p]
           free == FreeEntries(r.head, cons.tail)
           n == Granted(r.max, free, r.fixed)
           s == IF n = 0 THEN Idle ELSE [r EXCEPT !.pc = "move", !.n = n, !.free = free]
<1>1. /\ p \in Lcores /\ p \notin Consumers /\ r \in LocalSet /\ r.pc = "tail" /\ TypeOK
      /\ ProducerOK(p) /\ prod.head \in Nat /\ cons.tail \in Nat /\ Mask \in Int
      /\ UNCHANGED <<prod, cons, watermark, ring, offered>>
  BY RingAssumption DEF Lcores, IndInv, TypeOK, ReadConsTail, At, Mask
<1>2. free = Mask + cons.tail - r.head /\ free \in Nat
  BY FreeExact DEF ReadConsTail
<1>3. n \in Nat /\ n <= r.max /\ n <= free /\ r.max \in Nat /\ r.head \in Nat
  BY <1>1, <1>2 DEF Granted, LocalSet
<1>4. local' = [local EXCEPT ![p] = s]
  BY DEF ReadConsTail
<1> HIDE DEF n, free
<1>5. CASE n = 0
  <2>1. s \in LocalSet /\ s.pc = "idle"
    BY <1>5, IdleOK
  <2> HIDE DEF s
  <2>2. local'[p] = s /\ OnlyAt(p) /\ local' \in [Lcores -> LocalSet]
    BY <1>1, <1>4, <2>1, LocalUpdate
  <2>3. TypeOK'
    BY <1>1, <2>2 DEF TypeOK
  <2>4. ProducerOK(p)' /\ ~Reserved(p) /\ ~Reserved(p)'
    BY <1>1, <2>1, <2>2 DEF ProducerOK, Reserved
  <2>5. Alone(Producers, prod.sp_enqueue)' /\ Alone(Consumers, cons.sc_dequeue)'
    BY <1>1, <2>2, AloneKept DEF At
  <2> QED BY <1>1, <2>2, <2>3, <2>4, <2>5, QuietStep
<1>6. CASE n # 0
  <2>1. /\ s \in LocalSet /\ s.pc = "move" /\ s.max = r.max /\ s.obj = r.obj /\ s.i = r.i
        /\ s.head = r.head /\ s.n = n /\ s.free = free
    BY <1>6, <1>1, <1>2, <1>3 DEF LocalSet, PcSet
  <2> HIDE DEF s
  <2>2. local'[p] = s /\ OnlyAt(p) /\ local' \in [Lcores -> LocalSet]
    BY <1>1, <1>4, <2>1, LocalUpdate
  <2>3. TypeOK'
    BY <1>1, <2>2 DEF TypeOK
  <2>4. ~Reserved(p) /\ ~Reserved(p)'
    BY <1>1, <2>1, <2>2 DEF Reserved
  <2>5. s.n >= 1 /\ s.n <= s.max /\ s.head + s.n <= cons.tail + Mask
        /\ s.free + s.head <= cons.tail + Mask
    BY <1>1, <1>2, <1>3, <1>6, <2>1
  <2>6. ProducerOK(p)'
    BY <1>1, <2>1, <2>2, <2>4, <2>5 DEF ProducerOK
  <2>7. Alone(Producers, prod.sp_enqueue)' /\ Alone(Consumers, cons.sc_dequeue)'
    BY <1>1, <2>2, AloneKept DEF At
  <2> QED BY <1>1, <2>2, <2>3, <2>4, <2>6, <2>7, QuietStep
<1> QED BY <1>5, <1>6

(* The move of the index succeeds only for a producer that has read its    *)
(* present value.                                                          *)
LEMMA MoveProdHeadCurrent ==
  ASSUME IndInv, NEW p \in Producers, At(p, "move"), InStep(prod.head, local[p].head),
         prod.sp_enqueue \/ SameIndex(prod.head, local[p].head)
  PROVE  local[p].head = prod.head
<1>1. prod.head \in Nat /\ local[p].head \in Nat /\ ProducerOK(p)
  BY DEF IndInv, TypeOK, LocalSet, Lcores
<1>2. local[p].head <= prod.head /\ (prod.sp_enqueue => local[p].head = prod.head)
  BY <1>1 DEF ProducerOK, At
<1>3. prod.head - local[p].head < Word
  BY <1>1, RingAssumption DEF InStep
<1> QED BY <1>1, <1>2, <1>3, SameIndexEqual

(* The compare and set of prod.head fails: the producer starts over. *)
LEMMA MoveProdHeadFails ==
  ASSUME IndInv, NEW p \in Producers, At(p, "move"),
         local' = [local EXCEPT ![p].pc = "head"],
         UNCHANGED <<prod, cons, watermark, ring, offered>>
  PROVE  IndInv'
<1> DEFINE r == local[p]
           s == [r EXCEPT !.pc = "head"]
<1>1. /\ p \in Lcores /\ p \notin Consumers /\ r \in LocalSet /\ r.pc = "move" /\ TypeOK
      /\ ProducerOK(p)
      /\ local' = [local EXCEPT ![p] = s]
  BY RingAssumption DEF Lcores, IndInv, TypeOK, At
<1>2. s \in LocalSet /\ s.pc = "head" /\ s.max = r.max /\ s.obj = r.obj /\ s.i = r.i
  BY <1>1 DEF LocalSet, PcSet
<1> HIDE DEF s
<1>3. local'[p] = s /\ OnlyAt(p) /\ local' \in [Lcores -> LocalSet]
  BY <1>1, <1>2, LocalUpdate
<1>4. TypeOK'
  BY <1>1, <1>3 DEF TypeOK
<1>5. ProducerOK(p)' /\ ~Reserved(p) /\ ~Reserved(p)'
  BY <1>1, <1>2, <1>3 DEF ProducerOK, Reserved
<1>6. Alone(Producers, prod.sp_enqueue)' /\ Alone(Consumers, cons.sc_dequeue)'
  BY <1>1, <1>3, AloneKept DEF At
<1> QED BY <1>1, <1>3, <1>4, <1>5, <1>6, QuietStep

(* The compare and set succeeds: the entries at the old head are reserved. *)
LEMMA MoveProdHeadSucceeds ==
  ASSUME IndInv, NEW p \in Producers, At(p, "move"), local[p].head = prod.head,
         prod' = [prod EXCEPT !.head = prod.head + local[p].n],
         local' = [local EXCEPT ![p].pc = "copy", ![p].head = prod.head],
         UNCHANGED <<cons, watermark, ring, offered>>
  PROVE  IndInv'
<1> DEFINE r == local[p]
           s == [r EXCEPT !.pc = "copy", !.head = prod.head]
<1>1. /\ p \in Lcores /\ p \notin Consumers /\ r \in LocalSet /\ r.pc = "move" /\ TypeOK
      /\ ProducerOK(p)
      /\ local' = [local EXCEPT ![p] = s]
      /\ Producers \subseteq Lcores /\ Consumers \subseteq Lcores
  BY RingAssumption DEF Lcores, IndInv, TypeOK, At
<1>2. /\ s \in LocalSet /\ s.pc = "copy" /\ s.max = r.max /\ s.obj = r.obj /\ s.i = r.i
      /\ s.head = r.head /\ s.n = r.n /\ s.free = r.free
  BY <1>1 DEF LocalSet, PcSet
<1> HIDE DEF s
<1>3. local'[p] = s /\ OnlyAt(p) /\ local' \in [Lcores -> LocalSet]
  BY <1>1, <1>2, LocalUpdate
<1>4. /\ prod.head \in Nat /\ prod.tail \in Nat /\ cons.tail \in Nat /\ cons.head \in Nat
      /\ r.n \in Nat /\ r.max \in Nat /\ r.free \in Nat /\ Mask \in Int
  BY <1>1, RingAssumption DEF TypeOK, LocalSet, Mask
<1>5. /\ prod'.head = prod.head + r.n /\ prod'.tail = prod.tail
      /\ prod'.sp_enqueue = prod.sp_enqueue /\ cons' = cons /\ ring' = ring
      /\ prod' \in [head : Nat, tail : Nat, sp_enqueue : BOOLEAN]
  BY <1>1, <1>4 DEF TypeOK
<1>6. /\ r.n >= 1 /\ r.n <= r.max /\ r.i = 0 /\ r.max >= 1 /\ Len(r.obj) = r.max
      /\ prod.head + r.n <= cons.tail + Mask /\ r.free + prod.head <= cons.tail + Mask
  BY <1>1 DEF ProducerOK
<1>7. TypeOK'
  BY <1>1, <1>3, <1>5 DEF TypeOK
<1>8. IndexOrder /\ IndexOrder'
  BY <1>4, <1>5, <1>6 DEF IndInv, IndexOrder
<1>9. ~Reserved(p) /\ Reserved(p)'
  BY <1>1, <1>2, <1>3 DEF Reserved
<1>10. \A l \in Lcores : l # p => (Reserved(l)' <=> Reserved(l)) /\ local'[l] = local[l]
  BY <1>3 DEF OnlyAt, Reserved
<1>11. ASSUME NEW q \in Producers PROVE ProducerOK(q)'
  <2>1. CASE q = p
    <3>1. s.head + s.n <= prod'.head /\ prod'.tail <= s.head /\ s.i < s.n
      BY <1>2, <1>4, <1>5, <1>6, <1>8 DEF IndexOrder
    <3> QED BY <2>1, <3>1, <1>2, <1>3, <1>5, <1>6, <1>9 DEF ProducerOK
  <2>2. CASE q # p
    <3>1. ProducerOK(q) /\ local'[q] = local[q] /\ (Reserved(q) => prod'.tail <= local[q].head)
      BY <1>1, <1>5, <1>10, <2>2 DEF IndInv, ProducerOK
    <3>2. local[q].pc \in {"tail", "move"} => ~prod.sp_enqueue
      BY <1>1, <2>2 DEF IndInv, Alone, At
    <3>3. prod.head <= prod'.head /\ cons.tail <= cons'.tail
      BY <1>4, <1>5
    <3> QED BY <1>1, <1>5, <1>7, <3>1, <3>2, <3>3, ProducerFrame
  <2> QED BY <2>1, <2>2
<1>12. ASSUME NEW d \in Consumers PROVE ConsumerOK(d)'
  <2>1. ConsumerOK(d) /\ local'[d] = local[d] /\ (Reserved(d) => cons'.tail <= local[d].head)
    BY <1>1, <1>5, <1>10 DEF IndInv, ConsumerOK
  <2>2. prod.tail <= prod'.tail /\ cons.head <= cons'.head
    BY <1>4, <1>5
  <2> QED BY <1>1, <1>5, <1>7, <2>1, <2>2, ConsumerFrame
<1>13. Apart(Producers)'
  <2>1. \A l \in Producers : l # p /\ Reserved(l) => local[l].head + local[l].n <= prod.head
    BY DEF IndInv, ProducerOK
  <2>2. Apart(Producers)
    BY DEF IndInv
  <2> QED BY <1>1, <1>2, <1>3, <1>10, <2>1, <2>2 DEF Apart
<1>14. SameReservations(Consumers)
  BY <1>1, <1>10 DEF SameReservations
<1>15. Apart(Consumers)' /\ Covered(Consumers, cons)'
  BY <1>5, <1>14, SideFrame DEF IndInv, Covered
<1>16. Covered(Producers, prod)'
  <2> SUFFICES ASSUME NEW k \in prod'.tail .. prod'.head - 1
               PROVE  \E l \in Producers : Reserved(l)' /\ k \in Entries(l)'
    BY DEF Covered
  <2>1. CASE k < prod.head
    <3>1. PICK l \in Producers : Reserved(l) /\ k \in Entries(l)
      BY <1>4, <1>5, <2>1 DEF IndInv, Covered
    <3>2. l # p
      BY <1>9, <3>1
    <3> QED BY <1>1, <1>10, <3>1, <3>2 DEF Entries
  <2>2. CASE k >= prod.head
    <3>1. k \in s.head .. s.head + s.n - 1
      BY <1>2, <1>4, <1>5, <2>2
    <3> QED BY <1>3, <1>9, <3>1 DEF Entries
  <2> QED BY <1>4, <1>5, <2>1, <2>2
<1>17. Alone(Producers, prod.sp_enqueue)' /\ Alone(Consumers, cons.sc_dequeue)'
  BY <1>1, <1>3, <1>5, AloneKept DEF At
<1>18. Published'
  BY <1>5 DEF IndInv, Published
<1>19. Copied'
  <2>1. ASSUME NEW q \in Producers, Reserved(q)', q # p
        PROVE  \A j \in 0 .. local'[q].i - 1 :
                 ring'[Slot(local'[q].head + j)] = local'[q].obj[j + 1]
    BY <1>1, <1>5, <1>10, <2>1 DEF IndInv, Copied
  <2>2. 0 .. local'[p].i - 1 = {}
    BY <1>2, <1>3, <1>6
  <2> QED BY <2>1, <2>2 DEF Copied
<1> QED BY <1>7, <1>8, <1>11, <1>12, <1>13, <1>15, <1>16, <1>17, <1>18, <1>19 DEF IndInv

(* The move of prod.head, either way. *)
LEMMA MoveProdHeadStep ==
  ASSUME IndInv, NEW p \in Producers, MoveProdHead(p)
  PROVE  IndInv'
<1>1. CASE prod.sp_enqueue \/ SameIndex(prod.head, local[p].head)
  BY <1>1, MoveProdHeadCurrent, MoveProdHeadSucceeds DEF MoveProdHead
<1>2. CASE ~(prod.sp_enqueue \/ SameIndex(prod.head, local[p].head))
  BY <1>2, MoveProdHeadFails DEF MoveProdHead
<1> QED BY <1>1, <1>2

(* A producer copies one pointer: no published entry and no copy of another *)
(* producer is overwritten.                                                *)
LEMMA WriteEntryStep ==
  ASSUME IndInv, NEW p \in Producers, WriteEntry(p)
  PROVE  IndInv'
<1> DEFINE r == local[p]
           last == r.i + 1 = r.n
           ret == IF last THEN (IF Quota(r.free, r.n) THEN "quota" ELSE "ok") ELSE "none"
           pc == IF last THEN "wait" ELSE "copy"
           s == [r EXCEPT !.i = r.i + 1, !.pc = pc, !.ret = ret]
           w == r.head + r.i
<1>0. local' = [local EXCEPT ![p] = s]
  BY DEF WriteEntry
<1>1. /\ p \in Lcores /\ p \notin Consumers /\ r \in LocalSet /\ r.pc = "copy" /\ TypeOK
      /\ ProducerOK(p)
      /\ ring' = [ring EXCEPT ![Slot(w)] = r.obj[r.i + 1]]
      /\ UNCHANGED <<prod, cons, watermark, offered>>
      /\ Producers \subseteq Lcores /\ Consumers \subseteq Lcores
  BY RingAssumption DEF Lcores, IndInv, TypeOK, WriteEntry, At
<1>2. /\ r.head \in Nat /\ r.n \in Nat /\ r.i \in Nat /\ r.max \in Nat /\ r.free \in Nat
      /\ w \in Nat
  BY <1>1 DEF LocalSet
<1>25. r.obj \in Seq(Objects) /\ Len(r.obj) = r.max
  BY <1>1 DEF LocalSet, ProducerOK
<1>24. pc \in PcSet /\ ret \in {"none", "ok", "quota"}
  BY DEF PcSet
<1>3. /\ s \in LocalSet /\ s.pc = pc /\ s.max = r.max /\ s.obj = r.obj /\ s.i = r.i + 1
      /\ s.head = r.head /\ s.n = r.n /\ s.free = r.free
  <2> HIDE DEF pc, ret
  <2>1. r.i + 1 \in Nat
    BY <1>2
  <2> QED BY <1>1, <1>2, <1>24, <1>25, <2>1 DEF LocalSet
<1>4. /\ prod.head \in Nat /\ prod.tail \in Nat /\ cons.tail \in Nat /\ cons.head \in Nat
      /\ Mask \in Nat /\ Size \in Nat /\ Mask < Size
  BY <1>1, RingAssumption DEF TypeOK, Mask
<1>5. /\ r.n >= 1 /\ r.n <= r.max /\ r.i < r.n /\ r.max >= 1
      /\ r.head + r.n <= cons.tail + Mask /\ r.free + r.head <= cons.tail + Mask
      /\ prod.tail <= r.head /\ r.head + r.n <= prod.head
  BY <1>1 DEF ProducerOK, Reserved
<1>23. /\ cons.tail <= prod.tail /\ prod.tail <= prod.head /\ prod.head <= cons.tail + Mask
       /\ r.head <= w /\ w < r.head + r.n
  <2>1. IndexOrder
    BY DEF IndInv
  <2> QED BY <1>2, <1>4, <1>5, <2>1 DEF IndexOrder
<1>6. r.i + 1 \in 1..Len(r.obj) /\ r.obj[r.i + 1] \in Objects
  BY <1>2, <1>5, <1>25
<1>7. Slot(w) \in 0..Mask
  BY <1>2, SlotRange
<1>8. ring' \in [0..Mask -> Objects \cup {Nothing}]
  BY <1>1, <1>6 DEF TypeOK
<1>9. ASSUME NEW k \in Nat, cons.tail <= k, k < prod.head, k # w
      PROVE  ring'[Slot(k)] = ring[Slot(k)]
  <2>1. cons.tail <= w /\ w < prod.head /\ prod.head <= cons.tail + Mask
    BY <1>2, <1>4, <1>5, <1>23
  <2>2. Slot(k) # Slot(w)
    BY <1>2, <1>4, <1>9, <2>1, SlotsDiffer
  <2>3. Slot(k) \in 0..Mask
    BY SlotRange
  <2> QED BY <1>1, <2>2, <2>3 DEF TypeOK
<1>10. ring'[Slot(w)] = r.obj[r.i + 1]
  BY <1>1, <1>7 DEF TypeOK
<1> HIDE DEF s, pc, ret
<1>11. local'[p] = s /\ OnlyAt(p) /\ local' \in [Lcores -> LocalSet]
  BY <1>0, <1>1, <1>3, LocalUpdate
<1>12. TypeOK'
  BY <1>1, <1>8, <1>11 DEF TypeOK
<1>13. IndexOrder'
  BY <1>1 DEF IndInv, IndexOrder
<1>14. Reserved(p) /\ Reserved(p)'
  BY <1>1, <1>3, <1>11 DEF Reserved, pc
<1>15. \A l \in Lcores : l # p => local'[l] = local[l]
  BY <1>11 DEF OnlyAt
<1>16. SameReservations(Producers) /\ SameReservations(Consumers)
  BY <1>1, <1>3, <1>11, <1>14, <1>15 DEF SameReservations, Reserved
<1>17. ASSUME NEW q \in Producers PROVE ProducerOK(q)'
  <2>1. CASE q = p
    <3>1. (s.pc = "copy" => s.i < s.n) /\ (s.pc = "wait" => s.i = s.n) /\ s.pc \in {"copy", "wait"}
      <4>1. s.i = r.i + 1 /\ s.n = r.n /\ s.pc = (IF r.i + 1 = r.n THEN "wait" ELSE "copy")
        BY <1>3 DEF pc
      <4> QED BY <1>2, <1>5, <4>1
    <3> QED BY <1>1, <1>3, <1>5, <1>25, <1>11, <2>1, <3>1 DEF ProducerOK, Reserved
  <2>2. CASE q # p
    <3>1. ProducerOK(q) /\ local'[q] = local[q] /\ (Reserved(q) => prod'.tail <= local[q].head)
      BY <1>1, <1>15, <2>2 DEF IndInv, ProducerOK
    <3>2. prod.head <= prod'.head /\ cons.tail <= cons'.tail
      BY <1>1, <1>4
    <3> QED BY <1>1, <1>12, <3>1, <3>2, ProducerFrame
  <2> QED BY <2>1, <2>2
<1>18. ASSUME NEW d \in Consumers PROVE ConsumerOK(d)'
  <2>1. ConsumerOK(d) /\ local'[d] = local[d] /\ (Reserved(d) => cons'.tail <= local[d].head)
    BY <1>1, <1>15 DEF IndInv, ConsumerOK
  <2>2. prod.tail <= prod'.tail /\ cons.head <= cons'.head
    BY <1>1, <1>4
  <2> QED BY <1>1, <1>12, <2>1, <2>2, ConsumerFrame
<1>19. /\ Apart(Producers)' /\ Apart(Consumers)'
       /\ Covered(Producers, prod)' /\ Covered(Consumers, cons)'
  BY <1>1, <1>16, SideFrame DEF IndInv, Covered
<1>20. Alone(Producers, prod.sp_enqueue)' /\ Alone(Consumers, cons.sc_dequeue)'
  BY <1>1, <1>11, AloneKept DEF At
<1>21. Published'
  <2> SUFFICES ASSUME NEW k \in cons.tail .. prod.tail - 1
               PROVE  ring'[Slot(k)] \in Objects
    BY <1>1 DEF Published
  <2>1. k \in Nat /\ cons.tail <= k /\ k < prod.head /\ k # w
    BY <1>2, <1>4, <1>5, <1>23
  <2> QED BY <1>9, <2>1 DEF IndInv, Published
<1>22. Copied'
  <2> SUFFICES ASSUME NEW q \in Producers, Reserved(q)', NEW j \in 0 .. local'[q].i - 1
               PROVE  ring'[Slot(local'[q].head + j)] = local'[q].obj[j + 1]
    BY DEF Copied
  <2>1. CASE q = p
    <3>1. local'[q] = s
      BY <2>1, <1>11
    <3>2. CASE j = r.i
      BY <1>3, <1>10, <3>1, <3>2
    <3>3. CASE j # r.i
      <4>1. j \in 0 .. r.i - 1 /\ r.head + j \in Nat
        <5>1. j \in 0 .. r.i
          BY <1>2, <1>3, <3>1
        <5> QED BY <1>2, <3>3, <5>1
      <4>2. ring[Slot(r.head + j)] = r.obj[j + 1]
        BY <1>14, <4>1 DEF IndInv, Copied
      <4>3. cons.tail <= r.head + j /\ r.head + j < prod.head /\ r.head + j # w
        BY <1>2, <1>4, <1>5, <1>23, <4>1
      <4> QED BY <1>3, <1>9, <3>1, <4>1, <4>2, <4>3
    <3> QED BY <3>2, <3>3
  <2>2. CASE q # p
    <3> DEFINE x == local[q]
    <3>1. local'[q] = x /\ Reserved(q) /\ ProducerOK(q) /\ x \in LocalSet
      BY <1>1, <1>15, <2>2 DEF Reserved, IndInv, TypeOK
    <3>2. /\ x.head \in Nat /\ x.n \in Nat /\ x.i \in Nat /\ x.i <= x.n
          /\ prod.tail <= x.head /\ x.head + x.n <= prod.head
      BY <3>1 DEF LocalSet, ProducerOK, Reserved
    <3>3. x.head + x.n <= r.head \/ r.head + r.n <= x.head
      BY <1>14, <2>2, <3>1 DEF IndInv, Apart
    <3> HIDE DEF x
    <3>4. x.head + j \in Nat /\ cons.tail <= x.head + j /\ x.head + j < prod.head /\ x.head + j # w
      <4>1. j \in 0 .. x.i - 1
        BY <3>1
      <4> QED BY <1>2, <1>4, <1>23, <3>2, <3>3, <4>1
    <3>5. ring[Slot(x.head + j)] = x.obj[j + 1]
      BY <3>1 DEF IndInv, Copied, x
    <3> QED BY <1>9, <3>1, <3>4, <3>5
  <2> QED BY <2>1, <2>2
<1> QED BY <1>12, <1>13, <1>17, <1>18, <1>19, <1>20, <1>21, <1>22 DEF IndInv

(* The call that waits its turn publishes right behind the tail. *)
LEMMA PublishProdTurn ==
  ASSUME IndInv, NEW p \in Producers, At(p, "wait"),
         prod.sp_enqueue \/ SameIndex(prod.tail, local[p].head)
  PROVE  local[p].head = prod.tail
<1> DEFINE r == local[p]
<1>1. /\ prod.head \in Nat /\ prod.tail \in Nat /\ cons.tail \in Nat /\ cons.head \in Nat
      /\ r.head \in Nat /\ r.n \in Nat
      /\ Mask \in Nat /\ Size \in Nat /\ Mask < Size /\ Word \in Nat /\ Word > Size
  BY RingAssumption DEF IndInv, TypeOK, LocalSet, Lcores, Mask
<1>2. prod.tail <= r.head /\ r.head + r.n <= prod.head /\ r.n >= 1 /\ Reserved(p)
  BY DEF IndInv, ProducerOK, Reserved, At
<1>3. cons.tail <= prod.tail /\ prod.head <= cons.tail + Mask
  <2>1. IndexOrder
    BY DEF IndInv
  <2> QED BY <1>1, <2>1 DEF IndexOrder
<1>4. CASE SameIndex(prod.tail, r.head)
  <2>1. SameIndex(r.head, prod.tail)
    BY <1>4 DEF SameIndex
  <2>2. r.head - prod.tail < Word
    BY <1>1, <1>2, <1>3
  <2> QED BY <1>1, <1>2, <2>1, <2>2, SameIndexEqual
<1>5. CASE prod.sp_enqueue
  <2>1. prod.tail \in prod.tail .. prod.head - 1
    BY <1>1, <1>2
  <2>2. PICK q \in Producers : Reserved(q) /\ prod.tail \in Entries(q)
    BY <2>1 DEF IndInv, Covered
  <2>3. q = p
    BY <1>2, <1>5, <2>2 DEF IndInv, Alone, At, Reserved
  <2> QED BY <1>1, <1>2, <2>2, <2>3 DEF Entries
<1> QED BY <1>4, <1>5

(* A producer moves prod.tail over its entries, all of them copied. *)
LEMMA PublishProdStep ==
  ASSUME IndInv, NEW p \in Producers, PublishProd(p)
  PROVE  IndInv'
<1> DEFINE r == local[p]
<1>1. /\ p \in Lcores /\ p \notin Consumers /\ r \in LocalSet /\ r.pc = "wait" /\ TypeOK
      /\ ProducerOK(p)
      /\ local' = [local EXCEPT ![p] = Idle]
      /\ prod' = [prod EXCEPT !.tail = r.head + r.n]
      /\ UNCHANGED <<cons, watermark, ring, offered>>
      /\ Producers \subseteq Lcores /\ Consumers \subseteq Lcores
  BY RingAssumption DEF Lcores, IndInv, TypeOK, PublishProd, At
<1>2. r.head = prod.tail
  BY PublishProdTurn DEF PublishProd
<1>3. local'[p] = Idle /\ OnlyAt(p) /\ local' \in [Lcores -> LocalSet]
  BY <1>1, IdleOK, LocalUpdate
<1>4. /\ prod.head \in Nat /\ prod.tail \in Nat /\ cons.tail \in Nat /\ cons.head \in Nat
      /\ r.head \in Nat /\ r.n \in Nat /\ r.i \in Nat /\ r.max \in Nat
  BY <1>1 DEF TypeOK, LocalSet
<1>5. /\ r.n >= 1 /\ r.n <= r.max /\ r.i = r.n /\ r.head + r.n <= prod.head /\ Reserved(p)
  BY <1>1 DEF ProducerOK, Reserved
<1>6. /\ prod'.tail = prod.tail + r.n /\ prod'.head = prod.head
      /\ prod'.sp_enqueue = prod.sp_enqueue /\ cons' = cons /\ ring' = ring
      /\ prod' \in [head : Nat, tail : Nat, sp_enqueue : BOOLEAN]
  BY <1>1, <1>2, <1>4 DEF TypeOK
<1>7. TypeOK'
  BY <1>1, <1>3, <1>6 DEF TypeOK
<1>8. IndexOrder'
  <2>1. IndexOrder
    BY DEF IndInv
  <2>2. cons.tail + Mask \in Int
    BY <1>4, RingAssumption DEF Mask
  <2> QED BY <1>2, <1>4, <1>5, <1>6, <2>1, <2>2 DEF IndexOrder
<1>9. ~Reserved(p)' /\ \A l \in Lcores : l # p => (Reserved(l)' <=> Reserved(l)) /\ local'[l] = local[l]
  BY <1>3, IdleOK DEF OnlyAt, Reserved
<1>10. ASSUME NEW q \in Producers PROVE ProducerOK(q)'
  <2>1. CASE q = p
    BY <1>3, <2>1, IdleOK DEF ProducerOK, Reserved
  <2>2. CASE q # p
    <3>1. ProducerOK(q) /\ local'[q] = local[q] /\ local[q].head \in Nat /\ local[q].n \in Nat
      BY <1>1, <1>9, <2>2 DEF IndInv, TypeOK, LocalSet
    <3>2. Reserved(q) => prod'.tail <= local[q].head
      <4>1. Reserved(q) => prod.tail <= local[q].head /\ local[q].n >= 1
        BY <3>1 DEF ProducerOK, Reserved
      <4>2. Reserved(q) => \/ local[q].head + local[q].n <= r.head
                           \/ r.head + r.n <= local[q].head
        BY <1>5, <2>2 DEF IndInv, Apart
      <4> QED BY <1>2, <1>4, <1>6, <3>1, <4>1, <4>2
    <3>3. prod.head <= prod'.head /\ cons.tail <= cons'.tail
      BY <1>4, <1>6
    <3> QED BY <1>1, <1>6, <1>7, <3>1, <3>2, <3>3, ProducerFrame
  <2> QED BY <2>1, <2>2
<1>11. ASSUME NEW d \in Consumers PROVE ConsumerOK(d)'
  <2>1. ConsumerOK(d) /\ local'[d] = local[d] /\ (Reserved(d) => cons'.tail <= local[d].head)
    BY <1>1, <1>6, <1>9 DEF IndInv, ConsumerOK
  <2>2. prod.tail <= prod'.tail /\ cons.head <= cons'.head
    BY <1>4, <1>6
  <2> QED BY <1>1, <1>6, <1>7, <2>1, <2>2, ConsumerFrame
<1>12. Apart(Producers)'
  BY <1>1, <1>9 DEF IndInv, Apart
<1>13. SameReservations(Consumers)
  BY <1>1, <1>9 DEF SameReservations
<1>14. Apart(Consumers)' /\ Covered(Consumers, cons)'
  BY <1>6, <1>13, SideFrame DEF IndInv, Covered
<1>15. Covered(Producers, prod)'
  <2> SUFFICES ASSUME NEW k \in prod'.tail .. prod'.head - 1
               PROVE  \E l \in Producers : Reserved(l)' /\ k \in Entries(l)'
    BY DEF Covered
  <2>1. k \in prod.tail .. prod.head - 1 /\ k >= r.head + r.n
    BY <1>2, <1>4, <1>6
  <2>2. PICK l \in Producers : Reserved(l) /\ k \in Entries(l)
    BY <2>1 DEF IndInv, Covered
  <2>3. l # p
    BY <1>4, <2>1, <2>2 DEF Entries
  <2> QED BY <1>1, <1>9, <2>2, <2>3 DEF Entries
<1>16. Alone(Producers, prod.sp_enqueue)' /\ Alone(Consumers, cons.sc_dequeue)'
  BY <1>1, <1>3, <1>6, AloneKept DEF At
<1>17. Published'
  <2> SUFFICES ASSUME NEW k \in cons.tail .. (prod.tail + r.n) - 1
               PROVE  ring[Slot(k)] \in Objects
    BY <1>6 DEF Published
  <2>1. CASE k < prod.tail
    <3>1. k \in cons.tail .. prod.tail - 1
      BY <1>4, <2>1
    <3> QED BY <3>1 DEF IndInv, Published
  <2>2. CASE k >= prod.tail
    <3>1. k - prod.tail \in 0 .. r.i - 1 /\ r.head + (k - prod.tail) = k /\ (k - prod.tail) + 1 \in 1..r.max
      BY <1>2, <1>4, <1>5, <2>2
    <3>2. ring[Slot(k)] = r.obj[(k - prod.tail) + 1]
      BY <1>5, <3>1 DEF IndInv, Copied
    <3>3. r.obj \in Seq(Objects) /\ Len(r.obj) = r.max
      BY <1>1 DEF LocalSet, ProducerOK
    <3> QED BY <3>1, <3>2, <3>3
  <2> QED BY <1>4, <2>1, <2>2
<1>18. Copied'
  <2>1. ASSUME NEW q \in Producers, Reserved(q)'
        PROVE  local'[q] = local[q] /\ Reserved(q)
    BY <1>1, <1>9, <2>1
  <2> QED BY <1>6, <2>1 DEF IndInv, Copied
<1> QED BY <1>7, <1>8, <1>10, <1>11, <1>12, <1>14, <1>15, <1>16, <1>17, <1>18 DEF IndInv

-----------------------------------------------------------------------------
(* The steps of a consumer. *)

(* A dequeue begins. *)
LEMMA DequeueStep_ ==
  ASSUME IndInv, NEW c \in Consumers, Dequeue(c)
  PROVE  IndInv'
<1>1. PICK n \in 1..MaxBulk, fixed \in Fixed :
        /\ cons.sc_dequeue => \A d \in Consumers : At(d, "idle")
        /\ local' = [local EXCEPT ![c] =
                       [Idle EXCEPT !.pc = "head", !.max = n, !.fixed = fixed]]
  BY DEF Dequeue
<1> DEFINE s == [Idle EXCEPT !.pc = "head", !.max = n, !.fixed = fixed]
<1>2. /\ c \in Lcores /\ c \notin Producers /\ n \in Nat /\ n >= 1 /\ fixed \in BOOLEAN /\ TypeOK
      /\ At(c, "idle") /\ UNCHANGED <<prod, cons, watermark, ring, offered>>
  BY RingAssumption DEF Lcores, IndInv, TypeOK, Dequeue
<1>3. s \in LocalSet /\ s.pc = "head" /\ s.max = n /\ s.i = 0 /\ s.obj = << >>
  BY <1>2, IdleOK DEF LocalSet, PcSet
<1> HIDE DEF s
<1>4. local'[c] = s /\ OnlyAt(c) /\ local' \in [Lcores -> LocalSet]
  BY <1>1, <1>2, <1>3, LocalUpdate DEF s
<1>5. TypeOK'
  BY <1>2, <1>4 DEF TypeOK
<1>6. ConsumerOK(c)' /\ ~Reserved(c)' /\ ~Reserved(c)
  BY <1>2, <1>3, <1>4 DEF ConsumerOK, Reserved, At
<1>7. Alone(Producers, prod.sp_enqueue)' /\ Alone(Consumers, cons.sc_dequeue)'
  <2>1. \A l \in Producers \cup Consumers : l # c => local'[l] = local[l]
    BY <1>4 DEF OnlyAt, Lcores
  <2> QED BY <1>1, <1>2, <2>1 DEF IndInv, Alone, At
<1> QED BY <1>2, <1>4, <1>5, <1>6, <1>7, QuietStep

(* A consumer reads cons.head. *)
LEMMA ReadConsHeadStep ==
  ASSUME IndInv, NEW c \in Consumers, ReadConsHead(c)
  PROVE  IndInv'
<1> DEFINE r == local[c]
           s == [r EXCEPT !.pc = "tail", !.n = r.max, !.head = cons.head]
<1>1. /\ c \in Lcores /\ c \notin Producers /\ r \in LocalSet /\ r.pc = "head" /\ TypeOK
      /\ ConsumerOK(c) /\ cons.head \in Nat
      /\ UNCHANGED <<prod, cons, watermark, ring, offered>>
      /\ local' = [local EXCEPT ![c] = s]
  BY RingAssumption DEF Lcores, IndInv, TypeOK, ReadConsHead, At
<1>2. /\ s \in LocalSet /\ s.pc = "tail" /\ s.max = r.max /\ s.obj = r.obj /\ s.i = r.i
      /\ s.head = cons.head
  BY <1>1 DEF LocalSet, PcSet
<1> HIDE DEF s
<1>3. local'[c] = s /\ OnlyAt(c) /\ local' \in [Lcores -> LocalSet]
  BY <1>1, <1>2, LocalUpdate
<1>4. TypeOK'
  BY <1>1, <1>3 DEF TypeOK
<1>5. ConsumerOK(c)' /\ ~Reserved(c) /\ ~Reserved(c)'
  BY <1>1, <1>2, <1>3 DEF ConsumerOK, Reserved
<1>6. Alone(Producers, prod.sp_enqueue)' /\ Alone(Consumers, cons.sc_dequeue)'
  BY <1>1, <1>3, AloneKept DEF At
<1> QED BY <1>1, <1>3, <1>4, <1>5, <1>6, QuietStep

(* The entries the code computes are those of the producers' tail it has   *)
(* just read, without overflow.                                            *)
LEMMA EntriesExact ==
  ASSUME IndInv, NEW c \in Consumers, At(c, "tail"), InStep(prod.tail, local[c].head)
  PROVE  /\ Diff(prod.tail, local[c].head) = prod.tail - local[c].head
         /\ Diff(prod.tail, local[c].head) \in Nat
<1> DEFINE h == local[c].head
           d == prod.tail - h
<1>1. /\ h \in Nat /\ prod.tail \in Nat /\ cons.head \in Nat
      /\ Word \in Nat \ {0} /\ Size \in Nat \ {0}
  BY RingAssumption DEF IndInv, TypeOK, LocalSet, Lcores
<1>2. h <= cons.head /\ cons.head <= prod.tail
  BY DEF IndInv, ConsumerOK, At, IndexOrder
<1>3. d \in Nat /\ d < Word
  BY <1>1, <1>2 DEF InStep
<1>4. d % Word = d
  BY <1>1, <1>3, SmallMod
<1>5. Diff(prod.tail, h) = d % Word
  BY DEF Diff
<1> HIDE DEF d
<1>6. Diff(prod.tail, h) = d /\ d \in Nat
  BY <1>3, <1>4, <1>5
<1> QED BY <1>6 DEF d

(* A consumer reads prod.tail, and gives up or goes on with what is there. *)
LEMMA ReadProdTailStep ==
  ASSUME IndInv, NEW c \in Consumers, ReadProdTail(c)
  PROVE  IndInv'
<1> DEFINE r == local[c]
           entries == Diff(prod.tail, r.head)
           n == Granted(r.max, entries, r.fixed)
           s == IF n = 0 THEN Idle ELSE [r EXCEPT !.pc = "move", !.n = n]
<1>1. /\ c \in Lcores /\ c \notin Producers /\ r \in LocalSet /\ r.pc = "tail" /\ TypeOK
      /\ ConsumerOK(c) /\ cons.head \in Nat /\ prod.tail \in Nat
      /\ UNCHANGED <<prod, cons, watermark, ring, offered>>
  BY RingAssumption DEF Lcores, IndInv, TypeOK, ReadProdTail, At
<1>2. entries = prod.tail - r.head /\ entries \in Nat
  BY EntriesExact DEF ReadProdTail
<1>3. n \in Nat /\ n <= entries /\ r.max \in Nat /\ r.head \in Nat
  BY <1>1, <1>2 DEF Granted, LocalSet
<1>4. local' = [local EXCEPT ![c] = s]
  BY DEF ReadProdTail
<1> HIDE DEF n, entries
<1>5. CASE n = 0
  <2>1. s \in LocalSet /\ s.pc = "idle"
    BY <1>5, IdleOK
  <2> HIDE DEF s
  <2>2. local'[c] = s /\ OnlyAt(c) /\ local' \in [Lcores -> LocalSet]
    BY <1>1, <1>4, <2>1, LocalUpdate
  <2>3. TypeOK'
    BY <1>1, <2>2 DEF TypeOK
  <2>4. ConsumerOK(c)' /\ ~Reserved(c) /\ ~Reserved(c)'
    BY <1>1, <2>1, <2>2 DEF ConsumerOK, Reserved
  <2>5. Alone(Producers, prod.sp_enqueue)' /\ Alone(Consumers, cons.sc_dequeue)'
    BY <1>1, <2>2, AloneKept DEF At
  <2> QED BY <1>1, <2>2, <2>3, <2>4, <2>5, QuietStep
<1>6. CASE n # 0
  <2>1. /\ s \in LocalSet /\ s.pc = "move" /\ s.max = r.max /\ s.obj = r.obj /\ s.i = r.i
        /\ s.head = r.head /\ s.n = n
    BY <1>6, <1>1, <1>2, <1>3 DEF LocalSet, PcSet
  <2> HIDE DEF s
  <2>2. local'[c] = s /\ OnlyAt(c) /\ local' \in [Lcores -> LocalSet]
    BY <1>1, <1>4, <2>1, LocalUpdate
  <2>3. TypeOK'
    BY <1>1, <2>2 DEF TypeOK
  <2>4. ~Reserved(c) /\ ~Reserved(c)'
    BY <1>1, <2>1, <2>2 DEF Reserved
  <2>5. s.n >= 1 /\ s.head + s.n <= prod.tail
    BY <1>1, <1>2, <1>3, <1>6, <2>1
  <2>6. ConsumerOK(c)'
    BY <1>1, <2>1, <2>2, <2>4, <2>5 DEF ConsumerOK
  <2>7. Alone(Producers, prod.sp_enqueue)' /\ Alone(Consumers, cons.sc_dequeue)'
    BY <1>1, <2>2, AloneKept DEF At
  <2> QED BY <1>1, <2>2, <2>3, <2>4, <2>6, <2>7, QuietStep
<1> QED BY <1>5, <1>6

(* The move of cons.head succeeds only for a consumer that has read its    *)
(* present value.                                                          *)
LEMMA MoveConsHeadCurrent ==
  ASSUME IndInv, NEW c \in Consumers, At(c, "move"), InStep(cons.head, local[c].head),
         cons.sc_dequeue \/ SameIndex(cons.head, local[c].head)
  PROVE  local[c].head = cons.head
<1>1. cons.head \in Nat /\ local[c].head \in Nat /\ ConsumerOK(c)
  BY DEF IndInv, TypeOK, LocalSet, Lcores
<1>2. local[c].head <= cons.head /\ (cons.sc_dequeue => local[c].head = cons.head)
  BY <1>1 DEF ConsumerOK, At
<1>3. cons.head - local[c].head < Word
  BY <1>1, RingAssumption DEF InStep
<1> QED BY <1>1, <1>2, <1>3, SameIndexEqual

(* The compare and set of cons.head fails: the consumer starts over. *)
LEMMA MoveConsHeadFails ==
  ASSUME IndInv, NEW c \in Consumers, At(c, "move"),
         local' = [local EXCEPT ![c].pc = "head"],
         UNCHANGED <<prod, cons, watermark, ring, offered>>
  PROVE  IndInv'
<1> DEFINE r == local[c]
           s == [r EXCEPT !.pc = "head"]
<1>1. /\ c \in Lcores /\ c \notin Producers /\ r \in LocalSet /\ r.pc = "move" /\ TypeOK
      /\ ConsumerOK(c)
      /\ local' = [local EXCEPT ![c] = s]
  BY RingAssumption DEF Lcores, IndInv, TypeOK, At
<1>2. s \in LocalSet /\ s.pc = "head" /\ s.max = r.max /\ s.obj = r.obj /\ s.i = r.i
  BY <1>1 DEF LocalSet, PcSet
<1> HIDE DEF s
<1>3. local'[c] = s /\ OnlyAt(c) /\ local' \in [Lcores -> LocalSet]
  BY <1>1, <1>2, LocalUpdate
<1>4. TypeOK'
  BY <1>1, <1>3 DEF TypeOK
<1>5. ConsumerOK(c)' /\ ~Reserved(c) /\ ~Reserved(c)'
  BY <1>1, <1>2, <1>3 DEF ConsumerOK, Reserved
<1>6. Alone(Producers, prod.sp_enqueue)' /\ Alone(Consumers, cons.sc_dequeue)'
  BY <1>1, <1>3, AloneKept DEF At
<1> QED BY <1>1, <1>3, <1>4, <1>5, <1>6, QuietStep

(* The compare and set succeeds: the entries at the old head are reserved. *)
LEMMA MoveConsHeadSucceeds ==
  ASSUME IndInv, NEW c \in Consumers, At(c, "move"), local[c].head = cons.head,
         cons' = [cons EXCEPT !.head = cons.head + local[c].n],
         local' = [local EXCEPT ![c].pc = "copy", ![c].head = cons.head],
         UNCHANGED <<prod, watermark, ring, offered>>
  PROVE  IndInv'
<1> DEFINE r == local[c]
           s == [r EXCEPT !.pc = "copy", !.head = cons.head]
<1>1. /\ c \in Lcores /\ c \notin Producers /\ r \in LocalSet /\ r.pc = "move" /\ TypeOK
      /\ ConsumerOK(c)
      /\ local' = [local EXCEPT ![c] = s]
      /\ Producers \subseteq Lcores /\ Consumers \subseteq Lcores
  BY RingAssumption DEF Lcores, IndInv, TypeOK, At
<1>2. /\ s \in LocalSet /\ s.pc = "copy" /\ s.max = r.max /\ s.obj = r.obj /\ s.i = r.i
      /\ s.head = r.head /\ s.n = r.n
  BY <1>1 DEF LocalSet, PcSet
<1> HIDE DEF s
<1>3. local'[c] = s /\ OnlyAt(c) /\ local' \in [Lcores -> LocalSet]
  BY <1>1, <1>2, LocalUpdate
<1>4. /\ prod.head \in Nat /\ prod.tail \in Nat /\ cons.tail \in Nat /\ cons.head \in Nat
      /\ r.n \in Nat /\ Mask \in Int
  BY <1>1, RingAssumption DEF TypeOK, LocalSet, Mask
<1>5. /\ cons'.head = cons.head + r.n /\ cons'.tail = cons.tail
      /\ cons'.sc_dequeue = cons.sc_dequeue /\ prod' = prod /\ ring' = ring
      /\ cons' \in [head : Nat, tail : Nat, sc_dequeue : BOOLEAN]
  <2>1. cons \in [head : Nat, tail : Nat, sc_dequeue : BOOLEAN] /\ cons.head + r.n \in Nat
    BY <1>1, <1>4 DEF TypeOK
  <2> QED BY <2>1
<1>6. r.n >= 1 /\ r.i = 0 /\ cons.head + r.n <= prod.tail
  BY <1>1 DEF ConsumerOK
<1>7. TypeOK'
  BY <1>1, <1>3, <1>5 DEF TypeOK
<1>8. IndexOrder /\ IndexOrder'
  BY <1>4, <1>5, <1>6 DEF IndInv, IndexOrder
<1>9. ~Reserved(c) /\ Reserved(c)'
  BY <1>1, <1>2, <1>3 DEF Reserved
<1>10. \A l \in Lcores : l # c => (Reserved(l)' <=> Reserved(l)) /\ local'[l] = local[l]
  BY <1>3 DEF OnlyAt, Reserved
<1>11. ASSUME NEW d \in Consumers PROVE ConsumerOK(d)'
  <2>1. CASE d = c
    <3>1. s.head + s.n <= cons'.head /\ cons'.tail <= s.head /\ s.i < s.n /\ s.head + s.n <= prod'.tail
      BY <1>2, <1>4, <1>5, <1>6, <1>8 DEF IndexOrder
    <3>2. s.max >= 1 /\ Len(s.obj) = s.i /\ s.n >= 1
      BY <1>1, <1>2, <1>6 DEF ConsumerOK
    <3> QED BY <2>1, <3>1, <3>2, <1>2, <1>3, <1>9 DEF ConsumerOK
  <2>2. CASE d # c
    <3>1. ConsumerOK(d) /\ local'[d] = local[d] /\ (Reserved(d) => cons'.tail <= local[d].head)
      BY <1>1, <1>5, <1>10, <2>2 DEF IndInv, ConsumerOK
    <3>2. local[d].pc \in {"tail", "move"} => ~cons.sc_dequeue
      BY <1>1, <2>2 DEF IndInv, Alone, At
    <3>3. cons.head <= cons'.head /\ prod.tail <= prod'.tail
      BY <1>4, <1>5
    <3> QED BY <1>1, <1>5, <1>7, <3>1, <3>2, <3>3, ConsumerFrame
  <2> QED BY <2>1, <2>2
<1>12. ASSUME NEW q \in Producers PROVE ProducerOK(q)'
  <2>1. ProducerOK(q) /\ local'[q] = local[q] /\ (Reserved(q) => prod'.tail <= local[q].head)
    BY <1>1, <1>5, <1>10 DEF IndInv, ProducerOK
  <2>2. prod.head <= prod'.head /\ cons.tail <= cons'.tail
    BY <1>4, <1>5
  <2> QED BY <1>1, <1>5, <1>7, <2>1, <2>2, ProducerFrame
<1>13. Apart(Consumers)'
  <2>1. \A l \in Consumers : l # c /\ Reserved(l) => local[l].head + local[l].n <= cons.head
    BY DEF IndInv, ConsumerOK
  <2>2. Apart(Consumers)
    BY DEF IndInv
  <2> QED BY <1>1, <1>2, <1>3, <1>10, <2>1, <2>2 DEF Apart
<1>14. SameReservations(Producers)
  BY <1>1, <1>10 DEF SameReservations
<1>15. Apart(Producers)' /\ Covered(Producers, prod)'
  BY <1>5, <1>14, SideFrame DEF IndInv, Covered
<1>16. Covered(Consumers, cons)'
  <2> SUFFICES ASSUME NEW k \in cons'.tail .. cons'.head - 1
               PROVE  \E l \in Consumers : Reserved(l)' /\ k \in Entries(l)'
    BY DEF Covered
  <2>1. CASE k < cons.head
    <3>1. PICK l \in Consumers : Reserved(l) /\ k \in Entries(l)
      BY <1>4, <1>5, <2>1 DEF IndInv, Covered
    <3>2. l # c
      BY <1>9, <3>1
    <3> QED BY <1>1, <1>10, <3>1, <3>2 DEF Entries
  <2>2. CASE k >= cons.head
    <3>1. k \in s.head .. s.head + s.n - 1
      BY <1>2, <1>4, <1>5, <2>2
    <3> QED BY <1>3, <1>9, <3>1 DEF Entries
  <2> QED BY <1>4, <1>5, <2>1, <2>2
<1>17. Alone(Producers, prod.sp_enqueue)' /\ Alone(Consumers, cons.sc_dequeue)'
  BY <1>1, <1>3, <1>5, AloneKept DEF At
<1>18. Published'
  BY <1>5 DEF IndInv, Published
<1>19. Copied'
  <2>1. ASSUME NEW q \in Producers, Reserved(q)'
        PROVE  local'[q] = local[q] /\ Reserved(q)
    BY <1>1, <1>10, <2>1
  <2> QED BY <1>5, <2>1 DEF IndInv, Copied
<1> QED BY <1>7, <1>8, <1>11, <1>12, <1>13, <1>15, <1>16, <1>17, <1>18, <1>19 DEF IndInv

(* The move of cons.head, either way. *)
LEMMA MoveConsHeadStep ==
  ASSUME IndInv, NEW c \in Consumers, MoveConsHead(c)
  PROVE  IndInv'
<1>1. CASE cons.sc_dequeue \/ SameIndex(cons.head, local[c].head)
  BY <1>1, MoveConsHeadCurrent, MoveConsHeadSucceeds DEF MoveConsHead
<1>2. CASE ~(cons.sc_dequeue \/ SameIndex(cons.head, local[c].head))
  BY <1>2, MoveConsHeadFails DEF MoveConsHead
<1> QED BY <1>1, <1>2

(* A consumer copies one pointer out of a published entry. *)
LEMMA ReadEntryStep ==
  ASSUME IndInv, NEW c \in Consumers, ReadEntry(c)
  PROVE  IndInv'
<1> DEFINE r == local[c]
           pc == IF r.i + 1 = r.n THEN "wait" ELSE "copy"
           e == ring[Slot(r.head + r.i)]
           s == [r EXCEPT !.i = r.i + 1, !.obj = Append(r.obj, e), !.pc = pc]
<1>1. /\ c \in Lcores /\ c \notin Producers /\ r \in LocalSet /\ r.pc = "copy" /\ TypeOK
      /\ ConsumerOK(c)
      /\ local' = [local EXCEPT ![c] = s]
      /\ UNCHANGED <<prod, cons, watermark, ring, offered>>
      /\ Producers \subseteq Lcores /\ Consumers \subseteq Lcores
  BY RingAssumption DEF Lcores, IndInv, TypeOK, ReadEntry, At
<1>2. /\ prod.head \in Nat /\ prod.tail \in Nat /\ cons.tail \in Nat /\ cons.head \in Nat
      /\ r.head \in Nat /\ r.n \in Nat /\ r.i \in Nat /\ pc \in PcSet /\ r.i + 1 \in Nat
  BY <1>1 DEF TypeOK, LocalSet, PcSet
<1>3. /\ r.max >= 1 /\ r.n >= 1 /\ r.i < r.n /\ r.head + r.n <= prod.tail
      /\ cons.tail <= r.head /\ r.head + r.n <= cons.head
  BY <1>1 DEF ConsumerOK, Reserved
<1>4. e \in Objects
  <2>1. r.head + r.i \in cons.tail .. prod.tail - 1
    BY <1>2, <1>3
  <2> QED BY <2>1 DEF IndInv, Published
<1> HIDE DEF e
<1>5. Append(r.obj, e) \in Seq(Objects) /\ Len(Append(r.obj, e)) = r.i + 1
  BY <1>1, <1>4 DEF LocalSet, ConsumerOK
<1> HIDE DEF pc
<1>6. /\ s \in LocalSet /\ s.pc = pc /\ s.max = r.max /\ s.obj = Append(r.obj, e)
      /\ s.i = r.i + 1 /\ s.head = r.head /\ s.n = r.n
  BY <1>1, <1>2, <1>5 DEF LocalSet
<1> HIDE DEF s
<1>7. local'[c] = s /\ OnlyAt(c) /\ local' \in [Lcores -> LocalSet]
  BY <1>1, <1>6, LocalUpdate
<1>8. TypeOK'
  BY <1>1, <1>7 DEF TypeOK
<1>9. IndexOrder'
  BY <1>1 DEF IndInv, IndexOrder
<1>10. Reserved(c) /\ Reserved(c)'
  BY <1>1, <1>6, <1>7 DEF Reserved, pc
<1>11. \A l \in Lcores : l # c => local'[l] = local[l]
  BY <1>7 DEF OnlyAt
<1>12. SameReservations(Producers) /\ SameReservations(Consumers)
  BY <1>1, <1>6, <1>7, <1>10, <1>11 DEF SameReservations, Reserved
<1>13. ASSUME NEW d \in Consumers PROVE ConsumerOK(d)'
  <2>1. CASE d = c
    <3>1. (s.pc = "copy" => s.i < s.n) /\ (s.pc = "wait" => s.i = s.n) /\ s.pc \in {"copy", "wait"}
      <4>1. s.i = r.i + 1 /\ s.n = r.n /\ s.pc = (IF r.i + 1 = r.n THEN "wait" ELSE "copy")
        BY <1>6 DEF pc
      <4> QED BY <1>2, <1>3, <4>1
    <3>2. Len(s.obj) = s.i
      BY <1>5, <1>6
    <3> QED BY <1>1, <1>3, <1>6, <1>7, <2>1, <3>1, <3>2 DEF ConsumerOK, Reserved
  <2>2. CASE d # c
    <3>1. ConsumerOK(d) /\ local'[d] = local[d] /\ (Reserved(d) => cons'.tail <= local[d].head)
      BY <1>1, <1>11, <2>2 DEF IndInv, ConsumerOK
    <3>2. prod.tail <= prod'.tail /\ cons.head <= cons'.head
      BY <1>1, <1>2
    <3> QED BY <1>1, <1>8, <3>1, <3>2, ConsumerFrame
  <2> QED BY <2>1, <2>2
<1>14. ASSUME NEW q \in Producers PROVE ProducerOK(q)'
  <2>1. ProducerOK(q) /\ local'[q] = local[q] /\ (Reserved(q) => prod'.tail <= local[q].head)
    BY <1>1, <1>11 DEF IndInv, ProducerOK
  <2>2. prod.head <= prod'.head /\ cons.tail <= cons'.tail
    BY <1>1, <1>2
  <2> QED BY <1>1, <1>8, <2>1, <2>2, ProducerFrame
<1>15. /\ Apart(Producers)' /\ Apart(Consumers)'
       /\ Covered(Producers, prod)' /\ Covered(Consumers, cons)'
  BY <1>1, <1>12, SideFrame DEF IndInv, Covered
<1>16. Alone(Producers, prod.sp_enqueue)' /\ Alone(Consumers, cons.sc_dequeue)'
  BY <1>1, <1>7, AloneKept DEF At
<1>17. Published'
  BY <1>1 DEF IndInv, Published
<1>18. Copied'
  <2>1. ASSUME NEW q \in Producers, Reserved(q)'
        PROVE  local'[q] = local[q] /\ Reserved(q)
    BY <1>1, <1>11, <2>1 DEF Reserved
  <2> QED BY <1>1, <2>1 DEF IndInv, Copied
<1> QED BY <1>8, <1>9, <1>13, <1>14, <1>15, <1>16, <1>17, <1>18 DEF IndInv

(* A consumer that ends holds the entries at the tail. *)
LEMMA PublishConsTurn ==
  ASSUME IndInv, NEW c \in Consumers, At(c, "wait"),
         cons.sc_dequeue \/ SameIndex(cons.tail, local[c].head)
  PROVE  local[c].head = cons.tail
<1> DEFINE r == local[c]
<1>1. /\ prod.head \in Nat /\ prod.tail \in Nat /\ cons.tail \in Nat /\ cons.head \in Nat
      /\ r.head \in Nat /\ r.n \in Nat
      /\ Mask \in Nat /\ Size \in Nat /\ Mask < Size /\ Word \in Nat /\ Word > Size
  BY RingAssumption DEF IndInv, TypeOK, LocalSet, Lcores, Mask
<1>2. cons.tail <= r.head /\ r.head + r.n <= cons.head /\ r.n >= 1 /\ Reserved(c)
  BY DEF IndInv, ConsumerOK, Reserved, At
<1>3. cons.head <= cons.tail + Mask
  <2>1. IndexOrder
    BY DEF IndInv
  <2> QED BY <1>1, <2>1 DEF IndexOrder
<1>4. CASE SameIndex(cons.tail, r.head)
  <2>1. SameIndex(r.head, cons.tail)
    BY <1>4 DEF SameIndex
  <2>2. r.head - cons.tail < Word
    BY <1>1, <1>2, <1>3
  <2> QED BY <1>1, <1>2, <2>1, <2>2, SameIndexEqual
<1>5. CASE cons.sc_dequeue
  <2>1. cons.tail \in cons.tail .. cons.head - 1
    BY <1>1, <1>2
  <2>2. PICK d \in Consumers : Reserved(d) /\ cons.tail \in Entries(d)
    BY <2>1 DEF IndInv, Covered
  <2>3. d = c
    BY <1>2, <1>5, <2>2 DEF IndInv, Alone, At, Reserved
  <2> QED BY <1>1, <1>2, <2>2, <2>3 DEF Entries
<1> QED BY <1>4, <1>5

(* A consumer moves cons.tail over its entries. *)
LEMMA PublishConsStep ==
  ASSUME IndInv, NEW c \in Consumers, PublishCons(c)
  PROVE  IndInv'
<1> DEFINE r == local[c]
<1>1. /\ c \in Lcores /\ c \notin Producers /\ r \in LocalSet /\ r.pc = "wait" /\ TypeOK
      /\ ConsumerOK(c)
      /\ local' = [local EXCEPT ![c] = Idle]
      /\ cons' = [cons EXCEPT !.tail = r.head + r.n]
      /\ UNCHANGED <<prod, watermark, ring, offered>>
      /\ Producers \subseteq Lcores /\ Consumers \subseteq Lcores
  BY RingAssumption DEF Lcores, IndInv, TypeOK, PublishCons, At
<1>2. r.head = cons.tail
  BY PublishConsTurn DEF PublishCons
<1>3. local'[c] = Idle /\ OnlyAt(c) /\ local' \in [Lcores -> LocalSet]
  BY <1>1, IdleOK, LocalUpdate
<1>4. /\ prod.head \in Nat /\ prod.tail \in Nat /\ cons.tail \in Nat /\ cons.head \in Nat
      /\ r.head \in Nat /\ r.n \in Nat /\ Mask \in Int
  BY <1>1, RingAssumption DEF TypeOK, LocalSet, Mask
<1>5. r.n >= 1 /\ r.head + r.n <= cons.head /\ Reserved(c)
  BY <1>1 DEF ConsumerOK, Reserved
<1>6. /\ cons'.tail = cons.tail + r.n /\ cons'.head = cons.head
      /\ cons'.sc_dequeue = cons.sc_dequeue /\ prod' = prod /\ ring' = ring
      /\ cons' \in [head : Nat, tail : Nat, sc_dequeue : BOOLEAN]
  <2>1. cons \in [head : Nat, tail : Nat, sc_dequeue : BOOLEAN] /\ r.head + r.n \in Nat
    BY <1>1, <1>4 DEF TypeOK
  <2> QED BY <1>1, <1>2, <2>1
<1>7. TypeOK'
  BY <1>1, <1>3, <1>6 DEF TypeOK
<1>8. IndexOrder'
  <2>1. IndexOrder
    BY DEF IndInv
  <2> QED BY <1>2, <1>4, <1>5, <1>6, <2>1 DEF IndexOrder
<1>9. ~Reserved(c)' /\ \A l \in Lcores : l # c => (Reserved(l)' <=> Reserved(l)) /\ local'[l] = local[l]
  BY <1>3, IdleOK DEF OnlyAt, Reserved
<1>10. ASSUME NEW d \in Consumers PROVE ConsumerOK(d)'
  <2>1. CASE d = c
    BY <1>3, <2>1, IdleOK DEF ConsumerOK, Reserved
  <2>2. CASE d # c
    <3>1. ConsumerOK(d) /\ local'[d] = local[d] /\ local[d].head \in Nat /\ local[d].n \in Nat
      BY <1>1, <1>9, <2>2 DEF IndInv, TypeOK, LocalSet
    <3>2. Reserved(d) => cons'.tail <= local[d].head
      <4>1. Reserved(d) => cons.tail <= local[d].head /\ local[d].n >= 1
        BY <3>1 DEF ConsumerOK, Reserved
      <4>2. Reserved(d) => \/ local[d].head + local[d].n <= r.head
                           \/ r.head + r.n <= local[d].head
        BY <1>5, <2>2 DEF IndInv, Apart
      <4> QED BY <1>2, <1>4, <1>6, <3>1, <4>1, <4>2
    <3>3. cons.head <= cons'.head /\ prod.tail <= prod'.tail
      BY <1>4, <1>6
    <3> QED BY <1>1, <1>6, <1>7, <3>1, <3>2, <3>3, ConsumerFrame
  <2> QED BY <2>1, <2>2
<1>11. ASSUME NEW q \in Producers PROVE ProducerOK(q)'
  <2>1. ProducerOK(q) /\ local'[q] = local[q] /\ (Reserved(q) => prod'.tail <= local[q].head)
    BY <1>1, <1>6, <1>9 DEF IndInv, ProducerOK
  <2>2. prod.head <= prod'.head /\ cons.tail <= cons'.tail
    BY <1>4, <1>6
  <2> QED BY <1>1, <1>6, <1>7, <2>1, <2>2, ProducerFrame
<1>12. Apart(Consumers)'
  BY <1>1, <1>9 DEF IndInv, Apart
<1>13. SameReservations(Producers)
  BY <1>1, <1>9 DEF SameReservations
<1>14. Apart(Producers)' /\ Covered(Producers, prod)'
  BY <1>6, <1>13, SideFrame DEF IndInv, Covered
<1>15. Covered(Consumers, cons)'
  <2> SUFFICES ASSUME NEW k \in cons'.tail .. cons'.head - 1
               PROVE  \E l \in Consumers : Reserved(l)' /\ k \in Entries(l)'
    BY DEF Covered
  <2>1. k \in cons.tail .. cons.head - 1 /\ k >= r.head + r.n
    BY <1>2, <1>4, <1>6
  <2>2. PICK l \in Consumers : Reserved(l) /\ k \in Entries(l)
    BY <2>1 DEF IndInv, Covered
  <2>3. l # c
    BY <1>4, <2>1, <2>2 DEF Entries
  <2> QED BY <1>1, <1>9, <2>2, <2>3 DEF Entries
<1>16. Alone(Producers, prod.sp_enqueue)' /\ Alone(Consumers, cons.sc_dequeue)'
  BY <1>1, <1>3, <1>6, AloneKept DEF At
<1>17. Published'
  <2>1. \A k \in cons'.tail .. prod.tail - 1 : k \in cons.tail .. prod.tail - 1
    BY <1>4, <1>6
  <2> QED BY <1>6, <2>1 DEF IndInv, Published
<1>18. Copied'
  <2>1. ASSUME NEW q \in Producers, Reserved(q)'
        PROVE  local'[q] = local[q] /\ Reserved(q)
    BY <1>1, <1>9, <2>1
  <2> QED BY <1>6, <2>1 DEF IndInv, Copied
<1> QED BY <1>7, <1>8, <1>10, <1>11, <1>12, <1>14, <1>15, <1>16, <1>17, <1>18 DEF IndInv

-----------------------------------------------------------------------------
(* The control thread changes the watermark only. *)
LEMMA SetWaterMarkStep ==
  ASSUME IndInv, NEW count \in WaterMarks, SetWaterMark(count)
  PROVE  IndInv'
<1>1. UNCHANGED <<prod, cons, ring, local, offered>> /\ watermark' \in Int
  BY RingAssumption DEF SetWaterMark
<1>2. TypeOK'
  BY <1>1 DEF IndInv, TypeOK
<1> QED BY <1>1, <1>2 DEF IndInv, IndexOrder, ProducerOK, ConsumerOK, Apart, Covered, Alone,
           At, Reserved, Entries, Published, Copied

(* The invariant holds of a ring that has been used and is now quiet. *)
LEMMA InitInv == Init => IndInv
<1> SUFFICES ASSUME Init PROVE IndInv
  OBVIOUS
<1>1. /\ prod.head = Used + Filled /\ prod.tail = Used + Filled /\ cons.head = Used
      /\ cons.tail = Used /\ prod.sp_enqueue \in BOOLEAN /\ cons.sc_dequeue \in BOOLEAN
      /\ Used \in Nat /\ Filled \in Nat /\ Filled <= Mask /\ Mask \in Nat
      /\ Used + Filled \in Nat /\ Size \in Nat
  BY RingAssumption DEF Init, Mask
<1>2. \A i \in 1..Filled : i \in Objects
  BY RingAssumption DEF Objects
<1>3. \A l \in Lcores : local[l] = Idle
  BY DEF Init
<1>4. \A l \in Lcores : ~Reserved(l) /\ At(l, "idle")
  BY <1>3, IdleOK DEF Reserved, At
<1>5. Producers \subseteq Lcores /\ Consumers \subseteq Lcores
  BY DEF Lcores
<1>6. TypeOK
  <2>1. prod \in [head : Nat, tail : Nat, sp_enqueue : BOOLEAN]
    BY <1>1 DEF Init
  <2>2. cons \in [head : Nat, tail : Nat, sc_dequeue : BOOLEAN]
    BY <1>1 DEF Init
  <2>3. ring \in [0..Mask -> Objects \cup {Nothing}]
    BY <1>2 DEF Init
  <2>4. watermark \in Int /\ offered \in Nat /\ local \in [Lcores -> LocalSet]
    BY <1>1, IdleOK DEF Init
  <2> QED BY <2>1, <2>2, <2>3, <2>4 DEF TypeOK
<1>7. IndexOrder
  BY <1>1 DEF IndexOrder
<1>8. (\A p \in Producers : ProducerOK(p)) /\ (\A c \in Consumers : ConsumerOK(c))
  BY <1>3, <1>4, <1>5, IdleOK DEF ProducerOK, ConsumerOK, Reserved
<1>9. Apart(Producers) /\ Apart(Consumers) /\ Copied
  BY <1>4, <1>5 DEF Apart, Copied
<1>10. Covered(Producers, prod) /\ Covered(Consumers, cons)
  BY <1>1 DEF Covered
<1>11. Alone(Producers, prod.sp_enqueue) /\ Alone(Consumers, cons.sc_dequeue)
  BY <1>4, <1>5 DEF Alone
<1>12. Published
  <2> SUFFICES ASSUME NEW k \in Used .. (Used + Filled) - 1
               PROVE  ring[Slot(k)] \in Objects
    BY <1>1 DEF Published
  <2>1. k \in Nat /\ k - Used + 1 \in 1..Filled /\ Used + (k - Used + 1) - 1 = k
    BY <1>1
  <2>2. \E i \in 1..Filled : Slot(k) = Slot(Used + i - 1)
    BY <2>1
  <2>3. Slot(k) \in 0..Mask
    BY <2>1, SlotRange
  <2> QED BY <1>2, <2>2, <2>3 DEF Init
<1> QED BY <1>6, <1>7, <1>8, <1>9, <1>10, <1>11, <1>12 DEF IndInv

(* The invariant is inductive. *)
LEMMA NextInv == IndInv /\ [Next]_vars => IndInv'
<1> SUFFICES ASSUME IndInv, [Next]_vars PROVE IndInv'
  OBVIOUS
<1>1. ASSUME NEW p \in Producers, EnqueueStep(p) PROVE IndInv'
  BY <1>1, EnqueueStep_, ReadProdHeadStep, ReadConsTailStep, MoveProdHeadStep, WriteEntryStep,
     PublishProdStep DEF EnqueueStep
<1>2. ASSUME NEW c \in Consumers, DequeueStep(c) PROVE IndInv'
  BY <1>2, DequeueStep_, ReadConsHeadStep, ReadProdTailStep, MoveConsHeadStep, ReadEntryStep,
     PublishConsStep DEF DequeueStep
<1>3. ASSUME NEW count \in WaterMarks, SetWaterMark(count) PROVE IndInv'
  BY <1>3, SetWaterMarkStep
<1>4. CASE UNCHANGED vars
  BY <1>4 DEF vars, IndInv, TypeOK, IndexOrder, ProducerOK, ConsumerOK, Apart, Covered, Alone,
     At, Reserved, Entries, Published, Copied
<1> QED BY <1>1, <1>2, <1>3, <1>4 DEF Next

(* Every lcore is where the invariant says, in every state of the ring. *)
THEOREM RingInvariance == Spec => []IndInv
BY InitInv, NextInv, PTL DEF Spec

-----------------------------------------------------------------------------
(* What the inductive invariant says of the ring: the properties the run   *)
(* checks on small rings, for every ring.                                  *)

(* The indexes of __rte_ring_mp_do_enqueue and __rte_ring_mc_do_dequeue    *)
(* never pass each other, for any number of lcores.                        *)
THEOREM IndicesOrdered == Spec => []IndexOrder
<1>1. IndInv => IndexOrder
  BY DEF IndInv
<1> QED BY <1>1, RingInvariance, PTL

(* Types of the numbers that the proofs below reason about. *)
LEMMA Numbers ==
  ASSUME IndInv
  PROVE  /\ prod.head \in Nat /\ prod.tail \in Nat /\ cons.head \in Nat /\ cons.tail \in Nat
         /\ Mask \in Nat /\ Size \in Nat \ {0} /\ Mask = Size - 1 /\ watermark \in Int
         /\ \A l \in Lcores : /\ local[l].head \in Nat /\ local[l].n \in Nat
                              /\ local[l].i \in Nat /\ local[l].max \in Nat
                              /\ local[l].free \in Nat /\ local[l].obj \in Seq(Objects)
         /\ Producers \subseteq Lcores /\ Consumers \subseteq Lcores
BY RingAssumption DEF IndInv, TypeOK, LocalSet, Lcores, Mask

(* What is reserved lies between the consumers' tail and the producers'    *)
(* head, a window smaller than the table.                                  *)
LEMMA EntriesInWindow ==
  ASSUME IndInv, NEW l \in Lcores, Reserved(l), NEW i \in Entries(l)
  PROVE  /\ i \in Nat /\ cons.tail <= i /\ i < cons.tail + Mask
         /\ l \in Producers => prod.tail <= i
         /\ l \in Consumers => i < cons.head
<1>1. IndexOrder /\ local[l].head \in Nat /\ local[l].n \in Nat
  BY Numbers DEF IndInv
<1>2. cons.tail <= prod.tail /\ cons.head <= prod.tail /\ cons.head <= cons.tail + Mask
  BY <1>1, Numbers DEF IndexOrder
<1>3. /\ l \in Producers => prod.tail <= local[l].head
      /\ l \in Producers => local[l].head + local[l].n <= cons.tail + Mask
      /\ l \in Consumers => cons.tail <= local[l].head
      /\ l \in Consumers => local[l].head + local[l].n <= cons.head
  BY DEF IndInv, ProducerOK, ConsumerOK, Reserved
<1>4. /\ i \in Int /\ local[l].head <= i /\ i < local[l].head + local[l].n
  BY <1>1 DEF Entries
<1>5. l \in Producers \/ l \in Consumers
  BY DEF Lcores
<1>6. prod.tail \in Nat /\ cons.tail \in Nat /\ cons.head \in Nat /\ Mask \in Nat
  BY Numbers
<1>7. CASE l \in Producers
  <2>1. l \notin Consumers
    BY <1>7, RingAssumption
  <2>2. prod.tail <= local[l].head /\ local[l].head + local[l].n <= cons.tail + Mask
    BY <1>3, <1>7
  <2>3. i \in Nat /\ cons.tail <= i /\ i < cons.tail + Mask /\ prod.tail <= i
    BY <1>1, <1>2, <1>4, <1>6, <2>2
  <2> QED BY <2>1, <2>3
<1>8. CASE l \in Consumers
  <2>1. l \notin Producers
    BY <1>8, RingAssumption
  <2>2. cons.tail <= local[l].head /\ local[l].head + local[l].n <= cons.head
    BY <1>3, <1>8
  <2>3. i \in Nat /\ cons.tail <= i /\ i < cons.tail + Mask /\ i < cons.head
    BY <1>1, <1>2, <1>4, <1>6, <2>2
  <2> QED BY <2>1, <2>3
<1> QED BY <1>5, <1>7, <1>8

(* Lcores that copy at the same time never touch the same entry of the     *)
(* table (ENQUEUE_PTRS and DEQUEUE_PTRS run without a lock).               *)
THEOREM SlotsNeverShared == Spec => []SlotsExclusive
<1>1. ASSUME IndInv PROVE SlotsExclusive
  <2> SUFFICES ASSUME NEW l \in Lcores, NEW m \in Lcores, l # m, Reserved(l), Reserved(m),
                      NEW i \in Entries(l), NEW j \in Entries(m)
               PROVE  Slot(i) # Slot(j)
    BY DEF SlotsExclusive
  <2>1. /\ i \in Nat /\ cons.tail <= i /\ i < cons.tail + Mask
        /\ j \in Nat /\ cons.tail <= j /\ j < cons.tail + Mask
    BY <1>1, EntriesInWindow
  <2>2. i # j
    <3>1. CASE \/ l \in Producers /\ m \in Producers
               \/ l \in Consumers /\ m \in Consumers
      <4>1. \/ local[l].head + local[l].n <= local[m].head
            \/ local[m].head + local[m].n <= local[l].head
        BY <1>1, <3>1 DEF IndInv, Apart
      <4>2. /\ local[l].head \in Nat /\ local[l].n \in Nat
            /\ local[m].head \in Nat /\ local[m].n \in Nat
        BY <1>1, Numbers
      <4>3. /\ local[l].head <= i /\ i < local[l].head + local[l].n
            /\ local[m].head <= j /\ j < local[m].head + local[m].n
        BY <4>2 DEF Entries
      <4> QED BY <2>1, <4>1, <4>2, <4>3
    <3>2. CASE l \in Producers /\ m \in Consumers
      <4>1. prod.tail <= i /\ j < cons.head
        BY <1>1, <3>2, EntriesInWindow
      <4>2. IndexOrder
        BY <1>1 DEF IndInv
      <4> QED BY <1>1, <2>1, <4>1, <4>2, Numbers DEF IndexOrder
    <3>3. CASE l \in Consumers /\ m \in Producers
      <4>1. prod.tail <= j /\ i < cons.head
        BY <1>1, <3>3, EntriesInWindow
      <4>2. IndexOrder
        BY <1>1 DEF IndInv
      <4> QED BY <1>1, <2>1, <4>1, <4>2, Numbers DEF IndexOrder
    <3> QED BY <3>1, <3>2, <3>3 DEF Lcores
  <2>3. CASE i < j
    BY <1>1, <2>1, <2>3, Numbers, SlotsDiffer
  <2>4. CASE j < i
    BY <1>1, <2>1, <2>4, Numbers, SlotsDiffer
  <2> QED BY <2>1, <2>2, <2>3, <2>4
<1> QED BY <1>1, RingInvariance, PTL

(* An lcore that spins on prod.tail or cons.tail waits for a call that     *)
(* holds the entries at that tail.                                         *)
THEOREM TailIsReserved == Spec => []TailReserved
<1>1. ASSUME IndInv PROVE TailReserved
  <2>0. IndexOrder
    BY <1>1 DEF IndInv
  <2>1. ASSUME prod.tail # prod.head
        PROVE  \E p \in Producers : Reserved(p) /\ local[p].head = prod.tail
    <3>1. prod.tail \in prod.tail .. prod.head - 1
      BY <1>1, <2>0, <2>1, Numbers DEF IndexOrder
    <3>2. PICK p \in Producers : Reserved(p) /\ prod.tail \in Entries(p)
      BY <1>1, <3>1 DEF IndInv, Covered
    <3>3. prod.tail <= local[p].head /\ local[p].head <= prod.tail
      BY <1>1, <3>2, Numbers DEF IndInv, ProducerOK, Entries
    <3> QED BY <1>1, <3>2, <3>3, Numbers
  <2>2. ASSUME cons.tail # cons.head
        PROVE  \E c \in Consumers : Reserved(c) /\ local[c].head = cons.tail
    <3>1. cons.tail \in cons.tail .. cons.head - 1
      BY <1>1, <2>0, <2>2, Numbers DEF IndexOrder
    <3>2. PICK c \in Consumers : Reserved(c) /\ cons.tail \in Entries(c)
      BY <1>1, <3>1 DEF IndInv, Covered
    <3>3. cons.tail <= local[c].head /\ local[c].head <= cons.tail
      BY <1>1, <3>2, Numbers DEF IndInv, ConsumerOK, Entries
    <3> QED BY <1>1, <3>2, <3>3, Numbers
  <2> QED BY <2>1, <2>2 DEF TailReserved
<1> QED BY <1>1, RingInvariance, PTL

-----------------------------------------------------------------------------
(* A step is the step of one lcore, whose record alone changes, or of the  *)
(* control thread.                                                         *)
LEMMA OneMoves ==
  ASSUME IndInv, [Next]_vars
  PROVE  \/ \E p \in Producers : EnqueueStep(p) /\ OnlyAt(p)
         \/ \E c \in Consumers : DequeueStep(c) /\ OnlyAt(c)
         \/ UNCHANGED <<prod, cons, ring, local, offered>>
<1>1. ASSUME NEW p \in Producers, EnqueueStep(p)
      PROVE  OnlyAt(p)
  <2>1. p \in Lcores /\ local \in [Lcores -> LocalSet]
    BY DEF Lcores, IndInv, TypeOK
  <2> QED BY <1>1, <2>1 DEF EnqueueStep, Enqueue, ReadProdHead, ReadConsTail, MoveProdHead,
             WriteEntry, PublishProd, OnlyAt
<1>2. ASSUME NEW c \in Consumers, DequeueStep(c)
      PROVE  OnlyAt(c)
  <2>1. c \in Lcores /\ local \in [Lcores -> LocalSet]
    BY DEF Lcores, IndInv, TypeOK
  <2> QED BY <1>2, <2>1 DEF DequeueStep, Dequeue, ReadConsHead, ReadProdTail, MoveConsHead,
             ReadEntry, PublishCons, OnlyAt
<1> QED BY <1>1, <1>2 DEF Next, SetWaterMark, vars

(* An enqueue that ends at its test of the free entries found too few, and *)
(* the producers' head can only have moved on since it was read.           *)
LEMMA EnqueueFails ==
  ASSUME IndInv, NEW p \in Producers, ReadConsTail(p), At(p, "idle")'
  PROVE  IF local[p].fixed THEN prod.head + local[p].max > cons.tail + Mask
                           ELSE prod.head = cons.tail + Mask
<1> DEFINE r == local[p]
           free == FreeEntries(r.head, cons.tail)
           n == Granted(r.max, free, r.fixed)
<1>1. p \in Lcores /\ local \in [Lcores -> LocalSet] /\ At(p, "tail")
  BY DEF Lcores, IndInv, TypeOK, ReadConsTail
<1>2. free = Mask + cons.tail - r.head /\ free \in Nat
  BY FreeExact DEF ReadConsTail
<1>3. r.max \in Nat /\ r.head \in Nat /\ Mask \in Nat /\ cons.tail \in Nat /\ prod.head \in Nat
  BY <1>1, Numbers
<1>4. r.max >= 1 /\ r.head <= prod.head
  BY <1>1 DEF IndInv, ProducerOK, At
<1>5. prod.head <= cons.tail + Mask
  BY DEF IndInv, IndexOrder
<1>6. n = 0
  <2>1. SUFFICES ASSUME n # 0 PROVE FALSE
    OBVIOUS
  <2>2. local' = [local EXCEPT ![p].pc = "move", ![p].n = n, ![p].free = free]
    BY <2>1 DEF ReadConsTail
  <2>3. local'[p].pc = "move"
    BY <1>1, <2>2 DEF LocalSet
  <2> QED BY <2>3 DEF At
<1>7. free < r.max
  <2>1. r.max <= free => n = r.max
    BY DEF Granted
  <2> HIDE DEF free, n
  <2> QED BY <1>2, <1>3, <1>4, <1>6, <2>1
<1>8. ~r.fixed => free = 0
  <2>1. ~r.fixed /\ ~(r.max <= free) => n = free
    BY DEF Granted
  <2>2. ~(r.max <= free)
    <3> HIDE DEF free, n
    <3> QED BY <1>2, <1>3, <1>7
  <2> QED BY <1>6, <2>1, <2>2
<1> HIDE DEF free, n
<1>9. prod.head + r.max > cons.tail + Mask
  BY <1>2, <1>3, <1>4, <1>7
<1>10. free = 0 => prod.head = cons.tail + Mask
  BY <1>2, <1>3, <1>4, <1>5
<1> QED BY <1>8, <1>9, <1>10

(* A dequeue that ends at its test of the entries found too few, and the   *)
(* consumers' head can only have moved on since it was read.               *)
LEMMA DequeueFails ==
  ASSUME IndInv, NEW c \in Consumers, ReadProdTail(c), At(c, "idle")'
  PROVE  IF local[c].fixed THEN cons.head + local[c].max > prod.tail
                           ELSE cons.head = prod.tail
<1> DEFINE r == local[c]
           entries == Diff(prod.tail, r.head)
           n == Granted(r.max, entries, r.fixed)
<1>1. c \in Lcores /\ local \in [Lcores -> LocalSet] /\ At(c, "tail")
  BY DEF Lcores, IndInv, TypeOK, ReadProdTail
<1>2. entries = prod.tail - r.head /\ entries \in Nat
  BY EntriesExact DEF ReadProdTail
<1>3. r.max \in Nat /\ r.head \in Nat /\ cons.head \in Nat /\ prod.tail \in Nat
  BY <1>1, Numbers
<1>4. r.max >= 1 /\ r.head <= cons.head
  BY <1>1 DEF IndInv, ConsumerOK, At
<1>5. cons.head <= prod.tail
  BY DEF IndInv, IndexOrder
<1>6. n = 0
  <2>1. SUFFICES ASSUME n # 0 PROVE FALSE
    OBVIOUS
  <2>2. local' = [local EXCEPT ![c].pc = "move", ![c].n = n]
    BY <2>1 DEF ReadProdTail
  <2>3. local'[c].pc = "move"
    BY <1>1, <2>2 DEF LocalSet
  <2> QED BY <2>3 DEF At
<1>7. entries < r.max
  <2>1. r.max <= entries => n = r.max
    BY DEF Granted
  <2> HIDE DEF entries, n
  <2> QED BY <1>2, <1>3, <1>4, <1>6, <2>1
<1>8. ~r.fixed => entries = 0
  <2>1. ~r.fixed /\ ~(r.max <= entries) => n = entries
    BY DEF Granted
  <2>2. ~(r.max <= entries)
    <3> HIDE DEF entries, n
    <3> QED BY <1>2, <1>3, <1>7
  <2> QED BY <1>6, <2>1, <2>2
<1> HIDE DEF entries, n
<1>9. cons.head + r.max > prod.tail
  BY <1>2, <1>3, <1>4, <1>7
<1>10. entries = 0 => cons.head = prod.tail
  BY <1>2, <1>3, <1>4, <1>5
<1> QED BY <1>8, <1>9, <1>10

(* The only step from the test of the indexes to the end of a call. *)
LEMMA GivesUp ==
  ASSUME IndInv, [Next]_vars, NEW l \in Lcores, At(l, "tail"), At(l, "idle")'
  PROVE  (l \in Producers /\ ReadConsTail(l)) \/ (l \in Consumers /\ ReadProdTail(l))
<1>1. local[l].pc = "tail" /\ local'[l].pc = "idle"
  BY DEF At
<1>2. ASSUME NEW p \in Producers, EnqueueStep(p), OnlyAt(p) PROVE p = l /\ ReadConsTail(l)
  <2>1. p = l
    BY <1>1, <1>2 DEF OnlyAt
  <2> QED BY <1>1, <1>2, <2>1 DEF EnqueueStep, Enqueue, ReadProdHead, MoveProdHead, WriteEntry,
             PublishProd, At
<1>3. ASSUME NEW c \in Consumers, DequeueStep(c), OnlyAt(c) PROVE c = l /\ ReadProdTail(l)
  <2>1. c = l
    BY <1>1, <1>3 DEF OnlyAt
  <2> QED BY <1>1, <1>3, <2>1 DEF DequeueStep, Dequeue, ReadConsHead, MoveConsHead, ReadEntry,
             PublishCons, At
<1>4. ~UNCHANGED local
  BY <1>1
<1> QED BY <1>2, <1>3, <1>4, OneMoves

(* An enqueue fails only when the ring has no room, a dequeue only when it *)
(* has no entries, at the moment of the failure.                           *)
THEOREM FailureIsHonest == Spec => HonestFailure
<1> DEFINE A == /\ \A p \in Producers : At(p, "tail") /\ At(p, "idle")' =>
                     IF local[p].fixed THEN prod.head + local[p].max > cons.tail + Mask
                                       ELSE prod.head = cons.tail + Mask
                /\ \A c \in Consumers : At(c, "tail") /\ At(c, "idle")' =>
                     IF local[c].fixed THEN cons.head + local[c].max > prod.tail
                                       ELSE cons.head = prod.tail
<1>1. ASSUME IndInv, [Next]_vars PROVE A
  <2>1. ASSUME NEW p \in Producers, At(p, "tail"), At(p, "idle")' PROVE ReadConsTail(p)
    BY <1>1, <2>1, GivesUp, RingAssumption DEF Lcores
  <2>2. ASSUME NEW c \in Consumers, At(c, "tail"), At(c, "idle")' PROVE ReadProdTail(c)
    BY <1>1, <2>2, GivesUp, RingAssumption DEF Lcores
  <2> QED BY <1>1, <2>1, <2>2, EnqueueFails, DequeueFails
<1>2. IndInv /\ [Next]_vars => [A]_vars
  BY <1>1
<1> HIDE DEF A
<1>3. Spec => [][A]_vars
  BY <1>2, RingInvariance, PTL DEF Spec
<1> QED BY <1>3 DEF HonestFailure, A

(* A producer whose call returns without -EDQUOT has left the ring below   *)
(* the watermark, whatever the consumers have done since it counted.       *)
THEOREM WatermarkIsTold == Spec => WatermarkTold
<1> DEFINE A == \A p \in Producers :
                  At(p, "copy") /\ At(p, "wait")' /\ local'[p].ret = "ok" =>
                    local[p].head + local[p].n - cons.tail < watermark
<1>1. ASSUME IndInv, [Next]_vars, NEW p \in Producers, At(p, "copy"), At(p, "wait")',
             local'[p].ret = "ok"
      PROVE  local[p].head + local[p].n - cons.tail < watermark
  <2> DEFINE r == local[p]
  <2>1. r.pc = "copy" /\ local'[p].pc = "wait"
    BY <1>1 DEF At
  <2>2. WriteEntry(p)
    <3>1. ASSUME NEW q \in Producers, EnqueueStep(q), OnlyAt(q) PROVE q = p /\ WriteEntry(p)
      <4>0. p \in Lcores
        BY DEF Lcores
      <4>1. q = p
        BY <2>1, <3>1, <4>0 DEF OnlyAt
      <4> QED BY <2>1, <3>1, <4>1 DEF EnqueueStep, Enqueue, ReadProdHead, ReadConsTail,
                 MoveProdHead, PublishProd, At
    <3>2. ASSUME NEW c \in Consumers, OnlyAt(c) PROVE FALSE
      <4>1. p # c /\ p \in Lcores
        BY RingAssumption DEF Lcores
      <4> QED BY <2>1, <3>2, <4>1 DEF OnlyAt
    <3>3. ~UNCHANGED local
      BY <2>1
    <3> QED BY <1>1, <3>1, <3>2, <3>3, OneMoves
  <2>3. ~Quota(r.free, r.n)
    <3>1. p \in Lcores /\ local \in [Lcores -> LocalSet]
      BY <1>1 DEF Lcores, IndInv, TypeOK
    <3>2. local'[p].ret = IF r.i + 1 = r.n
                          THEN IF Quota(r.free, r.n) THEN "quota" ELSE "ok" ELSE "none"
      BY <2>2, <3>1 DEF WriteEntry, LocalSet
    <3> QED BY <1>1, <3>2
  <2>4. /\ r.free \in Nat /\ r.n \in Nat /\ r.head \in Nat /\ cons.tail \in Nat
        /\ watermark \in Int /\ Mask = Size - 1 /\ Size \in Nat
    BY <1>1, Numbers
  <2>5. r.free + r.head <= cons.tail + Mask
    BY <1>1, <2>1 DEF IndInv, ProducerOK
  <2> QED BY <2>3, <2>4, <2>5 DEF Quota
<1>2. IndInv /\ [Next]_vars => [A]_vars
  BY <1>1
<1> HIDE DEF A
<1>3. Spec => [][A]_vars
  BY <1>2, RingInvariance, PTL DEF Spec
<1> QED BY <1>3 DEF WatermarkTold, A

-----------------------------------------------------------------------------
(* The refinement: the ring implements the bounded queue of RingFifo. *)

(* A run of entries of a table that hold objects is a sequence of them. *)
LEMMA InTable ==
  ASSUME NEW t, NEW from \in Nat, NEW n \in Nat,
         \A k \in from .. (from + n) - 1 : t[Slot(k)] \in Objects
  PROVE  LET s == [i \in 1..n |-> t[Slot(from + i - 1)]] IN
         /\ s \in Seq(Objects) /\ Len(s) = n
         /\ \A i \in 1..n : s[i] = t[Slot(from + i - 1)]
<1> DEFINE s == [i \in 1..n |-> t[Slot(from + i - 1)]]
<1>1. \A i \in 1..n : from + i - 1 \in from .. (from + n) - 1
  OBVIOUS
<1>2. s \in [1..n -> Objects]
  BY <1>1
<1>3. \A i \in 1..n : s[i] = t[Slot(from + i - 1)]
  OBVIOUS
<1> HIDE DEF s
<1>4. s \in Seq(Objects) /\ Len(s) = n
  BY <1>2
<1> QED BY <1>3, <1>4 DEF s

(* The queue is the sequence of the published entries. *)
LEMMA QueuedSeq ==
  IndInv => /\ Queued \in Seq(Objects) /\ Len(Queued) = prod.tail - cons.head
            /\ \A k \in 1 .. prod.tail - cons.head : Queued[k] = ring[Slot(cons.head + k - 1)]
<1> SUFFICES ASSUME IndInv
             PROVE  /\ Queued \in Seq(Objects) /\ Len(Queued) = prod.tail - cons.head
                    /\ \A k \in 1 .. prod.tail - cons.head :
                         Queued[k] = ring[Slot(cons.head + k - 1)]
  OBVIOUS
<1> DEFINE n == prod.tail - cons.head
<1>1. cons.head \in Nat /\ prod.tail \in Nat /\ cons.tail \in Nat
  BY Numbers
<1>2. IndexOrder /\ Published
  BY DEF IndInv
<1>3. n \in Nat /\ cons.tail <= cons.head
  BY <1>1, <1>2 DEF IndexOrder
<1>4. \A k \in cons.head .. (cons.head + n) - 1 : k \in cons.tail .. prod.tail - 1
  BY <1>1, <1>3
<1>5. \A k \in cons.head .. (cons.head + n) - 1 : ring[Slot(k)] \in Objects
  BY <1>2, <1>4 DEF Published
<1> HIDE DEF n
<1>6. LET s == [k \in 1..n |-> ring[Slot(cons.head + k - 1)]] IN
      /\ s \in Seq(Objects) /\ Len(s) = n
      /\ \A k \in 1..n : s[k] = ring[Slot(cons.head + k - 1)]
  BY <1>1, <1>3, <1>5, InTable
<1>7. Queued = [k \in 1..n |-> ring[Slot(cons.head + k - 1)]]
  BY DEF Queued, InRing, n
<1> QED BY <1>6, <1>7 DEF n

(* What a concatenation holds at each place. *)
LEMMA Joined ==
  ASSUME NEW u \in Seq(Objects), NEW v \in Seq(Objects), NEW a, NEW b, Len(u) = a, Len(v) = b
  PROVE  /\ u \o v \in Seq(Objects) /\ Len(u \o v) = a + b
         /\ \A k \in 1 .. a + b : (u \o v)[k] = IF k <= a THEN u[k] ELSE v[k - a]
BY ConcatProperties, Zenon

(* The k-th object of a call r, from the table t as far as it is not       *)
(* copied yet.                                                             *)
Shown(r, t, k) == IF k <= r.i THEN r.obj[k] ELSE t[Slot(r.head + k - 1)]

(* What a consumer has taken is the sequence of the entries it reserved. *)
TakenShown ==
  \A c \in Consumers :
    /\ ~Reserved(c) => Taken[c] = << >>
    /\ Reserved(c) =>
         /\ Taken[c] \in Seq(Objects) /\ Len(Taken[c]) = local[c].n
         /\ \A k \in 1 .. local[c].n : Taken[c][k] = Shown(local[c], ring, k)

(* In every state, a consumer in its copy has taken what it reserved. *)
LEMMA TakenSeq == IndInv => TakenShown
<1> SUFFICES ASSUME IndInv, NEW c \in Consumers
             PROVE  /\ ~Reserved(c) => Taken[c] = << >>
                    /\ Reserved(c) =>
                         /\ Taken[c] \in Seq(Objects) /\ Len(Taken[c]) = local[c].n
                         /\ \A k \in 1 .. local[c].n : Taken[c][k] = Shown(local[c], ring, k)
  BY DEF TakenShown
<1>1. CASE ~Reserved(c)
  BY <1>1 DEF Taken
<1>2. CASE Reserved(c)
  <2> DEFINE r == local[c]
             from == r.head + r.i
             n == r.n - r.i
             t == [k \in 1..n |-> ring[Slot(from + k - 1)]]
  <2>1. /\ r.head \in Nat /\ r.n \in Nat /\ r.i \in Nat /\ cons.tail \in Nat /\ prod.tail \in Nat
    BY Numbers
  <2>2. r.obj \in Seq(Objects) /\ Len(r.obj) = r.i
    BY <1>2, Numbers DEF IndInv, ConsumerOK, Reserved
  <2>3. Taken[c] = r.obj \o t
    BY <1>2 DEF Taken, InRing
  <2>4. cons.tail <= r.head /\ r.head + r.n <= prod.tail /\ (r.i < r.n \/ r.i = r.n)
    BY <1>2 DEF IndInv, ConsumerOK, Reserved
  <2> HIDE DEF r
  <2>5. from \in Nat /\ n \in Nat /\ r.i + n = r.n
        /\ (\A k \in from .. (from + n) - 1 : k \in cons.tail .. prod.tail - 1)
    BY <2>1, <2>4
  <2>6. \A k \in from .. (from + n) - 1 : ring[Slot(k)] \in Objects
    BY <2>5 DEF IndInv, Published
  <2>7. ASSUME NEW k \in 1 .. r.n, ~(k <= r.i)
        PROVE  k - r.i \in 1..n /\ (from + (k - r.i) - 1) = r.head + k - 1
    BY <2>1, <2>4, <2>7
  <2> HIDE DEF from, n
  <2>8. t \in Seq(Objects) /\ Len(t) = n /\ \A k \in 1..n : t[k] = ring[Slot(from + k - 1)]
    BY <2>5, <2>6, InTable
  <2> HIDE DEF t
  <2>10. /\ Taken[c] \in Seq(Objects) /\ Len(Taken[c]) = r.i + n
         /\ \A k \in 1 .. r.i + n : Taken[c][k] = IF k <= r.i THEN r.obj[k] ELSE t[k - r.i]
    BY <2>2, <2>3, <2>8, Joined
  <2>11. ASSUME NEW k \in 1 .. r.n PROVE Taken[c][k] = Shown(r, ring, k)
    <3>1. CASE k <= r.i
      BY <2>5, <2>10, <3>1 DEF Shown
    <3>2. CASE ~(k <= r.i)
      BY <2>5, <2>7, <2>8, <2>10, <3>2 DEF Shown
    <3> QED BY <3>1, <3>2
  <2> QED BY <1>2, <2>5, <2>10, <2>11 DEF r
<1> QED BY <1>1, <1>2

(* The published entries, which neither the queue nor a consumer may see   *)
(* changed.                                                                *)
SamePublished == \A k \in cons.tail .. prod.tail - 1 : ring'[Slot(k)] = ring[Slot(k)]

(* A step that moves neither end of the queue and changes no published     *)
(* entry leaves the queue as it is.                                        *)
LEMMA QueuedKept ==
  ASSUME IndInv, IndInv', SamePublished, prod'.tail = prod.tail, cons'.head = cons.head
  PROVE  Queued' = Queued
<1>1. /\ Queued \in Seq(Objects) /\ Len(Queued) = prod.tail - cons.head
      /\ \A k \in 1 .. prod.tail - cons.head : Queued[k] = ring[Slot(cons.head + k - 1)]
  BY QueuedSeq
<1>2. IndInv' => (/\ Queued \in Seq(Objects) /\ Len(Queued) = prod.tail - cons.head
                  /\ \A k \in 1 .. prod.tail - cons.head : Queued[k] = ring[Slot(cons.head + k - 1)])'
  BY QueuedSeq, PTL
<1>3. /\ Queued' \in Seq(Objects) /\ Len(Queued') = prod.tail - cons.head
      /\ \A k \in 1 .. prod.tail - cons.head : Queued'[k] = ring'[Slot(cons.head + k - 1)]
  BY <1>2
<1>4. cons.tail \in Nat /\ cons.head \in Nat /\ prod.tail \in Nat /\ cons.tail <= cons.head
  BY Numbers DEF IndInv, IndexOrder
<1>5. \A k \in 1 .. prod.tail - cons.head : cons.head + k - 1 \in cons.tail .. prod.tail - 1
  BY <1>4
<1>6. \A k \in 1 .. Len(Queued) : Queued'[k] = Queued[k]
  BY <1>1, <1>3, <1>5 DEF SamePublished
<1> HIDE DEF Queued
<1> QED BY <1>1, <1>3, <1>6, SeqEqual

(* What a consumer sees of its call is what it has taken. *)
LEMMA TakenAfter ==
  ASSUME IndInv', NEW d \in Consumers
  PROVE  /\ ~Reserved(d)' => Taken'[d] = << >>
         /\ Reserved(d)' =>
              /\ Taken'[d] \in Seq(Objects) /\ Len(Taken'[d]) = local'[d].n
              /\ \A k \in 1 .. local'[d].n : Taken'[d][k] = Shown(local'[d], ring', k)
<1>1. TakenShown'
  BY TakenSeq, PTL
<1> QED BY <1>1 DEF TakenShown, Shown

(* A call shows the same objects as long as the published entries stay. *)
LEMMA TakenKept ==
  ASSUME IndInv, IndInv', NEW c \in Consumers, Reserved(c), Reserved(c)',
         local'[c].n = local[c].n,
         \A k \in 1 .. local[c].n : Shown(local'[c], ring', k) = Shown(local[c], ring, k)
  PROVE  Taken'[c] = Taken[c]
<1>1. /\ Taken[c] \in Seq(Objects) /\ Len(Taken[c]) = local[c].n
      /\ \A k \in 1 .. local[c].n : Taken[c][k] = Shown(local[c], ring, k)
  BY TakenSeq DEF TakenShown
<1>2. /\ Taken'[c] \in Seq(Objects) /\ Len(Taken'[c]) = local[c].n
      /\ \A k \in 1 .. local[c].n : Taken'[c][k] = Shown(local'[c], ring', k)
  BY TakenAfter
<1>3. \A k \in 1 .. Len(Taken[c]) : Taken'[c][k] = Taken[c][k]
  BY <1>1, <1>2
<1> DEFINE u == Taken[c]
           v == Taken'[c]
<1> HIDE DEF u, v
<1>4. u \in Seq(Objects) /\ v \in Seq(Objects) /\ Len(v) = Len(u)
      /\ \A k \in 1 .. Len(u) : v[k] = u[k]
  BY <1>1, <1>2, <1>3 DEF u, v
<1>5. v = u
  BY <1>4, SeqEqual
<1> QED BY <1>5 DEF u, v

(* A consumer that takes no step keeps what it has taken. *)
LEMMA TakenFrame ==
  ASSUME IndInv, IndInv', SamePublished, NEW c \in Consumers, local'[c] = local[c]
  PROVE  Taken'[c] = Taken[c]
<1>1. CASE ~Reserved(c)
  <2>1. ~Reserved(c)'
    BY <1>1 DEF Reserved
  <2>2. Taken[c] = << >>
    BY <1>1, TakenSeq DEF TakenShown
  <2>3. Taken'[c] = << >>
    BY <2>1, TakenAfter
  <2> QED BY <2>2, <2>3
<1>2. CASE Reserved(c)
  <2>0. Reserved(c)'
    BY <1>2 DEF Reserved
  <2>1. local[c].head \in Nat /\ local[c].n \in Nat /\ local[c].i \in Nat
        /\ cons.tail \in Nat /\ prod.tail \in Nat
    BY Numbers
  <2>2. cons.tail <= local[c].head /\ local[c].head + local[c].n <= prod.tail
    BY <1>2 DEF IndInv, ConsumerOK, Reserved
  <2>3. \A k \in 1 .. local[c].n : local[c].head + k - 1 \in cons.tail .. prod.tail - 1
    BY <2>1, <2>2
  <2>4. \A k \in 1 .. local[c].n : Shown(local'[c], ring', k) = Shown(local[c], ring, k)
    BY <2>3 DEF Shown, SamePublished
  <2> QED BY <1>2, <2>0, <2>4, TakenKept
<1> QED BY <1>1, <1>2

(* Steps the queue does not see. *)
LEMMA Unseen ==
  ASSUME IndInv, IndInv', SamePublished, prod'.tail = prod.tail, cons'.head = cons.head,
         \A c \in Consumers : Taken'[c] = Taken[c]
  PROVE  UNCHANGED <<Queued, Taken>>
<1>1. Queued' = Queued
  BY QueuedKept
<1>2. Taken' = Taken
  BY DEF Taken
<1> QED BY <1>1, <1>2

(* The copy of a producer goes to entries that are not published. *)
LEMMA WriteUnseen ==
  ASSUME IndInv, NEW p \in Producers, WriteEntry(p)
  PROVE  SamePublished
<1> DEFINE r == local[p]
           x == r.head + r.i
<1>1. SUFFICES ASSUME NEW k \in cons.tail .. prod.tail - 1
               PROVE  ring'[Slot(k)] = ring[Slot(k)]
  BY DEF SamePublished
<1>2. /\ r.head \in Nat /\ r.n \in Nat /\ r.i \in Nat /\ cons.tail \in Nat /\ prod.tail \in Nat
      /\ Mask = Size - 1 /\ Size \in Nat
  BY Numbers
<1>3. /\ ring \in [0..Mask -> Objects \cup {Nothing}] /\ r.pc = "copy"
      /\ ring' = [ring EXCEPT ![Slot(x)] = r.obj[r.i + 1]]
  BY DEF IndInv, TypeOK, WriteEntry, At
<1>4. r.i < r.n /\ prod.tail <= r.head /\ r.head + r.n <= cons.tail + Mask
  BY <1>3 DEF IndInv, ProducerOK, Reserved
<1>5. x \in Nat /\ k \in Nat /\ k < x /\ x - k < Size
  BY <1>2, <1>4
<1>6. Slot(k) # Slot(x)
  BY <1>5, SlotsDiffer
<1>7. Slot(k) \in 0..Mask
  BY <1>5, SlotRange
<1> QED BY <1>3, <1>6, <1>7

(* Every step of an enqueue but the last leaves the queue as it is. *)
LEMMA EnqueueUnseen ==
  ASSUME IndInv, IndInv', NEW p \in Producers, OnlyAt(p),
         \/ Enqueue(p) \/ ReadProdHead(p) \/ ReadConsTail(p) \/ MoveProdHead(p) \/ WriteEntry(p)
  PROVE  UNCHANGED <<Queued, Taken>>
<1>1. SamePublished
  <2>1. CASE WriteEntry(p)
    BY <2>1, WriteUnseen
  <2>2. CASE ReadProdHead(p) \/ ReadConsTail(p) \/ MoveProdHead(p)
    BY <2>2 DEF SamePublished, ReadProdHead, ReadConsTail, MoveProdHead
  <2>3. CASE Enqueue(p)
    <3>1. ring' = ring
      BY <2>3, Zenon DEF Enqueue
    <3> QED BY <3>1 DEF SamePublished
  <2> QED BY <2>1, <2>2, <2>3
<1>2. prod'.tail = prod.tail /\ cons' = cons
  <2>1. prod \in [head : Nat, tail : Nat, sp_enqueue : BOOLEAN]
    BY DEF IndInv, TypeOK
  <2>2. CASE ReadProdHead(p) \/ ReadConsTail(p) \/ WriteEntry(p)
    BY <2>2 DEF ReadProdHead, ReadConsTail, WriteEntry
  <2>3. CASE MoveProdHead(p)
    BY <2>1, <2>3 DEF MoveProdHead
  <2>4. CASE Enqueue(p)
    <3>1. prod' = prod /\ cons' = cons
      BY <2>4, Zenon DEF Enqueue
    <3> QED BY <3>1
  <2> QED BY <2>2, <2>3, <2>4
<1>3. ASSUME NEW c \in Consumers PROVE Taken'[c] = Taken[c]
  <2>1. c # p /\ c \in Lcores
    BY RingAssumption DEF Lcores
  <2> QED BY <1>1, <2>1, TakenFrame DEF OnlyAt
<1> QED BY <1>1, <1>2, <1>3, Unseen

(* The last step of an enqueue puts its objects behind those in the queue. *)
LEMMA PublishPuts ==
  ASSUME IndInv, IndInv', NEW p \in Producers, OnlyAt(p), PublishProd(p)
  PROVE  Fifo!Put
<1> DEFINE r == local[p]
<1>1. r.head = prod.tail
  BY PublishProdTurn DEF PublishProd
<1>2. /\ r.n \in Nat /\ cons.tail \in Nat /\ cons.head \in Nat /\ prod.tail \in Nat /\ Mask \in Nat
  BY Numbers
<1>3. r.n >= 1 /\ r.pc = "wait"
  BY DEF IndInv, ProducerOK, PublishProd, At
<1>4. /\ prod'.tail = prod.tail + r.n /\ cons' = cons /\ ring' = ring
  <2>1. prod \in [head : Nat, tail : Nat, sp_enqueue : BOOLEAN]
    BY DEF IndInv, TypeOK
  <2> QED BY <1>1, <2>1 DEF PublishProd
<1>5. cons.tail <= cons.head /\ cons.head <= prod.tail /\ prod.tail + r.n <= cons.tail + Mask
  <2>1. cons.tail <= cons.head /\ cons.head <= prod.tail
    BY DEF IndInv, IndexOrder
  <2>2. r.head + r.n <= cons.tail + Mask
    BY <1>3 DEF IndInv, ProducerOK
  <2> QED BY <1>1, <2>1, <2>2
<1>6. \A c \in Consumers : Taken'[c] = Taken[c]
  <2>1. SamePublished
    BY <1>4 DEF SamePublished
  <2>2. ASSUME NEW c \in Consumers PROVE local'[c] = local[c]
    BY RingAssumption DEF OnlyAt, Lcores
  <2> QED BY <2>1, <2>2, TakenFrame
<1>7. Taken' = Taken
  BY <1>6 DEF Taken
<1> DEFINE m == prod.tail - cons.head
<1>8. m \in Nat /\ prod'.tail - cons'.head = m + r.n /\ m + r.n <= Mask /\ m < m + r.n
  BY <1>2, <1>3, <1>4, <1>5
<1>9. /\ Queued \in Seq(Objects) /\ Len(Queued) = m
      /\ \A k \in 1..m : Queued[k] = ring[Slot(cons.head + k - 1)]
  BY QueuedSeq
<1>10. (/\ Queued \in Seq(Objects) /\ Len(Queued) = prod.tail - cons.head
        /\ \A k \in 1 .. prod.tail - cons.head : Queued[k] = ring[Slot(cons.head + k - 1)])'
  BY QueuedSeq, PTL
<1> DEFINE Q == Queued
           R == Queued'
<1> HIDE DEF Q, R, m
<1>11. /\ R \in Seq(Objects) /\ Len(R) = m + r.n
       /\ \A k \in 1 .. m + r.n : R[k] = ring[Slot(cons.head + k - 1)]
  BY <1>4, <1>8, <1>10 DEF R
<1>12. /\ Q \in Seq(Objects) /\ Len(Q) = m
       /\ \A k \in 1..m : Q[k] = ring[Slot(cons.head + k - 1)]
  BY <1>9 DEF Q
<1>13. \A k \in 1..m : R[k] = Q[k] /\ R[k] \in Objects
  <2>1. \A k \in 1..m : k \in 1 .. m + r.n
    BY <1>2, <1>8
  <2>2. \A k \in 1 .. m + r.n : R[k] \in Objects
    BY <1>11, ElementOfSeq
  <2> QED BY <1>11, <1>12, <2>1, <2>2
<1>14. SubSeq(R, 1, m) = Q
  <2>1. /\ SubSeq(R, 1, m) \in Seq(Objects)
        /\ Len(SubSeq(R, 1, m)) = (IF 1 <= m THEN m - 1 + 1 ELSE 0)
        /\ \A k \in 1 .. m - 1 + 1 : SubSeq(R, 1, m)[k] = R[1 + k - 1]
    BY <1>8, <1>13, SubSeqProperties
  <2>2. m - 1 + 1 = m /\ (IF 1 <= m THEN m - 1 + 1 ELSE 0) = m /\ \A k \in 1..m : 1 + k - 1 = k
    BY <1>8
  <2>3. Len(SubSeq(R, 1, m)) = m /\ \A k \in 1..m : SubSeq(R, 1, m)[k] = Q[k]
    BY <1>13, <2>1, <2>2
  <2> DEFINE t == SubSeq(R, 1, m)
  <2>4. t \in Seq(Objects) /\ Len(t) = Len(Q) /\ \A k \in 1 .. Len(t) : t[k] = Q[k]
    BY <1>12, <2>1, <2>3
  <2> HIDE DEF t
  <2>5. t = Q
    BY <1>12, <2>4, SeqEqual
  <2> QED BY <2>5 DEF t
<1>15. R \in Seq(Objects) /\ Len(Q) < Len(R) /\ Len(R) <= Mask /\ SubSeq(R, 1, Len(Q)) = Q
  BY <1>8, <1>11, <1>12, <1>14
<1> QED BY <1>7, <1>15 DEF Fifo!Put, Q, R

(* A consumer that moves the head takes the first objects of the queue. *)
LEMMA MoveTakes ==
  ASSUME IndInv, IndInv', NEW c \in Consumers, OnlyAt(c), At(c, "move"),
         local[c].head = cons.head,
         cons' = [cons EXCEPT !.head = cons.head + local[c].n],
         local' = [local EXCEPT ![c].pc = "copy", ![c].head = cons.head],
         UNCHANGED <<prod, ring>>
  PROVE  \E n \in 1 .. Len(Queued) : Fifo!Take(c, n)
<1> DEFINE r == local[c]
           n == r.n
           m == prod.tail - cons.head
           Q == Queued
           R == Queued'
           t == Taken'[c]
<1>1. /\ n \in Nat /\ cons.head \in Nat /\ prod.tail \in Nat
  BY Numbers
<1>2. n >= 1 /\ cons.head + n <= prod.tail /\ r.i = 0 /\ ~Reserved(c)
  BY DEF IndInv, ConsumerOK, At, Reserved
<1>3. cons'.head = cons.head + n /\ cons'.tail = cons.tail /\ prod' = prod /\ ring' = ring
  <2>1. cons \in [head : Nat, tail : Nat, sc_dequeue : BOOLEAN]
    BY DEF IndInv, TypeOK
  <2> QED BY <2>1
<1>4. /\ local'[c].pc = "copy" /\ local'[c].head = cons.head /\ local'[c].n = n
      /\ local'[c].i = 0
  <2>1. local \in [Lcores -> LocalSet] /\ c \in Lcores
    BY DEF IndInv, TypeOK, Lcores
  <2> QED BY <1>2, <2>1 DEF LocalSet
<1>5. Reserved(c)'
  BY <1>4 DEF Reserved
<1>6. m \in Nat /\ n <= m /\ prod'.tail - cons'.head = m - n /\ m - n \in Nat
  BY <1>1, <1>2, <1>3
<1>7. /\ Q \in Seq(Objects) /\ Len(Q) = m
      /\ \A k \in 1..m : Q[k] = ring[Slot(cons.head + k - 1)]
  BY QueuedSeq
<1>8. (/\ Queued \in Seq(Objects) /\ Len(Queued) = prod.tail - cons.head
        /\ \A k \in 1 .. prod.tail - cons.head : Queued[k] = ring[Slot(cons.head + k - 1)])'
  BY QueuedSeq, PTL
<1> HIDE DEF m
<1>9. /\ R \in Seq(Objects) /\ Len(R) = m - n
      /\ \A k \in 1 .. m - n : R[k] = ring[Slot(cons.head + n + k - 1)]
  BY <1>3, <1>6, <1>8
<1>10. /\ t \in Seq(Objects) /\ Len(t) = n
       /\ \A k \in 1..n : t[k] = ring[Slot(cons.head + k - 1)]
  <2>1. /\ t \in Seq(Objects) /\ Len(t) = n
        /\ \A k \in 1..n : t[k] = Shown(local'[c], ring', k)
    BY <1>4, <1>5, TakenAfter
  <2>2. \A k \in 1..n : ~(k <= 0)
    BY <1>1
  <2> QED BY <1>3, <1>4, <2>1, <2>2 DEF Shown
<1> HIDE DEF Q, R, t, n
<1>11. \A k \in 1..m : Q[k] \in Objects
  BY <1>7, ElementOfSeq
<1>12. SubSeq(Q, 1, n) = t
  <2> DEFINE u == SubSeq(Q, 1, n)
  <2>0. \A k \in 1..n : Q[k] \in Objects
    <3>1. \A k \in 1..n : k \in 1..m
      BY <1>1, <1>6
    <3> QED BY <1>11, <3>1
  <2>1. /\ u \in Seq(Objects) /\ Len(u) = (IF 1 <= n THEN n - 1 + 1 ELSE 0)
        /\ \A k \in 1 .. n - 1 + 1 : u[k] = Q[1 + k - 1]
    BY <1>1, <2>0, SubSeqProperties
  <2> HIDE DEF u
  <2>2. n - 1 + 1 = n /\ (IF 1 <= n THEN n - 1 + 1 ELSE 0) = n
        /\ \A k \in 1..n : 1 + k - 1 = k /\ k \in 1..m
    BY <1>1, <1>2, <1>6
  <2>3. u \in Seq(Objects) /\ Len(u) = n /\ \A k \in 1..n : u[k] = t[k]
    BY <1>7, <1>10, <2>1, <2>2
  <2>4. u = t
    BY <1>10, <2>3, SeqEqual
  <2> QED BY <2>4 DEF u
<1>13. SubSeq(Q, n + 1, m) = R
  <2> DEFINE u == SubSeq(Q, n + 1, m)
  <2>0. n + 1 \in Int /\ m \in Int /\ \A k \in n + 1 .. m : Q[k] \in Objects
    <3>1. \A k \in n + 1 .. m : k \in 1..m
      BY <1>1, <1>6
    <3> QED BY <1>1, <1>6, <1>11, <3>1
  <2>1. /\ u \in Seq(Objects) /\ Len(u) = (IF n + 1 <= m THEN m - (n + 1) + 1 ELSE 0)
        /\ \A k \in 1 .. m - (n + 1) + 1 : u[k] = Q[(n + 1) + k - 1]
    BY <2>0, SubSeqProperties
  <2> HIDE DEF u
  <2>2. /\ m - (n + 1) + 1 = m - n
        /\ (IF n + 1 <= m THEN m - (n + 1) + 1 ELSE 0) = m - n
        /\ \A k \in 1 .. m - n : /\ (n + 1) + k - 1 \in 1..m
                                 /\ cons.head + ((n + 1) + k - 1) - 1 = cons.head + n + k - 1
    BY <1>1, <1>6
  <2>3. u \in Seq(Objects) /\ Len(u) = m - n /\ \A k \in 1 .. m - n : u[k] = R[k]
    BY <1>7, <1>9, <2>1, <2>2
  <2>4. u = R
    BY <1>9, <2>3, SeqEqual
  <2> QED BY <2>4 DEF u
<1>14. Taken[c] = << >>
  BY <1>2, TakenSeq DEF TakenShown
<1>15. Taken' = [Taken EXCEPT ![c] = t]
  <2>1. ASSUME NEW d \in Consumers, d # c PROVE Taken'[d] = Taken[d]
    <3>1. SamePublished
      BY <1>3 DEF SamePublished
    <3>2. local'[d] = local[d]
      BY <2>1 DEF OnlyAt, Lcores
    <3> QED BY <3>1, <3>2, TakenFrame
  <2>2. Taken'[c] = t
    BY DEF t
  <2>3. Taken = [d \in Consumers |-> Taken[d]] /\ Taken' = [d \in Consumers |-> Taken'[d]]
    BY DEF Taken
  <2> QED BY <2>1, <2>2, <2>3
<1>16. Fifo!Take(c, n)
  <2>1. /\ Taken' = [Taken EXCEPT ![c] = SubSeq(Queued, 1, n)]
        /\ Queued' = SubSeq(Queued, n + 1, Len(Queued))
    BY <1>7, <1>12, <1>13, <1>15 DEF Q, R
  <2> QED BY <1>14, <2>1 DEF Fifo!Take
<1>17. n \in 1 .. Len(Queued)
  BY <1>1, <1>2, <1>6, <1>7 DEF Q
<1> QED BY <1>16, <1>17

(* The copy of a dequeue moves an object from the table to the caller, and *)
(* the call shows it at the same place.                                    *)
LEMMA ReadUnseen ==
  ASSUME IndInv, IndInv', NEW c \in Consumers, ReadEntry(c)
  PROVE  Taken'[c] = Taken[c]
<1> DEFINE r == local[c]
           s == local'[c]
           e == ring[Slot(r.head + r.i)]
<1>1. local \in [Lcores -> LocalSet] /\ c \in Lcores /\ r.pc = "copy"
  BY DEF IndInv, TypeOK, Lcores, ReadEntry, At
<1>2. /\ s.i = r.i + 1 /\ s.obj = Append(r.obj, e) /\ s.head = r.head /\ s.n = r.n
      /\ s.pc = (IF r.i + 1 = r.n THEN "wait" ELSE "copy") /\ ring' = ring
  BY <1>1 DEF ReadEntry, LocalSet
<1>3. Reserved(c) /\ Reserved(c)'
  BY <1>1, <1>2 DEF Reserved
<1>4. r.i \in Nat /\ r.n \in Nat /\ r.head \in Nat /\ r.i < r.n
      /\ cons.tail \in Nat /\ prod.tail \in Nat
  BY <1>1, Numbers DEF IndInv, ConsumerOK
<1>5. r.obj \in Seq(Objects) /\ Len(r.obj) = r.i
  BY <1>1, Numbers DEF IndInv, ConsumerOK
<1>6. e \in Objects
  <2>1. cons.tail <= r.head /\ r.head + r.n <= prod.tail
    BY <1>3 DEF IndInv, ConsumerOK, Reserved
  <2>2. r.head + r.i \in cons.tail .. prod.tail - 1
    BY <1>4, <2>1
  <2> QED BY <2>2 DEF IndInv, Published
<1> HIDE DEF e
<1>7. /\ \A k \in 1 .. r.i : Append(r.obj, e)[k] = r.obj[k]
      /\ Append(r.obj, e)[r.i + 1] = e
  BY <1>5, <1>6, AppendProperties
<1>8. ASSUME NEW k \in 1 .. r.n PROVE Shown(s, ring', k) = Shown(r, ring, k)
  <2>1. CASE k <= r.i
    <3>1. k <= r.i + 1 /\ k \in 1 .. r.i
      BY <1>4, <2>1
    <3> QED BY <1>2, <1>7, <2>1, <3>1 DEF Shown
  <2>2. CASE k = r.i + 1
    <3>1. k <= r.i + 1 /\ ~(k <= r.i) /\ r.head + k - 1 = r.head + r.i
      BY <1>4, <2>2
    <3> QED BY <1>2, <1>7, <2>2, <3>1 DEF Shown, e
  <2>3. CASE r.i + 1 < k
    <3>1. ~(k <= r.i + 1) /\ ~(k <= r.i)
      BY <1>4, <2>3
    <3> QED BY <1>2, <3>1 DEF Shown
  <2> QED BY <1>4, <2>1, <2>2, <2>3
<1> QED BY <1>2, <1>3, <1>8, TakenKept

(* The steps of a dequeue that move no index leave the queue as it is, and *)
(* so does a move of the head that fails.                                  *)
LEMMA DequeueUnseen ==
  ASSUME IndInv, IndInv', NEW c \in Consumers, OnlyAt(c), UNCHANGED <<prod, cons, ring>>,
         (~Reserved(c) /\ ~Reserved(c)') \/ ReadEntry(c)
  PROVE  UNCHANGED <<Queued, Taken>>
<1>1. SamePublished
  BY DEF SamePublished
<1>2. ASSUME NEW d \in Consumers PROVE Taken'[d] = Taken[d]
  <2>1. CASE d # c
    <3>1. local'[d] = local[d]
      BY <2>1 DEF OnlyAt, Lcores
    <3> QED BY <1>1, <3>1, TakenFrame
  <2>2. CASE d = c /\ ReadEntry(c)
    BY <2>2, ReadUnseen
  <2>3. CASE d = c /\ ~Reserved(c) /\ ~Reserved(c)'
    <3>1. Taken[c] = << >>
      BY <2>3, TakenSeq DEF TakenShown
    <3>2. Taken'[c] = << >>
      BY <2>3, TakenAfter
    <3> QED BY <2>3, <3>1, <3>2
  <2> QED BY <2>1, <2>2, <2>3
<1> QED BY <1>1, <1>2, Unseen

(* The last step of a dequeue returns what was taken. *)
LEMMA PublishReturns ==
  ASSUME IndInv, IndInv', NEW c \in Consumers, OnlyAt(c), PublishCons(c)
  PROVE  Fifo!Return(c)
<1>1. /\ prod' = prod /\ cons'.head = cons.head /\ ring' = ring /\ local[c].pc = "wait"
      /\ local' = [local EXCEPT ![c] = Idle]
  <2>1. cons \in [head : Nat, tail : Nat, sc_dequeue : BOOLEAN]
    BY DEF IndInv, TypeOK
  <2> QED BY <2>1 DEF PublishCons, At
<1>2. Reserved(c) /\ ~Reserved(c)'
  <2>1. local \in [Lcores -> LocalSet] /\ c \in Lcores
    BY DEF IndInv, TypeOK, Lcores
  <2> QED BY <1>1, <2>1, IdleOK DEF Reserved
<1>3. SamePublished
  BY <1>1 DEF SamePublished
<1>4. Queued' = Queued
  BY <1>1, <1>3, QueuedKept
<1>5. Taken'[c] = << >>
  BY <1>2, TakenAfter
<1>6. Taken[c] # << >>
  <2>1. Len(Taken[c]) = local[c].n
    BY <1>2, TakenSeq DEF TakenShown
  <2>2. local[c].n >= 1 /\ local[c].n \in Nat
    BY <1>1, Numbers DEF IndInv, ConsumerOK
  <2>3. Len(<< >>) = 0
    OBVIOUS
  <2>4. local[c].n # 0
    BY <2>2
  <2> QED BY <2>1, <2>3, <2>4
<1>7. Taken' = [Taken EXCEPT ![c] = << >>]
  <2>1. ASSUME NEW d \in Consumers, d # c PROVE Taken'[d] = Taken[d]
    <3>1. local'[d] = local[d]
      BY <2>1 DEF OnlyAt, Lcores
    <3> QED BY <1>3, <3>1, TakenFrame
  <2>2. Taken = [d \in Consumers |-> Taken[d]] /\ Taken' = [d \in Consumers |-> Taken'[d]]
    BY DEF Taken
  <2> QED BY <1>5, <2>1, <2>2
<1> QED BY <1>4, <1>6, <1>7 DEF Fifo!Return

(* A step of a dequeue is a step of the queue or is not seen by it. *)
LEMMA DequeueImplements ==
  ASSUME IndInv, IndInv', NEW c \in Consumers, OnlyAt(c), DequeueStep(c)
  PROVE  Fifo!Next \/ UNCHANGED <<Queued, Taken>>
<1>0. local \in [Lcores -> LocalSet] /\ c \in Lcores
  BY DEF IndInv, TypeOK, Lcores
<1>1. CASE Dequeue(c)
  <2>1. UNCHANGED <<prod, cons, ring>> /\ local[c].pc = "idle"
    BY <1>1, Zenon DEF Dequeue, At
  <2>2. local'[c].pc = "head"
    BY <1>0, <1>1 DEF Dequeue, Idle
  <2> QED BY <2>1, <2>2, DequeueUnseen DEF Reserved
<1>2. CASE ReadConsHead(c)
  <2>1. UNCHANGED <<prod, cons, ring>> /\ local[c].pc = "head" /\ local'[c].pc = "tail"
    BY <1>0, <1>2 DEF ReadConsHead, At, LocalSet
  <2> QED BY <2>1, DequeueUnseen DEF Reserved
<1>3. CASE ReadProdTail(c)
  <2>1. UNCHANGED <<prod, cons, ring>> /\ local[c].pc = "tail" /\ local'[c].pc \in {"idle", "move"}
    BY <1>0, <1>3, IdleOK DEF ReadProdTail, At, LocalSet
  <2> QED BY <2>1, DequeueUnseen DEF Reserved
<1>4. CASE MoveConsHead(c)
  <2>1. CASE cons.sc_dequeue \/ SameIndex(cons.head, local[c].head)
    <3>1. /\ At(c, "move") /\ UNCHANGED <<prod, ring>>
          /\ cons' = [cons EXCEPT !.head = cons.head + local[c].n]
          /\ local' = [local EXCEPT ![c].pc = "copy", ![c].head = cons.head]
      BY <1>4, <2>1 DEF MoveConsHead
    <3>2. local[c].head = cons.head
      BY <1>4, <2>1, MoveConsHeadCurrent DEF MoveConsHead
    <3>3. \E n \in 1 .. Len(Queued) : Fifo!Take(c, n)
      BY <3>1, <3>2, MoveTakes
    <3> QED BY <3>3 DEF Fifo!Next
  <2>2. CASE ~(cons.sc_dequeue \/ SameIndex(cons.head, local[c].head))
    <3>1. UNCHANGED <<prod, cons, ring>> /\ local[c].pc = "move" /\ local'[c].pc = "head"
      BY <1>0, <1>4, <2>2 DEF MoveConsHead, At, LocalSet
    <3> QED BY <3>1, DequeueUnseen DEF Reserved
  <2> QED BY <2>1, <2>2
<1>5. CASE ReadEntry(c)
  <2>1. UNCHANGED <<prod, cons, ring>>
    BY <1>5 DEF ReadEntry
  <2> QED BY <1>5, <2>1, DequeueUnseen
<1>6. CASE PublishCons(c)
  BY <1>6, PublishReturns DEF Fifo!Next
<1> QED BY <1>1, <1>2, <1>3, <1>4, <1>5, <1>6 DEF DequeueStep

(* The ring, each of whose calls is many steps that fall between those of  *)
(* the others, implements a queue whose operations are single steps.       *)
THEOREM RingImplementsFifo == Spec => FifoSpec
<1>1. Init => Fifo!Init
  <2> SUFFICES ASSUME Init PROVE Fifo!Init
    OBVIOUS
  <2>1. IndInv
    BY InitInv
  <2>2. Queued \in Seq(Objects) /\ Len(Queued) = prod.tail - cons.head
    BY <2>1, QueuedSeq
  <2>3. prod.tail - cons.head <= Mask
    <3>1. prod.tail = Used + Filled /\ cons.head = Used
      BY DEF Init
    <3>2. Used \in Nat /\ Filled \in Nat /\ Filled <= Mask
      BY RingAssumption DEF Mask
    <3> QED BY <3>1, <3>2
  <2>4. Taken = [c \in Consumers |-> << >>]
    <3>1. \A c \in Consumers : ~Reserved(c)
      BY IdleOK DEF Init, Reserved, Lcores
    <3> QED BY <3>1 DEF Taken
  <2> QED BY <2>2, <2>3, <2>4 DEF Fifo!Init
<1>2. IndInv /\ IndInv' /\ [Next]_vars => [Fifo!Next]_(Fifo!vars)
  <2> SUFFICES ASSUME IndInv, IndInv', [Next]_vars
               PROVE  Fifo!Next \/ UNCHANGED <<Queued, Taken>>
    BY DEF Fifo!vars
  <2>1. ASSUME NEW p \in Producers, EnqueueStep(p), OnlyAt(p)
        PROVE  Fifo!Next \/ UNCHANGED <<Queued, Taken>>
    <3>1. CASE PublishProd(p)
      BY <2>1, <3>1, PublishPuts DEF Fifo!Next
    <3>2. CASE \/ Enqueue(p) \/ ReadProdHead(p) \/ ReadConsTail(p) \/ MoveProdHead(p)
               \/ WriteEntry(p)
      BY <2>1, <3>2, EnqueueUnseen
    <3> QED BY <2>1, <3>1, <3>2 DEF EnqueueStep
  <2>2. ASSUME UNCHANGED <<prod, cons, ring, local, offered>>
        PROVE  UNCHANGED <<Queued, Taken>>
    <3>1. SamePublished
      BY <2>2 DEF SamePublished
    <3>2. \A c \in Consumers : Taken'[c] = Taken[c]
      BY <2>2, <3>1, TakenFrame
    <3> QED BY <2>2, <3>1, <3>2, Unseen
  <2> QED BY <2>1, <2>2, OneMoves, DequeueImplements
<1> QED BY <1>1, <1>2, RingInvariance, PTL DEF Spec, FifoSpec, Fifo!Spec

=============================================================================
