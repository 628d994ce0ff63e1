-------------------------------- MODULE Mbuf --------------------------------
(***************************************************************************)
(* The packet buffers of librte_mbuf: chains of segments with reference    *)
(* counts, and indirect segments attached to the buffer of a direct one.   *)
(* rte_mbuf_refcnt_update reads the count and then either stores the new   *)
(* one, when it read 1, or adds atomically: the two are steps of their     *)
(* own, between which other threads update the same count.                 *)
(***************************************************************************)
EXTENDS Integers, FiniteSets

CONSTANTS
  Threads,   \* the lcores, and a driver that frees what it has sent
  Mbufs,     \* the buffers of the pool
  NULL,
  RefWord,   \* 2^16
  SegLimit,  \* 2^8, the type of nb_segs
  MaxHolds   \* bound on the references a thread has to one packet

ASSUME MbufAssumption ==
  /\ NULL \notin Mbufs /\ IsFiniteSet(Mbufs) /\ IsFiniteSet(Threads)
  /\ RefWord \in Nat /\ SegLimit \in Nat \ {0, 1} /\ MaxHolds \in Nat \ {0}
  /\ RefWord > Cardinality(Threads) * (MaxHolds + 1) + Cardinality(Mbufs)

VARIABLES
  pool,     \* the free buffers
  refcnt,   \* refcnt of each
  next,     \* next
  nb_segs,  \* nb_segs
  direct,   \* the buffer whose data it uses: itself unless IND_ATTACHED_MBUF
  refs,     \* for each thread, how many references to the packet it has
  call,     \* for each thread, where it is in its call and its locals
  lost      \* history: a store has overwritten the update of another thread

vars == <<pool, refcnt, next, nb_segs, direct, refs, call, lost>>

(* m is the segment the call is at, md the direct one it is attached to or *)
(* detached from, one: rte_mbuf_refcnt_read returned 1. A clone goes along *)
(* src and has built head up to prev; m is its new segment.                *)
Idle == [pc |-> "idle", m |-> NULL, nxt |-> NULL, md |-> NULL, one |-> FALSE,
         pkt |-> NULL, src |-> NULL, head |-> NULL, prev |-> NULL, nseg |-> 0]

At(t, pc) == call[t].pc = pc

Init ==
  /\ pool = Mbufs
  /\ refcnt = [m \in Mbufs |-> 0]
  /\ next = [m \in Mbufs |-> NULL]
  /\ nb_segs = [m \in Mbufs |-> 1]
  /\ direct = [m \in Mbufs |-> m]
  /\ refs = [t \in Threads |-> [m \in Mbufs |-> 0]]
  /\ call = [t \in Threads |-> Idle]
  /\ lost = FALSE

(* rte_pktmbuf_alloc: rte_mempool_get, the count set, rte_pktmbuf_reset. *)
TakeFromPool(m) ==
  /\ m \in pool
  /\ pool' = pool \ {m}
  /\ refcnt' = [refcnt EXCEPT ![m] = 1]
  /\ next' = [next EXCEPT ![m] = NULL]
  /\ nb_segs' = [nb_segs EXCEPT ![m] = 1]
  /\ direct' = [direct EXCEPT ![m] = m]
  /\ UNCHANGED lost

Alloc(t, m) ==
  /\ At(t, "idle")
  /\ TakeFromPool(m)
  /\ refs' = [refs EXCEPT ![t][m] = 1]
  /\ UNCHANGED call

(* S has m, unless it is NULL, and all that the pointers nx lead to from   *)
(* its members.                                                            *)
Linked(nx, m, S) == m \in S \cup {NULL} /\ \A x \in S : nx[x] \in S \cup {NULL}

(* The segments from m on: the smallest such set. *)
SegsOf(nx, m) == {x \in Mbufs : \A S \in SUBSET (Mbufs \ {x}) : ~Linked(nx, m, S)}

Segs(m) == SegsOf(next, m)

(* A packet goes to another thread, which takes it between its calls. *)
Send(t, u, p) ==
  /\ At(t, "idle") /\ At(u, "idle") /\ t # u
  /\ refs[t][p] > 0 /\ refs[u][p] < MaxHolds
  /\ refs' = [refs EXCEPT ![t][p] = @ - 1, ![u][p] = @ + 1]
  /\ UNCHANGED <<pool, refcnt, next, nb_segs, direct, call, lost>>

(* Mutant of SegsFit: the number of segments is not checked. *)
SegsFitAlways(a, b) == TRUE

(* The check for an overflow of the head's count. *)
SegsFit(a, b) == nb_segs[a] + nb_segs[b] < SegLimit

(* rte_pktmbuf_chain, by the only holder of both packets: nobody else has  *)
(* a reference to a segment that is about to become part of another packet. *)
Chain(t, a, b) ==
  LET last == CHOOSE s \in Segs(a) : next[s] = NULL IN
  /\ At(t, "idle") /\ a # b
  /\ refs[t][a] = 1 /\ refs[t][b] = 1
  /\ \A s \in Segs(a) \cup Segs(b) : refcnt[s] = 1
  /\ SegsFit(a, b)
  /\ next' = [next EXCEPT ![last] = b]
  /\ nb_segs' = [nb_segs EXCEPT ![a] = (nb_segs[a] + nb_segs[b]) % SegLimit]
  /\ refs' = [refs EXCEPT ![t][b] = 0]
  /\ UNCHANGED <<pool, refcnt, direct, call, lost>>

-----------------------------------------------------------------------------
(* rte_mbuf_refcnt_update(m, v), after its read. *)

(* Mutant of ReadsOne: two holders are taken for one. *)
ReadsOneOrTwo(m) == refcnt[m] \in 1..2

ReadsOne(m) == refcnt[m] = 1

Updated(t, m, v) == IF call[t].one THEN 1 + v ELSE (refcnt[m] + v) % RefWord

(* The store that follows a read of 1 finds that the count has changed. *)
Overwrites(t, m) == call[t].one /\ refcnt[m] # 1

(* rte_pktmbuf_refcnt_update(p, 1): the caller has one reference more.     *)
Retain(t, p) ==
  /\ At(t, "idle")
  /\ refs[t][p] \in 1..MaxHolds - 1
  /\ call' = [call EXCEPT ![t] = [Idle EXCEPT !.pc = "retain", !.pkt = p, !.m = p]]
  /\ UNCHANGED <<pool, refcnt, next, nb_segs, direct, refs, lost>>

RetainRead(t) ==
  /\ At(t, "retain")
  /\ call' = [call EXCEPT ![t].pc = "add", ![t].one = ReadsOne(call[t].m)]
  /\ UNCHANGED <<pool, refcnt, next, nb_segs, direct, refs, lost>>

RetainAdd(t) ==
  LET m == call[t].m IN
  /\ At(t, "add")
  /\ refcnt' = [refcnt EXCEPT ![m] = Updated(t, m, 1)]
  /\ lost' = (lost \/ Overwrites(t, m))
  /\ IF next[m] = NULL
     THEN /\ call' = [call EXCEPT ![t] = Idle]
          /\ refs' = [refs EXCEPT ![t][call[t].pkt] = @ + 1]
     ELSE /\ call' = [call EXCEPT ![t].pc = "retain", ![t].m = next[m]]
          /\ UNCHANGED refs
  /\ UNCHANGED <<pool, next, nb_segs, direct>>

-----------------------------------------------------------------------------
(* rte_pktmbuf_free, a segment at a time. *)

FreeCall(m) == IF m = NULL THEN Idle ELSE [Idle EXCEPT !.pc = "free", !.m = m]

Free(t, p) ==
  /\ At(t, "idle")
  /\ refs[t][p] > 0
  /\ refs' = [refs EXCEPT ![t][p] = @ - 1]
  /\ call' = [call EXCEPT ![t] = FreeCall(p)]
  /\ UNCHANGED <<pool, refcnt, next, nb_segs, direct, lost>>

FreeRead(t) ==
  LET m == call[t].m IN
  /\ At(t, "free")
  /\ call' = [call EXCEPT ![t].pc = "drop", ![t].nxt = next[m], ![t].one = ReadsOne(m)]
  /\ UNCHANGED <<pool, refcnt, next, nb_segs, direct, refs, lost>>

(* __rte_pktmbuf_prefree_seg up to the detach, and the raw free of a       *)
(* direct segment.                                                         *)
FreeDrop(t) ==
  LET m == call[t].m
      count == Updated(t, m, -1)
  IN /\ At(t, "drop")
     /\ refcnt' = [refcnt EXCEPT ![m] = count]
     /\ lost' = (lost \/ Overwrites(t, m))
     /\ \/ /\ count = 0 /\ direct[m] # m
           /\ call' = [call EXCEPT ![t].pc = "detach", ![t].md = direct[m]]
           /\ direct' = [direct EXCEPT ![m] = m]
           /\ UNCHANGED <<pool, next>>
        \/ /\ count = 0 /\ direct[m] = m
           /\ pool' = pool \cup {m}
           /\ next' = [next EXCEPT ![m] = NULL]
           /\ call' = [call EXCEPT ![t] = FreeCall(call[t].nxt)]
           /\ UNCHANGED direct
        \/ /\ count # 0
           /\ call' = [call EXCEPT ![t] = FreeCall(call[t].nxt)]
           /\ UNCHANGED <<pool, next, direct>>
     /\ UNCHANGED <<nb_segs, refs>>

DetachRead(t) ==
  /\ At(t, "detach")
  /\ call' = [call EXCEPT ![t].pc = "undo", ![t].one = ReadsOne(call[t].md)]
  /\ UNCHANGED <<pool, refcnt, next, nb_segs, direct, refs, lost>>

(* Mutant of Released: the direct buffer is left to its holder. *)
ReleasedIndirect(m, md, count) == {m}

(* The buffers that go back to the pool once an indirect one is detached. *)
Released(m, md, count) == IF count = 0 THEN {m, md} ELSE {m}

(* rte_pktmbuf_detach from its update on, and the raw free of m. The next  *)
(* of md is not cleared: rte_pktmbuf_reset will.                           *)
DetachDrop(t) ==
  LET m == call[t].m
      md == call[t].md
      count == Updated(t, md, -1)
  IN /\ At(t, "undo")
     /\ refcnt' = [refcnt EXCEPT ![md] = count]
     /\ lost' = (lost \/ Overwrites(t, md))
     /\ pool' = pool \cup Released(m, md, count)
     /\ next' = [next EXCEPT ![m] = NULL]
     /\ call' = [call EXCEPT ![t] = FreeCall(call[t].nxt)]
     /\ UNCHANGED <<nb_segs, direct, refs>>

-----------------------------------------------------------------------------
(* rte_pktmbuf_clone *)

(* Mutant of Owner: the count of the segment itself is incremented. *)
OwnerItself(m) == m

(* The buffer that embeds the data: rte_mbuf_from_indirect. *)
Owner(m) == direct[m]

Clone(t, p, m) ==
  /\ At(t, "idle")
  /\ refs[t][p] > 0
  /\ TakeFromPool(m)
  /\ call' = [call EXCEPT ![t] = [Idle EXCEPT !.pc = "attach", !.src = p, !.m = m,
                                              !.head = m, !.nseg = 1]]
  /\ UNCHANGED refs

AttachRead(t) ==
  LET md == Owner(call[t].src) IN
  /\ At(t, "attach")
  /\ call' = [call EXCEPT ![t].pc = "join", ![t].md = md, ![t].one = ReadsOne(md)]
  /\ UNCHANGED <<pool, refcnt, next, nb_segs, direct, refs, lost>>

(* Whose data the segment has: buf_addr and buf_physaddr. *)
Data(m) == direct[m]

(* rte_pktmbuf_attach from its update on; the new segment is linked. *)
AttachJoin(t) ==
  LET c == call[t] IN
  /\ At(t, "join")
  /\ refcnt' = [refcnt EXCEPT ![c.md] = Updated(t, c.md, 1)]
  /\ lost' = (lost \/ Overwrites(t, c.md))
  /\ direct' = [direct EXCEPT ![c.m] = Data(c.src)]
  /\ next' = [x \in Mbufs |-> IF x = c.prev THEN c.m ELSE IF x = c.m THEN NULL ELSE next[x]]
  /\ nb_segs' = [nb_segs EXCEPT ![c.m] = 1]
  /\ call' = [call EXCEPT ![t].pc = "more"]
  /\ UNCHANGED <<pool, refs>>

(* The loop goes on, ends with the last segment, or rte_pktmbuf_alloc      *)
(* fails: other lcores' caches may keep what is free.                      *)
CloneNext(t, m) ==
  LET c == call[t] IN
  /\ At(t, "more") /\ next[c.src] # NULL
  /\ TakeFromPool(m)
  /\ call' = [call EXCEPT ![t].pc = "attach", ![t].src = next[c.src], ![t].m = m,
                          ![t].prev = c.m, ![t].nseg = c.nseg + 1]
  /\ UNCHANGED refs

CloneDone(t) ==
  LET c == call[t] IN
  /\ At(t, "more") /\ next[c.src] = NULL
  /\ nb_segs' = [nb_segs EXCEPT ![c.head] = c.nseg % SegLimit]
  /\ refs' = [refs EXCEPT ![t][c.head] = 1]
  /\ call' = [call EXCEPT ![t] = Idle]
  /\ UNCHANGED <<pool, refcnt, next, direct, lost>>

(* Mutant of CloneFails: the segments cloned so far are forgotten. *)
CloneFailsForgets(t) ==
  /\ At(t, "more") /\ next[call[t].src] # NULL
  /\ call' = [call EXCEPT ![t] = Idle]
  /\ UNCHANGED <<pool, refcnt, next, nb_segs, direct, refs, lost>>

CloneFails(t) ==
  LET c == call[t] IN
  /\ At(t, "more") /\ next[c.src] # NULL
  /\ nb_segs' = [nb_segs EXCEPT ![c.head] = c.nseg % SegLimit]
  /\ call' = [call EXCEPT ![t] = FreeCall(c.head)]
  /\ UNCHANGED <<pool, refcnt, next, direct, refs, lost>>

-----------------------------------------------------------------------------
Update(t) ==
  \/ RetainRead(t) \/ RetainAdd(t) \/ FreeRead(t) \/ FreeDrop(t)
  \/ DetachRead(t) \/ DetachDrop(t) \/ AttachRead(t) \/ AttachJoin(t)
  \/ (\E m \in Mbufs : CloneNext(t, m)) \/ CloneDone(t) \/ CloneFails(t)

Next ==
  \E t \in Threads :
    \/ \E p \in Mbufs :
         \/ Alloc(t, p) \/ Retain(t, p) \/ Free(t, p)
         \/ \E u \in Threads : Send(t, u, p)
         \/ \E m \in Mbufs : Chain(t, p, m) \/ Clone(t, p, m)
    \/ Update(t)

Spec == Init /\ [][Next]_vars

-----------------------------------------------------------------------------
(* The references of the threads to the packets that m is a segment of:    *)
(* which thread, which packet and a number.                                *)
Held(m) ==
  {h \in Threads \X (Mbufs \X (1..MaxHolds)) :
     h[2][2] <= refs[h[1]][h[2][1]] /\ m \in Segs(h[2][1])}

(* The segments that the call of t has a reference of its own to: those it *)
(* has retained, has still to free, or has cloned so far.                  *)
CallSegs(t) ==
  LET c == call[t] IN
  CASE c.pc \in {"retain", "add"} -> Segs(c.pkt) \ Segs(c.m)
    [] c.pc \in {"free", "drop"} -> Segs(c.m)
    [] c.pc \in {"detach", "undo"} -> Segs(c.nxt)
    [] c.pc \in {"attach", "join", "more"} -> Segs(c.head) \cup {c.m}
    [] OTHER -> {}

Working(m) == {t \in Threads : m \in CallSegs(t)}

Detaching(t, x) == call[t].pc \in {"detach", "undo"} /\ call[t].m = x

(* The indirect buffers attached to m, up to the update of its count by    *)
(* the thread that detaches them.                                          *)
Attached(m) ==
  {x \in Mbufs \ {m} :
     direct[x] = m \/ \E t \in Threads : Detaching(t, x) /\ call[t].md = m}

(* rte_mbuf.h:665 of the store that follows a read of 1: "we know we are   *)
(* the uniq holder of this mbuf". No other thread has changed the count in *)
(* between, so the store overwrites nobody's update. It is not so: two     *)
(* threads that hold one indirect segment both clone it, and both read 1   *)
(* of the buffer under it.                                                 *)
UniqHolder ==
  \A t \in Threads :
    /\ call[t].pc \in {"add", "drop"} /\ call[t].one => refcnt[call[t].m] = 1
    /\ call[t].pc \in {"undo", "join"} /\ call[t].one => refcnt[call[t].md] = 1

(* No other update goes wrong: until one is lost, a retain, a free, a      *)
(* detach and the clone of a direct segment that have read 1 still find 1  *)
(* when they store, whatever the other threads do. Only the clone of an    *)
(* indirect segment can lose an update.                                    *)
StoreSafe ==
  ~lost => \A t \in Threads :
    LET c == call[t] IN
    c.one =>
      /\ c.pc \in {"add", "drop"} => refcnt[c.m] = 1
      /\ c.pc = "undo" => refcnt[c.md] = 1
      /\ c.pc = "join" /\ direct[c.src] = c.src => refcnt[c.md] = 1

(* Until an update is lost, the count of every buffer is the number of     *)
(* references to it: those of the threads that hold its packet, those a    *)
(* call in progress still has to drop or to hand out, and those of the     *)
(* indirect buffers attached to it.                                        *)
RefcntExact ==
  ~lost => \A m \in Mbufs :
    refcnt[m] = Cardinality(Held(m)) + Cardinality(Working(m)) + Cardinality(Attached(m))

(* Until an update is lost, a buffer whose count is 0 is in the pool, or   *)
(* one thread is detaching it on its way there; one in the pool has count  *)
(* 0, the assertion of rte_mbuf_raw_alloc and of __rte_mbuf_raw_free.      *)
(* Nothing leaks, also when a clone fails half way, and nothing is put in  *)
(* the pool twice.                                                         *)
FreedOnce ==
  ~lost => \A m \in Mbufs :
    LET detaching == {t \in Threads : Detaching(t, m)}
    IN IF refcnt[m] = 0 THEN IF m \in pool THEN detaching = {} ELSE Cardinality(detaching) = 1
                        ELSE m \notin pool

(* Until an update is lost, a packet that a thread holds has as many       *)
(* segments as its head says: the test of rte_mbuf_sanity_check.           *)
SegsCounted ==
  ~lost => \A t \in Threads, p \in Mbufs : refs[t][p] > 0 => nb_segs[p] = Cardinality(Segs(p))
=============================================================================
