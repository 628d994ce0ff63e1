----------------------------- MODULE MbufProofs -----------------------------
(***************************************************************************)
(* Proofs about Mbuf: as long as no store of a clone of an indirect        *)
(* segment overwrites another update, the reference counts are exact,      *)
(* every buffer is freed once, the heads count the segments, and no other  *)
(* store overwrites anything.                                              *)
(***************************************************************************)
EXTENDS Mbuf, FiniteSetTheorems, TLAPS

(* Where a thread may be in its call. *)
Pcs == {"idle", "retain", "add", "free", "drop", "detach", "undo", "attach", "join", "more"}

(* The locals of a call. *)
CallType ==
  [pc : Pcs, m : Mbufs \cup {NULL}, nxt : Mbufs \cup {NULL}, md : Mbufs \cup {NULL},
   one : BOOLEAN, pkt : Mbufs \cup {NULL}, src : Mbufs \cup {NULL},
   head : Mbufs \cup {NULL}, prev : Mbufs \cup {NULL}, nseg : Nat]

(* Types: the counts are numbers, the pointers go to buffers. *)
TypeOK ==
  /\ pool \in SUBSET Mbufs
  /\ refcnt \in [Mbufs -> Nat]
  /\ next \in [Mbufs -> Mbufs \cup {NULL}]
  /\ nb_segs \in [Mbufs -> Nat]
  /\ direct \in [Mbufs -> Mbufs]
  /\ refs \in [Threads -> [Mbufs -> 0..MaxHolds]]
  /\ call \in [Threads -> CallType]

(* The count of every buffer is the number of references to it. *)
Exact ==
  \A m \in Mbufs :
    refcnt[m] = Cardinality(Held(m)) + Cardinality(Working(m)) + Cardinality(Attached(m))

(* The segments from m on come to an end. *)
Ends(m) == \E s \in Segs(m) : next[s] = NULL

(* A free buffer has no reference; one without a reference is free or is   *)
(* being detached, by one thread.                                          *)
PoolInv ==
  /\ \A m \in pool : refcnt[m] = 0 /\ direct[m] = m
  /\ \A m \in Mbufs \ pool : refcnt[m] = 0 => \E t \in Threads : Detaching(t, m)
  /\ \A t \in Threads, m \in Mbufs : Detaching(t, m) => refcnt[m] = 0 /\ m \notin pool
  /\ \A t, u \in Threads, m \in Mbufs : Detaching(t, m) /\ Detaching(u, m) => t = u

(* What a thread holds is a packet, apart from every other one held.       *)
HeldInv ==
  /\ \A t \in Threads, p \in Mbufs :
       refs[t][p] > 0 => Ends(p) /\ nb_segs[p] = Cardinality(Segs(p)) /\ nb_segs[p] < SegLimit
  /\ \A t, u \in Threads, p, q \in Mbufs :
       refs[t][p] > 0 /\ refs[u][q] > 0 /\ p # q => Segs(p) \cap Segs(q) = {}

(* An indirect buffer is in use, and is attached to a direct one. *)
DirectInv ==
  \A x \in Mbufs : direct[x] # x => refcnt[x] # 0 /\ direct[direct[x]] = direct[x]

(* rte_pktmbuf_refcnt_update goes along a packet that t holds. *)
RetainInv(t) ==
  LET c == call[t] IN
  c.pc \in {"retain", "add"} =>
    /\ c.pkt \in Mbufs /\ refs[t][c.pkt] > 0 /\ refs[t][c.pkt] < MaxHolds
    /\ c.m \in Segs(c.pkt)
    /\ c.pc = "add" /\ c.one => refcnt[c.m] = 1

(* rte_pktmbuf_free goes along segments that end; what it has read is so.  *)
FreeInv(t) ==
  LET c == call[t] IN
  c.pc \in {"free", "drop"} =>
    /\ c.m \in Mbufs /\ Ends(c.m)
    /\ c.pc = "drop" => c.nxt = next[c.m] /\ (c.one => refcnt[c.m] = 1)

(* rte_pktmbuf_detach has m, already direct again, and its buffer md.      *)
DetachInv(t) ==
  LET c == call[t] IN
  c.pc \in {"detach", "undo"} =>
    /\ c.m \in Mbufs /\ c.md \in Mbufs \ {c.m}
    /\ direct[c.m] = c.m /\ direct[c.md] = c.md
    /\ c.nxt # NULL => Ends(c.nxt)
    /\ c.pc = "undo" /\ c.one => refcnt[c.md] = 1

(* rte_pktmbuf_clone goes along a packet that t holds, and has built as    *)
(* many segments, with one reference each, as it has gone along. What it   *)
(* has read of the count under an indirect segment may have changed.       *)
CloneInv(t) ==
  LET c == call[t] IN
  c.pc \in {"attach", "join", "more"} =>
    /\ c.head \in Mbufs /\ c.m \in Mbufs /\ c.src \in Mbufs
    /\ \E p \in Mbufs : /\ refs[t][p] > 0 /\ c.src \in Segs(p)
                        /\ c.nseg + Cardinality(Segs(c.src)) = Cardinality(Segs(p)) + 1
    /\ \A s \in Segs(c.head) \cup {c.m} : refcnt[s] = 1
    /\ Ends(c.head) /\ next[c.m] = NULL
    /\ c.pc = "more" => c.m \in Segs(c.head) /\ c.nseg = Cardinality(Segs(c.head))
    /\ c.pc \in {"attach", "join"} =>
         /\ direct[c.m] = c.m
         /\ c.prev = NULL => c.head = c.m /\ c.nseg = 1
         /\ c.prev # NULL => /\ c.m \notin Segs(c.head) /\ c.prev \in Segs(c.head)
                             /\ next[c.prev] = NULL
                             /\ c.nseg = Cardinality(Segs(c.head)) + 1
    /\ c.pc = "join" => /\ c.md = direct[c.src]
                        /\ c.one /\ direct[c.src] = c.src => refcnt[c.src] = 1

(* What holds of every call in progress. *)
CallInv == \A t \in Threads : RetainInv(t) /\ FreeInv(t) /\ DetachInv(t) /\ CloneInv(t)

(* The inductive invariant. *)
MbufInv == TypeOK /\ Exact /\ PoolInv /\ HeldInv /\ DirectInv /\ CallInv
-----------------------------------------------------------------------------
(* The segments that pointers lead to. *)

(* The values of the next pointers. *)
Pointers == [Mbufs -> Mbufs \cup {NULL}]

(* The segments from m on are part of every set that has m and what the    *)
(* pointers lead to.                                                       *)
LEMMA SegsLeast ==
  ASSUME NEW nx, NEW m, NEW S \in SUBSET Mbufs, Linked(nx, m, S)
  PROVE  SegsOf(nx, m) \subseteq S
<1> SUFFICES ASSUME NEW x \in SegsOf(nx, m), x \notin S PROVE FALSE
  OBVIOUS
<1>1. S \in SUBSET (Mbufs \ {x})
  OBVIOUS
<1> QED BY <1>1 DEF SegsOf

(* The segments from m on are such a set. *)
LEMMA SegsLinked ==
  ASSUME NEW nx \in Pointers, NEW m \in Mbufs \cup {NULL}
  PROVE  /\ SegsOf(nx, m) \in SUBSET Mbufs
         /\ Linked(nx, m, SegsOf(nx, m))
<1>1. SegsOf(nx, m) \in SUBSET Mbufs
  BY DEF SegsOf
<1>2. m \in SegsOf(nx, m) \cup {NULL}
  BY MbufAssumption DEF SegsOf, Linked
<1>3. ASSUME NEW x \in SegsOf(nx, m) PROVE nx[x] \in SegsOf(nx, m) \cup {NULL}
  <2>1. nx[x] \in Mbufs \cup {NULL}
    BY <1>1 DEF Pointers
  <2>2. CASE nx[x] \in Mbufs
    <3>1. ASSUME NEW S \in SUBSET (Mbufs \ {nx[x]}), Linked(nx, m, S) PROVE FALSE
      <4>1. x \in S
        BY <1>3, <3>1, SegsLeast
      <4>2. nx[x] \in S \cup {NULL}
        BY <4>1, <3>1 DEF Linked
      <4> QED BY <4>2, <2>2, MbufAssumption
    <3> QED BY <3>1, <2>2 DEF SegsOf
  <2> QED BY <2>1, <2>2
<1> QED BY <1>1, <1>2, <1>3 DEF Linked

(* m is a segment, and the next of a segment is one. *)
LEMMA SegsStep ==
  ASSUME NEW nx \in Pointers, NEW m \in Mbufs
  PROVE  /\ m \in SegsOf(nx, m)
         /\ \A x \in SegsOf(nx, m) : x \in Mbufs /\ (nx[x] # NULL => nx[x] \in SegsOf(nx, m))
  BY SegsLinked, MbufAssumption DEF Linked

(* There is no segment after the last. *)
LEMMA SegsNull ==
  ASSUME NEW nx PROVE SegsOf(nx, NULL) = {}
<1>1. Linked(nx, NULL, {})
  BY DEF Linked
<1> QED BY <1>1, SegsLeast

(* What follows a segment of m is part of what follows m. *)
LEMMA SegsTrans ==
  ASSUME NEW nx \in Pointers, NEW m \in Mbufs, NEW x \in SegsOf(nx, m)
  PROVE  SegsOf(nx, x) \subseteq SegsOf(nx, m)
<1>1. Linked(nx, x, SegsOf(nx, m)) /\ SegsOf(nx, m) \in SUBSET Mbufs
  BY SegsLinked DEF Linked
<1> QED BY <1>1, SegsLeast

(* The segments from m on are m and those from its next on. *)
LEMMA SegsUnfold ==
  ASSUME NEW nx \in Pointers, NEW m \in Mbufs
  PROVE  SegsOf(nx, m) = {m} \cup SegsOf(nx, nx[m])
<1>1. nx[m] \in Mbufs \cup {NULL}
  BY DEF Pointers
<1>2. SegsOf(nx, nx[m]) \in SUBSET Mbufs /\ Linked(nx, nx[m], SegsOf(nx, nx[m]))
  BY <1>1, SegsLinked
<1>3. Linked(nx, m, {m} \cup SegsOf(nx, nx[m]))
  BY <1>2 DEF Linked
<1>4. SegsOf(nx, m) \subseteq {m} \cup SegsOf(nx, nx[m])
  BY <1>2, <1>3, SegsLeast
<1>5. m \in SegsOf(nx, m) /\ (nx[m] # NULL => nx[m] \in SegsOf(nx, m))
  BY SegsStep
<1>6. SegsOf(nx, nx[m]) \subseteq SegsOf(nx, m)
  BY <1>1, <1>5, SegsTrans, SegsNull
<1> QED BY <1>4, <1>5, <1>6

(* Pointers that agree on the segments from m on have the same ones. *)
LEMMA SegsFrame ==
  ASSUME NEW f \in Pointers, NEW g \in Pointers, NEW m \in Mbufs \cup {NULL},
         \A x \in SegsOf(f, m) : g[x] = f[x]
  PROVE  SegsOf(g, m) = SegsOf(f, m)
<1>1. SegsOf(f, m) \in SUBSET Mbufs /\ Linked(f, m, SegsOf(f, m))
  BY SegsLinked
<1>2. SegsOf(g, m) \in SUBSET Mbufs /\ Linked(g, m, SegsOf(g, m))
  BY SegsLinked
<1>3. Linked(g, m, SegsOf(f, m))
  BY <1>1 DEF Linked
<1>4. SegsOf(g, m) \subseteq SegsOf(f, m)
  BY <1>1, <1>3, SegsLeast
<1>5. Linked(f, m, SegsOf(g, m))
  BY <1>2, <1>4 DEF Linked
<1>6. SegsOf(f, m) \subseteq SegsOf(g, m)
  BY <1>2, <1>5, SegsLeast
<1> QED BY <1>4, <1>6

(* The last segment is reached from every one. *)
LEMMA EndReached ==
  ASSUME NEW nx \in Pointers, NEW m \in Mbufs,
         NEW e \in SegsOf(nx, m), nx[e] = NULL, NEW x \in SegsOf(nx, m)
  PROVE  e \in SegsOf(nx, x)
<1> DEFINE S == {y \in SegsOf(nx, m) : e \in SegsOf(nx, y)}
<1>1. m \in S
  BY SegsStep
<1>2. ASSUME NEW y \in S PROVE nx[y] \in S \cup {NULL}
  <2>1. y \in Mbufs /\ (nx[y] # NULL => nx[y] \in SegsOf(nx, m))
    BY SegsStep
  <2>2. e = y \/ e \in SegsOf(nx, nx[y])
    BY <2>1, SegsUnfold
  <2> QED BY <2>1, <2>2
<1>3. S \in SUBSET Mbufs
  BY SegsStep
<1>4. Linked(nx, m, S)
  BY <1>1, <1>2 DEF Linked
<1>5. SegsOf(nx, m) \subseteq S
  BY <1>3, <1>4, SegsLeast
<1> QED BY <1>5

(* There is only one last segment. *)
LEMMA EndUnique ==
  ASSUME NEW nx \in Pointers, NEW m \in Mbufs,
         NEW e \in SegsOf(nx, m), nx[e] = NULL, NEW x \in SegsOf(nx, m), nx[x] = NULL
  PROVE  e = x
<1>1. x \in Mbufs /\ e \in SegsOf(nx, x)
  BY EndReached, SegsStep
<1>2. SegsOf(nx, x) = {x} \cup SegsOf(nx, NULL)
  BY <1>1, SegsUnfold
<1> QED BY <1>1, <1>2, SegsNull

(* A packet that ends has no cycle: a segment does not follow itself. *)
LEMMA Acyclic ==
  ASSUME NEW nx \in Pointers, NEW m \in Mbufs,
         NEW e \in SegsOf(nx, m), nx[e] = NULL
  PROVE  m \notin SegsOf(nx, nx[m])
<1> SUFFICES ASSUME m \in SegsOf(nx, nx[m]) PROVE FALSE
  OBVIOUS
<1> DEFINE S == {y \in SegsOf(nx, m) : nx[y] # NULL /\ m \in SegsOf(nx, nx[y])}
<1>1. m \in S
  BY SegsStep, SegsNull
<1>2. ASSUME NEW y \in S PROVE nx[y] \in S \cup {NULL}
  <2>1. nx[y] \in SegsOf(nx, m) /\ nx[y] \in Mbufs
    BY SegsStep
  <2>2. m = nx[y] \/ m \in SegsOf(nx, nx[nx[y]])
    BY <2>1, SegsUnfold
  <2>3. CASE m = nx[y]
    BY <2>3, <1>1
  <2>4. CASE m \in SegsOf(nx, nx[nx[y]])
    BY <2>1, <2>4, SegsNull
  <2> QED BY <2>2, <2>3, <2>4
<1>3. S \in SUBSET Mbufs
  BY SegsStep
<1>4. Linked(nx, m, S)
  BY <1>1, <1>2 DEF Linked
<1>5. SegsOf(nx, m) \subseteq S
  BY <1>3, <1>4, SegsLeast
<1> QED BY <1>5

(* What rte_pktmbuf_chain and the loop of rte_pktmbuf_clone do: the last   *)
(* segment e of a is linked to b.                                          *)
LEMMA SegsAppend ==
  ASSUME NEW f \in Pointers, NEW g \in Pointers, NEW a \in Mbufs, NEW b \in Mbufs,
         NEW e \in SegsOf(f, a), f[e] = NULL, e \notin SegsOf(f, b),
         g[e] = b, \A x \in Mbufs \ {e} : g[x] = f[x]
  PROVE  /\ SegsOf(g, b) = SegsOf(f, b)
         /\ SegsOf(g, a) = SegsOf(f, a) \cup SegsOf(f, b)
<1>1. SegsOf(f, a) \in SUBSET Mbufs /\ Linked(f, a, SegsOf(f, a))
  BY SegsLinked
<1>2. SegsOf(f, b) \in SUBSET Mbufs /\ Linked(f, b, SegsOf(f, b))
  BY SegsLinked
<1>3. SegsOf(g, b) = SegsOf(f, b)
  BY <1>2, SegsFrame
<1>4. Linked(g, a, SegsOf(f, a) \cup SegsOf(f, b))
  BY <1>1, <1>2, MbufAssumption DEF Linked
<1>5. SegsOf(g, a) \subseteq SegsOf(f, a) \cup SegsOf(f, b)
  BY <1>1, <1>2, <1>4, SegsLeast
<1>6. SegsOf(g, a) \in SUBSET Mbufs /\ Linked(g, a, SegsOf(g, a))
  BY SegsLinked
<1>7. Linked(f, a, SegsOf(g, a))
  BY <1>6 DEF Linked
<1>8. SegsOf(f, a) \subseteq SegsOf(g, a)
  BY <1>6, <1>7, SegsLeast
<1>9. b \in SegsOf(g, a)
  BY <1>8, SegsStep, MbufAssumption
<1>10. SegsOf(g, b) \subseteq SegsOf(g, a)
  BY <1>9, SegsTrans
<1> QED BY <1>3, <1>5, <1>8, <1>10

(* There are finitely many segments. *)
LEMMA SegsFinite ==
  ASSUME NEW nx, NEW m
  PROVE  IsFiniteSet(SegsOf(nx, m)) /\ Cardinality(SegsOf(nx, m)) \in Nat
<1>1. SegsOf(nx, m) \subseteq Mbufs
  BY DEF SegsOf
<1> QED BY <1>1, MbufAssumption, FS_Subset, FS_CardinalityType
-----------------------------------------------------------------------------
(* Counting references. *)

(* Of three sets with one element between them, two are empty. *)
LEMMA OneOf ==
  ASSUME NEW A, NEW B, NEW C, IsFiniteSet(A), IsFiniteSet(B), IsFiniteSet(C),
         Cardinality(A) + Cardinality(B) + Cardinality(C) = 1
  PROVE  /\ \A x \in A : A = {x} /\ B = {} /\ C = {}
         /\ \A x \in B : B = {x} /\ A = {} /\ C = {}
         /\ \A x \in C : C = {x} /\ A = {} /\ B = {}
<1>1. Cardinality(A) \in Nat /\ Cardinality(B) \in Nat /\ Cardinality(C) \in Nat
  BY FS_CardinalityType
<1>2. /\ Cardinality(A) = 0 <=> A = {}
      /\ Cardinality(B) = 0 <=> B = {}
      /\ Cardinality(C) = 0 <=> C = {}
  BY FS_EmptySet
<1>3. /\ Cardinality(A) = 1 => \E x : A = {x}
      /\ Cardinality(B) = 1 => \E x : B = {x}
      /\ Cardinality(C) = 1 => \E x : C = {x}
  BY FS_Singleton
<1>4. CASE A # {}
  <2>1. Cardinality(A) = 1 /\ Cardinality(B) = 0 /\ Cardinality(C) = 0
    BY <1>1, <1>2, <1>4
  <2> QED BY <2>1, <1>2, <1>3
<1>5. CASE B # {}
  <2>1. Cardinality(A) = 0 /\ Cardinality(B) = 1 /\ Cardinality(C) = 0
    BY <1>1, <1>2, <1>5
  <2> QED BY <2>1, <1>2, <1>3
<1>6. CASE C # {}
  <2>1. Cardinality(A) = 0 /\ Cardinality(B) = 0 /\ Cardinality(C) = 1
    BY <1>1, <1>2, <1>6
  <2> QED BY <2>1, <1>2, <1>3
<1> QED BY <1>4, <1>5, <1>6

(* The reference of thread t to packet p with number i. *)
Hold(t, p, i) == <<t, <<p, i>>>>

(* What the elements of Held(m) are. *)
LEMMA HeldIs ==
  ASSUME NEW m
  PROVE  /\ \A t, p, i : Hold(t, p, i) \in Held(m) <=>
              /\ t \in Threads /\ p \in Mbufs /\ i \in 1..MaxHolds
              /\ i <= refs[t][p] /\ m \in Segs(p)
         /\ \A h \in Held(m) :
              \E t \in Threads, p \in Mbufs, i \in 1..MaxHolds : h = Hold(t, p, i)
  BY DEF Held, Hold

(* References with the same thread, packet and number are the same. *)
LEMMA HoldSame ==
  ASSUME NEW t, NEW p, NEW i, NEW u, NEW q, NEW j, Hold(t, p, i) = Hold(u, q, j)
  PROVE  t = u /\ p = q /\ i = j
  BY DEF Hold

(* There are finitely many references. *)
LEMMA RefsFinite ==
  ASSUME NEW m
  PROVE  /\ IsFiniteSet(Held(m)) /\ IsFiniteSet(Working(m)) /\ IsFiniteSet(Attached(m))
         /\ Cardinality(Held(m)) \in Nat /\ Cardinality(Working(m)) \in Nat
         /\ Cardinality(Attached(m)) \in Nat
<1>1. IsFiniteSet(1..MaxHolds)
  BY MbufAssumption, FS_Interval
<1>2. IsFiniteSet(Mbufs \X (1..MaxHolds))
  BY <1>1, MbufAssumption, FS_Product
<1>3. IsFiniteSet(Threads \X (Mbufs \X (1..MaxHolds)))
  BY <1>2, MbufAssumption, FS_Product
<1>4. IsFiniteSet(Held(m))
  <2>1. Held(m) \in SUBSET (Threads \X (Mbufs \X (1..MaxHolds)))
    BY DEF Held
  <2> QED BY <2>1, <1>3, FS_Subset
<1>5. IsFiniteSet(Working(m))
  <2>1. Working(m) \in SUBSET Threads
    BY DEF Working
  <2> QED BY <2>1, MbufAssumption, FS_Subset
<1>6. IsFiniteSet(Attached(m))
  <2>1. Attached(m) \in SUBSET Mbufs
    BY DEF Attached
  <2> QED BY <2>1, MbufAssumption, FS_Subset
<1> QED BY <1>4, <1>5, <1>6, FS_CardinalityType

(* A buffer with count 0 has no reference. *)
LEMMA NoRefs ==
  ASSUME Exact, NEW m \in Mbufs, refcnt[m] = 0
  PROVE  Held(m) = {} /\ Working(m) = {} /\ Attached(m) = {}
<1>1. Cardinality(Held(m)) + Cardinality(Working(m)) + Cardinality(Attached(m)) = 0
  BY DEF Exact
<1>2. Cardinality(Held(m)) = 0 /\ Cardinality(Working(m)) = 0 /\ Cardinality(Attached(m)) = 0
  BY <1>1, RefsFinite
<1> QED BY <1>2, RefsFinite, FS_EmptySet

(* A buffer with count 1 has one reference. *)
LEMMA SoleRef ==
  ASSUME Exact, NEW m \in Mbufs, refcnt[m] = 1
  PROVE  /\ \A h \in Held(m) : Held(m) = {h} /\ Working(m) = {} /\ Attached(m) = {}
         /\ \A t \in Working(m) : Working(m) = {t} /\ Held(m) = {} /\ Attached(m) = {}
         /\ \A x \in Attached(m) : Attached(m) = {x} /\ Held(m) = {} /\ Working(m) = {}
<1>1. Cardinality(Held(m)) + Cardinality(Working(m)) + Cardinality(Attached(m)) = 1
  BY DEF Exact
<1> HIDE DEF Held, Working, Attached
<1> QED BY <1>1, RefsFinite, OneOf

(* Thread u has a reference to z. *)
Claims(u, z) ==
  \/ \E p \in Mbufs : refs[u][p] > 0 /\ z \in Segs(p)
  \/ z \in CallSegs(u)
  \/ call[u].pc \in {"detach", "undo"} /\ call[u].md = z

(* The reference that a claim comes from. *)
Token(u, z) ==
  \/ \E p \in Mbufs : Hold(u, p, 1) \in Held(z)
  \/ u \in Working(z)
  \/ \E x \in Attached(z) : Detaching(u, x)

(* A thread with a packet has its first reference to each segment. *)
LEMMA HoldFirst ==
  ASSUME TypeOK, NEW t \in Threads, NEW p \in Mbufs, refs[t][p] > 0, NEW z \in Segs(p)
  PROVE  Hold(t, p, 1) \in Held(z)
<1>1. refs[t][p] \in 0..MaxHolds
  BY DEF TypeOK
<1>2. 1 \in 1..MaxHolds /\ 1 <= refs[t][p]
  BY <1>1, MbufAssumption
<1> QED BY <1>2, HeldIs

(* A claim is a reference that is counted. *)
LEMMA ClaimToken ==
  ASSUME MbufInv, NEW u \in Threads, NEW z \in Mbufs, Claims(u, z)
  PROVE  Token(u, z)
<1> USE DEF MbufInv
<1>1. CASE \E p \in Mbufs : refs[u][p] > 0 /\ z \in Segs(p)
  BY <1>1, HoldFirst DEF Token
<1>2. CASE z \in CallSegs(u)
  BY <1>2 DEF Token, Working
<1>3. CASE call[u].pc \in {"detach", "undo"} /\ call[u].md = z
  <2>1. call[u].m \in Mbufs /\ call[u].md # call[u].m
    BY <1>3 DEF CallInv, DetachInv
  <2>2. Detaching(u, call[u].m)
    BY <1>3 DEF Detaching
  <2>3. call[u].m \in Attached(z)
    BY <2>1, <2>2, <1>3 DEF Attached
  <2> QED BY <2>2, <2>3 DEF Token
<1> QED BY <1>1, <1>2, <1>3 DEF Claims

(* A buffer some thread has a claim to has a count above 0. *)
LEMMA ClaimCounts ==
  ASSUME MbufInv, NEW u \in Threads, NEW z \in Mbufs, Claims(u, z)
  PROVE  refcnt[z] \in Nat \ {0}
<1>1. Token(u, z)
  BY ClaimToken
<1>2. refcnt[z] # 0
  BY <1>1, NoRefs DEF Token, MbufInv
<1> QED BY <1>2 DEF MbufInv, TypeOK

(* Two threads with a claim to a buffer have two references to it.         *)
LEMMA TwoClaims ==
  ASSUME MbufInv, NEW t \in Threads, NEW u \in Threads, t # u, NEW z \in Mbufs,
         Claims(t, z), Claims(u, z)
  PROVE  refcnt[z] # 1
<1> SUFFICES ASSUME refcnt[z] = 1 PROVE FALSE
  OBVIOUS
<1>1. Token(t, z) /\ Token(u, z)
  BY ClaimToken
<1>2. Exact
  BY DEF MbufInv
<1>3. /\ \A h \in Held(z) : Held(z) = {h} /\ Working(z) = {} /\ Attached(z) = {}
      /\ \A w \in Working(z) : Working(z) = {w} /\ Held(z) = {} /\ Attached(z) = {}
      /\ \A x \in Attached(z) : Attached(z) = {x} /\ Held(z) = {} /\ Working(z) = {}
  BY <1>2, SoleRef
<1>4. CASE \E p \in Mbufs : Hold(t, p, 1) \in Held(z)
  BY <1>1, <1>3, <1>4, HoldSame DEF Token
<1>5. CASE t \in Working(z)
  BY <1>1, <1>3, <1>5 DEF Token
<1>6. CASE \E x \in Attached(z) : Detaching(t, x)
  <2>1. PICK x \in Attached(z) : Detaching(t, x)
    BY <1>6
  <2>2. Detaching(u, x)
    BY <1>1, <1>3 DEF Token
  <2>3. x \in Mbufs
    BY DEF Attached
  <2> QED BY <2>1, <2>2, <2>3 DEF MbufInv, PoolInv
<1> QED BY <1>1, <1>4, <1>5, <1>6 DEF Token

(* A buffer under an indirect one that t has a claim to has a count above  *)
(* 0, and above 1 when another thread has a claim to it.                   *)
LEMMA UnderClaims ==
  ASSUME MbufInv, NEW t \in Threads, NEW x \in Mbufs, NEW z \in Mbufs, x # z,
         direct[x] = z, Claims(t, x)
  PROVE  /\ refcnt[z] \in Nat \ {0}
         /\ \A u \in Threads : Claims(u, z) => refcnt[z] # 1
<1>1. x \in Attached(z)
  BY DEF Attached
<1>2. Exact /\ refcnt[z] \in Nat
  BY DEF MbufInv, TypeOK
<1>3. refcnt[z] # 0
  BY <1>1, <1>2, NoRefs
<1>4. refcnt[x] # 0
  BY ClaimCounts
<1>5. ASSUME NEW u \in Threads, Claims(u, z), refcnt[z] = 1 PROVE FALSE
  <2>1. Token(u, z)
    BY <1>5, ClaimToken
  <2>2. Attached(z) = {x} /\ Held(z) = {} /\ Working(z) = {}
    BY <1>1, <1>2, <1>5, SoleRef
  <2>3. Detaching(u, x)
    BY <2>1, <2>2 DEF Token
  <2> QED BY <2>3, <1>4 DEF MbufInv, PoolInv
<1> QED BY <1>2, <1>3, <1>5

(* The 16 bits of the count are enough. *)
LEMMA CountBound ==
  ASSUME MbufInv, NEW m \in Mbufs
  PROVE  refcnt[m] \in Nat /\ refcnt[m] + 1 < RefWord
<1> DEFINE T == Cardinality(Threads)
           M == Cardinality(Mbufs)
<1>1. T \in Nat /\ M \in Nat /\ MaxHolds \in Nat \ {0}
  BY MbufAssumption, FS_CardinalityType
<1>2. Cardinality(Held(m)) <= T * MaxHolds
  <2>1. CASE Held(m) = {}
    BY <2>1, <1>1, FS_EmptySet
  <2>2. CASE Held(m) # {}
    <3>1. PICK t \in Threads, p \in Mbufs, i \in 1..MaxHolds : Hold(t, p, i) \in Held(m)
      BY <2>2, HeldIs
    <3>2. refs[t][p] > 0 /\ m \in Segs(p)
      BY <3>1, HeldIs, <1>1 DEF MbufInv, TypeOK
    <3>3. Held(m) \subseteq Threads \X ({p} \X (1..MaxHolds))
      <4> SUFFICES ASSUME NEW h \in Held(m) PROVE h \in Threads \X ({p} \X (1..MaxHolds))
        OBVIOUS
      <4>1. PICK u \in Threads, q \in Mbufs, j \in 1..MaxHolds : h = Hold(u, q, j)
        BY HeldIs
      <4>2. refs[u][q] > 0 /\ m \in Segs(q)
        BY <4>1, HeldIs, <1>1 DEF MbufInv, TypeOK
      <4>3. q = p
        BY <3>2, <4>2 DEF MbufInv, HeldInv
      <4> QED BY <4>1, <4>3 DEF Hold
    <3>4. IsFiniteSet({p}) /\ Cardinality({p}) = 1
      BY FS_Singleton
    <3>5. IsFiniteSet(1..MaxHolds) /\ Cardinality(1..MaxHolds) = MaxHolds
      <4>1. 1 \in Int /\ MaxHolds \in Int /\ ~(1 > MaxHolds)
        BY <1>1
      <4>2. /\ IsFiniteSet(1..MaxHolds)
            /\ Cardinality(1..MaxHolds) = IF 1 > MaxHolds THEN 0 ELSE MaxHolds - 1 + 1
        BY <4>1, FS_Interval, Zenon
      <4>3. MaxHolds - 1 + 1 = MaxHolds
        BY <1>1
      <4> QED BY <4>1, <4>2, <4>3
    <3>6. IsFiniteSet({p} \X (1..MaxHolds)) /\ Cardinality({p} \X (1..MaxHolds)) = 1 * MaxHolds
      <4> DEFINE I == 1..MaxHolds
      <4>1. IsFiniteSet(I) /\ Cardinality(I) = MaxHolds
        BY <3>5
      <4> HIDE DEF I
      <4>2. IsFiniteSet({p} \X I) /\ Cardinality({p} \X I) = Cardinality({p}) * Cardinality(I)
        BY <3>4, <4>1, FS_Product
      <4>3. IsFiniteSet({p} \X I) /\ Cardinality({p} \X I) = 1 * MaxHolds
        BY <3>4, <4>1, <4>2
      <4> QED BY <4>3 DEF I
    <3>7. /\ IsFiniteSet(Threads \X ({p} \X (1..MaxHolds)))
          /\ Cardinality(Threads \X ({p} \X (1..MaxHolds))) = T * (1 * MaxHolds)
      BY <3>6, MbufAssumption, FS_Product
    <3>8. Cardinality(Held(m)) <= T * (1 * MaxHolds)
      BY <3>3, <3>7, FS_Subset
    <3>9. 1 * MaxHolds = MaxHolds
      BY <1>1
    <3> QED BY <3>8, <3>9
  <2> QED BY <2>1, <2>2
<1>3. Cardinality(Working(m)) <= T
  <2>1. Working(m) \in SUBSET Threads
    BY DEF Working
  <2> QED BY <2>1, MbufAssumption, FS_Subset
<1>4. Cardinality(Attached(m)) <= M - 1
  <2>1. Attached(m) \in SUBSET (Mbufs \ {m})
    BY DEF Attached
  <2>2. IsFiniteSet(Mbufs \ {m}) /\ Cardinality(Mbufs \ {m}) = M - 1
    BY MbufAssumption, FS_RemoveElement
  <2> QED BY <2>1, <2>2, FS_Subset
<1>5. refcnt[m] = Cardinality(Held(m)) + Cardinality(Working(m)) + Cardinality(Attached(m))
  BY DEF MbufInv, Exact
<1>6. RefWord > T * (MaxHolds + 1) + M /\ RefWord \in Nat
  BY MbufAssumption
<1>7. T * (MaxHolds + 1) = T * MaxHolds + T /\ T * MaxHolds \in Nat
  BY <1>1
<1> HIDE DEF T, M
<1> QED BY <1>1, <1>2, <1>3, <1>4, <1>5, <1>6, <1>7, RefsFinite

(* rte_mbuf_refcnt_update adds what it is told to, also when it stores. *)
LEMMA UpdatedIs ==
  ASSUME MbufInv, NEW t \in Threads, NEW z \in Mbufs, call[t].one => refcnt[z] = 1
  PROVE  /\ Updated(t, z, 1) = refcnt[z] + 1
         /\ refcnt[z] # 0 => Updated(t, z, -1) = refcnt[z] - 1
<1>1. refcnt[z] \in Nat /\ refcnt[z] + 1 < RefWord /\ RefWord \in Nat
  BY CountBound, MbufAssumption
<1>2. CASE call[t].one
  BY <1>1, <1>2 DEF Updated
<1>3. CASE ~call[t].one
  <2>1. (refcnt[z] + 1) % RefWord = refcnt[z] + 1
    BY <1>1
  <2>2. refcnt[z] # 0 => (refcnt[z] + (-1)) % RefWord = refcnt[z] - 1
    BY <1>1
  <2> QED BY <2>1, <2>2, <1>3 DEF Updated
<1> QED BY <1>2, <1>3

-----------------------------------------------------------------------------
(* What a step leaves alone. *)

(* The segments from r on stay the same when their pointers do. *)
LEMMA SegsKept ==
  ASSUME next \in Pointers, next' \in Pointers, NEW r \in Mbufs \cup {NULL},
         \A x \in SegsOf(next, r) : next'[x] = next[x]
  PROVE  /\ SegsOf(next', r) = SegsOf(next, r)
         /\ (\E s \in SegsOf(next', r) : next'[s] = NULL)
              <=> (\E s \in SegsOf(next, r) : next[s] = NULL)
<1>1. SegsOf(next', r) = SegsOf(next, r)
  BY SegsFrame
<1> QED BY <1>1

(* The step does not touch what u has a claim to. *)
Untouched(u) ==
  /\ call'[u] = call[u] /\ refs'[u] = refs[u]
  /\ \A z \in Mbufs :
       Claims(u, z) \/ Detaching(u, z) =>
         next'[z] = next[z] /\ direct'[z] = direct[z] /\ nb_segs'[z] = nb_segs[z]
  /\ \A z \in Mbufs : Claims(u, z) /\ refcnt[z] = 1 => refcnt'[z] = 1

(* What holds of the call of u. *)
CallInvOf(u) == RetainInv(u) /\ FreeInv(u) /\ DetachInv(u) /\ CloneInv(u)

(* A packet held by a thread that a step does not touch stays as it is. *)
LEMMA HeldKept ==
  ASSUME TypeOK, TypeOK', HeldInv, NEW u \in Threads, Untouched(u), NEW p \in Mbufs, refs[u][p] > 0
  PROVE  /\ SegsOf(next', p) = SegsOf(next, p)
         /\ \E s \in SegsOf(next', p) : next'[s] = NULL
         /\ \A x \in SegsOf(next, p) : x \in Mbufs /\ Claims(u, x) /\ next'[x] = next[x]
         /\ nb_segs'[p] = nb_segs[p]
<1>0. next \in Pointers /\ next' \in Pointers
  BY DEF TypeOK, Pointers
<1>1. \A x \in SegsOf(next, p) : x \in Mbufs /\ Claims(u, x)
  BY <1>0, SegsStep DEF Claims, Segs
<1>2. \A x \in SegsOf(next, p) : next'[x] = next[x]
  BY <1>1 DEF Untouched
<1>3. \E s \in SegsOf(next, p) : next[s] = NULL
  BY DEF HeldInv, Ends, Segs
<1>4. p \in SegsOf(next, p)
  BY <1>0, SegsStep
<1>5. nb_segs'[p] = nb_segs[p]
  BY <1>1, <1>4 DEF Untouched
<1> QED BY <1>0, <1>1, <1>2, <1>3, <1>5, SegsKept

(* A thread that a step does not touch keeps its call and what it has.     *)
LEMMA CallKept ==
  ASSUME MbufInv, TypeOK', NEW u \in Threads, Untouched(u)
  PROVE  CallSegs(u)' = CallSegs(u) /\ CallInvOf(u)'
<1> DEFINE c == call[u]
<1>0. next \in Pointers /\ next' \in Pointers /\ TypeOK /\ HeldInv
  BY DEF TypeOK, Pointers, MbufInv
<1>1. call'[u] = c /\ refs'[u] = refs[u]
  BY DEF Untouched
<1>2. CallInvOf(u) /\ c \in CallType
  BY DEF CallInvOf, MbufInv, CallInv, TypeOK
<1>3. \A z \in Mbufs : Claims(u, z) \/ Detaching(u, z) =>
                         next'[z] = next[z] /\ direct'[z] = direct[z]
  BY DEF Untouched
<1>4. \A z \in Mbufs : Claims(u, z) /\ refcnt[z] = 1 => refcnt'[z] = 1
  BY DEF Untouched
<1>5. \A z \in CallSegs(u) : Claims(u, z)
  BY DEF Claims
<1>6. CASE c.pc \in {"retain", "add"}
  <2>1. /\ c.pkt \in Mbufs /\ refs[u][c.pkt] > 0 /\ refs[u][c.pkt] < MaxHolds
        /\ c.m \in SegsOf(next, c.pkt)
        /\ c.pc = "add" /\ c.one => refcnt[c.m] = 1
    BY <1>2, <1>6 DEF CallInvOf, RetainInv, Segs
  <2>2. /\ SegsOf(next', c.pkt) = SegsOf(next, c.pkt)
        /\ \A x \in SegsOf(next, c.pkt) : x \in Mbufs /\ Claims(u, x) /\ next'[x] = next[x]
    BY <2>1, <1>0, HeldKept
  <2>3. SegsOf(next, c.m) \subseteq SegsOf(next, c.pkt)
    BY <2>1, <1>0, SegsTrans
  <2>4. SegsOf(next', c.m) = SegsOf(next, c.m)
    BY <2>1, <2>2, <2>3, <1>0, SegsKept
  <2>6. c.pc = "add" /\ c.one => refcnt'[c.m] = 1
    BY <2>1, <2>2, <1>4
  <2>7. CallSegs(u)' = CallSegs(u)
    BY <1>1, <1>6, <2>2, <2>4 DEF CallSegs, Segs
  <2>8. RetainInv(u)'
    BY <1>1, <2>1, <2>2, <2>6 DEF RetainInv, Segs
  <2> QED BY <1>1, <1>6, <2>7, <2>8 DEF CallInvOf, FreeInv, DetachInv, CloneInv
<1>7. CASE c.pc \in {"free", "drop"}
  <2>1. /\ c.m \in Mbufs /\ \E s \in SegsOf(next, c.m) : next[s] = NULL
        /\ c.pc = "drop" => c.nxt = next[c.m] /\ (c.one => refcnt[c.m] = 1)
    BY <1>2, <1>7 DEF CallInvOf, FreeInv, Ends, Segs
  <2>2. CallSegs(u) = SegsOf(next, c.m)
    BY <1>7 DEF CallSegs, Segs
  <2>3. \A x \in SegsOf(next, c.m) : x \in Mbufs /\ Claims(u, x) /\ next'[x] = next[x]
    BY <2>1, <2>2, <1>0, <1>3, <1>5, SegsStep
  <2>4. /\ SegsOf(next', c.m) = SegsOf(next, c.m)
        /\ \E s \in SegsOf(next', c.m) : next'[s] = NULL
    BY <2>1, <2>3, <1>0, SegsKept
  <2>5. c.m \in SegsOf(next, c.m)
    BY <2>1, <1>0, SegsStep
  <2>6. CallSegs(u)' = CallSegs(u)
    BY <1>1, <1>7, <2>4 DEF CallSegs, Segs
  <2>7. FreeInv(u)'
    BY <1>1, <1>4, <2>1, <2>3, <2>4, <2>5 DEF FreeInv, Ends, Segs
  <2> QED BY <1>1, <1>7, <2>6, <2>7 DEF CallInvOf, RetainInv, DetachInv, CloneInv
<1>8. CASE c.pc \in {"detach", "undo"}
  <2>1. /\ c.m \in Mbufs /\ c.md \in Mbufs \ {c.m}
        /\ direct[c.m] = c.m /\ direct[c.md] = c.md
        /\ c.nxt # NULL => \E s \in SegsOf(next, c.nxt) : next[s] = NULL
        /\ c.pc = "undo" /\ c.one => refcnt[c.md] = 1
    BY <1>2, <1>8 DEF CallInvOf, DetachInv, Ends, Segs
  <2>2. CallSegs(u) = SegsOf(next, c.nxt) /\ c.nxt \in Mbufs \cup {NULL}
    BY <1>2, <1>8 DEF CallSegs, Segs, CallType
  <2>3. \A x \in SegsOf(next, c.nxt) : x \in Mbufs /\ Claims(u, x) /\ next'[x] = next[x]
    BY <2>2, <1>0, <1>3, <1>5, SegsLinked
  <2>4. /\ SegsOf(next', c.nxt) = SegsOf(next, c.nxt)
        /\ c.nxt # NULL => \E s \in SegsOf(next', c.nxt) : next'[s] = NULL
    BY <2>1, <2>2, <2>3, <1>0, SegsKept
  <2>5. Claims(u, c.md) /\ Detaching(u, c.m)
    BY <1>8 DEF Claims, Detaching
  <2>6. CallSegs(u)' = CallSegs(u)
    BY <1>1, <1>8, <2>4 DEF CallSegs, Segs
  <2>7. DetachInv(u)'
    BY <1>1, <1>3, <1>4, <2>1, <2>4, <2>5 DEF DetachInv, Ends, Segs
  <2> QED BY <1>1, <1>8, <2>6, <2>7 DEF CallInvOf, RetainInv, FreeInv, CloneInv
<1>9. CASE c.pc \in {"attach", "join", "more"}
  <2>1. /\ c.head \in Mbufs /\ c.m \in Mbufs /\ c.src \in Mbufs
        /\ \E s \in SegsOf(next, c.head) : next[s] = NULL
        /\ c.pc = "join" => /\ c.md = direct[c.src]
                            /\ c.one /\ direct[c.src] = c.src => refcnt[c.src] = 1
    BY <1>2, <1>9 DEF CallInvOf, CloneInv, Ends, Segs
  <2>2. PICK p \in Mbufs : /\ refs[u][p] > 0 /\ c.src \in SegsOf(next, p)
                           /\ c.nseg + Cardinality(SegsOf(next, c.src))
                                = Cardinality(SegsOf(next, p)) + 1
    BY <1>2, <1>9 DEF CallInvOf, CloneInv, Ends, Segs
  <2>3. /\ SegsOf(next', p) = SegsOf(next, p)
        /\ \A x \in SegsOf(next, p) : x \in Mbufs /\ Claims(u, x) /\ next'[x] = next[x]
    BY <2>2, <1>0, HeldKept
  <2>4. SegsOf(next, c.src) \subseteq SegsOf(next, p)
    BY <2>2, <1>0, SegsTrans
  <2>5. SegsOf(next', c.src) = SegsOf(next, c.src)
    BY <2>1, <2>3, <2>4, <1>0, SegsKept
  <2>6. CallSegs(u) = SegsOf(next, c.head) \cup {c.m}
    BY <1>9 DEF CallSegs, Segs
  <2>7. \A x \in SegsOf(next, c.head) \cup {c.m} :
           x \in Mbufs /\ Claims(u, x) /\ next'[x] = next[x] /\ direct'[x] = direct[x]
    BY <2>1, <2>6, <1>0, <1>3, <1>5, SegsStep
  <2>8. /\ SegsOf(next', c.head) = SegsOf(next, c.head)
        /\ \E s \in SegsOf(next', c.head) : next'[s] = NULL
    BY <2>1, <2>7, <1>0, SegsKept
  <2>9. CallSegs(u)' = CallSegs(u)
    BY <1>1, <1>9, <2>8 DEF CallSegs, Segs
  <2>10. \A s \in SegsOf(next, c.head) \cup {c.m} : refcnt[s] = 1 /\ refcnt'[s] = 1
    <3>1. \A s \in SegsOf(next, c.head) \cup {c.m} : refcnt[s] = 1
      BY <1>2, <1>9 DEF CallInvOf, CloneInv, Segs
    <3> QED BY <3>1, <2>7, <1>4
  <2>11. direct'[c.src] = direct[c.src]
    BY <2>1, <2>2, <2>3, <1>3
  <2>12. c.pc = "join" => /\ c.md = direct'[c.src]
                          /\ c.one /\ direct'[c.src] = c.src => refcnt'[c.src] = 1
    <3>1. Claims(u, c.src)
      BY <2>2, <2>3
    <3>2. refcnt[c.src] = 1 => refcnt'[c.src] = 1
      BY <2>1, <3>1, <1>4
    <3>3. c.pc = "join" => c.md = direct'[c.src]
      BY <2>1, <2>11
    <3>4. ASSUME c.pc = "join", c.one, direct'[c.src] = c.src PROVE refcnt'[c.src] = 1
      <4>1. direct[c.src] = c.src
        BY <3>4, <2>11
      <4>2. refcnt[c.src] = 1
        BY <2>1, <3>4, <4>1
      <4> QED BY <3>2, <4>2
    <3> QED BY <3>3, <3>4
  <2>13. /\ next[c.m] = NULL
         /\ c.pc = "more" => c.m \in SegsOf(next, c.head)
                             /\ c.nseg = Cardinality(SegsOf(next, c.head))
         /\ c.pc \in {"attach", "join"} =>
              /\ direct[c.m] = c.m
              /\ c.prev = NULL => c.head = c.m /\ c.nseg = 1
              /\ c.prev # NULL => /\ c.m \notin SegsOf(next, c.head)
                                  /\ c.prev \in SegsOf(next, c.head)
                                  /\ next[c.prev] = NULL
                                  /\ c.nseg = Cardinality(SegsOf(next, c.head)) + 1
    BY <1>2, <1>9 DEF CallInvOf, CloneInv, Segs
  <2>14. CloneInv(u)'
    <3>1. \E q \in Mbufs : /\ refs'[u][q] > 0 /\ c.src \in SegsOf(next', q)
                           /\ c.nseg + Cardinality(SegsOf(next', c.src))
                                = Cardinality(SegsOf(next', q)) + 1
      BY <1>1, <2>2, <2>3, <2>5
    <3>2. /\ next'[c.m] = NULL
          /\ c.pc = "more" => c.m \in SegsOf(next', c.head)
                             /\ c.nseg = Cardinality(SegsOf(next', c.head))
          /\ c.pc \in {"attach", "join"} =>
              /\ direct'[c.m] = c.m
              /\ c.prev = NULL => c.head = c.m /\ c.nseg = 1
              /\ c.prev # NULL => /\ c.m \notin SegsOf(next', c.head)
                                  /\ c.prev \in SegsOf(next', c.head)
                                  /\ next'[c.prev] = NULL
                                  /\ c.nseg = Cardinality(SegsOf(next', c.head)) + 1
      BY <2>7, <2>8, <2>13
    <3>3. \A s \in SegsOf(next', c.head) \cup {c.m} : refcnt'[s] = 1
      BY <2>8, <2>10
    <3> HIDE DEF c
    <3> QED BY <1>1, <2>1, <2>8, <2>12, <3>1, <3>2, <3>3 DEF CloneInv, Ends, Segs
  <2> QED BY <1>1, <1>9, <2>9, <2>14 DEF CallInvOf, RetainInv, FreeInv, DetachInv
<1>10. CASE c.pc = "idle"
  BY <1>1, <1>10 DEF CallInvOf, RetainInv, FreeInv, DetachInv, CloneInv, CallSegs
<1>11. c.pc \in Pcs
  BY <1>2 DEF CallType
<1> QED BY <1>6, <1>7, <1>8, <1>9, <1>10, <1>11 DEF Pcs
(* The step is one of thread t: the other threads' claims are untouched.   *)
StepOf(t) == \A u \in Threads \ {t} : Untouched(u)

(* The references of the calls: only that of t changes. *)
LEMMA WorkingIs ==
  ASSUME MbufInv, TypeOK', NEW t \in Threads, StepOf(t), NEW m \in Mbufs
  PROVE  /\ (m \in CallSegs(t)' <=> m \in CallSegs(t)) =>
               Cardinality(Working(m)') = Cardinality(Working(m))
         /\ m \in CallSegs(t)' /\ m \notin CallSegs(t) =>
               Cardinality(Working(m)') = Cardinality(Working(m)) + 1
         /\ m \notin CallSegs(t)' /\ m \in CallSegs(t) =>
               Cardinality(Working(m)') = Cardinality(Working(m)) - 1
<1>1. \A u \in Threads \ {t} : CallSegs(u)' = CallSegs(u)
  BY CallKept DEF StepOf
<1>2. IsFiniteSet(Working(m))
  BY RefsFinite
<1>3. CASE m \in CallSegs(t)' <=> m \in CallSegs(t)
  <2>1. Working(m)' = Working(m)
    BY <1>1, <1>3 DEF Working
  <2> QED BY <2>1, <1>3
<1>4. CASE m \in CallSegs(t)' /\ m \notin CallSegs(t)
  <2>1. Working(m)' = Working(m) \cup {t} /\ t \notin Working(m)
    BY <1>1, <1>4 DEF Working
  <2> QED BY <2>1, <1>2, <1>4, FS_AddElement
<1>5. CASE m \notin CallSegs(t)' /\ m \in CallSegs(t)
  <2>1. Working(m)' = Working(m) \ {t} /\ t \in Working(m)
    BY <1>1, <1>5 DEF Working
  <2> QED BY <2>1, <1>2, <1>5, FS_RemoveElement
<1> QED BY <1>3, <1>4, <1>5

(* The references of the threads stay when no segment of a held packet     *)
(* changes.                                                                *)
LEMMA HeldStays ==
  ASSUME MbufInv, TypeOK', refs' = refs,
         \A z \in Mbufs : Held(z) # {} => next'[z] = next[z] /\ nb_segs'[z] = nb_segs[z]
  PROVE  /\ \A t \in Threads, p \in Mbufs :
              refs[t][p] > 0 => SegsOf(next', p) = SegsOf(next, p)
         /\ \A m \in Mbufs : Held(m)' = Held(m)
         /\ HeldInv'
<1>0. next \in Pointers /\ next' \in Pointers /\ TypeOK /\ HeldInv
  BY DEF TypeOK, Pointers, MbufInv
<1>1. ASSUME NEW t \in Threads, NEW p \in Mbufs, refs[t][p] > 0
      PROVE  /\ SegsOf(next', p) = SegsOf(next, p)
             /\ \E s \in SegsOf(next', p) : next'[s] = NULL
             /\ nb_segs'[p] = nb_segs[p]
  <2>1. \A x \in SegsOf(next, p) : x \in Mbufs /\ Held(x) # {}
    BY <1>0, <1>1, SegsStep, HoldFirst DEF Segs
  <2>2. p \in SegsOf(next, p)
    BY <1>0, SegsStep
  <2>3. \E s \in SegsOf(next, p) : next[s] = NULL
    BY <1>0, <1>1 DEF HeldInv, Ends, Segs
  <2> QED BY <2>1, <2>2, <2>3, <1>0, SegsKept
<1>2. ASSUME NEW m \in Mbufs PROVE Held(m)' = Held(m)
  <2>1. \A t \in Threads, p \in Mbufs, i \in 1..MaxHolds :
           i <= refs[t][p] => SegsOf(next', p) = SegsOf(next, p)
    BY <1>0, <1>1 DEF TypeOK
  <2> QED BY <2>1 DEF Held, Segs
<1>3. HeldInv'
  BY <1>0, <1>1 DEF HeldInv, Ends, Segs
<1> QED BY <1>1, <1>2, <1>3

(* The attachments stay when no buffer is attached or detached. *)
LEMMA AttachedStays ==
  ASSUME NEW t \in Threads, StepOf(t), direct' = direct,
         \A x \in Mbufs : Detaching(t, x)' <=> Detaching(t, x),
         call[t].pc \in {"detach", "undo"} => call'[t].md = call[t].md,
         NEW m
  PROVE  Attached(m)' = Attached(m)
<1>1. \A u \in Threads \ {t} : call'[u] = call[u]
  BY DEF StepOf, Untouched
<1>2. \A u \in Threads, x \in Mbufs :
         (Detaching(u, x) /\ call[u].md = m)' <=> Detaching(u, x) /\ call[u].md = m
  BY <1>1 DEF Detaching
<1> QED BY <1>2 DEF Attached

(* The parts of the invariant that a step of t has to keep. *)
LEMMA StepKeeps ==
  ASSUME MbufInv, TypeOK', NEW t \in Threads, StepOf(t),
         CallInvOf(t)', HeldInv', PoolInv', DirectInv', Exact'
  PROVE  MbufInv'
<1>1. \A u \in Threads : CallInvOf(u)'
  BY CallKept DEF StepOf
<1> QED BY <1>1 DEF MbufInv, CallInv, CallInvOf

(* A step that only changes where t is in its call. *)
LEMMA OnlyCall ==
  ASSUME MbufInv, TypeOK', NEW t \in Threads, StepOf(t),
         UNCHANGED <<pool, refcnt, next, direct, refs>>,
         \A z \in Mbufs : Held(z) # {} => nb_segs'[z] = nb_segs[z],
         CallInvOf(t)', CallSegs(t)' = CallSegs(t),
         \A x \in Mbufs : Detaching(t, x)' <=> Detaching(t, x),
         call[t].pc \in {"detach", "undo"} => call'[t].md = call[t].md
  PROVE  MbufInv'
<1>1. HeldInv' /\ \A m \in Mbufs : Held(m)' = Held(m)
  BY HeldStays
<1>2. \A m \in Mbufs : Attached(m)' = Attached(m)
  BY AttachedStays
<1>3. \A m \in Mbufs : Cardinality(Working(m)') = Cardinality(Working(m))
  BY WorkingIs
<1>4. Exact'
  BY <1>1, <1>2, <1>3 DEF Exact, MbufInv
<1>5. \A u \in Threads, x \in Mbufs : Detaching(u, x)' <=> Detaching(u, x)
  BY DEF StepOf, Untouched, Detaching
<1>6. PoolInv'
  BY <1>5 DEF PoolInv, MbufInv
<1>7. DirectInv'
  BY DEF DirectInv, MbufInv
<1> QED BY <1>1, <1>4, <1>6, <1>7, StepKeeps
-----------------------------------------------------------------------------
(* The actions that only read. *)

(* A step that changes no buffer. *)
LEMMA CallStep ==
  ASSUME NEW t \in Threads, \A u \in Threads \ {t} : call'[u] = call[u] /\ refs'[u] = refs[u],
         UNCHANGED <<refcnt, next, nb_segs, direct>>
  PROVE  StepOf(t)
  BY DEF StepOf, Untouched

(* The retain begins, of a packet without indirect segments. *)
LEMMA RetainKeeps ==
  ASSUME MbufInv, NEW t \in Threads, NEW p \in Mbufs, Retain(t, p)
  PROVE  MbufInv'
<1>0. TypeOK /\ next \in Pointers /\ UNCHANGED <<pool, refcnt, next, nb_segs, direct, refs>>
  BY DEF MbufInv, TypeOK, Pointers, Retain
<1>1. call[t].pc = "idle" /\ refs[t][p] > 0 /\ refs[t][p] < MaxHolds
  BY <1>0, MbufAssumption DEF Retain, At, Segs, TypeOK
<1>2. /\ call' = [call EXCEPT ![t] = [Idle EXCEPT !.pc = "retain", !.pkt = p, !.m = p]]
  BY DEF Retain
<1>3. /\ call'[t].pc = "retain" /\ call'[t].pkt = p /\ call'[t].m = p
      /\ \A u \in Threads \ {t} : call'[u] = call[u]
  BY <1>0, <1>2 DEF TypeOK, Idle
<1>4. TypeOK'
  BY <1>0, <1>2 DEF TypeOK, CallType, Pcs, Idle
<1>5. StepOf(t)
  BY <1>0, <1>3, CallStep
<1>6. CallInvOf(t)'
  BY <1>0, <1>1, <1>3, SegsStep DEF CallInvOf, RetainInv, FreeInv, DetachInv, CloneInv, Segs
<1>7. CallSegs(t)' = CallSegs(t)
  BY <1>1, <1>3 DEF CallSegs
<1>8. \A x \in Mbufs : Detaching(t, x)' <=> Detaching(t, x)
  BY <1>1, <1>3 DEF Detaching
<1> QED BY <1>0, <1>1, <1>4, <1>5, <1>6, <1>7, <1>8, OnlyCall

(* rte_mbuf_refcnt_update reads the count of a segment to retain. *)
LEMMA RetainReadKeeps ==
  ASSUME MbufInv, NEW t \in Threads, RetainRead(t)
  PROVE  MbufInv'
<1>0. TypeOK /\ CallInvOf(t) /\ UNCHANGED <<pool, refcnt, next, nb_segs, direct, refs>>
  BY DEF MbufInv, RetainRead, CallInv, CallInvOf
<1>1. call[t].pc = "retain" /\ call[t] \in CallType
  BY <1>0 DEF RetainRead, At, TypeOK
<1>2. call' = [call EXCEPT ![t].pc = "add", ![t].one = ReadsOne(call[t].m)]
  BY DEF RetainRead
<1>3. /\ call'[t] = [call[t] EXCEPT !.pc = "add", !.one = ReadsOne(call[t].m)]
      /\ \A u \in Threads \ {t} : call'[u] = call[u]
  BY <1>0, <1>2 DEF TypeOK
<1>4. /\ call'[t].pc = "add" /\ call'[t].m = call[t].m /\ call'[t].pkt = call[t].pkt
      /\ call'[t].one = (refcnt[call[t].m] = 1)
  BY <1>1, <1>3 DEF CallType, ReadsOne
<1>5. TypeOK'
  BY <1>0, <1>1, <1>2 DEF TypeOK, CallType, Pcs, ReadsOne
<1>6. StepOf(t)
  BY <1>0, <1>3, CallStep
<1>7. CallInvOf(t)'
  BY <1>0, <1>1, <1>4 DEF CallInvOf, RetainInv, FreeInv, DetachInv, CloneInv, Segs
<1>8. CallSegs(t)' = CallSegs(t)
  BY <1>0, <1>1, <1>4 DEF CallSegs, Segs
<1>9. \A x \in Mbufs : Detaching(t, x)' <=> Detaching(t, x)
  BY <1>1, <1>4 DEF Detaching
<1> QED BY <1>0, <1>1, <1>5, <1>6, <1>7, <1>8, <1>9, OnlyCall

(* rte_pktmbuf_free reads the next and the count of a segment. *)
LEMMA FreeReadKeeps ==
  ASSUME MbufInv, NEW t \in Threads, FreeRead(t)
  PROVE  MbufInv'
<1>0. TypeOK /\ CallInvOf(t) /\ UNCHANGED <<pool, refcnt, next, nb_segs, direct, refs>>
  BY DEF MbufInv, FreeRead, CallInv, CallInvOf
<1>1. call[t].pc = "free" /\ call[t] \in CallType /\ call[t].m \in Mbufs
  BY <1>0 DEF FreeRead, At, TypeOK, CallInvOf, FreeInv
<1>2. call' = [call EXCEPT ![t].pc = "drop", ![t].nxt = next[call[t].m],
                           ![t].one = ReadsOne(call[t].m)]
  BY DEF FreeRead
<1>3. /\ call'[t] = [call[t] EXCEPT !.pc = "drop", !.nxt = next[call[t].m],
                                    !.one = ReadsOne(call[t].m)]
      /\ \A u \in Threads \ {t} : call'[u] = call[u]
  BY <1>0, <1>2 DEF TypeOK
<1>4. /\ call'[t].pc = "drop" /\ call'[t].m = call[t].m /\ call'[t].nxt = next[call[t].m]
      /\ call'[t].one = (refcnt[call[t].m] = 1)
  BY <1>1, <1>3 DEF CallType, ReadsOne
<1>5. TypeOK'
  BY <1>0, <1>1, <1>2 DEF TypeOK, CallType, Pcs, ReadsOne
<1>6. StepOf(t)
  BY <1>0, <1>3, CallStep
<1>7. CallInvOf(t)'
  BY <1>0, <1>1, <1>4 DEF CallInvOf, RetainInv, FreeInv, DetachInv, CloneInv, Segs, Ends
<1>8. CallSegs(t)' = CallSegs(t)
  BY <1>0, <1>1, <1>4 DEF CallSegs, Segs
<1>9. \A x \in Mbufs : Detaching(t, x)' <=> Detaching(t, x)
  BY <1>1, <1>4 DEF Detaching
<1> QED BY <1>0, <1>1, <1>5, <1>6, <1>7, <1>8, <1>9, OnlyCall

(* rte_pktmbuf_detach reads the count of the direct buffer. *)
LEMMA DetachReadKeeps ==
  ASSUME MbufInv, NEW t \in Threads, DetachRead(t)
  PROVE  MbufInv'
<1>0. TypeOK /\ CallInvOf(t) /\ UNCHANGED <<pool, refcnt, next, nb_segs, direct, refs>>
  BY DEF MbufInv, DetachRead, CallInv, CallInvOf
<1>1. call[t].pc = "detach" /\ call[t] \in CallType
  BY <1>0 DEF DetachRead, At, TypeOK
<1>2. call' = [call EXCEPT ![t].pc = "undo", ![t].one = ReadsOne(call[t].md)]
  BY DEF DetachRead
<1>3. /\ call'[t] = [call[t] EXCEPT !.pc = "undo", !.one = ReadsOne(call[t].md)]
      /\ \A u \in Threads \ {t} : call'[u] = call[u]
  BY <1>0, <1>2 DEF TypeOK
<1>4. /\ call'[t].pc = "undo" /\ call'[t].m = call[t].m /\ call'[t].nxt = call[t].nxt
      /\ call'[t].md = call[t].md /\ call'[t].one = (refcnt[call[t].md] = 1)
  BY <1>1, <1>3 DEF CallType, ReadsOne
<1>5. TypeOK'
  BY <1>0, <1>1, <1>2 DEF TypeOK, CallType, Pcs, ReadsOne
<1>6. StepOf(t)
  BY <1>0, <1>3, CallStep
<1>7. CallInvOf(t)'
  BY <1>0, <1>1, <1>4 DEF CallInvOf, RetainInv, FreeInv, DetachInv, CloneInv, Segs, Ends
<1>8. CallSegs(t)' = CallSegs(t)
  BY <1>0, <1>1, <1>4 DEF CallSegs, Segs
<1>9. \A x \in Mbufs : Detaching(t, x)' <=> Detaching(t, x)
  BY <1>1, <1>4 DEF Detaching
<1> QED BY <1>0, <1>4, <1>5, <1>6, <1>7, <1>8, <1>9, OnlyCall

(* rte_pktmbuf_attach reads the count of the direct buffer. *)
LEMMA AttachReadKeeps ==
  ASSUME MbufInv, NEW t \in Threads, AttachRead(t)
  PROVE  MbufInv'
<1>0. TypeOK /\ CallInvOf(t) /\ UNCHANGED <<pool, refcnt, next, nb_segs, direct, refs>>
  BY DEF MbufInv, AttachRead, CallInv, CallInvOf
<1>1. call[t].pc = "attach" /\ call[t] \in CallType /\ call[t].src \in Mbufs
  BY <1>0 DEF AttachRead, At, TypeOK, CallInvOf, CloneInv
<1>2. call' = [call EXCEPT ![t].pc = "join", ![t].md = direct[call[t].src],
                           ![t].one = ReadsOne(direct[call[t].src])]
  BY DEF AttachRead, Owner
<1>3. /\ call'[t] = [call[t] EXCEPT !.pc = "join", !.md = direct[call[t].src],
                                    !.one = ReadsOne(direct[call[t].src])]
      /\ \A u \in Threads \ {t} : call'[u] = call[u]
  BY <1>0, <1>2 DEF TypeOK
<1>4. /\ call'[t].pc = "join" /\ call'[t].m = call[t].m /\ call'[t].src = call[t].src
      /\ call'[t].head = call[t].head /\ call'[t].prev = call[t].prev
      /\ call'[t].nseg = call[t].nseg /\ call'[t].md = direct[call[t].src]
      /\ call'[t].one = (refcnt[direct[call[t].src]] = 1)
  BY <1>1, <1>3 DEF CallType, ReadsOne
<1>5. TypeOK'
  BY <1>0, <1>1, <1>2 DEF TypeOK, CallType, Pcs, ReadsOne
<1>6. StepOf(t)
  BY <1>0, <1>3, CallStep
<1>7. CallInvOf(t)'
  <2>1. CloneInv(t)'
    BY <1>0, <1>1, <1>4 DEF CallInvOf, CloneInv, Segs, Ends
  <2> QED BY <2>1, <1>4 DEF CallInvOf, RetainInv, FreeInv, DetachInv
<1>8. CallSegs(t)' = CallSegs(t)
  BY <1>0, <1>1, <1>4 DEF CallSegs, Segs
<1>9. \A x \in Mbufs : Detaching(t, x)' <=> Detaching(t, x)
  BY <1>1, <1>4 DEF Detaching
<1> QED BY <1>0, <1>1, <1>5, <1>6, <1>7, <1>8, <1>9, OnlyCall
-----------------------------------------------------------------------------
(* Helpers for the actions that change buffers or references. *)

(* Nobody but t has to do with z. *)
Private(t, z) == \A u \in Threads \ {t} : ~Claims(u, z) /\ ~Detaching(u, z)

(* That is so of a free buffer, of one that t detaches, and of one that t  *)
(* has the only reference to.                                              *)
LEMMA PrivateWhen ==
  ASSUME MbufInv, NEW t \in Threads, NEW z \in Mbufs,
         \/ Claims(t, z) /\ refcnt[z] = 1
         \/ z \in pool
         \/ Detaching(t, z)
  PROVE  Private(t, z)
<1> SUFFICES ASSUME NEW u \in Threads \ {t} PROVE ~Claims(u, z) /\ ~Detaching(u, z)
  BY DEF Private
<1>1. CASE Claims(t, z) /\ refcnt[z] = 1
  BY <1>1, TwoClaims DEF MbufInv, PoolInv
<1>2. CASE z \in pool
  <2>1. refcnt[z] = 0 /\ ~Detaching(u, z)
    BY <1>2 DEF MbufInv, PoolInv
  <2> QED BY <2>1, ClaimCounts
<1>3. CASE Detaching(t, z)
  <2>1. refcnt[z] = 0 /\ ~Detaching(u, z)
    BY <1>3 DEF MbufInv, PoolInv
  <2> QED BY <2>1, ClaimCounts
<1> QED BY <1>1, <1>2, <1>3

(* A step that changes only what nobody else has to do with, and counts of *)
(* buffers that t has a claim to, or that are under one, is one of t.      *)
LEMMA StepOfWhen ==
  ASSUME MbufInv, NEW t \in Threads,
         \A u \in Threads \ {t} : call'[u] = call[u] /\ refs'[u] = refs[u],
         \A z \in Mbufs : \/ Private(t, z)
                          \/ next'[z] = next[z] /\ direct'[z] = direct[z] /\ nb_segs'[z] = nb_segs[z],
         \A z \in Mbufs : \/ refcnt'[z] = refcnt[z] \/ Claims(t, z) \/ refcnt[z] = 0
                          \/ \E x \in Mbufs \ {z} : direct[x] = z /\ Claims(t, x)
  PROVE  StepOf(t)
<1> SUFFICES ASSUME NEW u \in Threads \ {t} PROVE Untouched(u)
  BY DEF StepOf
<1>1. ASSUME NEW z \in Mbufs, Claims(u, z) \/ Detaching(u, z)
      PROVE  next'[z] = next[z] /\ direct'[z] = direct[z] /\ nb_segs'[z] = nb_segs[z]
  BY <1>1 DEF Private
<1>2. ASSUME NEW z \in Mbufs, Claims(u, z), refcnt[z] = 1 PROVE refcnt'[z] = 1
  BY <1>2, TwoClaims, UnderClaims
<1> QED BY <1>1, <1>2 DEF Untouched

(* A buffer that t's call has the only reference to is in no held packet   *)
(* and has nothing attached.                                               *)
LEMMA CallSole ==
  ASSUME MbufInv, NEW t \in Threads, NEW z \in Mbufs, z \in CallSegs(t), refcnt[z] = 1
  PROVE  /\ Held(z) = {} /\ Working(z) = {t} /\ Attached(z) = {}
         /\ Claims(t, z) /\ Private(t, z) /\ z \notin pool
<1>1. t \in Working(z) /\ Claims(t, z)
  BY DEF Working, Claims
<1>2. Held(z) = {} /\ Working(z) = {t} /\ Attached(z) = {}
  BY <1>1, SoleRef DEF MbufInv
<1>3. Private(t, z)
  BY <1>1, PrivateWhen
<1>4. z \notin pool
  BY DEF MbufInv, PoolInv
<1> QED BY <1>1, <1>2, <1>3, <1>4

(* A buffer in no held packet is in the segments of none. *)
LEMMA NotHeld ==
  ASSUME TypeOK, NEW z \in Mbufs, Held(z) = {}, NEW t \in Threads, NEW p \in Mbufs, refs[t][p] > 0
  PROVE  z \notin SegsOf(next, p)
  BY HoldFirst DEF Segs

(* The held packets: p may be new or changed, the others are as before. *)
LEMMA HeldInvBut ==
  ASSUME HeldInv, NEW p \in Mbufs,
         \A u \in Threads, q \in Mbufs \ {p} :
           refs'[u][q] > 0 => /\ refs[u][q] > 0
                              /\ SegsOf(next', q) = SegsOf(next, q)
                              /\ \A s \in SegsOf(next, q) : next'[s] = next[s]
                              /\ nb_segs'[q] = nb_segs[q]
                              /\ SegsOf(next', p) \cap SegsOf(next, q) = {},
         \E s \in SegsOf(next', p) : next'[s] = NULL,
         nb_segs'[p] = Cardinality(SegsOf(next', p)), nb_segs'[p] < SegLimit
  PROVE  HeldInv'
<1>1. ASSUME NEW u \in Threads, NEW q \in Mbufs, refs'[u][q] > 0
      PROVE  Ends(q)' /\ nb_segs'[q] = Cardinality(SegsOf(next', q)) /\ nb_segs'[q] < SegLimit
  <2>1. CASE q = p
    BY <2>1 DEF Ends, Segs
  <2>2. CASE q # p
    BY <2>2, <1>1 DEF HeldInv, Ends, Segs
  <2> QED BY <2>1, <2>2
<1>2. ASSUME NEW u \in Threads, NEW v \in Threads, NEW q \in Mbufs, NEW r \in Mbufs,
             refs'[u][q] > 0, refs'[v][r] > 0, q # r
      PROVE  SegsOf(next', q) \cap SegsOf(next', r) = {}
  <2>1. CASE q = p
    <3>1. SegsOf(next', r) = SegsOf(next, r) /\ SegsOf(next', p) \cap SegsOf(next, r) = {}
      BY <1>2, <2>1
    <3> QED BY <3>1, <2>1
  <2>2. CASE r = p
    <3>1. SegsOf(next', q) = SegsOf(next, q) /\ SegsOf(next', p) \cap SegsOf(next, q) = {}
      BY <1>2, <2>2
    <3> QED BY <3>1, <2>2
  <2>3. CASE q # p /\ r # p
    BY <1>2, <2>3 DEF HeldInv, Segs
  <2> QED BY <2>1, <2>2, <2>3
<1> QED BY <1>1, <1>2 DEF HeldInv, Segs

(* One reference more to packet p. *)
LEMMA HeldMore ==
  ASSUME TypeOK, TypeOK', NEW t \in Threads, NEW p \in Mbufs,
         \A u \in Threads, q \in Mbufs : refs'[u][q] = IF u = t /\ q = p THEN refs[t][p] + 1 ELSE refs[u][q],
         \A u \in Threads, q \in Mbufs : refs[u][q] > 0 => SegsOf(next', q) = SegsOf(next, q),
         NEW z \in Mbufs
  PROVE  /\ z \in SegsOf(next', p) => Cardinality(Held(z)') = Cardinality(Held(z)) + 1
         /\ z \notin SegsOf(next', p) => Cardinality(Held(z)') = Cardinality(Held(z))
<1> DEFINE k == refs[t][p] + 1
<1>1. /\ refs \in [Threads -> [Mbufs -> 0..MaxHolds]] /\ refs' \in [Threads -> [Mbufs -> 0..MaxHolds]]
      /\ MaxHolds \in Nat
  BY MbufAssumption DEF TypeOK
<1>2. refs'[t][p] = k /\ k \in 1..MaxHolds
  BY <1>1
<1>3. \A u \in Threads, q \in Mbufs, i \in 1..MaxHolds :
         i <= refs'[u][q] <=> i <= refs[u][q] \/ (u = t /\ q = p /\ i = k)
  BY <1>1, <1>2
<1>4. \A u \in Threads, q \in Mbufs, i \in 1..MaxHolds :
         i <= refs[u][q] => SegsOf(next', q) = SegsOf(next, q)
  BY <1>1
<1>5. ~(k <= refs[t][p])
  BY <1>1
<1> HIDE DEF k
<1>6. Hold(t, p, k) \notin Held(z)
  BY <1>5, HeldIs
<1>7. \A u, q, i : Hold(u, q, i) \in Held(z)' <=>
         /\ u \in Threads /\ q \in Mbufs /\ i \in 1..MaxHolds
         /\ i <= refs'[u][q] /\ z \in SegsOf(next', q)
  BY DEF Held, Hold, Segs
<1>8. \A h \in Held(z)' : \E u \in Threads, q \in Mbufs, i \in 1..MaxHolds : h = Hold(u, q, i)
  BY DEF Held, Hold
<1>9. \A u, q, i : Hold(u, q, i) \in Held(z) <=>
         /\ u \in Threads /\ q \in Mbufs /\ i \in 1..MaxHolds
         /\ i <= refs[u][q] /\ z \in SegsOf(next, q)
  BY HeldIs DEF Segs
<1>10. CASE z \in SegsOf(next', p)
  <2>1. Held(z)' \subseteq Held(z) \cup {Hold(t, p, k)}
    BY <1>3, <1>4, <1>7, <1>8, <1>9
  <2>2. Held(z) \subseteq Held(z)'
    BY <1>3, <1>4, <1>7, HeldIs, <1>9
  <2>3. Hold(t, p, k) \in Held(z)'
    BY <1>2, <1>3, <1>7, <1>10
  <2>4. Held(z)' = Held(z) \cup {Hold(t, p, k)}
    BY <2>1, <2>2, <2>3
  <2> QED BY <2>4, <1>6, <1>10, RefsFinite, FS_AddElement
<1>11. CASE z \notin SegsOf(next', p)
  <2>1. Held(z)' \subseteq Held(z)
    BY <1>3, <1>4, <1>7, <1>8, <1>9, <1>11
  <2>2. Held(z) \subseteq Held(z)'
    BY <1>3, <1>4, <1>7, HeldIs, <1>9
  <2>3. Held(z)' = Held(z)
    BY <2>1, <2>2
  <2> QED BY <2>3, <1>11
<1> QED BY <1>10, <1>11

(* The free buffers stay when no count becomes or was 0. *)
LEMMA PoolStays ==
  ASSUME PoolInv, pool' = pool, \A x \in pool : x \in Mbufs /\ direct'[x] = direct[x],
         \A x \in Mbufs : refcnt'[x] = 0 <=> refcnt[x] = 0,
         \A u \in Threads, x \in Mbufs : Detaching(u, x)' <=> Detaching(u, x)
  PROVE  PoolInv'
  BY DEF PoolInv
(* One reference less to packet p. *)
LEMMA HeldFewer ==
  ASSUME TypeOK, TypeOK', NEW t \in Threads, NEW p \in Mbufs, refs[t][p] > 0,
         \A u \in Threads, q \in Mbufs : refs'[u][q] = IF u = t /\ q = p THEN refs[t][p] - 1 ELSE refs[u][q],
         \A u \in Threads, q \in Mbufs : refs[u][q] > 0 => SegsOf(next', q) = SegsOf(next, q),
         NEW z \in Mbufs
  PROVE  /\ z \in SegsOf(next, p) => Cardinality(Held(z)') = Cardinality(Held(z)) - 1
         /\ z \notin SegsOf(next, p) => Cardinality(Held(z)') = Cardinality(Held(z))
<1> DEFINE k == refs[t][p]
<1>1. /\ refs \in [Threads -> [Mbufs -> 0..MaxHolds]] /\ refs' \in [Threads -> [Mbufs -> 0..MaxHolds]]
      /\ MaxHolds \in Nat
  BY MbufAssumption DEF TypeOK
<1>2. refs'[t][p] = k - 1 /\ k \in 1..MaxHolds
  BY <1>1
<1>3. \A u \in Threads, q \in Mbufs, i \in 1..MaxHolds :
         i <= refs'[u][q] <=> i <= refs[u][q] /\ ~(u = t /\ q = p /\ i = k)
  BY <1>1, <1>2
<1>4. \A u \in Threads, q \in Mbufs, i \in 1..MaxHolds :
         i <= refs[u][q] => SegsOf(next', q) = SegsOf(next, q)
  BY <1>1
<1>5. k <= refs[t][p]
  BY <1>1
<1> HIDE DEF k
<1>6. \A u, q, i : Hold(u, q, i) \in Held(z)' <=>
         /\ u \in Threads /\ q \in Mbufs /\ i \in 1..MaxHolds
         /\ i <= refs'[u][q] /\ z \in SegsOf(next', q)
  BY DEF Held, Hold, Segs
<1>7. \A h \in Held(z)' : \E u \in Threads, q \in Mbufs, i \in 1..MaxHolds : h = Hold(u, q, i)
  BY DEF Held, Hold
<1>8. \A u, q, i : Hold(u, q, i) \in Held(z) <=>
         /\ u \in Threads /\ q \in Mbufs /\ i \in 1..MaxHolds
         /\ i <= refs[u][q] /\ z \in SegsOf(next, q)
  BY HeldIs DEF Segs
<1>9. Held(z)' \subseteq Held(z)
  BY <1>3, <1>4, <1>6, <1>7, <1>8
<1>10. Hold(t, p, k) \notin Held(z)'
  BY <1>3, <1>6
<1>11. Held(z) \subseteq Held(z)' \cup {Hold(t, p, k)}
  BY <1>3, <1>4, <1>6, <1>8, HeldIs
<1>12. Hold(t, p, k) \in Held(z) <=> z \in SegsOf(next, p)
  BY <1>2, <1>5, <1>8
<1>13. Held(z)' = Held(z) \ {Hold(t, p, k)}
  BY <1>9, <1>10, <1>11
<1>14. CASE z \in SegsOf(next, p)
  <2>1. Hold(t, p, k) \in Held(z)
    BY <1>12, <1>14
  <2>2. IsFiniteSet(Held(z))
    BY RefsFinite
  <2>3. Cardinality(Held(z) \ {Hold(t, p, k)}) = Cardinality(Held(z)) - 1
    BY <2>1, <2>2, FS_RemoveElement
  <2> QED BY <2>3, <1>13, <1>14
<1>15. CASE z \notin SegsOf(next, p)
  <2>1. Held(z)' = Held(z)
    BY <1>12, <1>13, <1>15
  <2> QED BY <2>1, <1>15
<1> QED BY <1>14, <1>15

-----------------------------------------------------------------------------
(* rte_pktmbuf_refcnt_update and rte_pktmbuf_free. *)

(* Free hands the references of the packet to the call. *)
LEMMA FreeKeeps ==
  ASSUME MbufInv, NEW t \in Threads, NEW p \in Mbufs, Free(t, p)
  PROVE  MbufInv'
<1>0. TypeOK /\ HeldInv /\ next \in Pointers /\ UNCHANGED <<pool, refcnt, next, nb_segs, direct>>
  BY DEF MbufInv, TypeOK, Pointers, Free
<1>1. call[t].pc = "idle" /\ refs[t][p] > 0 /\ p # NULL
  BY MbufAssumption DEF Free, At
<1>2. /\ call' = [call EXCEPT ![t] = [Idle EXCEPT !.pc = "free", !.m = p]]
      /\ refs' = [refs EXCEPT ![t][p] = refs[t][p] - 1]
  BY <1>1 DEF Free, FreeCall
<1>3. /\ call'[t].pc = "free" /\ call'[t].m = p
      /\ \A u \in Threads \ {t} : call'[u] = call[u] /\ refs'[u] = refs[u]
  BY <1>0, <1>2 DEF TypeOK, Idle
<1>4. \A u \in Threads, q \in Mbufs :
         refs'[u][q] = IF u = t /\ q = p THEN refs[t][p] - 1 ELSE refs[u][q]
  BY <1>0, <1>2 DEF TypeOK
<1>5. TypeOK'
  <2>1. refs[t][p] - 1 \in 0..MaxHolds
    BY <1>0, <1>1, MbufAssumption DEF TypeOK
  <2> QED BY <1>0, <1>2, <2>1 DEF TypeOK, CallType, Pcs, Idle
<1>6. StepOf(t)
  BY <1>0, <1>3, CallStep
<1>7. CallInvOf(t)'
  <2>1. \E s \in SegsOf(next, p) : next[s] = NULL
    BY <1>0, <1>1 DEF HeldInv, Ends, Segs
  <2> QED BY <2>1, <1>0, <1>3 DEF CallInvOf, RetainInv, FreeInv, DetachInv, CloneInv, Segs, Ends
<1>8. CallSegs(t) = {} /\ CallSegs(t)' = SegsOf(next, p)
  BY <1>0, <1>1, <1>3 DEF CallSegs, Segs
<1>9. \A u \in Threads, x \in Mbufs : Detaching(u, x)' <=> Detaching(u, x)
  BY <1>1, <1>3 DEF Detaching
<1>10. \A m \in Mbufs : Attached(m)' = Attached(m)
  BY <1>0, <1>1, <1>6, <1>9, AttachedStays
<1>11. \A m \in Mbufs :
          /\ m \in SegsOf(next, p) => Cardinality(Held(m)') = Cardinality(Held(m)) - 1
          /\ m \notin SegsOf(next, p) => Cardinality(Held(m)') = Cardinality(Held(m))
  BY <1>0, <1>1, <1>4, <1>5, HeldFewer
<1>12. \A m \in Mbufs :
          /\ m \in SegsOf(next, p) => Cardinality(Working(m)') = Cardinality(Working(m)) + 1
          /\ m \notin SegsOf(next, p) => Cardinality(Working(m)') = Cardinality(Working(m))
  BY <1>5, <1>6, <1>8, WorkingIs
<1>13. Exact'
  <2> SUFFICES ASSUME NEW m \in Mbufs
               PROVE  refcnt'[m] = Cardinality(Held(m)') + Cardinality(Working(m)')
                                     + Cardinality(Attached(m)')
    BY DEF Exact
  <2>1. refcnt'[m] = Cardinality(Held(m)) + Cardinality(Working(m)) + Cardinality(Attached(m))
    BY <1>0 DEF MbufInv, Exact
  <2>2. CASE m \in SegsOf(next, p)
    BY <2>1, <2>2, <1>10, <1>11, <1>12, RefsFinite
  <2>3. CASE m \notin SegsOf(next, p)
    BY <2>1, <2>3, <1>10, <1>11, <1>12, RefsFinite
  <2> QED BY <2>2, <2>3
<1>14. HeldInv'
  <2>1. \A u \in Threads, q \in Mbufs : refs'[u][q] > 0 => refs[u][q] > 0
    BY <1>0, <1>1, <1>4 DEF TypeOK
  <2> QED BY <2>1, <1>0 DEF HeldInv, Ends, Segs
<1>15. PoolInv'
  BY <1>0, <1>9 DEF PoolInv, MbufInv
<1>16. DirectInv'
  BY <1>0 DEF DirectInv, MbufInv
<1> QED BY <1>5, <1>6, <1>7, <1>13, <1>14, <1>15, <1>16, StepKeeps

(* A packet that goes to another thread keeps its references. *)
LEMMA SendKeeps ==
  ASSUME MbufInv, NEW t \in Threads, NEW u \in Threads, NEW p \in Mbufs, Send(t, u, p)
  PROVE  MbufInv'
<1>0. TypeOK /\ HeldInv /\ UNCHANGED <<pool, refcnt, next, nb_segs, direct, call>>
  BY DEF MbufInv, TypeOK, Send
<1>1. /\ call[t].pc = "idle" /\ call[u].pc = "idle" /\ t # u
      /\ refs[t][p] > 0 /\ refs[u][p] < MaxHolds
      /\ refs' = [refs EXCEPT ![t][p] = @ - 1, ![u][p] = @ + 1]
  BY DEF Send, At
<1>2. /\ refs \in [Threads -> [Mbufs -> 0..MaxHolds]] /\ MaxHolds \in Nat
  BY <1>0, MbufAssumption DEF TypeOK
<1>3. \A w \in Threads, q \in Mbufs :
         refs'[w][q] = IF w = t /\ q = p THEN refs[t][p] - 1
                       ELSE IF w = u /\ q = p THEN refs[u][p] + 1 ELSE refs[w][q]
  BY <1>1, <1>2
<1>4. refs' \in [Threads -> [Mbufs -> 0..MaxHolds]]
  <2>1. refs[t][p] - 1 \in 0..MaxHolds /\ refs[u][p] + 1 \in 0..MaxHolds
    BY <1>1, <1>2
  <2> QED BY <1>1, <1>2, <2>1
<1>5. TypeOK'
  BY <1>0, <1>4 DEF TypeOK
<1>6. ASSUME NEW z \in Mbufs PROVE Cardinality(Held(z)') = Cardinality(Held(z))
  <2> DEFINE a == refs[t][p]
             b == refs[u][p] + 1
  <2>1. \A w \in Threads, q \in Mbufs, i \in 1..MaxHolds :
           i <= refs'[w][q] <=> \/ i <= refs[w][q] /\ ~(w = t /\ q = p /\ i = a)
                                \/ w = u /\ q = p /\ i = b
    <3> SUFFICES ASSUME NEW w \in Threads, NEW q \in Mbufs, NEW i \in 1..MaxHolds
                 PROVE  i <= refs'[w][q] <=> \/ i <= refs[w][q] /\ ~(w = t /\ q = p /\ i = a)
                                             \/ w = u /\ q = p /\ i = b
      OBVIOUS
    <3>1. CASE w = t /\ q = p
      <4>1. refs'[w][q] = refs[t][p] - 1 /\ w # u /\ refs[w][q] = refs[t][p]
        BY <3>1, <1>1, <1>3
      <4>2. refs[t][p] \in Nat /\ i \in Nat
        BY <1>2
      <4> QED BY <3>1, <4>1, <4>2
    <3>2. CASE w = u /\ q = p
      <4>1. refs'[w][q] = refs[u][p] + 1 /\ w # t /\ refs[w][q] = refs[u][p]
        BY <3>2, <1>1, <1>3
      <4>2. refs[u][p] \in Nat /\ i \in Nat
        BY <1>2
      <4> QED BY <3>2, <4>1, <4>2
    <3>3. CASE ~(w = t /\ q = p) /\ ~(w = u /\ q = p)
      <4>1. refs'[w][q] = refs[w][q]
        BY <3>3, <1>3
      <4> QED BY <3>3, <4>1
    <3> QED BY <3>1, <3>2, <3>3
  <2>2. a \in 1..MaxHolds /\ b \in 1..MaxHolds /\ a <= refs[t][p] /\ ~(b <= refs[u][p])
    BY <1>1, <1>2
  <2> HIDE DEF a, b
  <2>3. \A w, q, i : Hold(w, q, i) \in Held(z)' <=>
           /\ w \in Threads /\ q \in Mbufs /\ i \in 1..MaxHolds
           /\ i <= refs'[w][q] /\ z \in SegsOf(next, q)
    BY <1>0 DEF Held, Hold, Segs
  <2>4. \A h \in Held(z)' : \E w \in Threads, q \in Mbufs, i \in 1..MaxHolds : h = Hold(w, q, i)
    BY DEF Held, Hold
  <2>5. \A w, q, i : Hold(w, q, i) \in Held(z) <=>
           /\ w \in Threads /\ q \in Mbufs /\ i \in 1..MaxHolds
           /\ i <= refs[w][q] /\ z \in SegsOf(next, q)
    BY HeldIs DEF Segs
  <2>6. CASE z \in SegsOf(next, p)
    <3>1. Hold(t, p, a) \in Held(z) /\ Hold(u, p, b) \notin Held(z) \ {Hold(t, p, a)}
      BY <2>2, <2>5, <2>6
    <3>2. Hold(u, p, b) \in Held(z)' /\ Hold(t, p, a) \notin Held(z)'
      BY <2>1, <2>2, <2>3, <2>6, <1>1
    <3>3. Held(z)' \subseteq (Held(z) \ {Hold(t, p, a)}) \cup {Hold(u, p, b)}
      <4> SUFFICES ASSUME NEW h \in Held(z)', h # Hold(u, p, b) PROVE h \in Held(z) /\ h # Hold(t, p, a)
        OBVIOUS
      <4> QED BY <2>1, <2>3, <2>4, <2>5, <3>2
    <3>4. Held(z) \ {Hold(t, p, a)} \subseteq Held(z)'
      BY <2>1, <2>3, <2>5, HeldIs
    <3>5. Held(z)' = (Held(z) \ {Hold(t, p, a)}) \cup {Hold(u, p, b)}
      BY <3>2, <3>3, <3>4
    <3>6. /\ IsFiniteSet(Held(z) \ {Hold(t, p, a)})
          /\ Cardinality(Held(z) \ {Hold(t, p, a)}) = Cardinality(Held(z)) - 1
      BY <3>1, RefsFinite, FS_RemoveElement
    <3>7. Cardinality(Held(z)') = Cardinality(Held(z)) - 1 + 1
      BY <3>1, <3>5, <3>6, FS_AddElement
    <3>8. Cardinality(Held(z)) \in Nat
      BY RefsFinite
    <3> QED BY <3>7, <3>8
  <2>7. CASE z \notin SegsOf(next, p)
    <3>1. Held(z)' \subseteq Held(z)
      BY <2>1, <2>3, <2>4, <2>5, <2>7
    <3>2. Held(z) \subseteq Held(z)'
      BY <2>1, <2>3, <2>5, <2>7, HeldIs
    <3>3. Held(z)' = Held(z)
      BY <3>1, <3>2
    <3> QED BY <3>3
  <2> QED BY <2>6, <2>7
<1>7. Exact'
  <2>1. \A m \in Mbufs : Working(m)' = Working(m)
    BY <1>0 DEF Working, CallSegs, Segs
  <2>2. \A m \in Mbufs : Attached(m)' = Attached(m)
    BY <1>0 DEF Attached, Detaching
  <2> QED BY <2>1, <2>2, <1>0, <1>6 DEF MbufInv, Exact
<1>8. HeldInv'
  <2>1. \A w \in Threads, q \in Mbufs : refs'[w][q] > 0 => \E v \in Threads : refs[v][q] > 0
    BY <1>1, <1>2, <1>3
  <2>2. ASSUME NEW w \in Threads, NEW q \in Mbufs, refs'[w][q] > 0
        PROVE  Ends(q)' /\ nb_segs'[q] = Cardinality(Segs(q)') /\ nb_segs'[q] < SegLimit
    BY <2>1, <2>2, <1>0 DEF HeldInv, Ends, Segs
  <2>3. ASSUME NEW w \in Threads, NEW v \in Threads, NEW q \in Mbufs, NEW r \in Mbufs,
               refs'[w][q] > 0, refs'[v][r] > 0, q # r
        PROVE  (Segs(q) \cap Segs(r))' = {}
    BY <2>1, <2>3, <1>0 DEF HeldInv, Segs
  <2> QED BY <2>2, <2>3 DEF HeldInv
<1>9. PoolInv'
  BY <1>0 DEF PoolInv, MbufInv, Detaching
<1>10. DirectInv'
  BY <1>0 DEF DirectInv, MbufInv
<1>11. CallInv'
  <2> SUFFICES ASSUME NEW w \in Threads PROVE CallInvOf(w)'
    BY DEF CallInv, CallInvOf
  <2>1. CASE w = t \/ w = u
    BY <2>1, <1>0, <1>1 DEF CallInvOf, RetainInv, FreeInv, DetachInv, CloneInv
  <2>2. CASE w # t /\ w # u
    <3>1. refs'[w] = refs[w]
      BY <2>2, <1>1, <1>2
    <3>2. CallInvOf(w)
      BY DEF MbufInv, CallInv, CallInvOf
    <3> QED BY <3>1, <3>2, <1>0 DEF CallInvOf, RetainInv, FreeInv, DetachInv, CloneInv, Segs, Ends
  <2> QED BY <2>1, <2>2
<1> QED BY <1>5, <1>7, <1>8, <1>9, <1>10, <1>11 DEF MbufInv
(* Where the call of t stands: no other thread counts what it has retained *)
(* or has still to free.                                                   *)
LEMMA RetainAddKeeps ==
  ASSUME MbufInv, NEW t \in Threads, RetainAdd(t)
  PROVE  MbufInv'
<1> DEFINE c == call[t]
           m == c.m
           p == c.pkt
<1>0. /\ TypeOK /\ HeldInv /\ next \in Pointers /\ CallInvOf(t) /\ c \in CallType
      /\ UNCHANGED <<pool, next, nb_segs, direct>>
  BY DEF MbufInv, TypeOK, Pointers, RetainAdd, CallInv, CallInvOf
<1>1. c.pc = "add"
  BY DEF RetainAdd, At
<1>2. /\ p \in Mbufs /\ refs[t][p] > 0 /\ refs[t][p] < MaxHolds
      /\ m \in SegsOf(next, p) /\ m \in Mbufs
      /\ c.one => refcnt[m] = 1
  BY <1>0, <1>1 DEF CallInvOf, RetainInv, Segs, SegsOf
<1>3. refcnt' = [refcnt EXCEPT ![m] = refcnt[m] + 1]
  BY <1>2, UpdatedIs DEF RetainAdd
<1>4. Claims(t, m)
  BY <1>2 DEF Claims, Segs
<1>5. refcnt[m] \in Nat \ {0} /\ refcnt \in [Mbufs -> Nat]
  BY <1>0, <1>2, <1>4, ClaimCounts DEF TypeOK
<1>6. refcnt' \in [Mbufs -> Nat] /\ refcnt'[m] = refcnt[m] + 1
      /\ \A z \in Mbufs \ {m} : refcnt'[z] = refcnt[z]
  BY <1>2, <1>3, <1>5
<1>7. \E e \in SegsOf(next, m) : next[e] = NULL
  <2>1. PICK e \in SegsOf(next, p) : next[e] = NULL
    BY <1>0, <1>2 DEF HeldInv, Ends, Segs
  <2>2. e \in SegsOf(next, m)
    BY <2>1, <1>0, <1>2, EndReached
  <2> QED BY <2>1, <2>2
<1>8. SegsOf(next, m) = {m} \cup SegsOf(next, next[m]) /\ m \notin SegsOf(next, next[m])
  BY <1>0, <1>2, <1>7, SegsUnfold, Acyclic
<1>9. CallSegs(t) = SegsOf(next, p) \ SegsOf(next, m)
  BY <1>1 DEF CallSegs, Segs
<1>10. DirectInv'
  BY <1>0, <1>2, <1>5, <1>6 DEF DirectInv, MbufInv
<1>11. CASE next[m] # NULL
  <2>1. /\ call' = [call EXCEPT ![t].pc = "retain", ![t].m = next[m]]
        /\ UNCHANGED refs
    BY <1>11 DEF RetainAdd
  <2>2. /\ call'[t] = [call[t] EXCEPT !.pc = "retain", !.m = next[m]]
        /\ \A u \in Threads \ {t} : call'[u] = call[u] /\ refs'[u] = refs[u]
    BY <1>0, <2>1 DEF TypeOK
  <2>3. call'[t].pc = "retain" /\ call'[t].m = next[m] /\ call'[t].pkt = p
    BY <1>0, <2>2 DEF CallType
  <2>4. next[m] \in SegsOf(next, p)
    BY <1>0, <1>2, <1>11, SegsStep
  <2>5. TypeOK'
    <3>1. next[m] \in Mbufs \cup {NULL}
      BY <1>0, <1>2 DEF Pointers
    <3> QED BY <1>0, <1>6, <2>1, <3>1 DEF TypeOK, CallType, Pcs
  <2>6. StepOf(t)
    BY <1>0, <1>4, <1>6, <2>2, StepOfWhen
  <2>7. CallInvOf(t)'
    BY <1>0, <1>2, <2>1, <2>3, <2>4 DEF CallInvOf, RetainInv, FreeInv, DetachInv, CloneInv, Segs
  <2>8. CallSegs(t)' = SegsOf(next, p) \ SegsOf(next, next[m])
    BY <1>0, <2>3 DEF CallSegs, Segs
  <2>9. \A u \in Threads, x \in Mbufs : Detaching(u, x)' <=> Detaching(u, x)
    BY <1>1, <2>2, <2>3 DEF Detaching
  <2>10. \A z \in Mbufs : Attached(z)' = Attached(z)
    BY <1>0, <1>1, <2>6, <2>9, AttachedStays
  <2>11. HeldInv' /\ \A z \in Mbufs : Held(z)' = Held(z)
    BY <1>0, <2>1, <2>5, HeldStays
  <2>12. Exact'
    <3> SUFFICES ASSUME NEW z \in Mbufs
                 PROVE  refcnt'[z] = Cardinality(Held(z)') + Cardinality(Working(z)')
                                       + Cardinality(Attached(z)')
      BY DEF Exact
    <3>1. refcnt[z] = Cardinality(Held(z)) + Cardinality(Working(z)) + Cardinality(Attached(z))
      BY DEF MbufInv, Exact
    <3>2. CASE z = m
      <4>1. Cardinality(Working(z)') = Cardinality(Working(z)) + 1
        BY <3>2, <1>2, <1>8, <1>9, <2>5, <2>6, <2>8, WorkingIs
      <4> QED BY <3>1, <3>2, <4>1, <1>6, <2>10, <2>11, RefsFinite
    <3>3. CASE z # m
      <4>1. Cardinality(Working(z)') = Cardinality(Working(z))
        BY <3>3, <1>8, <1>9, <2>5, <2>6, <2>8, WorkingIs
      <4> QED BY <3>1, <3>3, <4>1, <1>6, <2>10, <2>11
    <3> QED BY <3>2, <3>3
  <2>13. PoolInv'
    <3>1. \A x \in Mbufs : refcnt'[x] = 0 <=> refcnt[x] = 0
      BY <1>2, <1>5, <1>6
    <3>2. PoolInv /\ pool \in SUBSET Mbufs
      BY <1>0 DEF MbufInv, TypeOK
    <3> QED BY <3>1, <3>2, <1>0, <2>9, PoolStays
  <2> QED BY <2>5, <2>6, <2>7, <2>11, <2>12, <2>13, <1>10, StepKeeps
<1>12. CASE next[m] = NULL
  <2>1. /\ call' = [call EXCEPT ![t] = Idle]
        /\ refs' = [refs EXCEPT ![t][p] = refs[t][p] + 1]
    BY <1>12 DEF RetainAdd
  <2>2. /\ call'[t] = Idle
        /\ \A u \in Threads \ {t} : call'[u] = call[u] /\ refs'[u] = refs[u]
    BY <1>0, <2>1 DEF TypeOK
  <2>3. \A u \in Threads, q \in Mbufs :
           refs'[u][q] = IF u = t /\ q = p THEN refs[t][p] + 1 ELSE refs[u][q]
    BY <1>0, <1>2, <2>1 DEF TypeOK
  <2>4. TypeOK'
    <3>1. refs[t][p] + 1 \in 0..MaxHolds
      BY <1>0, <1>2, MbufAssumption DEF TypeOK
    <3>2. Idle \in CallType
      BY DEF Idle, CallType, Pcs
    <3> QED BY <1>0, <1>2, <1>6, <2>1, <3>1, <3>2 DEF TypeOK
  <2>5. StepOf(t)
    BY <1>0, <1>4, <1>6, <2>2, StepOfWhen
  <2>6. CallInvOf(t)' /\ CallSegs(t)' = {}
    BY <2>2 DEF CallInvOf, RetainInv, FreeInv, DetachInv, CloneInv, CallSegs, Idle
  <2>7. \A u \in Threads, x \in Mbufs : Detaching(u, x)' <=> Detaching(u, x)
    BY <1>1, <2>2 DEF Detaching, Idle
  <2>8. \A z \in Mbufs : Attached(z)' = Attached(z)
    BY <1>0, <1>1, <2>5, <2>7, AttachedStays
  <2>9. \A z \in Mbufs :
          /\ z \in SegsOf(next, p) => Cardinality(Held(z)') = Cardinality(Held(z)) + 1
          /\ z \notin SegsOf(next, p) => Cardinality(Held(z)') = Cardinality(Held(z))
    BY <1>0, <1>2, <2>3, <2>4, HeldMore
  <2>10. SegsOf(next, m) = {m}
    BY <1>8, <1>12, SegsNull
  <2>11. Exact'
    <3> SUFFICES ASSUME NEW z \in Mbufs
                 PROVE  refcnt'[z] = Cardinality(Held(z)') + Cardinality(Working(z)')
                                       + Cardinality(Attached(z)')
      BY DEF Exact
    <3>1. refcnt[z] = Cardinality(Held(z)) + Cardinality(Working(z)) + Cardinality(Attached(z))
      BY DEF MbufInv, Exact
    <3>2. CASE z = m
      <4>1. Cardinality(Working(z)') = Cardinality(Working(z))
        BY <3>2, <1>9, <2>10, <2>4, <2>5, <2>6, WorkingIs
      <4> QED BY <3>1, <3>2, <4>1, <1>2, <1>6, <2>8, <2>9, RefsFinite
    <3>3. CASE z # m /\ z \in SegsOf(next, p)
      <4>1. Cardinality(Working(z)') = Cardinality(Working(z)) - 1
        BY <3>3, <1>9, <2>10, <2>4, <2>5, <2>6, WorkingIs
      <4> QED BY <3>1, <3>3, <4>1, <1>6, <2>8, <2>9, RefsFinite
    <3>4. CASE z \notin SegsOf(next, p)
      <4>1. Cardinality(Working(z)') = Cardinality(Working(z)) /\ z # m
        BY <3>4, <1>2, <1>9, <2>4, <2>5, <2>6, WorkingIs
      <4> QED BY <3>1, <3>4, <4>1, <1>6, <2>8, <2>9, RefsFinite
    <3> QED BY <3>2, <3>3, <3>4
  <2>12. HeldInv'
    <3>1. \A u \in Threads, q \in Mbufs : refs'[u][q] > 0 => \E v \in Threads : refs[v][q] > 0
      BY <1>0, <1>2, <2>3
    <3>2. ASSUME NEW w \in Threads, NEW q \in Mbufs, refs'[w][q] > 0
          PROVE  Ends(q)' /\ nb_segs'[q] = Cardinality(Segs(q)') /\ nb_segs'[q] < SegLimit
      BY <3>1, <3>2, <1>0 DEF HeldInv, Ends, Segs
    <3>3. ASSUME NEW w \in Threads, NEW v \in Threads, NEW q \in Mbufs, NEW r \in Mbufs,
                 refs'[w][q] > 0, refs'[v][r] > 0, q # r
          PROVE  (Segs(q) \cap Segs(r))' = {}
      BY <3>1, <3>3, <1>0 DEF HeldInv, Segs
    <3> QED BY <3>2, <3>3 DEF HeldInv
  <2>13. PoolInv'
    <3>1. \A x \in Mbufs : refcnt'[x] = 0 <=> refcnt[x] = 0
      BY <1>2, <1>5, <1>6
    <3>2. PoolInv /\ pool \in SUBSET Mbufs
      BY <1>0 DEF MbufInv, TypeOK
    <3> QED BY <3>1, <3>2, <1>0, <2>7, PoolStays
  <2> QED BY <2>4, <2>5, <2>6, <2>11, <2>12, <2>13, <1>10, StepKeeps
<1> QED BY <1>11, <1>12
(* The loop of rte_pktmbuf_free goes on with segment n, or is over. *)
LEMMA FreeCallIs ==
  ASSUME NEW t \in Threads, NEW n \in Mbufs \cup {NULL}, call'[t] = FreeCall(n),
         n # NULL => \E s \in SegsOf(next', n) : next'[s] = NULL
  PROVE  /\ CallInvOf(t)' /\ CallSegs(t)' = SegsOf(next', n)
         /\ \A x : ~Detaching(t, x)'
<1>1. CASE n = NULL
  <2>1. call'[t] = Idle
    BY <1>1 DEF FreeCall
  <2> QED BY <1>1, <2>1, SegsNull DEF CallInvOf, RetainInv, FreeInv, DetachInv, CloneInv,
             CallSegs, Detaching, Idle
<1>2. CASE n # NULL
  <2>1. call'[t] = [Idle EXCEPT !.pc = "free", !.m = n]
    BY <1>2 DEF FreeCall
  <2>2. call'[t].pc = "free" /\ call'[t].m = n /\ n \in Mbufs
    BY <2>1, <1>2 DEF Idle
  <2> QED BY <1>2, <2>2 DEF CallInvOf, RetainInv, FreeInv, DetachInv, CloneInv,
             CallSegs, Detaching, Ends, Segs
<1> QED BY <1>1, <1>2

(* The call that frees from n on has the type of a call. *)
LEMMA FreeCallType ==
  ASSUME NEW n \in Mbufs \cup {NULL} PROVE FreeCall(n) \in CallType
<1>1. Idle \in CallType
  BY DEF Idle, CallType, Pcs
<1>2. [Idle EXCEPT !.pc = "free", !.m = n] \in CallType
  BY DEF Idle, CallType, Pcs
<1> QED BY <1>1, <1>2 DEF FreeCall

(* What holds of a thread that is about to drop its reference to m. *)
LEMMA AtDrop ==
  ASSUME MbufInv, NEW t \in Threads, call[t].pc = "drop"
  PROVE  LET m == call[t].m n == call[t].nxt IN
         /\ m \in Mbufs /\ n \in Mbufs \cup {NULL} /\ n = next[m]
         /\ Updated(t, m, -1) = refcnt[m] - 1 /\ refcnt[m] \in Nat \ {0}
         /\ SegsOf(next, m) = {m} \cup SegsOf(next, n) /\ m \notin SegsOf(next, n)
         /\ n # NULL => \E s \in SegsOf(next, n) : next[s] = NULL
         /\ CallSegs(t) = SegsOf(next, m) /\ Claims(t, m)
<1> DEFINE m == call[t].m
           n == call[t].nxt
<1>1. next \in Pointers /\ FreeInv(t)
  BY DEF MbufInv, TypeOK, Pointers, CallInv
<1>2. m \in Mbufs /\ n = next[m] /\ (call[t].one => refcnt[m] = 1)
  BY <1>1 DEF FreeInv
<1>3. PICK e \in SegsOf(next, m) : next[e] = NULL
  BY <1>1 DEF FreeInv, Ends, Segs
<1>4. n \in Mbufs \cup {NULL}
  BY <1>1, <1>2 DEF Pointers
<1>5. SegsOf(next, m) = {m} \cup SegsOf(next, n) /\ m \notin SegsOf(next, n)
  BY <1>1, <1>2, <1>3, SegsUnfold, Acyclic
<1>6. n # NULL => e \in SegsOf(next, n)
  BY <1>1, <1>2, <1>3, <1>4, <1>5, MbufAssumption
<1>7. CallSegs(t) = SegsOf(next, m)
  BY DEF CallSegs, Segs
<1>8. Claims(t, m)
  BY <1>5, <1>7 DEF Claims
<1>9. refcnt[m] \in Nat \ {0}
  BY <1>2, <1>8, ClaimCounts
<1>10. Updated(t, m, -1) = refcnt[m] - 1
  BY <1>2, <1>9, UpdatedIs
<1> HIDE DEF m, n
<1>11. /\ m \in Mbufs /\ n \in Mbufs \cup {NULL} /\ n = next[m]
       /\ Updated(t, m, -1) = refcnt[m] - 1 /\ refcnt[m] \in Nat \ {0}
       /\ SegsOf(next, m) = {m} \cup SegsOf(next, n) /\ m \notin SegsOf(next, n)
       /\ n # NULL => \E s \in SegsOf(next, n) : next[s] = NULL
       /\ CallSegs(t) = SegsOf(next, m) /\ Claims(t, m)
  BY <1>2, <1>3, <1>4, <1>5, <1>6, <1>7, <1>8, <1>9, <1>10
<1> QED BY <1>11 DEF m, n

(* The counts after t has dropped its reference to m. *)
LEMMA DropCounts ==
  ASSUME MbufInv, TypeOK', NEW t \in Threads, StepOf(t), NEW m \in Mbufs,
         refcnt[m] \in Nat \ {0}, refcnt' = [refcnt EXCEPT ![m] = refcnt[m] - 1],
         CallSegs(t) = CallSegs(t)' \cup {m}, m \notin CallSegs(t)',
         \A z \in Mbufs : Held(z)' = Held(z) /\ Attached(z)' = Attached(z)
  PROVE  Exact'
<1> SUFFICES ASSUME NEW z \in Mbufs
             PROVE  refcnt'[z] = Cardinality(Held(z)') + Cardinality(Working(z)')
                                   + Cardinality(Attached(z)')
  BY DEF Exact
<1>1. refcnt[z] = Cardinality(Held(z)) + Cardinality(Working(z)) + Cardinality(Attached(z))
  BY DEF MbufInv, Exact
<1>2. CASE z = m
  <2>1. Cardinality(Working(z)') = Cardinality(Working(z)) - 1
    BY <1>2, WorkingIs
  <2>2. refcnt'[z] = refcnt[z] - 1
    BY <1>2 DEF MbufInv, TypeOK
  <2> QED BY <1>1, <2>1, <2>2, RefsFinite
<1>3. CASE z # m
  <2>1. Cardinality(Working(z)') = Cardinality(Working(z))
    BY <1>3, WorkingIs
  <2>2. refcnt'[z] = refcnt[z]
    BY <1>3 DEF MbufInv, TypeOK
  <2> QED BY <1>1, <2>1, <2>2
<1> QED BY <1>2, <1>3

(* A segment that others still have: its count goes down. *)
LEMMA FreeDropShared ==
  ASSUME MbufInv, NEW t \in Threads, call[t].pc = "drop",
         refcnt' = [refcnt EXCEPT ![call[t].m] = Updated(t, call[t].m, -1)],
         Updated(t, call[t].m, -1) # 0,
         call' = [call EXCEPT ![t] = FreeCall(call[t].nxt)],
         UNCHANGED <<pool, next, direct, nb_segs, refs>>
  PROVE  MbufInv'
<1>0. PICK m \in Mbufs, n \in Mbufs \cup {NULL} :
         /\ m = call[t].m /\ n = call[t].nxt
         /\ Updated(t, m, -1) = refcnt[m] - 1 /\ refcnt[m] \in Nat \ {0}
         /\ SegsOf(next, m) = {m} \cup SegsOf(next, n) /\ m \notin SegsOf(next, n)
         /\ n # NULL => \E s \in SegsOf(next, n) : next[s] = NULL
         /\ CallSegs(t) = SegsOf(next, m) /\ Claims(t, m)
  BY AtDrop
<1>1. /\ TypeOK /\ refcnt' = [refcnt EXCEPT ![m] = refcnt[m] - 1] /\ refcnt[m] - 1 \in Nat \ {0}
  <2>1. m = call[t].m /\ Updated(t, m, -1) = refcnt[m] - 1 /\ refcnt[m] \in Nat \ {0}
    BY <1>0
  <2>2. refcnt' = [refcnt EXCEPT ![m] = refcnt[m] - 1] /\ refcnt[m] - 1 # 0
    BY <2>1
  <2>3. refcnt[m] - 1 \in Nat \ {0}
    BY <2>1, <2>2
  <2> QED BY <2>2, <2>3 DEF MbufInv
<1>2. /\ call'[t] = FreeCall(n)
      /\ \A u \in Threads \ {t} : call'[u] = call[u] /\ refs'[u] = refs[u]
  BY <1>0, <1>1 DEF TypeOK
<1>3. TypeOK'
  BY <1>0, <1>1, FreeCallType DEF TypeOK
<1>4. \A z \in Mbufs : refcnt'[z] = refcnt[z] \/ z = m
  BY <1>1 DEF TypeOK
<1>5. StepOf(t)
  BY <1>0, <1>2, <1>4, StepOfWhen
<1>6. CallInvOf(t)' /\ CallSegs(t)' = SegsOf(next, n) /\ \A x : ~Detaching(t, x)'
  BY <1>0, <1>2, FreeCallIs
<1>7. \A u \in Threads, x \in Mbufs : Detaching(u, x)' <=> Detaching(u, x)
  BY <1>2, <1>6 DEF Detaching
<1>8. HeldInv' /\ \A z \in Mbufs : Held(z)' = Held(z)
  BY <1>3, HeldStays
<1>9. \A z \in Mbufs : Attached(z)' = Attached(z)
  BY <1>5, <1>7, AttachedStays
<1>10. Exact'
  <2>1. CallSegs(t) = CallSegs(t)' \cup {m} /\ m \notin CallSegs(t)'
    BY <1>0, <1>6
  <2>2. refcnt[m] \in Nat \ {0}
    BY <1>0
  <2> QED BY <2>1, <2>2, <1>1, <1>3, <1>5, <1>8, <1>9, DropCounts
<1>11. PoolInv'
  <2>1. \A x \in Mbufs : refcnt'[x] = 0 <=> refcnt[x] = 0
    BY <1>0, <1>1 DEF TypeOK
  <2>2. PoolInv /\ pool \in SUBSET Mbufs
    BY <1>1 DEF MbufInv, TypeOK
  <2> QED BY <2>1, <2>2, <1>7, PoolStays
<1>12. DirectInv'
  <2>1. refcnt'[m] # 0
    BY <1>0, <1>1 DEF TypeOK
  <2>2. \A x \in Mbufs : refcnt[x] # 0 => refcnt'[x] # 0
    BY <2>1, <1>4
  <2> QED BY <2>2 DEF DirectInv, MbufInv, TypeOK
<1> QED BY <1>3, <1>5, <1>6, <1>8, <1>10, <1>11, <1>12, StepKeeps

(* The last reference to a direct segment: it goes back to the pool. *)
LEMMA FreeDropDirect ==
  ASSUME MbufInv, NEW t \in Threads, call[t].pc = "drop",
         refcnt' = [refcnt EXCEPT ![call[t].m] = Updated(t, call[t].m, -1)],
         Updated(t, call[t].m, -1) = 0, direct[call[t].m] = call[t].m,
         pool' = pool \cup {call[t].m},
         next' = [next EXCEPT ![call[t].m] = NULL],
         call' = [call EXCEPT ![t] = FreeCall(call[t].nxt)],
         UNCHANGED <<direct, nb_segs, refs>>
  PROVE  MbufInv'
<1>0. PICK m \in Mbufs, n \in Mbufs \cup {NULL} :
         /\ m = call[t].m /\ n = call[t].nxt
         /\ Updated(t, m, -1) = refcnt[m] - 1 /\ refcnt[m] \in Nat \ {0}
         /\ SegsOf(next, m) = {m} \cup SegsOf(next, n) /\ m \notin SegsOf(next, n)
         /\ n # NULL => \E s \in SegsOf(next, n) : next[s] = NULL
         /\ CallSegs(t) = SegsOf(next, m) /\ Claims(t, m)
  BY AtDrop
<1>1. /\ TypeOK /\ refcnt' = [refcnt EXCEPT ![m] = refcnt[m] - 1] /\ refcnt[m] = 1
      /\ next' = [next EXCEPT ![m] = NULL] /\ pool' = pool \cup {m} /\ direct[m] = m
  <2>1. m = call[t].m /\ Updated(t, m, -1) = refcnt[m] - 1 /\ refcnt[m] \in Nat \ {0}
    BY <1>0
  <2>2. /\ refcnt' = [refcnt EXCEPT ![m] = refcnt[m] - 1] /\ refcnt[m] - 1 = 0
        /\ next' = [next EXCEPT ![m] = NULL] /\ pool' = pool \cup {m} /\ direct[m] = m
    BY <2>1
  <2>3. refcnt[m] = 1
    BY <2>1, <2>2
  <2> QED BY <2>2, <2>3 DEF MbufInv
<1>2. /\ call'[t] = FreeCall(n)
      /\ \A u \in Threads \ {t} : call'[u] = call[u] /\ refs'[u] = refs[u]
  BY <1>0, <1>1 DEF TypeOK
<1>3. TypeOK' /\ next \in Pointers /\ next' \in Pointers
  BY <1>0, <1>1, FreeCallType DEF TypeOK, Pointers
<1>4. \A z \in Mbufs : z = m \/ (refcnt'[z] = refcnt[z] /\ next'[z] = next[z])
  BY <1>1 DEF TypeOK
<1>5. Held(m) = {} /\ Attached(m) = {} /\ Private(t, m) /\ m \notin pool
  BY <1>0, <1>1, CallSole
<1>6. StepOf(t)
  BY <1>0, <1>2, <1>4, <1>5, StepOfWhen
<1>7. \A x \in SegsOf(next, n) : next'[x] = next[x]
  BY <1>0, <1>3, <1>4, SegsLinked
<1>8. /\ SegsOf(next', n) = SegsOf(next, n)
      /\ n # NULL => \E s \in SegsOf(next', n) : next'[s] = NULL
  BY <1>0, <1>3, <1>7, SegsKept
<1>9. CallInvOf(t)' /\ CallSegs(t)' = SegsOf(next, n) /\ \A x : ~Detaching(t, x)'
  BY <1>2, <1>8, FreeCallIs
<1>10. \A u \in Threads, x \in Mbufs : Detaching(u, x)' <=> Detaching(u, x)
  BY <1>2, <1>9 DEF Detaching
<1>11. HeldInv' /\ \A z \in Mbufs : Held(z)' = Held(z)
  BY <1>3, <1>4, <1>5, HeldStays
<1>12. \A z \in Mbufs : Attached(z)' = Attached(z)
  BY <1>6, <1>10, AttachedStays
<1>13. Exact'
  <2>1. CallSegs(t) = CallSegs(t)' \cup {m} /\ m \notin CallSegs(t)'
    BY <1>0, <1>9
  <2>2. refcnt[m] \in Nat \ {0}
    BY <1>0
  <2> QED BY <2>1, <2>2, <1>1, <1>3, <1>6, <1>11, <1>12, DropCounts
<1>14. refcnt'[m] = 0
  BY <1>1 DEF TypeOK
<1>15. PoolInv'
  <2>1. \A u \in Threads : ~Detaching(u, m)
    BY <1>1 DEF MbufInv, PoolInv
  <2>2. PoolInv /\ pool \in SUBSET Mbufs
    BY <1>1 DEF MbufInv, TypeOK
  <2> QED BY <1>1, <1>4, <1>10, <1>14, <2>1, <2>2 DEF PoolInv
<1>16. DirectInv'
  BY <1>1, <1>4 DEF DirectInv, MbufInv, TypeOK
<1> QED BY <1>3, <1>6, <1>9, <1>11, <1>13, <1>15, <1>16, StepKeeps

(* The last reference to an indirect segment: it is being detached. *)
LEMMA FreeDropIndirect ==
  ASSUME MbufInv, NEW t \in Threads, call[t].pc = "drop",
         refcnt' = [refcnt EXCEPT ![call[t].m] = Updated(t, call[t].m, -1)],
         Updated(t, call[t].m, -1) = 0, direct[call[t].m] # call[t].m,
         call' = [call EXCEPT ![t].pc = "detach", ![t].md = direct[call[t].m]],
         direct' = [direct EXCEPT ![call[t].m] = call[t].m],
         UNCHANGED <<pool, next, nb_segs, refs>>
  PROVE  MbufInv'
<1>0. PICK m \in Mbufs, n \in Mbufs \cup {NULL} :
         /\ m = call[t].m /\ n = call[t].nxt
         /\ Updated(t, m, -1) = refcnt[m] - 1 /\ refcnt[m] \in Nat \ {0}
         /\ SegsOf(next, m) = {m} \cup SegsOf(next, n) /\ m \notin SegsOf(next, n)
         /\ n # NULL => \E s \in SegsOf(next, n) : next[s] = NULL
         /\ CallSegs(t) = SegsOf(next, m) /\ Claims(t, m)
  BY AtDrop
<1>1. /\ TypeOK /\ refcnt' = [refcnt EXCEPT ![m] = refcnt[m] - 1] /\ refcnt[m] = 1
      /\ direct' = [direct EXCEPT ![m] = m] /\ direct[m] # m /\ direct[m] \in Mbufs
      /\ call' = [call EXCEPT ![t].pc = "detach", ![t].md = direct[m]]
  <2>1. m = call[t].m /\ Updated(t, m, -1) = refcnt[m] - 1 /\ refcnt[m] \in Nat \ {0}
    BY <1>0
  <2>2. /\ refcnt' = [refcnt EXCEPT ![m] = refcnt[m] - 1] /\ refcnt[m] - 1 = 0
        /\ direct' = [direct EXCEPT ![m] = m] /\ direct[m] # m
        /\ call' = [call EXCEPT ![t].pc = "detach", ![t].md = direct[m]]
    BY <2>1
  <2>3. refcnt[m] = 1
    BY <2>1, <2>2
  <2> QED BY <2>2, <2>3 DEF MbufInv, TypeOK
<1>2. /\ call'[t] = [call[t] EXCEPT !.pc = "detach", !.md = direct[m]]
      /\ \A u \in Threads \ {t} : call'[u] = call[u] /\ refs'[u] = refs[u]
  BY <1>0, <1>1 DEF TypeOK
<1>3. call'[t].pc = "detach" /\ call'[t].md = direct[m] /\ call'[t].m = m /\ call'[t].nxt = n
  BY <1>0, <1>1, <1>2 DEF TypeOK, CallType
<1>4. TypeOK'
  <2>1. call' \in [Threads -> CallType]
    <3>1. call[t] \in CallType /\ call \in [Threads -> CallType]
      BY <1>1 DEF TypeOK
    <3>2. [call[t] EXCEPT !.pc = "detach", !.md = direct[m]] \in CallType
      BY <3>1, <1>1 DEF CallType, Pcs
    <3>3. call' = [call EXCEPT ![t] = [call[t] EXCEPT !.pc = "detach", !.md = direct[m]]]
      BY <3>1, <1>1
    <3> QED BY <3>1, <3>2, <3>3
  <2> QED BY <1>0, <1>1, <2>1 DEF TypeOK
<1>5. \A z \in Mbufs : z = m \/ (refcnt'[z] = refcnt[z] /\ direct'[z] = direct[z])
  BY <1>1 DEF TypeOK
<1>6. refcnt'[m] = 0 /\ direct'[m] = m
  BY <1>1 DEF TypeOK
<1>7. Held(m) = {} /\ Attached(m) = {} /\ Private(t, m) /\ m \notin pool
  BY <1>0, <1>1, CallSole
<1>8. StepOf(t)
  BY <1>0, <1>2, <1>5, <1>7, StepOfWhen
<1>9. direct[direct[m]] = direct[m]
  BY <1>1 DEF MbufInv, DirectInv
<1>10. CallInvOf(t)' /\ CallSegs(t)' = SegsOf(next, n)
  BY <1>0, <1>1, <1>3, <1>5, <1>6, <1>9
     DEF CallInvOf, RetainInv, FreeInv, DetachInv, CloneInv, CallSegs, Segs, Ends
<1>11. \A u \in Threads, x \in Mbufs : Detaching(u, x)' <=> Detaching(u, x) \/ (u = t /\ x = m)
  BY <1>2, <1>3 DEF Detaching
<1>12. HeldInv' /\ \A z \in Mbufs : Held(z)' = Held(z)
  BY <1>4, HeldStays
<1>13. ASSUME NEW z \in Mbufs PROVE Attached(z)' = Attached(z)
  <2>1. ASSUME NEW x \in Mbufs \ {m}
        PROVE  (\E u \in Threads : Detaching(u, x) /\ call[u].md = z)'
                 <=> \E u \in Threads : Detaching(u, x) /\ call[u].md = z
    <3>1. \A u \in Threads \ {t} : call'[u] = call[u]
      BY <1>2
    <3>2. ~Detaching(t, x) /\ ~Detaching(t, x)'
      BY <1>3 DEF Detaching
    <3>3. \A u \in Threads \ {t} : (Detaching(u, x) /\ call[u].md = z)'
                                    <=> Detaching(u, x) /\ call[u].md = z
      BY <3>1 DEF Detaching
    <3> QED BY <3>2, <3>3
  <2>2. (\E u \in Threads : Detaching(u, m) /\ call[u].md = z)' <=> z = direct[m]
    <3>1. \A u \in Threads : ~Detaching(u, m)
      BY <1>1 DEF MbufInv, PoolInv
    <3> QED BY <3>1, <1>3, <1>11
  <2>3. ~\E u \in Threads : Detaching(u, m) /\ call[u].md = z
    BY <1>1 DEF MbufInv, PoolInv
  <2>4. \A x \in Mbufs \ {z} : x \in Attached(z)' <=> x \in Attached(z)
    <3> SUFFICES ASSUME NEW x \in Mbufs \ {z} PROVE x \in Attached(z)' <=> x \in Attached(z)
      OBVIOUS
    <3>1. CASE x = m
      BY <3>1, <2>2, <2>3, <1>6 DEF Attached
    <3>2. CASE x # m
      BY <3>2, <2>1, <1>5 DEF Attached
    <3> QED BY <3>1, <3>2
  <2> QED BY <2>4 DEF Attached
<1>14. Exact'
  <2>1. CallSegs(t) = CallSegs(t)' \cup {m} /\ m \notin CallSegs(t)'
    BY <1>0, <1>10
  <2>2. refcnt[m] \in Nat \ {0}
    BY <1>0
  <2> QED BY <2>1, <2>2, <1>1, <1>4, <1>8, <1>12, <1>13, DropCounts
<1>15. PoolInv'
  <2>1. \A u \in Threads : ~Detaching(u, m)
    BY <1>1 DEF MbufInv, PoolInv
  <2>2. PoolInv /\ pool \in SUBSET Mbufs
    BY <1>1 DEF MbufInv, TypeOK
  <2> QED BY <1>5, <1>6, <1>7, <1>11, <2>1, <2>2 DEF PoolInv
<1>16. DirectInv'
  <2> SUFFICES ASSUME NEW x \in Mbufs, direct'[x] # x
               PROVE  refcnt'[x] # 0 /\ direct'[direct'[x]] = direct'[x]
    BY DEF DirectInv
  <2>1. x # m /\ direct'[x] = direct[x] /\ refcnt'[x] = refcnt[x]
    BY <1>5, <1>6
  <2>2. refcnt[x] # 0 /\ direct[direct[x]] = direct[x] /\ direct[x] \in Mbufs
    BY <2>1, <1>1 DEF MbufInv, DirectInv, TypeOK
  <2>3. direct[x] # m
    BY <2>1, <2>2, <1>1
  <2> QED BY <2>1, <2>2, <2>3, <1>5
<1> QED BY <1>4, <1>8, <1>10, <1>12, <1>14, <1>15, <1>16, StepKeeps

(* The free of a segment drops its reference: the cases together. *)
LEMMA FreeDropKeeps ==
  ASSUME MbufInv, NEW t \in Threads, FreeDrop(t)
  PROVE  MbufInv'
<1>1. call[t].pc = "drop"
  BY DEF FreeDrop, At
<1> QED BY <1>1, FreeDropShared, FreeDropDirect, FreeDropIndirect DEF FreeDrop
(* rte_pktmbuf_detach drops the reference of the indirect buffer m to its  *)
(* direct one, and m goes back to the pool, with md when nobody else has   *)
(* md.                                                                     *)
LEMMA DetachDropKeeps ==
  ASSUME MbufInv, NEW t \in Threads, DetachDrop(t)
  PROVE  MbufInv'
<1>0. /\ TypeOK /\ CallInvOf(t) /\ PoolInv /\ call[t].pc = "undo" /\ call[t] \in CallType
      /\ UNCHANGED <<nb_segs, direct, refs>>
  BY DEF MbufInv, TypeOK, CallInv, CallInvOf, DetachDrop, At
<1>1. PICK m \in Mbufs, md \in Mbufs, n \in Mbufs \cup {NULL} :
         m = call[t].m /\ md = call[t].md /\ n = call[t].nxt /\ md # m
  BY <1>0 DEF CallInvOf, DetachInv, CallType
<1>2. /\ direct[m] = m /\ direct[md] = md /\ (call[t].one => refcnt[md] = 1)
      /\ n # NULL => \E s \in SegsOf(next, n) : next[s] = NULL
  BY <1>0, <1>1 DEF CallInvOf, DetachInv, Ends, Segs
<1>3. Detaching(t, m) /\ Claims(t, md)
  BY <1>0, <1>1 DEF Detaching, Claims
<1>4. refcnt[md] \in Nat \ {0}
  BY <1>3, ClaimCounts
<1>5. Updated(t, md, -1) = refcnt[md] - 1
  BY <1>2, <1>4, UpdatedIs
<1>6. /\ refcnt' = [refcnt EXCEPT ![md] = refcnt[md] - 1]
      /\ pool' = pool \cup (IF refcnt[md] - 1 = 0 THEN {m, md} ELSE {m})
      /\ next' = [next EXCEPT ![m] = NULL]
      /\ call' = [call EXCEPT ![t] = FreeCall(n)]
  BY <1>1, <1>5 DEF DetachDrop, Released
<1>7. /\ call'[t] = FreeCall(n)
      /\ \A u \in Threads \ {t} : call'[u] = call[u] /\ refs'[u] = refs[u]
  BY <1>0, <1>6 DEF TypeOK
<1>8. TypeOK' /\ next \in Pointers /\ next' \in Pointers
  <2>1. refcnt[md] - 1 \in Nat
    BY <1>4
  <2> QED BY <1>0, <1>6, <2>1, FreeCallType DEF TypeOK, Pointers
<1>9. /\ \A z \in Mbufs : z = m \/ next'[z] = next[z]
      /\ \A z \in Mbufs : z = md \/ refcnt'[z] = refcnt[z]
      /\ refcnt'[md] = refcnt[md] - 1
  BY <1>0, <1>6 DEF TypeOK
<1>10. /\ refcnt[m] = 0 /\ m \notin pool /\ Private(t, m)
       /\ Held(m) = {} /\ Working(m) = {} /\ Attached(m) = {}
  BY <1>0, <1>3, PrivateWhen, NoRefs DEF PoolInv, MbufInv
<1>11. StepOf(t)
  BY <1>0, <1>3, <1>7, <1>9, <1>10, StepOfWhen
<1>12. CallSegs(t) = SegsOf(next, n)
  BY <1>0, <1>1 DEF CallSegs, Segs
<1>13. \A x \in SegsOf(next, n) : next'[x] = next[x]
  <2>1. m \notin SegsOf(next, n)
    BY <1>10, <1>12 DEF Working
  <2> QED BY <2>1, <1>8, <1>9, SegsLinked
<1>14. /\ SegsOf(next', n) = SegsOf(next, n)
       /\ n # NULL => \E s \in SegsOf(next', n) : next'[s] = NULL
  BY <1>2, <1>8, <1>13, SegsKept
<1>15. CallInvOf(t)' /\ CallSegs(t)' = SegsOf(next, n) /\ \A x : ~Detaching(t, x)'
  BY <1>7, <1>14, FreeCallIs
<1>16. \A u \in Threads, x \in Mbufs : Detaching(u, x)' <=> Detaching(u, x) /\ u # t
  BY <1>7, <1>15 DEF Detaching
<1>17. \A x \in Mbufs : Detaching(t, x) <=> x = m
  BY <1>0, <1>1 DEF Detaching
<1>18. \A u \in Threads \ {t} : ~Detaching(u, m)
  BY <1>0, <1>3 DEF PoolInv
<1>19. HeldInv' /\ \A z \in Mbufs : Held(z)' = Held(z)
  BY <1>0, <1>8, <1>9, <1>10, HeldStays
<1>20. ASSUME NEW z \in Mbufs
       PROVE  /\ z # md => Attached(z)' = Attached(z)
              /\ z = md => Attached(z)' = Attached(z) \ {m} /\ m \in Attached(z)
  <2>1. ASSUME NEW x \in Mbufs \ {m}
        PROVE  (\E u \in Threads : Detaching(u, x) /\ call[u].md = z)'
                 <=> \E u \in Threads : Detaching(u, x) /\ call[u].md = z
    <3>1. \A u \in Threads \ {t} : (Detaching(u, x) /\ call[u].md = z)'
                                    <=> Detaching(u, x) /\ call[u].md = z
      BY <1>7 DEF Detaching
    <3>2. ~Detaching(t, x) /\ ~Detaching(t, x)'
      BY <1>15, <1>17
    <3> QED BY <3>1, <3>2
  <2>2. ~(\E u \in Threads : Detaching(u, m) /\ call[u].md = z)'
    BY <1>16, <1>18
  <2>3. (\E u \in Threads : Detaching(u, m) /\ call[u].md = z) <=> z = md
    BY <1>1, <1>3, <1>18
  <2>4. \A x \in Mbufs \ {m} : x \in Attached(z)' <=> x \in Attached(z)
    BY <2>1, <1>0 DEF Attached
  <2>5. m \notin Attached(z)'
    BY <2>2, <1>0, <1>2 DEF Attached
  <2>6. m \in Attached(z) <=> z = md
    BY <2>3, <1>1, <1>2 DEF Attached
  <2>7. \A x : x \in Attached(z) \/ x \in Attached(z)' => x \in Mbufs
    BY DEF Attached
  <2> QED BY <2>4, <2>5, <2>6, <2>7
<1>21. Exact'
  <2> SUFFICES ASSUME NEW z \in Mbufs
               PROVE  refcnt'[z] = Cardinality(Held(z)') + Cardinality(Working(z)')
                                     + Cardinality(Attached(z)')
    BY DEF Exact
  <2>1. refcnt[z] = Cardinality(Held(z)) + Cardinality(Working(z)) + Cardinality(Attached(z))
    BY DEF MbufInv, Exact
  <2>2. Cardinality(Working(z)') = Cardinality(Working(z)) /\ Held(z)' = Held(z)
    BY <1>8, <1>11, <1>12, <1>15, <1>19, WorkingIs
  <2>3. CASE z = md
    <3>1. Attached(z)' = Attached(z) \ {m} /\ m \in Attached(z)
      BY <2>3, <1>20
    <3>2. Cardinality(Attached(z)') = Cardinality(Attached(z)) - 1
      BY <3>1, RefsFinite, FS_RemoveElement
    <3>3. refcnt'[z] = refcnt[z] - 1
      BY <2>3, <1>9
    <3> QED BY <2>1, <2>2, <3>2, <3>3, RefsFinite
  <2>4. CASE z # md
    BY <2>1, <2>2, <2>4, <1>9, <1>20
  <2> QED BY <2>3, <2>4
<1>22. PoolInv'
  <2>1. \A u \in Threads : ~Detaching(u, md)
    BY <1>0, <1>4 DEF PoolInv
  <2>2. md \notin pool /\ pool \in SUBSET Mbufs
    BY <1>0, <1>4 DEF PoolInv, TypeOK
  <2>3. refcnt'[m] = 0 /\ direct'[m] = m /\ direct'[md] = md
    BY <1>0, <1>1, <1>2, <1>9, <1>10
  <2>4. /\ pool' \in SUBSET Mbufs /\ m \in pool' /\ (md \in pool' <=> refcnt'[md] = 0)
        /\ \A x \in Mbufs \ {m, md} : x \in pool' <=> x \in pool
    <3>1. pool' \in SUBSET Mbufs
      BY <1>8 DEF TypeOK
    <3> QED BY <3>1, <2>2, <1>1, <1>6, <1>9
  <2>5. \A x \in pool' : refcnt'[x] = 0 /\ direct'[x] = x
    BY <2>2, <2>3, <2>4, <1>0, <1>9 DEF PoolInv
  <2>6. ASSUME NEW x \in Mbufs \ pool', refcnt'[x] = 0 PROVE \E u \in Threads : Detaching(u, x)'
    <3>1. x # m /\ x # md /\ x \notin pool /\ refcnt[x] = 0
      BY <2>4, <2>6, <1>9
    <3> QED BY <3>1, <1>0, <1>16, <1>17 DEF PoolInv
  <2>7. ASSUME NEW u \in Threads, NEW x \in Mbufs, Detaching(u, x)'
        PROVE  refcnt'[x] = 0 /\ x \notin pool'
    <3>1. Detaching(u, x) /\ u # t
      BY <2>7, <1>16
    <3>2. x # m /\ x # md
      BY <3>1, <2>1, <1>18
    <3> QED BY <3>1, <3>2, <2>4, <1>0, <1>9 DEF PoolInv
  <2>8. \A u, w \in Threads, x \in Mbufs : Detaching(u, x)' /\ Detaching(w, x)' => u = w
    BY <1>0, <1>16 DEF PoolInv
  <2> QED BY <2>5, <2>6, <2>7, <2>8 DEF PoolInv
<1>23. DirectInv'
  BY <1>0, <1>2, <1>9 DEF DirectInv, MbufInv
<1> QED BY <1>8, <1>11, <1>15, <1>19, <1>21, <1>22, <1>23, StepKeeps
-----------------------------------------------------------------------------
(* rte_pktmbuf_alloc. *)

(* What a buffer taken from the pool is: alone. *)
LEMMA TakeIs ==
  ASSUME MbufInv, NEW m \in Mbufs, TakeFromPool(m)
  PROVE  /\ m \in pool /\ pool' = pool \ {m} /\ refcnt[m] = 0
         /\ Held(m) = {} /\ Working(m) = {} /\ Attached(m) = {}
         /\ refcnt' \in [Mbufs -> Nat] /\ refcnt'[m] = 1
         /\ next \in Pointers /\ next' \in Pointers /\ next'[m] = NULL
         /\ nb_segs' \in [Mbufs -> Nat] /\ nb_segs'[m] = 1
         /\ direct' = direct /\ direct[m] = m
         /\ \A z \in Mbufs \ {m} : /\ refcnt'[z] = refcnt[z] /\ next'[z] = next[z]
                                   /\ nb_segs'[z] = nb_segs[z]
         /\ SegsOf(next', m) = {m}
         /\ \A t \in Threads : Private(t, m)
<1>1. /\ m \in pool /\ pool' = pool \ {m} /\ refcnt[m] = 0 /\ direct[m] = m
      /\ Held(m) = {} /\ Working(m) = {} /\ Attached(m) = {}
  BY NoRefs DEF TakeFromPool, MbufInv, PoolInv
<1>2. /\ refcnt' \in [Mbufs -> Nat] /\ refcnt'[m] = 1
      /\ next \in Pointers /\ next' \in Pointers /\ next'[m] = NULL
      /\ nb_segs' \in [Mbufs -> Nat] /\ nb_segs'[m] = 1
      /\ \A z \in Mbufs \ {m} : /\ refcnt'[z] = refcnt[z] /\ next'[z] = next[z]
                                /\ nb_segs'[z] = nb_segs[z]
  BY DEF TakeFromPool, MbufInv, TypeOK, Pointers
<1>3. direct' = direct
  BY <1>1 DEF TakeFromPool, MbufInv, TypeOK
<1>4. SegsOf(next', m) = {m}
  BY <1>2, SegsUnfold, SegsNull
<1>5. \A t \in Threads : Private(t, m)
  BY <1>1, PrivateWhen
<1> QED BY <1>1, <1>2, <1>3, <1>4, <1>5

(* The free buffers and the attached ones once m has been taken. *)
LEMMA TakePool ==
  ASSUME MbufInv, NEW m \in Mbufs, TakeFromPool(m),
         \A u \in Threads, x \in Mbufs : Detaching(u, x)' <=> Detaching(u, x)
  PROVE  PoolInv' /\ DirectInv'
<1>1. /\ m \in pool /\ pool' = pool \ {m} /\ refcnt[m] = 0 /\ refcnt'[m] = 1 /\ direct' = direct
      /\ \A z \in Mbufs \ {m} : refcnt'[z] = refcnt[z]
  BY TakeIs
<1>2. PoolInv /\ DirectInv /\ pool \in SUBSET Mbufs
  BY DEF MbufInv, TypeOK
<1>3. PoolInv'
  BY <1>1, <1>2 DEF PoolInv
<1>4. DirectInv'
  BY <1>1, <1>2 DEF DirectInv
<1> QED BY <1>3, <1>4

(* A thread allocates a packet: it has the one reference to it. *)
LEMMA AllocKeeps ==
  ASSUME MbufInv, NEW t \in Threads, NEW m \in Mbufs, Alloc(t, m)
  PROVE  MbufInv'
<1>0. TypeOK /\ HeldInv /\ TakeFromPool(m) /\ call' = call /\ call[t].pc = "idle"
      /\ refs' = [refs EXCEPT ![t][m] = 1]
  BY DEF MbufInv, Alloc, At
<1>1. /\ m \in pool /\ pool' = pool \ {m} /\ refcnt[m] = 0
      /\ Held(m) = {} /\ Working(m) = {} /\ Attached(m) = {}
      /\ refcnt' \in [Mbufs -> Nat] /\ refcnt'[m] = 1
      /\ next \in Pointers /\ next' \in Pointers /\ next'[m] = NULL
      /\ nb_segs' \in [Mbufs -> Nat] /\ nb_segs'[m] = 1
      /\ direct' = direct
      /\ \A z \in Mbufs \ {m} : /\ refcnt'[z] = refcnt[z] /\ next'[z] = next[z]
                                /\ nb_segs'[z] = nb_segs[z]
      /\ SegsOf(next', m) = {m}
      /\ Private(t, m)
  BY <1>0, TakeIs
<1>2. refs[t][m] = 0
  <2>1. m \in SegsOf(next, m)
    BY <1>1, SegsStep
  <2>2. ~(refs[t][m] > 0)
    BY <2>1, <1>0, <1>1, NotHeld
  <2> QED BY <2>2, <1>0 DEF TypeOK
<1>3. TypeOK'
  <2>1. 1 \in 0..MaxHolds
    BY MbufAssumption
  <2> QED BY <2>1, <1>0, <1>1 DEF TypeOK, Pointers
<1>4. \A u \in Threads, q \in Mbufs :
         refs'[u][q] = IF u = t /\ q = m THEN refs[t][m] + 1 ELSE refs[u][q]
  BY <1>0, <1>2 DEF TypeOK
<1>5. \A u \in Threads \ {t} : call'[u] = call[u] /\ refs'[u] = refs[u]
  BY <1>0 DEF TypeOK
<1>6. StepOf(t)
  BY <1>1, <1>5, StepOfWhen
<1>7. ASSUME NEW u \in Threads, NEW q \in Mbufs, refs[u][q] > 0
      PROVE  /\ SegsOf(next', q) = SegsOf(next, q) /\ m \notin SegsOf(next, q)
             /\ \A s \in SegsOf(next, q) : next'[s] = next[s]
  <2>1. m \notin SegsOf(next, q)
    BY <1>0, <1>1, <1>7, NotHeld
  <2>2. \A s \in SegsOf(next, q) : next'[s] = next[s]
    BY <2>1, <1>1, SegsStep
  <2> QED BY <2>1, <2>2, <1>1, SegsFrame
<1>8. CallInvOf(t)' /\ CallSegs(t)' = CallSegs(t)
  BY <1>0 DEF CallInvOf, RetainInv, FreeInv, DetachInv, CloneInv, CallSegs
<1>9. \A u \in Threads, x \in Mbufs : Detaching(u, x)' <=> Detaching(u, x)
  BY <1>0 DEF Detaching
<1>10. PoolInv' /\ DirectInv'
  BY <1>0, <1>9, TakePool
<1>11. HeldInv'
  <2>1. \A u \in Threads, q \in Mbufs \ {m} :
          refs'[u][q] > 0 => /\ refs[u][q] > 0
                             /\ SegsOf(next', q) = SegsOf(next, q)
                             /\ \A s \in SegsOf(next, q) : next'[s] = next[s]
                             /\ nb_segs'[q] = nb_segs[q]
                             /\ SegsOf(next', m) \cap SegsOf(next, q) = {}
    BY <1>1, <1>4, <1>7
  <2>2. \E s \in SegsOf(next', m) : next'[s] = NULL
    BY <1>1
  <2>3. Cardinality({m}) = 1
    BY FS_Singleton
  <2>4. nb_segs'[m] = Cardinality(SegsOf(next', m))
    BY <2>3, <1>1
  <2>5. nb_segs'[m] < SegLimit
    BY <1>1, MbufAssumption
  <2> QED BY <2>1, <2>2, <2>4, <2>5, <1>0, HeldInvBut
<1>12. \A z \in Mbufs :
          /\ z = m => Cardinality(Held(z)') = Cardinality(Held(z)) + 1
          /\ z # m => Cardinality(Held(z)') = Cardinality(Held(z))
  <2>1. \A u \in Threads, q \in Mbufs : refs[u][q] > 0 => SegsOf(next', q) = SegsOf(next, q)
    BY <1>7
  <2> QED BY <2>1, <1>0, <1>1, <1>3, <1>4, HeldMore
<1>13. \A z \in Mbufs : Attached(z)' = Attached(z)
  BY <1>0, <1>1, <1>6, <1>9, AttachedStays
<1>14. Exact'
  <2> SUFFICES ASSUME NEW z \in Mbufs
               PROVE  refcnt'[z] = Cardinality(Held(z)') + Cardinality(Working(z)')
                                     + Cardinality(Attached(z)')
    BY DEF Exact
  <2>1. refcnt[z] = Cardinality(Held(z)) + Cardinality(Working(z)) + Cardinality(Attached(z))
    BY DEF MbufInv, Exact
  <2>2. Cardinality(Working(z)') = Cardinality(Working(z))
    BY <1>3, <1>6, <1>8, WorkingIs
  <2>3. CASE z = m
    <3>1. refcnt'[z] = refcnt[z] + 1
      BY <2>3, <1>1
    <3> QED BY <2>1, <2>2, <2>3, <3>1, <1>12, <1>13, RefsFinite
  <2>4. CASE z # m
    BY <2>1, <2>2, <2>4, <1>1, <1>12, <1>13
  <2> QED BY <2>3, <2>4
<1> QED BY <1>3, <1>6, <1>8, <1>10, <1>11, <1>14, StepKeeps

-----------------------------------------------------------------------------
(* rte_pktmbuf_clone. *)

(* A call that takes m from the pool for the packet it builds has one      *)
(* reference more, to m.                                                   *)
LEMMA TakeForCall ==
  ASSUME MbufInv, NEW t \in Threads, NEW m \in Mbufs, TakeFromPool(m), refs' = refs,
         call' \in [Threads -> CallType], \A u \in Threads \ {t} : call'[u] = call[u],
         call[t].pc \notin {"detach", "undo"}, call'[t].pc \notin {"detach", "undo"},
         CallInvOf(t)', CallSegs(t)' = CallSegs(t) \cup {m}
  PROVE  MbufInv'
<1>1. /\ m \in pool /\ pool' = pool \ {m} /\ refcnt[m] = 0
      /\ Held(m) = {} /\ Working(m) = {} /\ Attached(m) = {}
      /\ refcnt' \in [Mbufs -> Nat] /\ refcnt'[m] = 1
      /\ next \in Pointers /\ next' \in Pointers /\ next'[m] = NULL
      /\ nb_segs' \in [Mbufs -> Nat] /\ nb_segs'[m] = 1
      /\ direct' = direct
      /\ \A z \in Mbufs \ {m} : /\ refcnt'[z] = refcnt[z] /\ next'[z] = next[z]
                                /\ nb_segs'[z] = nb_segs[z]
      /\ Private(t, m)
  BY TakeIs
<1>2. TypeOK'
  BY <1>1 DEF MbufInv, TypeOK, Pointers
<1>3. StepOf(t)
  BY <1>1, StepOfWhen
<1>4. \A u \in Threads, x \in Mbufs : Detaching(u, x)' <=> Detaching(u, x)
  BY DEF Detaching
<1>5. PoolInv' /\ DirectInv'
  BY <1>4, TakePool
<1>6. HeldInv' /\ \A z \in Mbufs : Held(z)' = Held(z)
  BY <1>1, <1>2, HeldStays
<1>7. \A z \in Mbufs : Attached(z)' = Attached(z)
  BY <1>1, <1>3, <1>4, AttachedStays
<1>8. Exact'
  <2> SUFFICES ASSUME NEW z \in Mbufs
               PROVE  refcnt'[z] = Cardinality(Held(z)') + Cardinality(Working(z)')
                                     + Cardinality(Attached(z)')
    BY DEF Exact
  <2>1. refcnt[z] = Cardinality(Held(z)) + Cardinality(Working(z)) + Cardinality(Attached(z))
    BY DEF MbufInv, Exact
  <2>2. Held(z)' = Held(z) /\ Attached(z)' = Attached(z)
    BY <1>6, <1>7
  <2>3. CASE z = m
    <3>1. m \notin CallSegs(t) /\ m \in CallSegs(t)'
      BY <1>1 DEF Working
    <3>2. Cardinality(Working(z)') = Cardinality(Working(z)) + 1
      BY <3>1, <2>3, <1>2, <1>3, WorkingIs
    <3>3. refcnt'[z] = refcnt[z] + 1
      BY <2>3, <1>1
    <3> QED BY <2>1, <2>2, <3>2, <3>3, RefsFinite
  <2>4. CASE z # m
    <3>1. z \in CallSegs(t)' <=> z \in CallSegs(t)
      BY <2>4
    <3>2. Cardinality(Working(z)') = Cardinality(Working(z))
      BY <3>1, <1>2, <1>3, WorkingIs
    <3> QED BY <2>1, <2>2, <2>4, <3>2, <1>1
  <2> QED BY <2>3, <2>4
<1> QED BY <1>2, <1>3, <1>5, <1>6, <1>8, StepKeeps

(* The held packets are the same once m has been taken. *)
LEMMA TakeHeld ==
  ASSUME MbufInv, NEW m \in Mbufs, TakeFromPool(m),
         NEW t \in Threads, NEW p \in Mbufs, refs[t][p] > 0
  PROVE  /\ SegsOf(next', p) = SegsOf(next, p) /\ m \notin SegsOf(next, p)
         /\ \A s \in SegsOf(next, p) : SegsOf(next', s) = SegsOf(next, s) /\ next'[s] = next[s]
<1>1. /\ Held(m) = {} /\ next \in Pointers /\ next' \in Pointers
      /\ \A z \in Mbufs \ {m} : next'[z] = next[z]
  BY TakeIs
<1>2. m \notin SegsOf(next, p)
  BY <1>1, NotHeld DEF MbufInv
<1>3. \A s \in SegsOf(next, p) : s \in Mbufs /\ next'[s] = next[s]
  BY <1>1, <1>2, SegsStep
<1>4. ASSUME NEW s \in SegsOf(next, p) PROVE SegsOf(next', s) = SegsOf(next, s)
  <2>1. SegsOf(next, s) \subseteq SegsOf(next, p)
    BY <1>1, SegsTrans
  <2> QED BY <2>1, <1>1, <1>3, SegsFrame
<1>5. p \in SegsOf(next, p)
  BY <1>1, SegsStep
<1> QED BY <1>2, <1>3, <1>4, <1>5

(* A clone begins with its first segment. *)
LEMMA CloneKeeps ==
  ASSUME MbufInv, NEW t \in Threads, NEW p \in Mbufs, NEW m \in Mbufs, Clone(t, p, m)
  PROVE  MbufInv'
<1>0. /\ TypeOK /\ TakeFromPool(m) /\ refs' = refs /\ refs[t][p] > 0 /\ call[t].pc = "idle"
      /\ call' = [call EXCEPT ![t] = [Idle EXCEPT !.pc = "attach", !.src = p, !.m = m,
                                                  !.head = m, !.nseg = 1]]
  BY DEF MbufInv, Clone, At
<1>1. /\ refcnt'[m] = 1 /\ next \in Pointers /\ next' \in Pointers /\ next'[m] = NULL
      /\ direct' = direct /\ direct[m] = m
      /\ SegsOf(next', m) = {m}
  BY <1>0, TakeIs
<1>2. /\ call'[t].pc = "attach" /\ call'[t].src = p /\ call'[t].m = m /\ call'[t].head = m
      /\ call'[t].nseg = 1 /\ call'[t].prev = NULL
      /\ \A u \in Threads \ {t} : call'[u] = call[u]
  BY <1>0 DEF TypeOK, Idle
<1>3. call' \in [Threads -> CallType]
  <2>1. [Idle EXCEPT !.pc = "attach", !.src = p, !.m = m, !.head = m, !.nseg = 1] \in CallType
    BY DEF CallType, Pcs, Idle
  <2> QED BY <2>1, <1>0 DEF TypeOK
<1>4. CallSegs(t) = {} /\ CallSegs(t)' = {m}
  BY <1>0, <1>1, <1>2 DEF CallSegs, Segs
<1>5. SegsOf(next', p) = SegsOf(next, p) /\ p \in SegsOf(next', p)
  BY <1>0, <1>1, TakeHeld, SegsStep
<1>6. 1 + Cardinality(SegsOf(next', p)) = Cardinality(SegsOf(next', p)) + 1
  BY SegsFinite
<1>7. CallInvOf(t)'
  <2>1. RetainInv(t)' /\ FreeInv(t)' /\ DetachInv(t)'
    BY <1>2 DEF RetainInv, FreeInv, DetachInv
  <2>2. \E q \in Mbufs : /\ refs'[t][q] > 0 /\ call'[t].src \in SegsOf(next', q)
                         /\ call'[t].nseg + Cardinality(SegsOf(next', call'[t].src))
                              = Cardinality(SegsOf(next', q)) + 1
    BY <1>0, <1>2, <1>5, <1>6
  <2>3. /\ \A s \in SegsOf(next', call'[t].head) \cup {call'[t].m} : refcnt'[s] = 1
        /\ \E s \in SegsOf(next', call'[t].head) : next'[s] = NULL
        /\ next'[call'[t].m] = NULL /\ direct'[call'[t].m] = call'[t].m
    BY <1>1, <1>2
  <2>4. CloneInv(t)'
    BY <2>2, <2>3, <1>2 DEF CloneInv, Segs, Ends
  <2> QED BY <2>1, <2>4 DEF CallInvOf
<1> QED BY <1>0, <1>2, <1>3, <1>4, <1>7, TakeForCall

(* The clone goes on with the next segment of the packet. *)
LEMMA CloneNextKeeps ==
  ASSUME MbufInv, NEW t \in Threads, NEW m \in Mbufs, CloneNext(t, m)
  PROVE  MbufInv'
<1>0. /\ TypeOK /\ HeldInv /\ CallInvOf(t) /\ TakeFromPool(m) /\ refs' = refs
      /\ call[t].pc = "more" /\ call[t] \in CallType /\ next[call[t].src] # NULL
      /\ call' = [call EXCEPT ![t].pc = "attach", ![t].src = next[call[t].src], ![t].m = m,
                              ![t].prev = call[t].m, ![t].nseg = call[t].nseg + 1]
  BY DEF MbufInv, TypeOK, CallInv, CallInvOf, CloneNext, At
<1>1. /\ refcnt'[m] = 1 /\ next \in Pointers /\ next' \in Pointers /\ next'[m] = NULL
      /\ direct' = direct /\ direct[m] = m /\ Working(m) = {} /\ refcnt[m] = 0
      /\ \A z \in Mbufs \ {m} : refcnt'[z] = refcnt[z] /\ next'[z] = next[z]
  BY <1>0, TakeIs
<1>2. PICK h \in Mbufs, e \in Mbufs, src \in Mbufs, p \in Mbufs, n \in Nat :
         /\ h = call[t].head /\ e = call[t].m /\ src = call[t].src /\ n = call[t].nseg
         /\ refs[t][p] > 0 /\ src \in SegsOf(next, p)
         /\ n + Cardinality(SegsOf(next, src)) = Cardinality(SegsOf(next, p)) + 1
  BY <1>0 DEF CallInvOf, CloneInv, CallType, Segs
<1>3. /\ \A s \in SegsOf(next, h) : refcnt[s] = 1
      /\ \E s \in SegsOf(next, h) : next[s] = NULL
      /\ e \in SegsOf(next, h) /\ next[e] = NULL /\ n = Cardinality(SegsOf(next, h))
  BY <1>0, <1>2 DEF CallInvOf, CloneInv, Segs, Ends
<1>4. PICK nsrc \in Mbufs : nsrc = next[src]
  BY <1>0, <1>1, <1>2 DEF Pointers
<1>5. /\ call'[t].pc = "attach" /\ call'[t].src = nsrc /\ call'[t].m = m /\ call'[t].head = h
      /\ call'[t].nseg = n + 1 /\ call'[t].prev = e
      /\ \A u \in Threads \ {t} : call'[u] = call[u]
  BY <1>0, <1>2, <1>4 DEF TypeOK, CallType
<1>6. call' \in [Threads -> CallType]
  <2> DEFINE r == [call[t] EXCEPT !.pc = "attach", !.src = nsrc, !.m = m, !.prev = e, !.nseg = n + 1]
  <2>1. n + 1 \in Nat /\ e \in Mbufs \cup {NULL} /\ "attach" \in Pcs
    BY DEF Pcs
  <2>2. r \in CallType
    BY <1>0, <2>1 DEF CallType
  <2>3. call' = [call EXCEPT ![t] = r]
    BY <1>0, <1>2, <1>4 DEF TypeOK, CallType
  <2> HIDE DEF r
  <2> QED BY <2>2, <2>3, <1>0 DEF TypeOK
<1>7. CallSegs(t) = SegsOf(next, h)
  BY <1>0, <1>2, <1>3 DEF CallSegs, Segs
<1>8. m \notin SegsOf(next, h)
  BY <1>1, <1>7 DEF Working
<1>9. \A x \in SegsOf(next, h) : x \in Mbufs /\ next'[x] = next[x] /\ refcnt'[x] = refcnt[x]
  BY <1>1, <1>8, SegsStep
<1>10. SegsOf(next', h) = SegsOf(next, h)
  BY <1>1, <1>9, SegsFrame
<1>11. CallSegs(t)' = CallSegs(t) \cup {m}
  BY <1>5, <1>7, <1>10 DEF CallSegs, Segs
<1>12. nsrc \in SegsOf(next, p)
  BY <1>1, <1>2, <1>4, SegsStep, MbufAssumption
<1>13. Cardinality(SegsOf(next, src)) = Cardinality(SegsOf(next, nsrc)) + 1
  <2>1. PICK last \in SegsOf(next, p) : next[last] = NULL
    BY <1>0, <1>2 DEF HeldInv, Ends, Segs
  <2>2. last \in SegsOf(next, src)
    BY <2>1, <1>1, <1>2, EndReached
  <2>3. src \notin SegsOf(next, nsrc)
    BY <2>1, <2>2, <1>1, <1>4, Acyclic
  <2>4. SegsOf(next, src) = SegsOf(next, nsrc) \cup {src}
    BY <1>1, <1>4, SegsUnfold
  <2> QED BY <2>3, <2>4, SegsFinite, FS_AddElement
<1>14. (n + 1) + Cardinality(SegsOf(next, nsrc)) = Cardinality(SegsOf(next, p)) + 1
  BY <1>2, <1>13, SegsFinite
<1>15. SegsOf(next', p) = SegsOf(next, p) /\ SegsOf(next', nsrc) = SegsOf(next, nsrc)
  BY <1>0, <1>2, <1>12, TakeHeld
<1>16. CallInvOf(t)'
  <2>1. RetainInv(t)' /\ FreeInv(t)' /\ DetachInv(t)'
    BY <1>5 DEF RetainInv, FreeInv, DetachInv
  <2>2. \E q \in Mbufs : /\ refs'[t][q] > 0 /\ call'[t].src \in SegsOf(next', q)
                         /\ call'[t].nseg + Cardinality(SegsOf(next', call'[t].src))
                              = Cardinality(SegsOf(next', q)) + 1
    BY <1>0, <1>2, <1>5, <1>12, <1>14, <1>15
  <2>3. /\ \A s \in SegsOf(next', call'[t].head) \cup {call'[t].m} : refcnt'[s] = 1
        /\ \E s \in SegsOf(next', call'[t].head) : next'[s] = NULL
        /\ next'[call'[t].m] = NULL /\ direct'[call'[t].m] = call'[t].m
    BY <1>1, <1>3, <1>5, <1>9, <1>10
  <2>4. /\ call'[t].prev # NULL /\ call'[t].m \notin SegsOf(next', call'[t].head)
        /\ call'[t].prev \in SegsOf(next', call'[t].head) /\ next'[call'[t].prev] = NULL
    BY <1>2, <1>3, <1>5, <1>8, <1>9, <1>10, MbufAssumption
  <2>5. call'[t].nseg = Cardinality(SegsOf(next', call'[t].head)) + 1
    BY <1>3, <1>5, <1>10
  <2>6. /\ call'[t].head \in Mbufs /\ call'[t].m \in Mbufs /\ call'[t].src \in Mbufs
        /\ call'[t].pc = "attach"
    BY <1>5
  <2>7. CloneInv(t)'
    BY <2>2, <2>3, <2>4, <2>5, <2>6 DEF CloneInv, Segs, Ends
  <2> QED BY <2>1, <2>7 DEF CallInvOf
<1> QED BY <1>0, <1>5, <1>6, <1>11, <1>16, TakeForCall

(* The segments a clone has built are not shared: they are in no held      *)
(* packet, have nothing attached, and are those of the call.               *)
LEMMA BuiltSole ==
  ASSUME MbufInv, NEW t \in Threads, call[t].pc \in {"attach", "join", "more"}
  PROVE  /\ call[t].head \in Mbufs /\ call[t].m \in Mbufs /\ call[t].src \in Mbufs
         /\ CallSegs(t) = SegsOf(next, call[t].head) \cup {call[t].m}
         /\ \A s \in CallSegs(t) :
              /\ s \in Mbufs /\ refcnt[s] = 1
              /\ Held(s) = {} /\ Working(s) = {t} /\ Attached(s) = {}
              /\ Claims(t, s) /\ Private(t, s) /\ s \notin pool
<1>1. CloneInv(t) /\ next \in Pointers
  BY DEF MbufInv, CallInv, TypeOK, Pointers
<1>2. call[t].head \in Mbufs /\ call[t].m \in Mbufs /\ call[t].src \in Mbufs
  BY <1>1 DEF CloneInv
<1>3. CallSegs(t) = SegsOf(next, call[t].head) \cup {call[t].m}
  BY DEF CallSegs, Segs
<1>4. \A s \in CallSegs(t) : s \in Mbufs /\ refcnt[s] = 1
  BY <1>1, <1>2, <1>3, SegsStep DEF CloneInv, Segs
<1> QED BY <1>2, <1>3, <1>4, CallSole

(* A clone that is done hands its references to the thread. *)
LEMMA CloneDoneKeeps ==
  ASSUME MbufInv, NEW t \in Threads, CloneDone(t)
  PROVE  MbufInv'
<1>0. /\ TypeOK /\ HeldInv /\ CallInvOf(t) /\ UNCHANGED <<pool, refcnt, next, direct>>
      /\ call[t].pc = "more" /\ call[t] \in CallType /\ next[call[t].src] = NULL
      /\ call' = [call EXCEPT ![t] = Idle] /\ next \in Pointers
  BY DEF MbufInv, TypeOK, CallInv, CallInvOf, CloneDone, At, Pointers
<1>1. PICK h \in Mbufs, src \in Mbufs, p \in Mbufs, n \in Nat :
         /\ h = call[t].head /\ src = call[t].src /\ n = call[t].nseg
         /\ refs[t][p] > 0 /\ src \in SegsOf(next, p)
         /\ n + Cardinality(SegsOf(next, src)) = Cardinality(SegsOf(next, p)) + 1
  BY <1>0 DEF CallInvOf, CloneInv, CallType, Segs
<1>2. /\ \E s \in SegsOf(next, h) : next[s] = NULL
      /\ call[t].m \in SegsOf(next, h) /\ n = Cardinality(SegsOf(next, h))
  BY <1>0, <1>1 DEF CallInvOf, CloneInv, Segs, Ends
<1>3. n < SegLimit
  <2>1. SegsOf(next, src) = {src}
    BY <1>0, <1>1, SegsUnfold, SegsNull
  <2>2. Cardinality(SegsOf(next, src)) = 1
    BY <2>1, FS_Singleton
  <2>3. nb_segs[p] = Cardinality(SegsOf(next, p)) /\ nb_segs[p] < SegLimit
    BY <1>0, <1>1 DEF HeldInv, Segs
  <2>4. nb_segs[p] \in Nat
    BY <1>0 DEF TypeOK
  <2> QED BY <2>2, <2>3, <2>4, <1>1, MbufAssumption
<1>4. n % SegLimit = n
  BY <1>3, MbufAssumption
<1>5. /\ nb_segs' = [nb_segs EXCEPT ![h] = n]
      /\ refs' = [refs EXCEPT ![t][h] = 1]
  BY <1>1, <1>4 DEF CloneDone
<1>6. /\ CallSegs(t) = SegsOf(next, h) /\ h \in CallSegs(t)
      /\ \A s \in CallSegs(t) : s \in Mbufs /\ Held(s) = {} /\ Private(t, s)
  <2>0. CallSegs(t) = SegsOf(next, h) \cup {call[t].m}
    BY <1>0, <1>1, BuiltSole
  <2>1. CallSegs(t) = SegsOf(next, h)
    BY <2>0, <1>2
  <2> QED BY <2>1, <1>0, <1>1, BuiltSole, SegsStep
<1>7. \A u \in Threads, q \in Mbufs : refs[u][q] > 0 => SegsOf(next, h) \cap SegsOf(next, q) = {}
  BY <1>0, <1>6, NotHeld
<1>8. \A u \in Threads : ~(refs[u][h] > 0)
  BY <1>0, <1>6, NotHeld
<1>9. refs[t][h] = 0
  BY <1>0, <1>8 DEF TypeOK
<1>10. \A u \in Threads, q \in Mbufs :
          refs'[u][q] = IF u = t /\ q = h THEN refs[t][h] + 1 ELSE refs[u][q]
  BY <1>0, <1>5, <1>9 DEF TypeOK
<1>11. /\ call'[t].pc = "idle" /\ nb_segs'[h] = n
       /\ \A u \in Threads \ {t} : call'[u] = call[u] /\ refs'[u] = refs[u]
       /\ \A z \in Mbufs \ {h} : nb_segs'[z] = nb_segs[z]
  BY <1>0, <1>5 DEF TypeOK, Idle
<1>12. TypeOK'
  <2>1. 1 \in 0..MaxHolds
    BY MbufAssumption
  <2>2. Idle \in CallType
    BY DEF CallType, Pcs, Idle
  <2>3. refs' \in [Threads -> [Mbufs -> 0..MaxHolds]]
    BY <2>1, <1>0, <1>5 DEF TypeOK
  <2> QED BY <2>2, <2>3, <1>0, <1>5 DEF TypeOK
<1>13. StepOf(t)
  BY <1>0, <1>6, <1>11, StepOfWhen
<1>14. CallInvOf(t)' /\ CallSegs(t)' = {}
  BY <1>11 DEF CallInvOf, RetainInv, FreeInv, DetachInv, CloneInv, CallSegs
<1>15. \A u \in Threads, x \in Mbufs : Detaching(u, x)' <=> Detaching(u, x)
  BY <1>0, <1>11 DEF Detaching
<1>16. PoolInv' /\ DirectInv'
  BY <1>0, <1>15 DEF MbufInv, PoolInv, DirectInv
<1>17. HeldInv'
  <2>1. \A u \in Threads, q \in Mbufs \ {h} :
          refs'[u][q] > 0 => /\ refs[u][q] > 0
                             /\ SegsOf(next', q) = SegsOf(next, q)
                             /\ \A s \in SegsOf(next, q) : next'[s] = next[s]
                             /\ nb_segs'[q] = nb_segs[q]
                             /\ SegsOf(next', h) \cap SegsOf(next, q) = {}
    BY <1>0, <1>7, <1>10, <1>11
  <2>2. \E s \in SegsOf(next', h) : next'[s] = NULL
    BY <1>0, <1>2
  <2>3. nb_segs'[h] = Cardinality(SegsOf(next', h)) /\ nb_segs'[h] < SegLimit
    BY <1>0, <1>2, <1>3, <1>11
  <2> QED BY <2>1, <2>2, <2>3, <1>0, HeldInvBut
<1>18. \A z \in Mbufs :
          /\ z \in SegsOf(next, h) => Cardinality(Held(z)') = Cardinality(Held(z)) + 1
          /\ z \notin SegsOf(next, h) => Cardinality(Held(z)') = Cardinality(Held(z))
  BY <1>0, <1>10, <1>12, HeldMore
<1>19. \A z \in Mbufs :
          /\ z \in SegsOf(next, h) => Cardinality(Working(z)') = Cardinality(Working(z)) - 1
          /\ z \notin SegsOf(next, h) => Cardinality(Working(z)') = Cardinality(Working(z))
  BY <1>6, <1>12, <1>13, <1>14, WorkingIs
<1>20. \A z \in Mbufs : Attached(z)' = Attached(z)
  BY <1>0, <1>13, <1>15, AttachedStays
<1>21. Exact'
  <2> SUFFICES ASSUME NEW z \in Mbufs
               PROVE  refcnt'[z] = Cardinality(Held(z)') + Cardinality(Working(z)')
                                     + Cardinality(Attached(z)')
    BY DEF Exact
  <2>1. refcnt'[z] = Cardinality(Held(z)) + Cardinality(Working(z)) + Cardinality(Attached(z))
    BY <1>0 DEF MbufInv, Exact
  <2>2. CASE z \in SegsOf(next, h)
    BY <2>1, <2>2, <1>18, <1>19, <1>20, RefsFinite
  <2>3. CASE z \notin SegsOf(next, h)
    BY <2>1, <2>3, <1>18, <1>19, <1>20
  <2> QED BY <2>2, <2>3
<1> QED BY <1>12, <1>13, <1>14, <1>16, <1>17, <1>21, StepKeeps

(* A clone that finds the pool empty frees what it has built. *)
LEMMA CloneFailsKeeps ==
  ASSUME MbufInv, NEW t \in Threads, CloneFails(t)
  PROVE  MbufInv'
<1>0. /\ TypeOK /\ CallInvOf(t) /\ UNCHANGED <<pool, refcnt, next, direct, refs>>
      /\ call[t].pc = "more" /\ call[t] \in CallType /\ next \in Pointers
  BY DEF MbufInv, TypeOK, CallInv, CallInvOf, CloneFails, At, Pointers
<1>1. PICK h \in Mbufs, n \in Nat : h = call[t].head /\ n = call[t].nseg
  BY <1>0 DEF CallInvOf, CloneInv, CallType
<1>2. /\ \E s \in SegsOf(next, h) : next[s] = NULL
      /\ call[t].m \in SegsOf(next, h)
  BY <1>0, <1>1 DEF CallInvOf, CloneInv, Segs, Ends
<1>3. /\ nb_segs' = [nb_segs EXCEPT ![h] = n % SegLimit]
      /\ call' = [call EXCEPT ![t] = FreeCall(h)]
  BY <1>1 DEF CloneFails
<1>4. CallSegs(t) = SegsOf(next, h) /\ Held(h) = {} /\ Private(t, h)
  <2>0. CallSegs(t) = SegsOf(next, h) \cup {call[t].m}
    BY <1>0, <1>1, BuiltSole
  <2>1. CallSegs(t) = SegsOf(next, h)
    BY <2>0, <1>2
  <2> QED BY <2>1, <1>0, <1>1, BuiltSole, SegsStep
<1>5. /\ call'[t] = FreeCall(h)
      /\ \A u \in Threads \ {t} : call'[u] = call[u] /\ refs'[u] = refs[u]
      /\ \A z \in Mbufs \ {h} : nb_segs'[z] = nb_segs[z]
  BY <1>0, <1>3 DEF TypeOK
<1>6. TypeOK'
  <2>1. n % SegLimit \in Nat
    BY MbufAssumption
  <2> QED BY <2>1, <1>0, <1>3, FreeCallType DEF TypeOK
<1>7. StepOf(t)
  BY <1>0, <1>4, <1>5, StepOfWhen
<1>8. CallInvOf(t)' /\ CallSegs(t)' = SegsOf(next', h) /\ \A x : ~Detaching(t, x)'
  BY <1>0, <1>2, <1>5, FreeCallIs
<1>9. \A x \in Mbufs : Detaching(t, x)' <=> Detaching(t, x)
  BY <1>0, <1>8 DEF Detaching
<1>10. \A z \in Mbufs : Held(z) # {} => nb_segs'[z] = nb_segs[z]
  BY <1>4, <1>5
<1> QED BY <1>0, <1>4, <1>6, <1>7, <1>8, <1>9, <1>10, OnlyCall

(* rte_pktmbuf_attach counts the new segment m as a reference to the       *)
(* buffer under the cloned one, and m is linked to the packet built.       *)
LEMMA AttachJoinKeeps ==
  ASSUME MbufInv, NEW t \in Threads, AttachJoin(t), ~lost'
  PROVE  MbufInv'
<1>0. /\ TypeOK /\ CallInvOf(t) /\ PoolInv /\ DirectInv /\ UNCHANGED <<pool, refs>>
      /\ call[t].pc = "join" /\ call[t] \in CallType /\ next \in Pointers
      /\ call' = [call EXCEPT ![t].pc = "more"]
  BY DEF MbufInv, TypeOK, CallInv, CallInvOf, AttachJoin, At, Pointers
<1>1. PICK h \in Mbufs, m \in Mbufs, src \in Mbufs, p \in Mbufs, n \in Nat :
         /\ h = call[t].head /\ m = call[t].m /\ src = call[t].src /\ n = call[t].nseg
         /\ refs[t][p] > 0 /\ src \in SegsOf(next, p)
         /\ n + Cardinality(SegsOf(next, src)) = Cardinality(SegsOf(next, p)) + 1
  BY <1>0 DEF CallInvOf, CloneInv, CallType, Segs
<1>2. PICK md \in Mbufs, prev \in Mbufs \cup {NULL} : md = call[t].md /\ prev = call[t].prev /\ md = direct[src]
  BY <1>0, <1>1 DEF CallInvOf, CloneInv, CallType, TypeOK
<1>one. call[t].one => refcnt[md] = 1
  BY <1>2 DEF AttachJoin, Overwrites
<1>3. /\ \E s \in SegsOf(next, h) : next[s] = NULL
      /\ next[m] = NULL /\ direct[m] = m
      /\ prev = NULL => h = m /\ n = 1
      /\ prev # NULL => /\ m \notin SegsOf(next, h) /\ prev \in SegsOf(next, h)
                        /\ next[prev] = NULL /\ n = Cardinality(SegsOf(next, h)) + 1
  BY <1>0, <1>1, <1>2 DEF CallInvOf, CloneInv, Segs, Ends
<1> DEFINE B == SegsOf(next, h) \cup {m}
<1>4. /\ CallSegs(t) = B
      /\ \A s \in B : /\ s \in Mbufs /\ refcnt[s] = 1 /\ Held(s) = {} /\ Attached(s) = {}
                      /\ Private(t, s) /\ s \notin pool
  <2>1. CallSegs(t) = B
    BY <1>0, <1>1, BuiltSole
  <2> QED BY <2>1, <1>0, BuiltSole
<1>5. m \in B /\ h \in B
  BY <1>0, SegsStep
<1> HIDE DEF B
<1>6. md \notin B /\ md # m /\ direct[md] = md
  <2>1. direct[md] = md
    BY <1>0, <1>2 DEF DirectInv
  <2>2. CASE md = src
    <3>1. Hold(t, p, 1) \in Held(md)
      BY <2>2, <1>0, <1>1, HoldFirst DEF Segs
    <3> QED BY <3>1, <2>1, <1>4, <1>5
  <2>3. CASE md # src
    <3>1. src \in Attached(md)
      BY <2>3, <1>2 DEF Attached
    <3> QED BY <3>1, <2>1, <1>4, <1>5
  <2> QED BY <2>2, <2>3
<1>7. /\ refcnt[md] \in Nat \ {0}
      /\ Claims(t, md) \/ \E x \in Mbufs \ {md} : direct[x] = md /\ Claims(t, x)
  <2>1. Claims(t, src)
    BY <1>1 DEF Claims, Segs
  <2>2. CASE md = src
    BY <2>1, <2>2, ClaimCounts
  <2>3. CASE md # src
    BY <2>1, <2>3, <1>2, UnderClaims
  <2> QED BY <2>2, <2>3
<1>8. Updated(t, md, 1) = refcnt[md] + 1
  BY <1>one, UpdatedIs
<1>9. /\ refcnt' = [refcnt EXCEPT ![md] = refcnt[md] + 1]
      /\ direct' = [direct EXCEPT ![m] = md]
      /\ next' = [x \in Mbufs |-> IF x = prev THEN m ELSE IF x = m THEN NULL ELSE next[x]]
      /\ nb_segs' = [nb_segs EXCEPT ![m] = 1]
  BY <1>1, <1>2, <1>8 DEF AttachJoin, Data
<1>10. /\ call'[t] = [call[t] EXCEPT !.pc = "more"]
       /\ \A u \in Threads \ {t} : call'[u] = call[u] /\ refs'[u] = refs[u]
  BY <1>0 DEF TypeOK
<1>11. TypeOK' /\ next' \in Pointers
  <2>1. [call[t] EXCEPT !.pc = "more"] \in CallType
    BY <1>0 DEF CallType, Pcs
  <2>2. call' \in [Threads -> CallType]
    BY <2>1, <1>0 DEF TypeOK
  <2>3. refcnt' \in [Mbufs -> Nat]
    BY <1>0, <1>7, <1>9 DEF TypeOK
  <2>4. next' \in Pointers
    BY <1>0, <1>9 DEF Pointers
  <2> QED BY <2>2, <2>3, <2>4, <1>0, <1>9 DEF TypeOK, Pointers
<1>12. /\ call'[t].pc = "more" /\ call'[t].head = h /\ call'[t].m = m /\ call'[t].src = src
       /\ call'[t].nseg = n
  BY <1>0, <1>1, <1>10 DEF CallType
<1>13. /\ \A z \in Mbufs : z \in B \/ next'[z] = next[z]
       /\ \A z \in Mbufs \ {m} : direct'[z] = direct[z] /\ nb_segs'[z] = nb_segs[z]
       /\ direct'[m] = md
       /\ \A z \in Mbufs \ {md} : refcnt'[z] = refcnt[z]
       /\ refcnt'[md] = refcnt[md] + 1
  <2>1. prev # NULL => prev \in B
    BY <1>3 DEF B
  <2>2. \A z \in Mbufs : z \in B \/ next'[z] = next[z]
    BY <2>1, <1>5, <1>9, MbufAssumption
  <2> QED BY <2>2, <1>0, <1>9 DEF TypeOK
<1>14. /\ SegsOf(next', h) = B /\ n = Cardinality(SegsOf(next', h)) /\ next'[m] = NULL
  <2>1. SegsOf(next, m) = {m}
    BY <1>0, <1>3, SegsUnfold, SegsNull
  <2>2. CASE prev = NULL
    <3>1. \A x \in Mbufs : next'[x] = next[x]
      BY <2>2, <1>3, <1>9, MbufAssumption
    <3>2. SegsOf(next', m) = {m}
      BY <3>1, <2>1, <1>0, <1>11, SegsFrame
    <3>3. SegsOf(next', h) = {m} /\ n = 1 /\ SegsOf(next', h) = B
      BY <3>2, <2>1, <2>2, <1>3 DEF B
    <3>4. Cardinality({m}) = 1
      BY FS_Singleton
    <3> QED BY <3>1, <3>3, <3>4, <1>3
  <2>3. CASE prev # NULL
    <3>1. /\ prev \in SegsOf(next, h) /\ prev \in Mbufs /\ next[prev] = NULL /\ prev # m
          /\ m \notin SegsOf(next, h)
      BY <2>3, <1>3
    <3>2. /\ next'[prev] = m /\ next'[m] = NULL /\ \A x \in Mbufs \ {prev} : next'[x] = next[x]
      BY <3>1, <1>3, <1>9
    <3>3. SegsOf(next', h) = SegsOf(next, h) \cup SegsOf(next, m)
      BY <3>1, <3>2, <2>1, <1>0, <1>11, SegsAppend
    <3>4. SegsOf(next', h) = SegsOf(next, h) \cup {m}
      BY <3>3, <2>1
    <3>5. IsFiniteSet(SegsOf(next, h))
      BY SegsFinite
    <3>6. Cardinality(SegsOf(next, h) \cup {m}) = Cardinality(SegsOf(next, h)) + 1
      <4>1. m \notin SegsOf(next, h)
        BY <3>1
      <4> QED BY <4>1, <3>5, FS_AddElement
    <3> QED BY <3>2, <3>4, <3>6, <2>3, <1>3 DEF B
  <2> QED BY <2>2, <2>3
<1>15. StepOf(t)
  <2>1. \A z \in Mbufs : \/ Private(t, z)
                         \/ /\ next'[z] = next[z] /\ direct'[z] = direct[z]
                            /\ nb_segs'[z] = nb_segs[z]
    BY <1>4, <1>5, <1>13
  <2>2. \A z \in Mbufs : \/ refcnt'[z] = refcnt[z] \/ Claims(t, z) \/ refcnt[z] = 0
                         \/ \E x \in Mbufs \ {z} : direct[x] = z /\ Claims(t, x)
    BY <1>7, <1>13
  <2> QED BY <2>1, <2>2, <1>10, StepOfWhen
<1>16. CallSegs(t)' = CallSegs(t)
  <2>1. CallSegs(t)' = SegsOf(next', h) \cup {m}
    BY <1>12 DEF CallSegs, Segs
  <2> QED BY <2>1, <1>4, <1>5, <1>14
<1>17. HeldInv' /\ \A z \in Mbufs : Held(z)' = Held(z)
  <2>1. \A z \in Mbufs : Held(z) # {} => next'[z] = next[z] /\ nb_segs'[z] = nb_segs[z]
    BY <1>4, <1>5, <1>13
  <2> QED BY <2>1, <1>0, <1>11, HeldStays
<1>18. \A u \in Threads, x \in Mbufs : Detaching(u, x)' <=> Detaching(u, x)
  BY <1>0, <1>10, <1>12 DEF Detaching
<1>19. PoolInv'
  <2>1. \A x \in pool : x \in Mbufs /\ direct'[x] = direct[x]
    BY <1>0, <1>4, <1>5, <1>13 DEF TypeOK
  <2>2. \A x \in Mbufs : refcnt'[x] = 0 <=> refcnt[x] = 0
    BY <1>7, <1>13
  <2> QED BY <2>1, <2>2, <1>0, <1>18, PoolStays
<1>20. DirectInv'
  <2> SUFFICES ASSUME NEW x \in Mbufs, direct'[x] # x
               PROVE  refcnt'[x] # 0 /\ direct'[direct'[x]] = direct'[x]
    BY DEF DirectInv
  <2>1. CASE x = m
    BY <2>1, <1>4, <1>5, <1>6, <1>13
  <2>2. CASE x # m
    <3>1. direct'[x] = direct[x] /\ direct[x] # x /\ refcnt[x] # 0 /\ direct[direct[x]] = direct[x]
      BY <2>2, <1>0, <1>13 DEF DirectInv
    <3>2. x \in Attached(direct[x]) /\ direct[x] \in Mbufs
      BY <3>1, <1>0 DEF Attached, TypeOK
    <3>3. direct[x] # m
      BY <3>2, <1>4, <1>5
    <3>4. x # md
      BY <3>1, <1>6
    <3> QED BY <3>1, <3>2, <3>3, <3>4, <1>13
  <2> QED BY <2>1, <2>2
<1>21. ASSUME NEW z \in Mbufs
       PROVE  /\ z # md => Attached(z)' = Attached(z)
              /\ z = md => Attached(z)' = Attached(z) \cup {m} /\ m \notin Attached(z)
  <2>1. \A u \in Threads : ~Detaching(u, m)
    BY <1>0, <1>4, <1>5 DEF PoolInv
  <2>2. \A u \in Threads, x \in Mbufs : Detaching(u, x) => u # t
    BY <1>0 DEF Detaching
  <2>3. \A x \in Mbufs : (\E u \in Threads : Detaching(u, x) /\ call[u].md = z)'
                           <=> \E u \in Threads : Detaching(u, x) /\ call[u].md = z
    BY <2>2, <1>10, <1>18
  <2>4. \A x \in Mbufs \ {m} : x \in Attached(z)' <=> x \in Attached(z)
    BY <2>3, <1>13 DEF Attached
  <2>5. m \notin Attached(z)
    BY <2>1, <1>3 DEF Attached
  <2>6. m \in Attached(z)' <=> z = md
    BY <2>1, <2>3, <1>6, <1>13 DEF Attached
  <2>7. \A x : x \in Attached(z) \/ x \in Attached(z)' => x \in Mbufs
    BY DEF Attached
  <2> QED BY <2>4, <2>5, <2>6, <2>7
<1>22. Exact'
  <2> SUFFICES ASSUME NEW z \in Mbufs
               PROVE  refcnt'[z] = Cardinality(Held(z)') + Cardinality(Working(z)')
                                     + Cardinality(Attached(z)')
    BY DEF Exact
  <2>1. refcnt[z] = Cardinality(Held(z)) + Cardinality(Working(z)) + Cardinality(Attached(z))
    BY DEF MbufInv, Exact
  <2>2. Cardinality(Working(z)') = Cardinality(Working(z)) /\ Held(z)' = Held(z)
    BY <1>11, <1>15, <1>16, <1>17, WorkingIs
  <2>3. CASE z = md
    <3>1. Attached(z)' = Attached(z) \cup {m} /\ m \notin Attached(z)
      BY <2>3, <1>21
    <3>2. Cardinality(Attached(z)') = Cardinality(Attached(z)) + 1
      BY <3>1, RefsFinite, FS_AddElement
    <3>3. refcnt'[z] = refcnt[z] + 1
      BY <2>3, <1>13
    <3> QED BY <2>1, <2>2, <3>2, <3>3, RefsFinite
  <2>4. CASE z # md
    BY <2>1, <2>2, <2>4, <1>13, <1>21
  <2> QED BY <2>3, <2>4
<1>23. SegsOf(next', p) = SegsOf(next, p) /\ SegsOf(next', src) = SegsOf(next, src)
  <2>1. \A x \in SegsOf(next, p) : x \in Mbufs /\ x \notin B
    <3>1. \A x \in SegsOf(next, p) : x \in Mbufs
      BY <1>0, SegsStep
    <3> QED BY <3>1, <1>0, <1>1, <1>4, NotHeld
  <2>2. \A x \in SegsOf(next, p) : next'[x] = next[x]
    BY <2>1, <1>13
  <2>3. SegsOf(next, src) \subseteq SegsOf(next, p)
    BY <1>0, <1>1, SegsTrans
  <2> QED BY <2>2, <2>3, <1>0, <1>11, SegsFrame
<1>24. CallInvOf(t)'
  <2>1. RetainInv(t)' /\ FreeInv(t)' /\ DetachInv(t)'
    BY <1>12 DEF RetainInv, FreeInv, DetachInv
  <2>2. \E q \in Mbufs : /\ refs'[t][q] > 0 /\ call'[t].src \in SegsOf(next', q)
                         /\ call'[t].nseg + Cardinality(SegsOf(next', call'[t].src))
                              = Cardinality(SegsOf(next', q)) + 1
    BY <1>0, <1>1, <1>12, <1>23
  <2>3. \A s \in SegsOf(next', call'[t].head) \cup {call'[t].m} : refcnt'[s] = 1
    BY <1>4, <1>5, <1>6, <1>12, <1>13, <1>14
  <2>4. /\ \E s \in SegsOf(next', call'[t].head) : next'[s] = NULL
        /\ next'[call'[t].m] = NULL /\ call'[t].m \in SegsOf(next', call'[t].head)
        /\ call'[t].nseg = Cardinality(SegsOf(next', call'[t].head))
    BY <1>5, <1>12, <1>14
  <2>5. /\ call'[t].head \in Mbufs /\ call'[t].m \in Mbufs /\ call'[t].src \in Mbufs
        /\ call'[t].pc = "more"
    BY <1>12
  <2>6. CloneInv(t)'
    BY <2>2, <2>3, <2>4, <2>5 DEF CloneInv, Segs, Ends
  <2> QED BY <2>1, <2>6 DEF CallInvOf
<1> QED BY <1>11, <1>15, <1>17, <1>19, <1>20, <1>22, <1>24, StepKeeps

-----------------------------------------------------------------------------
(* rte_pktmbuf_chain. *)

(* Packet a, of which t has the only reference: what its segments are. *)
LEMMA SolePacket ==
  ASSUME MbufInv, NEW t \in Threads, NEW a \in Mbufs, refs[t][a] = 1,
         \A s \in SegsOf(next, a) : refcnt[s] = 1
  PROVE  /\ a \in SegsOf(next, a)
         /\ \A s \in SegsOf(next, a) : s \in Mbufs /\ Held(s) = {Hold(t, a, 1)} /\ Private(t, s)
         /\ \A u \in Threads \ {t} : ~(refs[u][a] > 0)
<1>1. TypeOK /\ Exact /\ next \in Pointers /\ refs[t][a] > 0
  BY DEF MbufInv, TypeOK, Pointers
<1>2. a \in SegsOf(next, a) /\ \A s \in SegsOf(next, a) : s \in Mbufs
  BY <1>1, SegsStep
<1>3. ASSUME NEW s \in SegsOf(next, a) PROVE Held(s) = {Hold(t, a, 1)} /\ Private(t, s)
  <2>1. Hold(t, a, 1) \in Held(s)
    BY <1>1, HoldFirst DEF Segs
  <2>2. Claims(t, s)
    BY <1>1 DEF Claims, Segs
  <2> QED BY <2>1, <2>2, <1>1, <1>2, SoleRef, PrivateWhen
<1>4. ASSUME NEW u \in Threads \ {t}, refs[u][a] > 0 PROVE FALSE
  <2>1. Hold(u, a, 1) \in Held(a)
    BY <1>1, <1>2, <1>4, HoldFirst DEF Segs
  <2>2. Hold(u, a, 1) = Hold(t, a, 1)
    BY <2>1, <1>2, <1>3
  <2> QED BY <2>2, HoldSame
<1> QED BY <1>2, <1>3, <1>4

(* rte_pktmbuf_chain makes the segments of b segments of a: its references *)
(* go to a.                                                                *)
LEMMA ChainKeeps ==
  ASSUME MbufInv, NEW t \in Threads, NEW a \in Mbufs, NEW b \in Mbufs, Chain(t, a, b)
  PROVE  MbufInv'
<1> DEFINE A == SegsOf(next, a)
           B == SegsOf(next, b)
<1>0. /\ TypeOK /\ HeldInv /\ UNCHANGED <<pool, refcnt, direct, call>>
      /\ call[t].pc = "idle" /\ a # b /\ refs[t][a] = 1 /\ refs[t][b] = 1
      /\ \A s \in A : refcnt[s] = 1
      /\ \A s \in B : refcnt[s] = 1
      /\ nb_segs[a] + nb_segs[b] < SegLimit
      /\ nb_segs' = [nb_segs EXCEPT ![a] = (nb_segs[a] + nb_segs[b]) % SegLimit]
      /\ refs' = [refs EXCEPT ![t][b] = 0]
      /\ next \in Pointers
  BY DEF MbufInv, TypeOK, Chain, At, Pointers, SegsFit, Segs
<1>1. /\ \E s \in A : next[s] = NULL
      /\ nb_segs[a] = Cardinality(A) /\ nb_segs[b] = Cardinality(B) /\ A \cap B = {}
      /\ \E s \in B : next[s] = NULL
  BY <1>0 DEF HeldInv, Ends, Segs
<1>2. /\ a \in A
      /\ \A s \in A : s \in Mbufs /\ Held(s) = {Hold(t, a, 1)} /\ Private(t, s)
      /\ \A u \in Threads \ {t} : ~(refs[u][a] > 0)
  BY <1>0, SolePacket
<1>3. /\ b \in B
      /\ \A s \in B : s \in Mbufs /\ Held(s) = {Hold(t, b, 1)} /\ Private(t, s)
      /\ \A u \in Threads \ {t} : ~(refs[u][b] > 0)
  BY <1>0, SolePacket
<1>4. PICK e \in A : next[e] = NULL /\ next' = [next EXCEPT ![e] = b]
  <2> DEFINE last == CHOOSE s \in A : next[s] = NULL
  <2>1. last \in A /\ next[last] = NULL
    BY <1>1
  <2>2. next' = [next EXCEPT ![last] = b]
    BY DEF Chain, Segs
  <2> QED BY <2>1, <2>2
<1>5. next' \in Pointers /\ next'[e] = b /\ \A x \in Mbufs \ {e} : next'[x] = next[x]
  BY <1>0, <1>2, <1>4 DEF Pointers
<1>6. SegsOf(next', a) = A \cup B
  <2>1. e \in SegsOf(next, a) /\ e \notin SegsOf(next, b)
    BY <1>1
  <2>2. next \in Pointers /\ next[e] = NULL
    BY <1>0, <1>4
  <2>3. SegsOf(next', a) = SegsOf(next, a) \cup SegsOf(next, b)
    BY <2>1, <2>2, <1>5, SegsAppend
  <2> QED BY <2>3
<1>7. /\ (nb_segs[a] + nb_segs[b]) % SegLimit = nb_segs[a] + nb_segs[b]
      /\ nb_segs[a] + nb_segs[b] \in Nat
  <2>1. nb_segs[a] \in Nat /\ nb_segs[b] \in Nat
    BY <1>0 DEF TypeOK
  <2>2. nb_segs[a] + nb_segs[b] < SegLimit
    BY <1>0
  <2> QED BY <2>1, <2>2, MbufAssumption
<1>8. nb_segs'[a] = nb_segs[a] + nb_segs[b] /\ \A z \in Mbufs \ {a} : nb_segs'[z] = nb_segs[z]
  BY <1>0, <1>7 DEF TypeOK
<1>9. \A u \in Threads, q \in Mbufs : refs'[u][q] = IF u = t /\ q = b THEN 0 ELSE refs[u][q]
  BY <1>0 DEF TypeOK
<1>10. TypeOK'
  <2>1. 0 \in 0..MaxHolds
    BY MbufAssumption
  <2>2. nb_segs' \in [Mbufs -> Nat] /\ refs' \in [Threads -> [Mbufs -> 0..MaxHolds]]
    BY <2>1, <1>0, <1>7 DEF TypeOK
  <2> QED BY <2>2, <1>0, <1>5 DEF TypeOK, Pointers
<1> HIDE DEF A, B
<1>11. ASSUME NEW u \in Threads, NEW q \in Mbufs \ {a, b}, refs[u][q] > 0
       PROVE  /\ SegsOf(next', q) = SegsOf(next, q)
              /\ \A s \in SegsOf(next, q) : s \notin A /\ s \notin B /\ next'[s] = next[s]
  <2>1. SegsOf(next, q) \cap A = {} /\ SegsOf(next, q) \cap B = {}
    BY <1>0, <1>11 DEF HeldInv, Segs, A, B
  <2>2. \A s \in SegsOf(next, q) : s \in Mbufs
    BY <1>0, SegsStep
  <2>3. \A s \in SegsOf(next, q) : s \notin A /\ s \notin B /\ next'[s] = next[s]
    BY <2>1, <2>2, <1>4, <1>5
  <2> QED BY <2>3, <1>0, <1>5, SegsFrame
<1>12. ASSUME NEW u \in Threads, NEW q \in Mbufs, refs'[u][q] > 0
       PROVE  q # b /\ refs[u][q] > 0 /\ refs'[u][q] = refs[u][q]
  BY <1>3, <1>9, <1>12
<1>13. HeldInv'
  <2>1. \A u \in Threads, q \in Mbufs \ {a} :
          refs'[u][q] > 0 => /\ refs[u][q] > 0
                             /\ SegsOf(next', q) = SegsOf(next, q)
                             /\ \A s \in SegsOf(next, q) : next'[s] = next[s]
                             /\ nb_segs'[q] = nb_segs[q]
                             /\ SegsOf(next', a) \cap SegsOf(next, q) = {}
    BY <1>6, <1>8, <1>11, <1>12
  <2>2. \E s \in SegsOf(next', a) : next'[s] = NULL
    <3>1. PICK s \in B : next[s] = NULL
      BY <1>1
    <3>2. s # e /\ s \in Mbufs
      BY <3>1, <1>1, <1>3, <1>4
    <3> QED BY <3>1, <3>2, <1>5, <1>6
  <2>3. nb_segs'[a] = Cardinality(SegsOf(next', a))
    <3>1. IsFiniteSet(A) /\ IsFiniteSet(B) /\ Cardinality(A) \in Nat /\ Cardinality(B) \in Nat
      BY SegsFinite DEF A, B
    <3>2. Cardinality(A \cup B) = Cardinality(A) + Cardinality(B) - Cardinality(A \cap B)
      BY <3>1, FS_Union
    <3>3. Cardinality(A \cap B) = 0
      BY <1>1, FS_EmptySet
    <3> QED BY <3>1, <3>2, <3>3, <1>1, <1>6, <1>8
  <2>4. nb_segs'[a] < SegLimit
    BY <1>0, <1>8
  <2> QED BY <2>1, <2>2, <2>3, <2>4, <1>0, HeldInvBut
<1>14. ASSUME NEW z \in Mbufs PROVE Cardinality(Held(z)') = Cardinality(Held(z))
  <2>1. \A u, q, i : Hold(u, q, i) \in Held(z)' <=>
           /\ u \in Threads /\ q \in Mbufs /\ i \in 1..MaxHolds
           /\ i <= refs'[u][q] /\ z \in SegsOf(next', q)
    BY DEF Held, Hold, Segs
  <2>2. \A h \in Held(z)' : \E u \in Threads, q \in Mbufs, i \in 1..MaxHolds : h = Hold(u, q, i)
    BY DEF Held, Hold
  <2>3. \A u, q, i, y : Hold(u, q, i) \in Held(y) <=>
           /\ u \in Threads /\ q \in Mbufs /\ i \in 1..MaxHolds
           /\ i <= refs[u][q] /\ y \in SegsOf(next, q)
    BY HeldIs DEF Segs
  <2>4. \A h \in Held(z) : \E u \in Threads, q \in Mbufs, i \in 1..MaxHolds : h = Hold(u, q, i)
    BY HeldIs
  <2>5. \A u \in Threads, q \in Mbufs, i \in 1..MaxHolds : i <= refs[u][q] => refs[u][q] > 0
    BY <1>0, MbufAssumption DEF TypeOK
  <2>6. \A u \in Threads, q \in Mbufs, i \in 1..MaxHolds :
          i <= refs'[u][q] <=> i <= refs[u][q] /\ q # b
    <3>1. \A u \in Threads, q \in Mbufs, i \in 1..MaxHolds : i <= refs'[u][q] => refs'[u][q] > 0
      BY <1>10, MbufAssumption DEF TypeOK
    <3>2. ASSUME NEW u \in Threads, NEW q \in Mbufs, NEW i \in 1..MaxHolds, i <= refs[u][q], q # b
          PROVE  i <= refs'[u][q]
      BY <3>2, <1>9
    <3> QED BY <3>1, <3>2, <1>12
  <2>7. CASE z \in A \/ z \in B
    <3>1. Hold(t, a, 1) \in Held(z)'
      <4>1. z \in SegsOf(next', a)
        BY <2>7, <1>6
      <4>2. 1 \in 1..MaxHolds /\ 1 <= refs'[t][a]
        BY <1>0, <1>9, MbufAssumption
      <4> QED BY <4>1, <4>2, <2>1
    <3>2. ASSUME NEW u \in Threads, NEW q \in Mbufs, NEW i \in 1..MaxHolds, Hold(u, q, i) \in Held(z)'
          PROVE  Hold(u, q, i) = Hold(t, a, 1)
      <4>1. i <= refs[u][q] /\ q # b /\ z \in SegsOf(next', q) /\ refs[u][q] > 0
        BY <3>2, <2>1, <2>5, <2>6
      <4>2. CASE q = a
        <5>1. Hold(u, a, i) \in Held(a)
          BY <4>1, <4>2, <2>3, <1>2 DEF A
        <5> QED BY <5>1, <4>2, <1>2
      <4>3. CASE q # a
        BY <4>1, <4>3, <2>7, <1>11
      <4> QED BY <4>2, <4>3
    <3>3. Held(z)' = {Hold(t, a, 1)}
      BY <3>1, <3>2, <2>2
    <3>4. Cardinality(Held(z)') = 1
      BY <3>3, FS_Singleton
    <3>5. \E h : Held(z) = {h}
      BY <2>7, <1>2, <1>3
    <3>6. Cardinality(Held(z)) = 1
      BY <3>5, FS_Singleton
    <3> QED BY <3>4, <3>6
  <2>8. CASE z \notin A /\ z \notin B
    <3>1. ASSUME NEW u \in Threads, NEW q \in Mbufs, NEW i \in 1..MaxHolds
          PROVE  Hold(u, q, i) \in Held(z)' <=> Hold(u, q, i) \in Held(z)
      <4>1. CASE q = b
        BY <4>1, <2>1, <2>3, <2>6, <2>8 DEF B
      <4>2. CASE q = a
        BY <4>2, <2>1, <2>3, <2>8, <1>6 DEF A
      <4>3. CASE q # a /\ q # b
        <5>1. i <= refs[u][q] => SegsOf(next', q) = SegsOf(next, q)
          BY <4>3, <2>5, <1>11
        <5> QED BY <5>1, <4>3, <2>1, <2>3, <2>6
      <4> QED BY <4>1, <4>2, <4>3
    <3>2. \A h \in Held(z)' : h \in Held(z)
      BY <3>1, <2>2
    <3>3. \A h \in Held(z) : h \in Held(z)'
      BY <3>1, <2>4
    <3>4. Held(z)' = Held(z)
      BY <3>2, <3>3
    <3> QED BY <3>4
  <2> QED BY <2>7, <2>8
<1>15. StepOf(t)
  <2>1. \A u \in Threads \ {t} : call'[u] = call[u] /\ refs'[u] = refs[u]
    BY <1>0 DEF TypeOK
  <2>2. \A z \in Mbufs : \/ Private(t, z)
                         \/ /\ next'[z] = next[z] /\ direct'[z] = direct[z]
                            /\ nb_segs'[z] = nb_segs[z]
    BY <1>0, <1>2, <1>4, <1>5, <1>8
  <2> QED BY <2>1, <2>2, <1>0, StepOfWhen
<1>16. CallInvOf(t)' /\ CallSegs(t)' = CallSegs(t)
  BY <1>0 DEF CallInvOf, RetainInv, FreeInv, DetachInv, CloneInv, CallSegs
<1>17. \A u \in Threads, x \in Mbufs : Detaching(u, x)' <=> Detaching(u, x)
  BY <1>0 DEF Detaching
<1>18. PoolInv' /\ DirectInv'
  BY <1>0, <1>17 DEF MbufInv, PoolInv, DirectInv
<1>19. \A z \in Mbufs : Attached(z)' = Attached(z)
  BY <1>0, <1>15, <1>17, AttachedStays
<1>20. Exact'
  <2> SUFFICES ASSUME NEW z \in Mbufs
               PROVE  refcnt'[z] = Cardinality(Held(z)') + Cardinality(Working(z)')
                                     + Cardinality(Attached(z)')
    BY DEF Exact
  <2>1. refcnt[z] = Cardinality(Held(z)) + Cardinality(Working(z)) + Cardinality(Attached(z))
    BY DEF MbufInv, Exact
  <2>2. Cardinality(Working(z)') = Cardinality(Working(z))
    BY <1>10, <1>15, <1>16, WorkingIs
  <2> QED BY <2>1, <2>2, <1>0, <1>14, <1>19
<1> QED BY <1>10, <1>13, <1>15, <1>16, <1>18, <1>20, StepKeeps

-----------------------------------------------------------------------------
(* The invariant holds at the start: the pool is full. *)
LEMMA InitInv ==
  ASSUME Init PROVE MbufInv
<1>1. TypeOK
  <2>1. Idle \in CallType
    BY DEF Idle, CallType, Pcs
  <2>2. 0 \in 0..MaxHolds
    BY MbufAssumption
  <2> QED BY <2>1, <2>2 DEF Init, TypeOK
<1>2. /\ \A t \in Threads : call[t].pc = "idle"
      /\ \A t \in Threads, p \in Mbufs : refs[t][p] = 0
  BY DEF Init, Idle
<1>3. Exact
  <2> SUFFICES ASSUME NEW m \in Mbufs
               PROVE  refcnt[m] = Cardinality(Held(m)) + Cardinality(Working(m))
                                    + Cardinality(Attached(m))
    BY DEF Exact
  <2>1. Held(m) = {}
    <3>1. \A t \in Threads, p \in Mbufs, i \in 1..MaxHolds : ~(i <= refs[t][p])
      BY <1>2, MbufAssumption
    <3> QED BY <3>1, HeldIs
  <2>2. Working(m) = {}
    BY <1>2 DEF Working, CallSegs
  <2>3. Attached(m) = {}
    BY <1>2 DEF Init, Attached, Detaching
  <2>4. Cardinality({}) = 0
    BY FS_EmptySet
  <2> QED BY <2>1, <2>2, <2>3, <2>4 DEF Init
<1>4. PoolInv
  BY <1>2 DEF Init, PoolInv, Detaching
<1>5. HeldInv
  BY <1>2 DEF HeldInv
<1>6. DirectInv
  BY DEF Init, DirectInv
<1>7. CallInv
  BY <1>2 DEF CallInv, RetainInv, FreeInv, DetachInv, CloneInv
<1> QED BY <1>1, <1>3, <1>4, <1>5, <1>6, <1>7 DEF MbufInv

(* Every action keeps it. *)
LEMMA NextKeeps ==
  ASSUME MbufInv, Next, ~lost' PROVE MbufInv'
<1>1. PICK t \in Threads :
         \/ \E p \in Mbufs :
              \/ Alloc(t, p) \/ Retain(t, p) \/ Free(t, p)
              \/ \E u \in Threads : Send(t, u, p)
              \/ \E m \in Mbufs : Chain(t, p, m) \/ Clone(t, p, m)
         \/ Update(t)
  BY DEF Next
<1>2. ASSUME NEW p \in Mbufs, Alloc(t, p) \/ Retain(t, p) \/ Free(t, p) PROVE MbufInv'
  BY <1>2, AllocKeeps, RetainKeeps, FreeKeeps
<1>3. ASSUME NEW p \in Mbufs, NEW u \in Threads, Send(t, u, p) PROVE MbufInv'
  BY <1>3, SendKeeps
<1>4. ASSUME NEW p \in Mbufs, NEW m \in Mbufs, Chain(t, p, m) \/ Clone(t, p, m) PROVE MbufInv'
  BY <1>4, ChainKeeps, CloneKeeps
<1>5. CASE Update(t)
  <2>1. ASSUME RetainRead(t) \/ RetainAdd(t) \/ FreeRead(t) \/ FreeDrop(t) PROVE MbufInv'
    BY <2>1, RetainReadKeeps, RetainAddKeeps, FreeReadKeeps, FreeDropKeeps
  <2>2. ASSUME DetachRead(t) \/ DetachDrop(t) \/ AttachRead(t) \/ AttachJoin(t) PROVE MbufInv'
    BY <2>2, DetachReadKeeps, DetachDropKeeps, AttachReadKeeps, AttachJoinKeeps
  <2>3. ASSUME (\E m \in Mbufs : CloneNext(t, m)) \/ CloneDone(t) \/ CloneFails(t) PROVE MbufInv'
    BY <2>3, CloneNextKeeps, CloneDoneKeeps, CloneFailsKeeps
  <2> QED BY <1>5, <2>1, <2>2, <2>3 DEF Update
<1> QED BY <1>1, <1>2, <1>3, <1>4, <1>5

(* Nothing happens to it when nothing happens. *)
LEMMA StutterKeeps ==
  ASSUME MbufInv, UNCHANGED vars PROVE MbufInv'
<1>1. /\ pool' = pool /\ refcnt' = refcnt /\ next' = next /\ nb_segs' = nb_segs
      /\ direct' = direct /\ refs' = refs /\ call' = call
  BY DEF vars
<1>2. \A m : Segs(m)' = Segs(m)
  BY <1>1 DEF Segs
<1>3. \A t : CallSegs(t)' = CallSegs(t)
  BY <1>1, <1>2 DEF CallSegs
<1>4. \A t, x : Detaching(t, x)' <=> Detaching(t, x)
  BY <1>1 DEF Detaching
<1>5. \A m : Held(m)' = Held(m) /\ Working(m)' = Working(m) /\ Attached(m)' = Attached(m)
  BY <1>1, <1>2, <1>3, <1>4 DEF Held, Working, Attached
<1>6. TypeOK' /\ Exact'
  BY <1>1, <1>5 DEF MbufInv, TypeOK, Exact
<1>7. PoolInv' /\ DirectInv'
  BY <1>1, <1>4 DEF MbufInv, PoolInv, DirectInv
<1>8. HeldInv'
  BY <1>1, <1>2 DEF MbufInv, HeldInv, Ends
<1>9. CallInv'
  BY <1>1, <1>2 DEF MbufInv, CallInv, RetainInv, FreeInv, DetachInv, CloneInv, Ends
<1> QED BY <1>6, <1>7, <1>8, <1>9 DEF MbufInv

(* Once an update is lost, it stays lost. *)
LEMMA LostStays ==
  ASSUME lost, [Next]_vars PROVE lost'
<1>1. CASE UNCHANGED vars
  BY <1>1 DEF vars
<1>2. CASE Next
  <2>1. PICK t \in Threads :
           \/ \E p \in Mbufs :
                \/ Alloc(t, p) \/ Retain(t, p) \/ Free(t, p)
                \/ \E u \in Threads : Send(t, u, p)
                \/ \E m \in Mbufs : Chain(t, p, m) \/ Clone(t, p, m)
           \/ Update(t)
    BY <1>2 DEF Next
  <2>2. ASSUME NEW p \in Mbufs, Alloc(t, p) \/ Retain(t, p) \/ Free(t, p) PROVE lost'
    BY <2>2 DEF Alloc, TakeFromPool, Retain, Free
  <2>3. ASSUME NEW p \in Mbufs, NEW u \in Threads, Send(t, u, p) PROVE lost'
    BY <2>3 DEF Send
  <2>4. ASSUME NEW p \in Mbufs, NEW m \in Mbufs, Chain(t, p, m) \/ Clone(t, p, m) PROVE lost'
    BY <2>4 DEF Chain, Clone, TakeFromPool
  <2>5. CASE Update(t)
    <3>1. ASSUME RetainRead(t) \/ FreeRead(t) \/ DetachRead(t) \/ AttachRead(t) PROVE lost'
      BY <3>1 DEF RetainRead, FreeRead, DetachRead, AttachRead
    <3>2. ASSUME RetainAdd(t) \/ FreeDrop(t) \/ DetachDrop(t) \/ AttachJoin(t) PROVE lost'
      BY <3>2 DEF RetainAdd, FreeDrop, DetachDrop, AttachJoin
    <3>3. ASSUME (\E m \in Mbufs : CloneNext(t, m)) \/ CloneDone(t) \/ CloneFails(t) PROVE lost'
      BY <3>3 DEF CloneNext, TakeFromPool, CloneDone, CloneFails
    <3> QED BY <2>5, <3>1, <3>2, <3>3 DEF Update
  <2> QED BY <2>1, <2>2, <2>3, <2>4, <2>5
<1> QED BY <1>1, <1>2

(* The inductive invariant of Mbuf: it holds until an update is lost, for  *)
(* every use of the packets.                                               *)
THEOREM MbufInvariant ==
  Spec => [](~lost => MbufInv)
<1>1. Init => (~lost => MbufInv)
  BY InitInv
<1>2. ASSUME ~lost => MbufInv, [Next]_vars PROVE (~lost => MbufInv)'
  <2> SUFFICES ASSUME ~lost' PROVE MbufInv'
    OBVIOUS
  <2>1. MbufInv
    BY <1>2, LostStays
  <2>2. CASE Next
    BY <2>1, <2>2, NextKeeps
  <2>3. CASE UNCHANGED vars
    BY <2>1, <2>3, StutterKeeps
  <2> QED BY <1>2, <2>2, <2>3
<1> QED BY <1>1, <1>2, PTL DEF Spec

(* rte_mbuf_refcnt_update: until an update is lost, the count of every     *)
(* buffer is the number of references to it, whatever reads and stores of  *)
(* the threads interleave.                                                 *)
THEOREM CountsExact ==
  Spec => []RefcntExact
<1>1. (~lost => MbufInv) => RefcntExact
  BY DEF MbufInv, Exact, RefcntExact
<1> QED BY <1>1, MbufInvariant, PTL

(* rte_mbuf.h:665: the thread that read 1 in a retain, a free, a detach or *)
(* the clone of a direct segment is the only holder until its store. So    *)
(* only the clone of an indirect segment can be the first to overwrite an  *)
(* update.                                                                 *)
THEOREM StoreIsSafe ==
  Spec => []StoreSafe
<1>1. ASSUME ~lost => MbufInv PROVE StoreSafe
  <2> SUFFICES ASSUME ~lost, NEW t \in Threads, call[t].one
               PROVE  /\ call[t].pc \in {"add", "drop"} => refcnt[call[t].m] = 1
                      /\ call[t].pc = "undo" => refcnt[call[t].md] = 1
                      /\ call[t].pc = "join" /\ direct[call[t].src] = call[t].src
                           => refcnt[call[t].md] = 1
    BY DEF StoreSafe
  <2>1. RetainInv(t) /\ FreeInv(t) /\ DetachInv(t) /\ CloneInv(t)
    BY <1>1 DEF MbufInv, CallInv
  <2> QED BY <2>1 DEF RetainInv, FreeInv, DetachInv, CloneInv
<1> QED BY <1>1, MbufInvariant, PTL

(* Every buffer is freed, and once: until an update is lost, one without a *)
(* reference is in the pool or on its way there in the detach of one       *)
(* thread, one with a reference is not in the pool.                        *)
THEOREM EachFreedOnce ==
  Spec => []FreedOnce
<1>1. ASSUME ~lost => MbufInv PROVE FreedOnce
  <2> SUFFICES ASSUME ~lost, NEW m \in Mbufs, NEW D, D = {t \in Threads : Detaching(t, m)}
               PROVE  IF refcnt[m] = 0 THEN IF m \in pool THEN D = {} ELSE Cardinality(D) = 1
                                       ELSE m \notin pool
    BY DEF FreedOnce
  <2>1. PoolInv
    BY <1>1 DEF MbufInv
  <2>2. m \in pool => refcnt[m] = 0 /\ D = {}
    BY <2>1 DEF PoolInv
  <2>3. ASSUME m \notin pool, refcnt[m] = 0 PROVE Cardinality(D) = 1
    <3>1. PICK t \in Threads : Detaching(t, m)
      BY <2>1, <2>3 DEF PoolInv
    <3>2. D = {t}
      BY <3>1, <2>1 DEF PoolInv
    <3> QED BY <3>2, FS_Singleton
  <2> QED BY <2>2, <2>3
<1> QED BY <1>1, MbufInvariant, PTL

(* rte_mbuf_sanity_check: until an update is lost, the head of a held      *)
(* packet has the number of its segments, also after rte_pktmbuf_chain and *)
(* rte_pktmbuf_clone.                                                      *)
THEOREM HeadsCount ==
  Spec => []SegsCounted
<1>1. (~lost => MbufInv) => SegsCounted
  BY DEF MbufInv, HeldInv, SegsCounted
<1> QED BY <1>1, MbufInvariant, PTL
=============================================================================
