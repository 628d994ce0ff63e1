---------------------------- MODULE MempoolProofs ----------------------------
(***************************************************************************)
(* The memory pool for every number of threads, every pool and every cache *)
(* size: no object is lost or given out twice, no cache overflows, and a   *)
(* get of one object fails only when the pool is in use.                   *)
(***************************************************************************)
EXTENDS Mempool, FunctionTheorems, FiniteSetTheorems, SequenceTheorems,
        WellFoundedInduction, TLAPS

PcSet == {"idle", "spill", "enqueue", "publish", "direct", "backfill", "fill", "return"}
CallSet == [pc : PcSet, n : Nat, objs : Seq(Objs)]

TypeOK ==
  /\ mp \in [stack : BOOLEAN, cache_size : Nat] /\ mp.cache_size <= CacheMax
  /\ store \in Seq(Objs)
  /\ cache \in [Lcores -> Seq(Objs)]
  /\ held \in [Threads -> Seq(Objs)]
  /\ call \in [Threads -> CallSet]

(* Where a call is: what it carries, and what it knows of the cache. *)
CallOK(t) ==
  /\ call[t].pc \in {"idle", "spill", "direct", "backfill"} => call[t].objs = << >>
  /\ call[t].pc \in {"spill", "backfill", "fill"} => t \in Lcores /\ CacheSize # 0
  /\ call[t].pc \in {"backfill", "fill"} =>
       call[t].n < CacheSize /\ Len(cache[t]) < call[t].n
  /\ call[t].pc = "fill" => Len(call[t].objs) = call[t].n + (CacheSize - Len(cache[t]))

(* A cache is above its settled length only until the call that filled it  *)
(* spills.                                                                 *)
CacheOK(t) ==
  IF At(t, "spill")
  THEN FlushThresh <= Len(cache[t]) /\ Len(cache[t]) <= Settled + CacheMax
  ELSE Len(cache[t]) <= Settled

IndInv ==
  /\ TypeOK
  /\ \A t \in Threads : CallOK(t)
  /\ \A t \in Lcores : CacheOK(t)
  /\ OnePlace

-----------------------------------------------------------------------------
(* Sequences of objects: what a cut and a join do to the objects in them. *)

(* s is cut into u and v. *)
Cut(s, u, v) ==
  /\ u \in Seq(Objs) /\ v \in Seq(Objs)
  /\ Range(u) \cup Range(v) = Range(s)
  /\ IsInjective(s) => IsInjective(u) /\ IsInjective(v) /\ Range(u) \cap Range(v) = {}

(* The constants of a pool, without the bound on its size. *)
LEMMA Constants ==
  /\ CacheSizes \subseteq Nat /\ CacheMax \in Nat /\ MaxBulk \in Nat
  /\ IsFiniteSet(Threads) /\ Lcores \cap Others = {} /\ IsFiniteSet(Objs)
BY MempoolAssumption, SMT

(* The objects of a sequence are the values at its indexes. *)
LEMMA SeqFun ==
  ASSUME NEW s \in Seq(Objs)
  PROVE  /\ Len(s) \in Nat /\ DOMAIN s = 1..Len(s) /\ Range(s) \subseteq Objs
         /\ Range(s) = {s[i] : i \in 1..Len(s)}
         /\ \A i \in 1..Len(s) : s[i] \in Objs
<1>1. Len(s) \in Nat /\ DOMAIN s = 1..Len(s) /\ \A i \in 1..Len(s) : s[i] \in Objs
  BY LenProperties, ElementOfSeq
<1> QED BY <1>1 DEF Range

(* A part of a sequence, as sequence and as function. *)
LEMMA PartOf ==
  ASSUME NEW s \in Seq(Objs), NEW a \in Int, NEW b \in Int, 1 <= a, a <= b + 1, b <= Len(s)
  PROVE  /\ SubSeq(s, a, b) \in Seq(Objs) /\ Len(SubSeq(s, a, b)) = (b - a) + 1
         /\ \A i \in 1 .. (b - a) + 1 : SubSeq(s, a, b)[i] = s[(a + i) - 1]
         /\ Range(SubSeq(s, a, b)) = {s[i] : i \in a..b}
<1> DEFINE t == SubSeq(s, a, b)
           m == (b - a) + 1
<1>0. Len(s) \in Nat /\ \A i \in 1..Len(s) : s[i] \in Objs
  BY SeqFun
<1>1. \A i \in a..b : s[i] \in Objs
  BY <1>0
<1>2. /\ t \in Seq(Objs) /\ Len(t) = (IF a <= b THEN b - a + 1 ELSE 0)
      /\ \A i \in 1 .. b - a + 1 : t[i] = s[a + i - 1]
  BY <1>1, SubSeqProperties
<1>3. m \in Nat /\ (IF a <= b THEN b - a + 1 ELSE 0) = m /\ b - a + 1 = m
      /\ \A i \in 1..m : a + i - 1 = (a + i) - 1
  OBVIOUS
<1> HIDE DEF t
<1>4. t \in Seq(Objs) /\ Len(t) = m /\ \A i \in 1..m : t[i] = s[(a + i) - 1]
  BY <1>2, <1>3
<1>5. Range(t) = {t[i] : i \in 1..m}
  BY <1>4, SeqFun
<1>6. ASSUME NEW i \in a..b PROVE i - a + 1 \in 1..m /\ (a + (i - a + 1)) - 1 = i
  OBVIOUS
<1>7. \A i \in 1..m : (a + i) - 1 \in a..b
  OBVIOUS
<1> HIDE DEF m
<1>8. Range(t) \subseteq {s[i] : i \in a..b}
  BY <1>4, <1>5, <1>7
<1>9. ASSUME NEW i \in a..b PROVE s[i] \in Range(t)
  <2>1. t[i - a + 1] = s[i] /\ i - a + 1 \in 1..m
    BY <1>4, <1>6
  <2> QED BY <1>5, <2>1
<1>10. Range(t) = {s[i] : i \in a..b}
  BY <1>8, <1>9
<1> QED BY <1>4, <1>10 DEF t, m

(* Indexes of an injective sequence that hold the same object are equal. *)
LEMMA InjectiveSeq ==
  ASSUME NEW s \in Seq(Objs)
  PROVE  IsInjective(s) <=> \A i, j \in 1..Len(s) : s[i] = s[j] => i = j
BY SeqFun DEF IsInjective

(* Parts of an injective sequence are injective. *)
LEMMA PartInjective ==
  ASSUME NEW s \in Seq(Objs), IsInjective(s), NEW a \in Int, NEW b \in Int, 1 <= a, a <= b + 1,
         b <= Len(s)
  PROVE  IsInjective(SubSeq(s, a, b))
<1> DEFINE t == SubSeq(s, a, b)
           m == (b - a) + 1
<1>1. t \in Seq(Objs) /\ Len(t) = m /\ \A i \in 1..m : t[i] = s[(a + i) - 1]
  BY PartOf
<1>2. Len(s) \in Nat
  BY SeqFun
<1>3. \A i \in 1..m : (a + i) - 1 \in 1..Len(s)
  BY <1>2
<1>4. \A i, j \in 1..m : (a + i) - 1 = (a + j) - 1 => i = j
  OBVIOUS
<1>0. \A i, j \in 1..Len(s) : s[i] = s[j] => i = j
  BY InjectiveSeq
<1> HIDE DEF t, m
<1>5. ASSUME NEW i \in 1..m, NEW j \in 1..m, t[i] = t[j] PROVE i = j
  <2>1. s[(a + i) - 1] = s[(a + j) - 1]
    BY <1>1, <1>5
  <2>2. (a + i) - 1 = (a + j) - 1
    BY <1>0, <1>3, <2>1
  <2> QED BY <1>4, <2>2
<1>6. IsInjective(t)
  BY <1>1, <1>5, InjectiveSeq
<1> QED BY <1>6 DEF t

(* Take and Drop at the same place cut a sequence in two. *)
LEMMA TakeDrop ==
  ASSUME NEW s \in Seq(Objs), NEW n \in Nat, n <= Len(s)
  PROVE  /\ Cut(s, Take(s, n), Drop(s, n))
         /\ Len(Take(s, n)) = n /\ Len(Drop(s, n)) = Len(s) - n
<1> DEFINE u == SubSeq(s, 1, n)
           v == SubSeq(s, n + 1, Len(s))
<1>0. Len(s) \in Nat /\ Range(s) = {s[i] : i \in 1..Len(s)}
  BY SeqFun
<1>1. u \in Seq(Objs) /\ Len(u) = (n - 1) + 1 /\ Range(u) = {s[i] : i \in 1..n}
  BY <1>0, PartOf
<1>2. v \in Seq(Objs) /\ Len(v) = (Len(s) - (n + 1)) + 1 /\ Range(v) = {s[i] : i \in n + 1 .. Len(s)}
  BY <1>0, PartOf
<1>3. (n - 1) + 1 = n /\ (Len(s) - (n + 1)) + 1 = Len(s) - n
  BY <1>0
<1>4. \A i : i \in 1..Len(s) <=> i \in 1..n \/ i \in n + 1 .. Len(s)
  BY <1>0
<1>5. IsInjective(s) => IsInjective(u) /\ IsInjective(v)
  <2>1. 1 <= n + 1 /\ n + 1 \in Int /\ n + 1 <= Len(s) + 1 /\ 1 \in Int /\ 1 <= 1
    BY <1>0
  <2>2. IsInjective(s) => IsInjective(u)
    BY <2>1, PartInjective
  <2>3. IsInjective(s) => IsInjective(v)
    BY <1>0, <2>1, PartInjective
  <2> QED BY <2>2, <2>3
<1>6. IsInjective(s) => Range(u) \cap Range(v) = {}
  <2>1. \A i \in 1..n, j \in n + 1 .. Len(s) : i # j
    BY <1>0
  <2> QED BY <1>1, <1>2, <1>4, <2>1, InjectiveSeq
<1>7. Range(u) \cup Range(v) = Range(s)
  BY <1>0, <1>1, <1>2, <1>4
<1> QED BY <1>1, <1>2, <1>3, <1>5, <1>6, <1>7 DEF Cut, Take, Drop

(* Last takes the objects that Take leaves, in reverse. *)
LEMMA TakeLast ==
  ASSUME NEW s \in Seq(Objs), NEW n \in Nat, n <= Len(s)
  PROVE  /\ Cut(s, Take(s, Len(s) - n), Last(s, n))
         /\ Len(Take(s, Len(s) - n)) = Len(s) - n /\ Len(Last(s, n)) = n
<1> DEFINE k == Len(s) - n
           u == Take(s, k)
           v == Last(s, n)
<1>0. Len(s) \in Nat /\ Range(s) = {s[i] : i \in 1..Len(s)} /\ \A i \in 1..Len(s) : s[i] \in Objs
  BY SeqFun
<1>1. k \in Nat /\ k <= Len(s)
  BY <1>0
<1>2. u \in Seq(Objs) /\ Len(u) = k /\ (IsInjective(s) => IsInjective(u))
  BY <1>1, TakeDrop DEF Cut
<1>3. Range(u) = {s[i] : i \in 1..k}
  BY <1>0, <1>1, PartOf DEF Take
<1>4. \A i \in 1..n : Len(s) + 1 - i \in 1..Len(s) /\ Len(s) + 1 - i \notin 1..k
  BY <1>0
<1>5. v \in [1..n -> Objs] /\ \A i \in 1..n : v[i] = s[Len(s) + 1 - i]
  BY <1>0, <1>4 DEF Last
<1> HIDE DEF u, v
<1>6. v \in Seq(Objs) /\ Len(v) = n
  BY <1>5
<1>7. Range(v) = {s[Len(s) + 1 - i] : i \in 1..n}
  BY <1>5, <1>6, SeqFun
<1>8. ASSUME NEW i \in 1..Len(s) PROVE i \in 1..k \/ (Len(s) + 1 - i \in 1..n /\ Len(s) + 1 - (Len(s) + 1 - i) = i)
  BY <1>0
<1>9. \A i \in 1..k : i \in 1..Len(s)
  BY <1>0
<1> HIDE DEF k
<1>10. Range(u) \cup Range(v) = Range(s)
  <2>1. \A o \in Range(s) : o \in Range(u) \cup Range(v)
    BY <1>0, <1>3, <1>7, <1>8
  <2>2. \A o \in Range(u) : o \in Range(s)
    BY <1>0, <1>3, <1>9
  <2>3. \A o \in Range(v) : o \in Range(s)
    BY <1>0, <1>4, <1>7
  <2> QED BY <2>1, <2>2, <2>3
<1>11. ASSUME IsInjective(s) PROVE IsInjective(v) /\ Range(u) \cap Range(v) = {}
  <2>1. \A i, j \in 1..Len(s) : s[i] = s[j] => i = j
    BY <1>11, InjectiveSeq
  <2>2. \A i, j \in 1..n : Len(s) + 1 - i = Len(s) + 1 - j => i = j
    BY <1>0
  <2>3. \A i, j \in 1..n : v[i] = v[j] => i = j
    BY <1>4, <1>5, <2>1, <2>2
  <2>4. IsInjective(v)
    BY <1>6, <2>3, InjectiveSeq
  <2>5. ASSUME NEW i \in 1..k, NEW j \in 1..n PROVE s[i] # s[Len(s) + 1 - j]
    BY <1>4, <1>9, <2>1
  <2>6. Range(u) \cap Range(v) = {}
    BY <1>3, <1>7, <2>5
  <2> QED BY <2>4, <2>6
<1> QED BY <1>2, <1>6, <1>10, <1>11 DEF Cut, u, v, k

(* Joining two sequences joins their objects. *)
LEMMA JoinSeq ==
  ASSUME NEW u \in Seq(Objs), NEW v \in Seq(Objs)
  PROVE  /\ u \o v \in Seq(Objs) /\ Len(u \o v) = Len(u) + Len(v)
         /\ Range(u \o v) = Range(u) \cup Range(v)
         /\ IsInjective(u) /\ IsInjective(v) /\ Range(u) \cap Range(v) = {} => IsInjective(u \o v)
<1> DEFINE w == u \o v
           a == Len(u)
           b == Len(v)
<1>1. a \in Nat /\ b \in Nat /\ Range(u) = {u[i] : i \in 1..a} /\ Range(v) = {v[i] : i \in 1..b}
  BY SeqFun
<1>2. /\ w \in Seq(Objs) /\ Len(w) = a + b
      /\ \A i \in 1 .. a + b : w[i] = IF i <= a THEN u[i] ELSE v[i - a]
  BY ConcatProperties, Zenon
<1> HIDE DEF w
<1>3. Range(w) = {w[i] : i \in 1 .. a + b}
  BY <1>2, SeqFun
<1> HIDE DEF a, b
<1>4. \A i \in 1..a : i \in 1 .. a + b /\ w[i] = u[i]
  BY <1>1, <1>2
<1>5. ASSUME NEW i \in 1..b PROVE a + i \in 1 .. a + b /\ w[a + i] = v[i]
  <2>1. a + i \in 1 .. a + b /\ ~(a + i <= a) /\ (a + i) - a = i
    BY <1>1
  <2> QED BY <1>2, <2>1
<1>6. ASSUME NEW i \in 1 .. a + b, ~(i \in 1..a) PROVE i - a \in 1..b /\ w[i] = v[i - a]
  <2>1. i - a \in 1..b /\ ~(i <= a)
    BY <1>1, <1>6
  <2> QED BY <1>2, <2>1
<1>7. Range(w) = Range(u) \cup Range(v)
  <2>1. \A o \in Range(u) : o \in Range(w)
    BY <1>1, <1>3, <1>4
  <2>2. \A o \in Range(v) : o \in Range(w)
    BY <1>1, <1>3, <1>5
  <2>3. \A o \in Range(w) : o \in Range(u) \cup Range(v)
    BY <1>1, <1>3, <1>4, <1>6
  <2> QED BY <2>1, <2>2, <2>3
<1>8. ASSUME IsInjective(u), IsInjective(v), Range(u) \cap Range(v) = {} PROVE IsInjective(w)
  <2>1. \A i, j \in 1..a : u[i] = u[j] => i = j
    BY <1>8, InjectiveSeq DEF a
  <2>2. \A i, j \in 1..b : v[i] = v[j] => i = j
    BY <1>8, InjectiveSeq DEF b
  <2>3. \A i \in 1..a, j \in 1..b : u[i] # v[j]
    BY <1>1, <1>8
  <2>4. ASSUME NEW i \in 1 .. a + b, NEW j \in 1 .. a + b, w[i] = w[j] PROVE i = j
    <3>1. CASE i \in 1..a /\ j \in 1..a
      BY <1>4, <2>1, <2>4, <3>1
    <3>2. CASE i \in 1..a /\ ~(j \in 1..a)
      BY <1>4, <1>6, <2>3, <2>4, <3>2
    <3>3. CASE ~(i \in 1..a) /\ j \in 1..a
      BY <1>4, <1>6, <2>3, <2>4, <3>3
    <3>4. CASE ~(i \in 1..a) /\ ~(j \in 1..a)
      <4>1. i - a = j - a
        BY <1>6, <2>2, <2>4, <3>4
      <4> QED BY <1>1, <4>1
    <3> QED BY <3>1, <3>2, <3>3, <3>4
  <2> QED BY <1>2, <2>4, InjectiveSeq
<1> QED BY <1>2, <1>7, <1>8 DEF w, a, b

-----------------------------------------------------------------------------
(* Where the objects are. *)

(* Each object is at one place of f, once. *)
AllOnce(f) ==
  /\ \A x \in Places : IsInjective(f[x])
  /\ \A x, y \in Places : x # y => Range(f[x]) \cap Range(f[y]) = {}
  /\ \A o \in Objs : \E x \in Places : o \in Range(f[x])

(* Objects that move from the end of one place to the end of another are   *)
(* still at one place each.                                                *)
LEMMA Moved ==
  ASSUME NEW f, NEW g, NEW a \in Places, NEW b \in Places, a # b, AllOnce(f),
         f[a] \in Seq(Objs), f[b] \in Seq(Objs), NEW u, NEW v, Cut(f[a], u, v),
         g[a] = u, g[b] = f[b] \o v, \A x \in Places : x # a /\ x # b => g[x] = f[x]
  PROVE  AllOnce(g)
<1>1. /\ u \in Seq(Objs) /\ v \in Seq(Objs) /\ Range(u) \cup Range(v) = Range(f[a])
      /\ IsInjective(u) /\ IsInjective(v) /\ Range(u) \cap Range(v) = {}
  BY DEF Cut, AllOnce
<1>2. Range(f[a]) \cap Range(f[b]) = {} /\ IsInjective(f[b])
  BY DEF AllOnce
<1>3. Range(f[b]) \cap Range(v) = {}
  BY <1>1, <1>2
<1>4. Range(g[b]) = Range(f[b]) \cup Range(v) /\ IsInjective(g[b])
  BY <1>1, <1>2, <1>3, JoinSeq
<1>5. \A x \in Places : IsInjective(g[x])
  BY <1>1, <1>4 DEF AllOnce
<1>6. ASSUME NEW x \in Places, NEW y \in Places, x # y
      PROVE  Range(g[x]) \cap Range(g[y]) = {}
  <2>0. \A z, w \in Places : z # w => Range(f[z]) \cap Range(f[w]) = {}
    BY DEF AllOnce
  <2>1. CASE x = a /\ y = b
    BY <1>1, <1>2, <1>4, <2>1
  <2>2. CASE x = b /\ y = a
    BY <1>1, <1>2, <1>4, <2>2
  <2>3. CASE x = a /\ y # b
    <3>1. g[y] = f[y] /\ Range(f[a]) \cap Range(f[y]) = {}
      BY <1>6, <2>0, <2>3
    <3> QED BY <1>1, <2>3, <3>1
  <2>4. CASE y = a /\ x # b
    <3>1. g[x] = f[x] /\ Range(f[a]) \cap Range(f[x]) = {}
      BY <1>6, <2>0, <2>4
    <3> QED BY <1>1, <2>4, <3>1
  <2>5. CASE x = b /\ y # a
    <3>1. g[y] = f[y] /\ Range(f[a]) \cap Range(f[y]) = {} /\ Range(f[b]) \cap Range(f[y]) = {}
      BY <1>6, <2>0, <2>5
    <3> QED BY <1>1, <1>4, <2>5, <3>1
  <2>6. CASE y = b /\ x # a
    <3>1. g[x] = f[x] /\ Range(f[a]) \cap Range(f[x]) = {} /\ Range(f[b]) \cap Range(f[x]) = {}
      BY <1>6, <2>0, <2>6
    <3> QED BY <1>1, <1>4, <2>6, <3>1
  <2>7. CASE x # a /\ x # b /\ y # a /\ y # b
    BY <1>6, <2>0, <2>7
  <2> QED BY <2>1, <2>2, <2>3, <2>4, <2>5, <2>6, <2>7
<1>7. ASSUME NEW o \in Objs PROVE \E x \in Places : o \in Range(g[x])
  <2>1. PICK x \in Places : o \in Range(f[x])
    BY DEF AllOnce
  <2>2. CASE x = a
    BY <1>1, <1>4, <2>1, <2>2
  <2>3. CASE x = b
    BY <1>4, <2>1, <2>3
  <2>4. CASE x # a /\ x # b
    BY <2>1, <2>4
  <2> QED BY <2>2, <2>3, <2>4
<1> QED BY <1>5, <1>6, <1>7 DEF AllOnce

(* The places, before and after a step. *)
LEMMA PlaceOf ==
  /\ Store \in Places
  /\ \A t \in Lcores : <<"cache", t>> \in Places
  /\ \A t \in Threads : <<"held", t>> \in Places /\ <<"call", t>> \in Places
  /\ \A x \in Places : \/ x = Store
                       \/ \E t \in Lcores : x = <<"cache", t>>
                       \/ \E t \in Threads : x = <<"held", t>> \/ x = <<"call", t>>
  /\ \A t, u : /\ <<"cache", t>> # <<"held", u>> /\ <<"cache", t>> # <<"call", u>>
               /\ <<"held", t>> # <<"call", u>>
               /\ Store # <<"cache", t>> /\ Store # <<"held", t>> /\ Store # <<"call", t>>
BY DEF Places, Store

(* What is at each place, before and after a step. *)
LEMMA WhereIs ==
  /\ Where[Store] = store /\ Where'[Store] = store'
  /\ \A t \in Lcores : Where[<<"cache", t>>] = cache[t] /\ Where'[<<"cache", t>>] = cache'[t]
  /\ \A t \in Threads : /\ Where[<<"held", t>>] = held[t] /\ Where'[<<"held", t>>] = held'[t]
                        /\ Where[<<"call", t>>] = call[t].objs
                        /\ Where'[<<"call", t>>] = call'[t].objs
<1>1. Where[Store] = store /\ Where'[Store] = store'
  BY PlaceOf DEF Where, Store
<1>2. ASSUME NEW t \in Lcores
      PROVE  Where[<<"cache", t>>] = cache[t] /\ Where'[<<"cache", t>>] = cache'[t]
  BY PlaceOf DEF Where
<1>3. ASSUME NEW t \in Threads
      PROVE  Where[<<"held", t>>] = held[t] /\ Where'[<<"held", t>>] = held'[t]
  BY PlaceOf DEF Where
<1>4. ASSUME NEW t \in Threads
      PROVE  Where[<<"call", t>>] = call[t].objs /\ Where'[<<"call", t>>] = call'[t].objs
  BY PlaceOf DEF Where
<1> QED BY <1>1, <1>2, <1>3, <1>4

(* The property is about the contents of the places. *)
LEMMA OnceIsAllOnce == (OnePlace <=> AllOnce(Where)) /\ (OnePlace' <=> AllOnce(Where'))
BY DEF OnePlace, AllOnce

(* A step that moves objects from one place to another. *)
LEMMA MoveStep ==
  ASSUME TypeOK, OnePlace, NEW a \in Places, NEW b \in Places, a # b, NEW u, NEW v,
         Cut(Where[a], u, v), Where'[a] = u, Where'[b] = Where[b] \o v,
         Store \in {a, b} \/ store' = store,
         \A s \in Lcores : <<"cache", s>> \in {a, b} \/ cache'[s] = cache[s],
         \A s \in Threads : <<"held", s>> \in {a, b} \/ held'[s] = held[s],
         \A s \in Threads : <<"call", s>> \in {a, b} \/ call'[s].objs = call[s].objs
  PROVE  OnePlace'
<1>1. ASSUME NEW x \in Places PROVE Where[x] \in Seq(Objs)
  <2>1. CASE x = Store
    BY <2>1, WhereIs DEF TypeOK
  <2>2. ASSUME NEW s \in Lcores, x = <<"cache", s>> PROVE Where[x] \in Seq(Objs)
    BY <2>2, WhereIs DEF TypeOK
  <2>3. ASSUME NEW s \in Threads, x = <<"held", s>> PROVE Where[x] \in Seq(Objs)
    BY <2>3, WhereIs DEF TypeOK
  <2>4. ASSUME NEW s \in Threads, x = <<"call", s>> PROVE Where[x] \in Seq(Objs)
    BY <2>4, WhereIs DEF TypeOK, CallSet
  <2> QED BY <2>1, <2>2, <2>3, <2>4, PlaceOf
<1>2. ASSUME NEW x \in Places, x # a, x # b PROVE Where'[x] = Where[x]
  <2>1. CASE x = Store
    BY <1>2, <2>1, WhereIs
  <2>2. ASSUME NEW s \in Lcores, x = <<"cache", s>> PROVE Where'[x] = Where[x]
    BY <1>2, <2>2, WhereIs
  <2>3. ASSUME NEW s \in Threads, x = <<"held", s>> PROVE Where'[x] = Where[x]
    BY <1>2, <2>3, WhereIs
  <2>4. ASSUME NEW s \in Threads, x = <<"call", s>> PROVE Where'[x] = Where[x]
    BY <1>2, <2>4, WhereIs
  <2> QED BY <2>1, <2>2, <2>3, <2>4, PlaceOf
<1>3. Where[a] \in Seq(Objs) /\ Where[b] \in Seq(Objs) /\ AllOnce(Where)
  BY <1>1, OnceIsAllOnce
<1>4. AllOnce(Where')
  BY <1>2, <1>3, Moved
<1> QED BY <1>4, OnceIsAllOnce

(* A step that moves no object. *)
LEMMA NoMove ==
  ASSUME OnePlace, UNCHANGED <<store, cache, held>>, \A s \in Threads : call'[s].objs = call[s].objs
  PROVE  OnePlace'
<1>1. ASSUME NEW x \in Places PROVE Where'[x] = Where[x]
  <2>1. CASE x = Store
    BY <2>1, WhereIs
  <2>2. ASSUME NEW s \in Lcores, x = <<"cache", s>> PROVE Where'[x] = Where[x]
    BY <2>2, WhereIs
  <2>3. ASSUME NEW s \in Threads, x = <<"held", s>> PROVE Where'[x] = Where[x]
    BY <2>3, WhereIs
  <2>4. ASSUME NEW s \in Threads, x = <<"call", s>> PROVE Where'[x] = Where[x]
    BY <2>4, WhereIs
  <2> QED BY <2>1, <2>2, <2>3, <2>4, PlaceOf
<1> QED BY <1>1 DEF OnePlace

(* The pieces of a cut in either order. *)
LEMMA CutOther ==
  ASSUME NEW s \in Seq(Objs), NEW u, NEW v, Cut(s, u, v)
  PROVE  Cut(s, v, u)
BY DEF Cut

(* The cut that leaves nothing, and what a join with nothing is. *)
LEMMA CutAll ==
  ASSUME NEW s \in Seq(Objs)
  PROVE  Cut(s, << >>, s) /\ << >> \o s = s /\ << >> \in Seq(Objs) /\ Len(<< >>) = 0
<1>1. << >> \in Seq(Objs) /\ Len(<< >>) = 0 /\ << >> \o s = s
  BY ConcatEmptySeq, EmptySeq
<1>2. Range(<< >>) = {}
  <2>1. \A i \in 1..0 : FALSE
    OBVIOUS
  <2>2. Range(<< >>) = {<< >>[i] : i \in 1..0}
    BY <1>1, SeqFun
  <2> QED BY <2>1, <2>2
<1>3. IsInjective(<< >>)
  <2>1. \A i \in 1..0 : FALSE
    OBVIOUS
  <2> QED BY <1>1, <2>1, InjectiveSeq
<1> QED BY <1>1, <1>2, <1>3 DEF Cut

(* The sizes the code compares lengths with. *)
LEMMA Sizes ==
  ASSUME TypeOK
  PROVE  /\ CacheSize \in Nat /\ CacheSize <= CacheMax /\ CacheMax \in Nat
         /\ FlushThresh \in Nat /\ CacheSize <= FlushThresh
         /\ Settled \in Nat /\ CacheSize <= Settled /\ Settled <= 2 * CacheMax
         /\ CacheSize # 0 => FlushThresh <= Settled + 1
<1>1. CacheSize \in Nat /\ CacheSize <= CacheMax /\ CacheMax \in Nat
  BY Constants DEF TypeOK, CacheSize
<1> DEFINE c == CacheSize
           h == (3 * c) \div 2
<1>2. h \in Int /\ 2 * h <= 3 * c /\ 3 * c <= 2 * h + 1
  BY <1>1
<1>3. FlushThresh = h /\ Settled = IF c > 1 THEN h - 1 ELSE c
  BY DEF FlushThresh, Settled
<1> HIDE DEF h, c
<1>4. c \in Nat /\ c <= CacheMax
  BY <1>1 DEF c
<1>5. /\ h \in Nat /\ c <= h /\ h <= 2 * c
      /\ c > 1 => h - 1 \in Nat /\ c <= h - 1
      /\ ~(c > 1) => h <= c + 1
  BY <1>2, <1>4
<1>6. CASE c > 1
  <2>1. Settled = h - 1
    BY <1>3, <1>6
  <2> HIDE DEF FlushThresh, Settled
  <2> QED BY <1>1, <1>3, <1>4, <1>5, <1>6, <2>1 DEF c
<1>7. CASE ~(c > 1)
  <2>1. Settled = c
    BY <1>3, <1>7
  <2> QED BY <1>1, <1>3, <1>4, <1>5, <1>7, <2>1 DEF c
<1> QED BY <1>6, <1>7

(* What the step of one thread leaves of the invariant for the others. *)
LEMMA OthersKept ==
  ASSUME IndInv, NEW t \in Threads, mp' = mp, TypeOK', OnePlace',
         \A u \in Threads : u # t => call'[u] = call[u],
         \A u \in Lcores : u # t => cache'[u] = cache[u],
         CallOK(t)', t \in Lcores => CacheOK(t)'
  PROVE  IndInv'
<1>0. Lcores \subseteq Threads /\ CacheSize' = CacheSize /\ FlushThresh' = FlushThresh /\ Settled' = Settled
  BY DEF Threads, CacheSize, FlushThresh, Settled
<1>1. ASSUME NEW u \in Threads PROVE CallOK(u)'
  <2>1. CASE u = t
    BY <2>1
  <2>2. CASE u # t
    BY <1>0, <2>2 DEF IndInv, CallOK
  <2> QED BY <2>1, <2>2
<1>2. ASSUME NEW u \in Lcores PROVE CacheOK(u)'
  <2>1. CASE u = t
    BY <2>1
  <2>2. CASE u # t
    BY <1>0, <2>2 DEF IndInv, CacheOK, At
  <2> QED BY <2>1, <2>2
<1> QED BY <1>1, <1>2 DEF IndInv

-----------------------------------------------------------------------------
(* The steps of a put. *)

(* The objects go from the caller to the call, which takes them to the     *)
(* store.                                                                  *)
LEMMA PutPast ==
  ASSUME IndInv, NEW t \in Threads, NEW n \in Nat, Put(t, n), PutPassesCache(t, n)
  PROVE  IndInv'
<1> DEFINE h == held[t]
           r == [pc |-> "enqueue", n |-> n, objs |-> Take(h, n)]
<1>1. /\ TypeOK /\ OnePlace /\ h \in Seq(Objs) /\ n <= Len(h) /\ call[t].pc = "idle"
      /\ call[t].objs = << >> /\ UNCHANGED <<mp, store, cache>>
      /\ held' = [held EXCEPT ![t] = Drop(h, n)] /\ call' = [call EXCEPT ![t] = r]
  BY DEF IndInv, TypeOK, CallOK, Put, At
<1>2. Cut(h, Drop(h, n), Take(h, n)) /\ Take(h, n) \in Seq(Objs) /\ Drop(h, n) \in Seq(Objs)
  BY <1>1, TakeDrop, CutOther DEF Cut
<1>3. r \in CallSet /\ r.objs = Take(h, n) /\ r.pc = "enqueue"
  BY <1>2 DEF CallSet, PcSet
<1> HIDE DEF r, h
<1>4. /\ held'[t] = Drop(h, n) /\ call'[t] = r
      /\ \A u \in Threads : u # t => held'[u] = held[u] /\ call'[u] = call[u]
      /\ TypeOK'
  BY <1>1, <1>2, <1>3 DEF TypeOK
<1>5. OnePlace'
  <2> DEFINE a == <<"held", t>>
             b == <<"call", t>>
  <2>1. a \in Places /\ b \in Places /\ a # b
    BY PlaceOf
  <2>2. Where[a] = h /\ Where'[a] = Drop(h, n) /\ Where[b] = << >> /\ Where'[b] = Take(h, n)
    BY <1>1, <1>3, <1>4, WhereIs DEF h
  <2>3. Where'[b] = Where[b] \o Take(h, n)
    BY <1>2, <2>2, CutAll
  <2>4. \A s \in Threads : /\ <<"held", s>> \in {a, b} \/ held'[s] = held[s]
                           /\ <<"call", s>> \in {a, b} \/ call'[s].objs = call[s].objs
    BY <1>4
  <2> HIDE DEF a, b
  <2> QED BY <1>1, <1>2, <2>1, <2>2, <2>3, <2>4, MoveStep
<1>6. CallOK(t)' /\ (t \in Lcores => CacheOK(t)')
  <2>1. CallOK(t)'
    BY <1>3, <1>4 DEF CallOK
  <2>2. t \in Lcores => CacheOK(t)'
    BY <1>1, <1>3, <1>4 DEF IndInv, CacheOK, At, FlushThresh, Settled, CacheSize
  <2> QED BY <2>1, <2>2
<1> QED BY <1>1, <1>4, <1>5, <1>6, OthersKept

(* The objects go from the caller to the cache, which may then spill. *)
LEMMA PutCached ==
  ASSUME IndInv, NEW t \in Threads, NEW n \in Nat, Put(t, n), ~PutPassesCache(t, n)
  PROVE  IndInv'
<1> DEFINE h == held[t]
           k == cache[t]
           pc == IF Len(k) + n >= FlushThresh THEN "spill" ELSE "idle"
           r == [call[t] EXCEPT !.pc = pc]
<1>1. /\ TypeOK /\ OnePlace /\ h \in Seq(Objs) /\ n <= Len(h) /\ call[t].pc = "idle"
      /\ call[t].objs = << >> /\ UNCHANGED <<mp, store>> /\ call[t] \in CallSet
      /\ held' = [held EXCEPT ![t] = Drop(h, n)] /\ call' = [call EXCEPT ![t] = r]
      /\ cache' = [cache EXCEPT ![t] = k \o Take(h, n)]
  BY DEF IndInv, TypeOK, CallOK, Put, At
<1>2. t \in Lcores /\ CacheSize # 0 /\ ~(n > CacheMax) /\ k \in Seq(Objs)
  BY <1>1 DEF PutPassesCache, rte_mempool_default_cache, TypeOK
<1>3. /\ Cut(h, Drop(h, n), Take(h, n)) /\ Take(h, n) \in Seq(Objs) /\ Drop(h, n) \in Seq(Objs)
      /\ Len(Take(h, n)) = n
  BY <1>1, TakeDrop, CutOther DEF Cut
<1>4. k \o Take(h, n) \in Seq(Objs) /\ Len(k \o Take(h, n)) = Len(k) + n
  BY <1>2, <1>3, JoinSeq
<1>5. r \in CallSet /\ r.objs = << >> /\ r.pc = pc /\ pc \in {"spill", "idle"}
  BY <1>1 DEF CallSet, PcSet
<1> HIDE DEF r, h, k, pc
<1>6. /\ held'[t] = Drop(h, n) /\ call'[t] = r /\ cache'[t] = k \o Take(h, n)
      /\ \A u \in Threads : u # t => held'[u] = held[u] /\ call'[u] = call[u]
      /\ \A u \in Lcores : u # t => cache'[u] = cache[u]
  BY <1>1, <1>2, <1>3, <1>4, <1>5 DEF TypeOK
<1>7. TypeOK'
  BY <1>1, <1>2, <1>3, <1>4, <1>5 DEF TypeOK
<1>8. OnePlace'
  <2> DEFINE a == <<"held", t>>
             b == <<"cache", t>>
  <2>1. a \in Places /\ b \in Places /\ a # b
    BY <1>2, PlaceOf
  <2>2. Where[a] = h /\ Where'[a] = Drop(h, n) /\ Where'[b] = Where[b] \o Take(h, n)
    BY <1>2, <1>6, WhereIs DEF h, k
  <2>3. /\ \A s \in Threads : /\ <<"held", s>> \in {a, b} \/ held'[s] = held[s]
                              /\ <<"call", s>> \in {a, b} \/ call'[s].objs = call[s].objs
        /\ \A s \in Lcores : <<"cache", s>> \in {a, b} \/ cache'[s] = cache[s]
    BY <1>1, <1>5, <1>6
  <2> HIDE DEF a, b
  <2> QED BY <1>1, <1>3, <2>1, <2>2, <2>3, MoveStep
<1>9. CallOK(t)'
  BY <1>1, <1>2, <1>5, <1>6 DEF CallOK, CacheSize
<1>10. CacheOK(t)'
  <2>1. /\ FlushThresh' = FlushThresh /\ Settled' = Settled
        /\ FlushThresh \in Nat /\ Settled \in Nat /\ CacheMax \in Nat /\ FlushThresh <= Settled + 1
    BY <1>1, <1>2, Sizes DEF FlushThresh, Settled, CacheSize
  <2>2. Len(k) \in Nat /\ Len(k) <= Settled
    BY <1>1, <1>2, SeqFun DEF IndInv, CacheOK, At, k
  <2>3. Len(cache'[t]) = Len(k) + n /\ call'[t].pc = pc
    BY <1>4, <1>5, <1>6
  <2> DEFINE l == Len(cache'[t])
             m == Len(k)
  <2> HIDE DEF l, m, FlushThresh, Settled
  <2>4. m \in Nat /\ m <= Settled /\ l = m + n /\ pc = IF m + n >= FlushThresh THEN "spill" ELSE "idle"
    BY <2>2, <2>3 DEF l, m, pc
  <2>5. CASE m + n >= FlushThresh
    <3>1. FlushThresh <= l /\ l <= Settled + CacheMax /\ pc = "spill"
      BY <1>2, <2>1, <2>4, <2>5
    <3> QED BY <2>1, <2>3, <3>1 DEF CacheOK, At, l
  <2>6. CASE ~(m + n >= FlushThresh)
    <3>1. l <= Settled /\ pc = "idle"
      BY <2>1, <2>4, <2>6
    <3> QED BY <2>1, <2>3, <3>1 DEF CacheOK, At, l
  <2> QED BY <2>5, <2>6
<1> QED BY <1>1, <1>6, <1>7, <1>8, <1>9, <1>10, OthersKept

(* What is over the size of the cache goes to the call. *)
LEMMA SpillStep ==
  ASSUME IndInv, NEW t \in Threads, Spill(t)
  PROVE  IndInv'
<1> DEFINE k == cache[t]
           m == Len(k) - CacheSize
           r == [pc |-> "enqueue", n |-> m, objs |-> Drop(k, CacheSize)]
<1>1. /\ TypeOK /\ OnePlace /\ call[t].pc = "spill" /\ call[t].objs = << >> /\ t \in Lcores
      /\ UNCHANGED <<mp, store, held>> /\ k \in Seq(Objs) /\ CacheOK(t)
      /\ call' = [call EXCEPT ![t] = r] /\ cache' = [cache EXCEPT ![t] = Take(k, CacheSize)]
  BY DEF IndInv, TypeOK, CallOK, Spill, At, Kept
<1>2. /\ CacheSize \in Nat /\ FlushThresh \in Nat /\ CacheSize <= FlushThresh
      /\ Settled \in Nat /\ CacheSize <= Settled
  BY <1>1, Sizes
<1>3. Len(k) \in Nat /\ FlushThresh <= Len(k)
  BY <1>1, SeqFun DEF CacheOK, At
<1> DEFINE x == Take(k, CacheSize)
           y == Drop(k, CacheSize)
<1>4. CacheSize <= Len(k) /\ m \in Nat
  <2> HIDE DEF k, FlushThresh, CacheSize
  <2> QED BY <1>2, <1>3
<1>5. Cut(k, x, y) /\ x \in Seq(Objs) /\ y \in Seq(Objs) /\ Len(x) = CacheSize
  BY <1>1, <1>2, <1>4, TakeDrop DEF Cut
<1> HIDE DEF m
<1>6. r \in CallSet /\ r.objs = y /\ r.pc = "enqueue"
  BY <1>4, <1>5 DEF CallSet, PcSet
<1> HIDE DEF r, k, x, y
<1>7. /\ call'[t] = r /\ cache'[t] = x
      /\ \A u \in Threads : u # t => call'[u] = call[u]
      /\ \A u \in Lcores : u # t => cache'[u] = cache[u]
  BY <1>1, <1>5, <1>6 DEF TypeOK, x
<1>8. TypeOK'
  BY <1>1, <1>5, <1>6 DEF TypeOK, x
<1>9. OnePlace'
  <2> DEFINE a == <<"cache", t>>
             b == <<"call", t>>
  <2>1. a \in Places /\ b \in Places /\ a # b
    BY <1>1, PlaceOf
  <2>2. Where[a] = k /\ Where'[a] = x /\ Where[b] = << >> /\ Where'[b] = y
    BY <1>1, <1>6, <1>7, WhereIs DEF k
  <2>3. Where'[b] = Where[b] \o y
    BY <1>5, <2>2, CutAll
  <2>4. /\ \A s \in Threads : <<"call", s>> \in {a, b} \/ call'[s].objs = call[s].objs
        /\ \A s \in Lcores : <<"cache", s>> \in {a, b} \/ cache'[s] = cache[s]
    BY <1>7
  <2> HIDE DEF a, b
  <2> QED BY <1>1, <1>5, <2>1, <2>2, <2>3, <2>4, MoveStep
<1>10. CallOK(t)' /\ CacheOK(t)'
  <2>1. CallOK(t)'
    BY <1>6, <1>7 DEF CallOK
  <2>2. Settled' = Settled /\ Len(cache'[t]) = CacheSize
    BY <1>1, <1>5, <1>7 DEF Settled, CacheSize
  <2>3. CacheOK(t)'
    BY <1>2, <1>6, <1>7, <2>2 DEF CacheOK, At
  <2> QED BY <2>1, <2>3
<1> QED BY <1>1, <1>7, <1>8, <1>9, <1>10, OthersKept

(* The whole cache goes to the call. *)
LEMMA FlushStep ==
  ASSUME IndInv, NEW t \in Threads, Flush(t)
  PROVE  IndInv'
<1> DEFINE k == cache[t]
           r == [pc |-> "enqueue", n |-> Len(k), objs |-> k]
<1>1. /\ TypeOK /\ OnePlace /\ call[t].pc = "idle" /\ call[t].objs = << >> /\ t \in Lcores
      /\ UNCHANGED <<mp, store, held>> /\ k \in Seq(Objs)
      /\ call' = [call EXCEPT ![t] = r] /\ cache' = [cache EXCEPT ![t] = << >>]
  BY DEF IndInv, TypeOK, CallOK, Flush, At
<1>2. Settled \in Nat
  BY <1>1, Sizes
<1>3. Len(k) \in Nat
  BY <1>1, SeqFun
<1>4. Cut(k, << >>, k) /\ << >> \o k = k /\ << >> \in Seq(Objs) /\ Len(<< >>) = 0
  BY <1>1, CutAll
<1>5. r \in CallSet /\ r.objs = k /\ r.pc = "enqueue"
  BY <1>1, <1>3 DEF CallSet, PcSet
<1> HIDE DEF r, k
<1>6. /\ call'[t] = r /\ cache'[t] = << >>
      /\ \A u \in Threads : u # t => call'[u] = call[u]
      /\ \A u \in Lcores : u # t => cache'[u] = cache[u]
  BY <1>1 DEF TypeOK
<1>7. TypeOK'
  BY <1>1, <1>4, <1>5 DEF TypeOK
<1>8. OnePlace'
  <2> DEFINE a == <<"cache", t>>
             b == <<"call", t>>
  <2>1. a \in Places /\ b \in Places /\ a # b
    BY <1>1, PlaceOf
  <2>2. Where[a] = k /\ Where'[a] = << >> /\ Where[b] = << >> /\ Where'[b] = k
    BY <1>1, <1>5, <1>6, WhereIs DEF k
  <2>3. Where'[b] = Where[b] \o k
    BY <1>4, <2>2
  <2>4. /\ \A s \in Threads : <<"call", s>> \in {a, b} \/ call'[s].objs = call[s].objs
        /\ \A s \in Lcores : <<"cache", s>> \in {a, b} \/ cache'[s] = cache[s]
    BY <1>6
  <2> HIDE DEF a, b
  <2>5. /\ TypeOK /\ OnePlace /\ Cut(Where[a], << >>, k) /\ store' = store
        /\ \A s \in Threads : held'[s] = held[s]
    BY <1>1, <1>4, <2>2
  <2> QED BY <2>1, <2>2, <2>3, <2>4, <2>5, MoveStep
<1>9. CallOK(t)' /\ CacheOK(t)'
  <2>1. CallOK(t)'
    BY <1>5, <1>6 DEF CallOK
  <2>2. Settled' = Settled /\ Len(cache'[t]) = 0
    BY <1>1, <1>4, <1>6 DEF Settled, CacheSize
  <2>3. CacheOK(t)'
    BY <1>2, <1>5, <1>6, <2>2 DEF CacheOK, At
  <2> QED BY <2>1, <2>3
<1> QED BY <1>1, <1>6, <1>7, <1>8, <1>9, OthersKept

(* What a call carries goes to the store: the enqueue of a stack, or the   *)
(* last step of a ring's.                                                  *)
LEMMA ToStore ==
  ASSUME IndInv, NEW t \in Threads, call[t].pc \in {"enqueue", "publish"},
         store' = store \o call[t].objs, call' = [call EXCEPT ![t] = Idle],
         UNCHANGED <<mp, cache, held>>
  PROVE  IndInv'
<1> DEFINE o == call[t].objs
<1>1. /\ TypeOK /\ OnePlace /\ o \in Seq(Objs) /\ store \in Seq(Objs)
      /\ Idle \in CallSet /\ Idle.objs = << >> /\ Idle.pc = "idle"
  <2>1. << >> \in Seq(Objs)
    BY EmptySeq
  <2> QED BY <2>1 DEF IndInv, TypeOK, CallSet, PcSet, Idle
<1>2. store \o o \in Seq(Objs)
  BY <1>1, JoinSeq
<1>3. Cut(o, << >>, o)
  BY <1>1, CutAll
<1> HIDE DEF o
<1>4. call'[t] = Idle /\ (\A u \in Threads : u # t => call'[u] = call[u]) /\ TypeOK'
  BY <1>1, <1>2 DEF TypeOK, o
<1>5. OnePlace'
  <2> DEFINE a == <<"call", t>>
             b == Store
  <2>1. a \in Places /\ b \in Places /\ a # b
    BY PlaceOf
  <2>2. Where[a] = o /\ Where'[a] = << >> /\ Where'[b] = Where[b] \o o
    BY <1>1, <1>4, WhereIs DEF o
  <2>3. \A s \in Threads : <<"call", s>> \in {a, b} \/ call'[s].objs = call[s].objs
    BY <1>4
  <2>4. Store \in {a, b}
    OBVIOUS
  <2> HIDE DEF a, b
  <2> QED BY <1>1, <1>3, <2>1, <2>2, <2>3, <2>4, MoveStep
<1>6. CallOK(t)' /\ (t \in Lcores => CacheOK(t)')
  <2>1. CallOK(t)'
    BY <1>1, <1>4 DEF CallOK
  <2>2. t \in Lcores => CacheOK(t)'
    BY <1>1, <1>4 DEF IndInv, CacheOK, At, FlushThresh, Settled, CacheSize
  <2> QED BY <2>1, <2>2
<1> QED BY <1>4, <1>5, <1>6, OthersKept

(* The ring of a pool is large enough for all of its objects. *)
LEMMA AlignUp ==
  ASSUME NEW n \in Nat, 1 <= n, n <= 134217728
  PROVE  rte_align32pow2(n) \in Nat /\ rte_align32pow2(n) >= n
<1>1. \E p \in RingSizes : p >= n /\ p < 2 * n
  BY SMT DEF RingSizes
<1>2. rte_align32pow2(n) \in RingSizes /\ rte_align32pow2(n) >= n
  BY <1>1 DEF rte_align32pow2
<1>3. \A p \in RingSizes : p \in Nat
  BY SMT DEF RingSizes
<1> QED BY <1>2, <1>3

(* A sequence without repetition has as many objects as entries. *)
LEMMA LenIsCardinality ==
  ASSUME NEW s \in Seq(Objs), IsInjective(s)
  PROVE  IsFiniteSet(Range(s)) /\ Cardinality(Range(s)) = Len(s) /\ Len(s) \in Nat
<1> DEFINE D == 1..Len(s)
           R == Range(s)
<1>1. Len(s) \in Nat /\ DOMAIN s = D /\ R = {s[i] : i \in D} /\ s \in [D -> Objs]
  BY SeqFun, LenProperties
<1>2. \A i, j \in D : s[i] = s[j] => i = j
  BY InjectiveSeq
<1>3. IsFiniteSet(D) /\ Cardinality(D) = Len(s)
  BY <1>1, FS_Interval
<1> HIDE DEF D, R
<1>4. s \in [D -> R]
  BY <1>1
<1>5. s \in Bijection(D, R)
  BY <1>1, <1>2, <1>4, Fun_IsBij
<1>6. ExistsBijection(D, R)
  BY <1>5 DEF ExistsBijection
<1>7. IsFiniteSet(R) /\ Cardinality(R) = Cardinality(D)
  BY <1>3, <1>6, FS_Bijection
<1> QED BY <1>1, <1>3, <1>7 DEF R

(* Disjoint sets of objects. *)
LEMMA DisjointObjects ==
  ASSUME NEW A \in SUBSET Objs, NEW B \in SUBSET Objs, A \cap B = {}
  PROVE  /\ IsFiniteSet(A) /\ IsFiniteSet(B) /\ Cardinality(A) \in Nat /\ Cardinality(B) \in Nat
         /\ Cardinality(A) + Cardinality(B) = Cardinality(A \cup B)
         /\ Cardinality(A \cup B) <= PoolSize
<1>1. IsFiniteSet(Objs)
  BY Constants
<1>2. IsFiniteSet(A) /\ IsFiniteSet(B)
  BY <1>1, FS_Subset
<1>3. Cardinality(A) \in Nat /\ Cardinality(B) \in Nat /\ Cardinality(A \cap B) = 0
  BY <1>2, FS_CardinalityType, FS_EmptySet
<1>4. Cardinality(A \cup B) = Cardinality(A) + Cardinality(B) - Cardinality(A \cap B)
  BY <1>2, FS_Union
<1>5. Cardinality(A \cup B) <= PoolSize
  <2>1. A \cup B \in SUBSET Objs
    OBVIOUS
  <2> QED BY <1>1, <2>1, FS_Subset DEF PoolSize
<1>6. Cardinality(A) + Cardinality(B) = Cardinality(A \cup B)
  BY <1>3, <1>4
<1> QED BY <1>2, <1>3, <1>5, <1>6

(* The entries that calls in progress occupy hold as many objects. *)
LEMMA TransitObjects ==
  ASSUME TypeOK, OnePlace
  PROVE  LET B == UNION {Range(call[u].objs) : u \in InRing} IN
         B \in SUBSET Objs /\ InTransit \in Nat /\ InTransit <= Cardinality(B)
<1> DEFINE B == UNION {Range(call[u].objs) : u \in InRing}
           E == UNION {{u} \X DOMAIN call[u].objs : u \in InRing}
           f == [e \in E |-> call[e[1]].objs[e[2]]]
<1>0. \A u \in Threads : call[u].objs \in Seq(Objs)
  BY DEF TypeOK, CallSet
<1>1. InRing \subseteq Threads
  BY DEF InRing
<1>2. B \in SUBSET Objs
  BY <1>0, <1>1, SeqFun
<1>3. \A e \in E : /\ e[1] \in InRing /\ e[2] \in DOMAIN call[e[1]].objs /\ e = <<e[1], e[2]>>
  OBVIOUS
<1>4. \A e \in E : f[e] = call[e[1]].objs[e[2]] /\ f[e] \in Range(call[e[1]].objs)
  BY <1>3 DEF Range
<1>5. f \in [E -> B]
  BY <1>3, <1>4
<1>6. ASSUME NEW d \in E, NEW e \in E, f[d] = f[e] PROVE d = e
  <2>1. d[1] = e[1]
    <3> SUFFICES ASSUME d[1] # e[1] PROVE FALSE
      OBVIOUS
    <3>1. d[1] \in Threads /\ e[1] \in Threads
      BY <1>1, <1>3
    <3>2. <<"call", d[1]>> \in Places /\ <<"call", e[1]>> \in Places /\ <<"call", d[1]>> # <<"call", e[1]>>
      BY <3>1, PlaceOf
    <3>3. Range(call[d[1]].objs) \cap Range(call[e[1]].objs) = {}
      <4>1. Range(Where[<<"call", d[1]>>]) \cap Range(Where[<<"call", e[1]>>]) = {}
        BY <3>2 DEF OnePlace
      <4> QED BY <3>1, <4>1, WhereIs
    <3> QED BY <1>4, <1>6, <3>3
  <2>2. IsInjective(call[d[1]].objs)
    <3>1. d[1] \in Threads
      BY <1>1, <1>3
    <3> QED BY <3>1, PlaceOf, WhereIs DEF OnePlace
  <2>3. d[2] = e[2]
    BY <1>3, <1>4, <1>6, <2>1, <2>2 DEF IsInjective
  <2> QED BY <1>3, <2>1, <2>3
<1> HIDE DEF f, E, B
<1>7. f \in Injection(E, B)
  BY <1>5, <1>6 DEF Injection, IsInjective
<1>8. IsFiniteSet(B)
  BY <1>2, Constants, FS_Subset
<1>9. IsFiniteSet(E) /\ Cardinality(E) <= Cardinality(B)
  BY <1>7, <1>8, FS_Injection
<1>10. Cardinality(E) \in Nat
  BY <1>9, FS_CardinalityType
<1>11. InTransit = Cardinality(E)
  BY DEF InTransit, E
<1> QED BY <1>2, <1>9, <1>10, <1>11 DEF B

(* An enqueue always finds room: "adding in mempool always success". *)
LEMMA AlwaysRoom ==
  ASSUME IndInv, NEW t \in Threads, At(t, "enqueue")
  PROVE  ~(Len(store) + (IF Stack THEN 0 ELSE InTransit) + Len(call[t].objs) > Capacity)
<1> DEFINE o == call[t].objs
           A == Range(store)
           B == UNION {Range(call[u].objs) : u \in InRing}
           D == Range(o)
<1>1. TypeOK /\ OnePlace /\ o \in Seq(Objs) /\ store \in Seq(Objs)
  BY DEF IndInv, TypeOK, CallSet
<1>2. A \in SUBSET Objs /\ D \in SUBSET Objs
  BY <1>1, SeqFun
<1>3. B \in SUBSET Objs /\ InTransit \in Nat /\ InTransit <= Cardinality(B)
  BY <1>1, TransitObjects
<1>4. IsInjective(store) /\ IsInjective(o) /\ A \cap D = {}
  <2>1. Store \in Places /\ <<"call", t>> \in Places /\ Store # <<"call", t>>
    BY PlaceOf
  <2>2. /\ IsInjective(Where[Store]) /\ IsInjective(Where[<<"call", t>>])
        /\ Range(Where[Store]) \cap Range(Where[<<"call", t>>]) = {}
    BY <1>1, <2>1 DEF OnePlace
  <2> QED BY <2>2, WhereIs
<1>5. ASSUME NEW u \in InRing PROVE A \cap Range(call[u].objs) = {} /\ D \cap Range(call[u].objs) = {}
  <2>1. u \in Threads /\ u # t
    BY DEF InRing, At
  <2>2. /\ <<"call", u>> \in Places /\ <<"call", t>> \in Places /\ Store \in Places
        /\ <<"call", u>> # <<"call", t>> /\ Store # <<"call", u>>
    BY <2>1, PlaceOf
  <2> QED BY <1>1, <2>1, <2>2, WhereIs DEF OnePlace
<1>6. A \cap B = {} /\ D \cap B = {}
  BY <1>5
<1>7. Cardinality(A) = Len(store) /\ Cardinality(D) = Len(o) /\ Len(store) \in Nat /\ Len(o) \in Nat
  BY <1>1, <1>4, LenIsCardinality
<1> HIDE DEF A, B, D
<1>8. /\ Cardinality(A) + Cardinality(D) = Cardinality(A \cup D) /\ Cardinality(A \cup D) <= PoolSize
      /\ Cardinality(A \cup D) \in Nat
  BY <1>2, <1>4, <1>6, DisjointObjects
<1>9. /\ Cardinality(A \cup D) + Cardinality(B) = Cardinality((A \cup D) \cup B)
      /\ Cardinality((A \cup D) \cup B) <= PoolSize /\ Cardinality(B) \in Nat
  BY <1>2, <1>3, <1>6, DisjointObjects
<1>10. Capacity \in Int /\ PoolSize \in Nat /\ PoolSize <= Capacity
  <2>1. PoolSize \in Nat
    BY Constants, FS_CardinalityType DEF PoolSize
  <2>2. 1 <= PoolSize + 1 /\ PoolSize + 1 <= 134217728 /\ PoolSize + 1 \in Nat
    BY <2>1, MempoolAssumption, SMT
  <2>3. rte_align32pow2(PoolSize + 1) \in Nat /\ rte_align32pow2(PoolSize + 1) >= PoolSize + 1
    BY <2>2, AlignUp
  <2> QED BY <2>1, <2>3 DEF Capacity
<1> DEFINE x == IF Stack THEN 0 ELSE InTransit
<1>11. x \in Nat /\ x <= Cardinality(B)
  <2>1. Cardinality(B) >= 0
    BY <1>9
  <2> QED BY <1>3, <1>9, <2>1
<1> HIDE DEF x, o
<1>12. Len(store) + x + Len(o) <= Capacity
  BY <1>7, <1>8, <1>9, <1>10, <1>11
<1>13. Len(store) + x + Len(o) \in Int
  BY <1>7, <1>11
<1>14. ~(Len(store) + x + Len(o) > Capacity)
  BY <1>10, <1>12, <1>13
<1> QED BY <1>14 DEF x, o

(* A step that changes only where a call is, with what it carries. *)
LEMMA CallGoesOn ==
  ASSUME IndInv, NEW t \in Threads, NEW r \in CallSet, call' = [call EXCEPT ![t] = r],
         r.objs = call[t].objs, UNCHANGED <<mp, store, cache, held>>, CallOK(t)',
         call[t].pc # "spill", r.pc # "spill"
  PROVE  IndInv'
<1>1. /\ TypeOK' /\ call'[t] = r /\ (\A u \in Threads : u # t => call'[u] = call[u])
  BY DEF IndInv, TypeOK
<1>2. OnePlace'
  <2>1. \A s \in Threads : call'[s].objs = call[s].objs
    BY <1>1
  <2> QED BY <2>1, NoMove DEF IndInv
<1>3. t \in Lcores => CacheOK(t)'
  BY <1>1 DEF IndInv, CacheOK, At, Settled, CacheSize
<1> QED BY <1>1, <1>2, <1>3, OthersKept

(* The call that ends carries nothing. *)
LEMMA IdleCall == Idle \in CallSet /\ Idle.objs = << >> /\ Idle.pc = "idle"
<1>1. << >> \in Seq(Objs)
  BY EmptySeq
<1> QED BY <1>1 DEF CallSet, PcSet, Idle

(* An enqueue never fails: it ends in the store, or goes on to publish. *)
LEMMA EnqueueStep ==
  ASSUME IndInv, NEW t \in Threads, Enqueue(t)
  PROVE  IndInv'
<1>1. ~(Len(store) + (IF Stack THEN 0 ELSE InTransit) + Len(call[t].objs) > Capacity)
  BY AlwaysRoom DEF Enqueue
<1>2. call[t].pc = "enqueue" /\ UNCHANGED <<mp, cache, held>>
  BY DEF Enqueue, At
<1>3. CASE Stack
  <2>1. call' = [call EXCEPT ![t] = Idle] /\ store' = store \o call[t].objs
    BY <1>1, <1>3 DEF Enqueue
  <2> QED BY <1>2, <2>1, ToStore
<1>4. CASE ~Stack
  <2> DEFINE r == [call[t] EXCEPT !.pc = "publish"]
  <2>1. call' = [call EXCEPT ![t] = r] /\ store' = store
    BY <1>1, <1>4 DEF Enqueue
  <2>2. r \in CallSet /\ r.objs = call[t].objs /\ r.pc = "publish"
    BY DEF IndInv, TypeOK, CallSet, PcSet
  <2>3. CallOK(t)'
    <3>1. call'[t] = r
      BY <2>1 DEF IndInv, TypeOK
    <3> QED BY <2>2, <3>1 DEF CallOK
  <2> HIDE DEF r
  <2> QED BY <1>2, <2>1, <2>2, <2>3, CallGoesOn
<1> QED BY <1>3, <1>4

(* The objects of an enqueue appear in the ring. *)
LEMMA PublishStep ==
  ASSUME IndInv, NEW t \in Threads, Publish(t)
  PROVE  IndInv'
BY ToStore DEF Publish, At

-----------------------------------------------------------------------------
(* The steps of a get. *)

(* The last objects of the cache go to the caller. *)
LEMMA GetCached ==
  ASSUME IndInv, NEW t \in Threads, NEW n \in Nat, Get(t, n), ~GetPassesCache(t, n),
         n <= Len(cache[t])
  PROVE  IndInv'
<1> DEFINE k == cache[t]
           x == Take(k, Len(k) - n)
           y == Last(k, n)
<1>1. /\ TypeOK /\ OnePlace /\ call[t].pc = "idle" /\ t \in Lcores
      /\ UNCHANGED <<mp, store, call>> /\ k \in Seq(Objs) /\ held[t] \in Seq(Objs)
      /\ held' = [held EXCEPT ![t] = held[t] \o y] /\ cache' = [cache EXCEPT ![t] = x]
  BY DEF IndInv, TypeOK, Get, At, GetPassesCache, rte_mempool_default_cache
<1>2. Cut(k, x, y) /\ x \in Seq(Objs) /\ y \in Seq(Objs) /\ Len(x) = Len(k) - n
  BY <1>1, TakeLast DEF Cut
<1>3. held[t] \o y \in Seq(Objs)
  BY <1>1, <1>2, JoinSeq
<1>4. Len(k) \in Nat /\ Len(k) <= Settled /\ Settled \in Nat
  BY <1>1, SeqFun, Sizes DEF IndInv, CacheOK, At
<1> HIDE DEF k, x, y
<1>5. /\ held'[t] = held[t] \o y /\ cache'[t] = x
      /\ \A u \in Threads : u # t => held'[u] = held[u]
      /\ \A u \in Lcores : u # t => cache'[u] = cache[u]
  BY <1>1 DEF TypeOK
<1>6. TypeOK'
  BY <1>1, <1>2, <1>3 DEF TypeOK
<1>7. OnePlace'
  <2> DEFINE a == <<"cache", t>>
             b == <<"held", t>>
  <2>1. a \in Places /\ b \in Places /\ a # b
    BY <1>1, PlaceOf
  <2>2. Where[a] = k /\ Where'[a] = x /\ Where'[b] = Where[b] \o y
    BY <1>1, <1>5, WhereIs DEF k
  <2>3. /\ \A s \in Threads : <<"held", s>> \in {a, b} \/ held'[s] = held[s]
        /\ \A s \in Lcores : <<"cache", s>> \in {a, b} \/ cache'[s] = cache[s]
    BY <1>5
  <2> HIDE DEF a, b
  <2> QED BY <1>1, <1>2, <2>1, <2>2, <2>3, MoveStep
<1>8. CallOK(t)' /\ CacheOK(t)'
  <2>1. CallOK(t)'
    BY <1>1 DEF CallOK, IndInv
  <2>2. Settled' = Settled /\ Len(cache'[t]) = Len(k) - n
    BY <1>1, <1>2, <1>5 DEF Settled, CacheSize
  <2>3. Len(k) - n <= Settled
    <3> DEFINE l == Len(k)
    <3> HIDE DEF l, Settled
    <3>1. l \in Nat /\ l <= Settled
      BY <1>4 DEF l
    <3>2. l - n <= Settled
      BY <1>4, <3>1
    <3> QED BY <3>2 DEF l
  <2>4. CacheOK(t)'
    BY <1>1, <2>2, <2>3 DEF CacheOK, At
  <2> QED BY <2>1, <2>4
<1> QED BY <1>1, <1>5, <1>6, <1>7, <1>8, OthersKept

(* A get that needs the store only notes what it asks for. *)
LEMMA GetPast ==
  ASSUME IndInv, NEW t \in Threads, NEW n \in Nat, Get(t, n),
         GetPassesCache(t, n) \/ ~(n <= Len(cache[t]))
  PROVE  IndInv'
<1> DEFINE pc == IF GetPassesCache(t, n) THEN "direct" ELSE "backfill"
           r == [call[t] EXCEPT !.n = n, !.pc = pc]
<1>1. /\ TypeOK /\ call[t].pc = "idle" /\ call[t].objs = << >> /\ call[t] \in CallSet
      /\ UNCHANGED <<mp, store, cache, held>> /\ call' = [call EXCEPT ![t] = r]
  BY DEF IndInv, TypeOK, CallOK, Get, At
<1>2. pc \in {"direct", "backfill"}
  OBVIOUS
<1>3. pc = "backfill" => ~GetPassesCache(t, n)
  OBVIOUS
<1> HIDE DEF pc
<1>4. r \in CallSet /\ r.objs = << >> /\ r.pc = pc /\ r.n = n
  BY <1>1, <1>2 DEF CallSet, PcSet
<1> HIDE DEF r
<1>5. call'[t] = r
  BY <1>1 DEF TypeOK
<1>6. CallOK(t)'
  <2>1. CASE pc = "direct"
    BY <1>4, <1>5, <2>1 DEF CallOK
  <2>2. CASE pc = "backfill"
    <3>1. t \in Lcores /\ CacheSize # 0 /\ ~(n >= CacheSize) /\ ~(n <= Len(cache[t]))
      BY <1>3, <2>2 DEF GetPassesCache, rte_mempool_default_cache
    <3>2. CacheSize \in Nat /\ Len(cache[t]) \in Nat /\ CacheSize' = CacheSize /\ cache' = cache
      BY <1>1, <3>1, Sizes, SeqFun DEF TypeOK, CacheSize
    <3>3. n < CacheSize /\ Len(cache[t]) < n
      BY <3>1, <3>2
    <3> QED BY <1>4, <1>5, <2>2, <3>1, <3>2, <3>3 DEF CallOK
  <2> QED BY <1>2, <2>1, <2>2
<1> QED BY <1>1, <1>2, <1>4, <1>6, CallGoesOn

(* Objects go from the store to a call that carried none, whichever end    *)
(* the store gives them from.                                              *)
LEMMA DequeueMoves ==
  ASSUME IndInv, NEW t \in Threads, NEW req \in Nat, NEW pc \in PcSet, NEW failed,
         Dequeue(t, req, pc, failed), ~(req > Len(store)), call[t].objs = << >>
  PROVE  /\ TypeOK' /\ OnePlace' /\ UNCHANGED <<mp, cache, held>>
         /\ \A u \in Threads : u # t => call'[u] = call[u]
         /\ call'[t].pc = pc /\ call'[t].n = call[t].n /\ Len(call'[t].objs) = req
<1> DEFINE x == IF Stack THEN Take(store, Len(store) - req) ELSE Drop(store, req)
           y == IF Stack THEN Last(store, req) ELSE Take(store, req)
           r == [call[t] EXCEPT !.pc = pc, !.objs = y]
<1>1. /\ TypeOK /\ OnePlace /\ store \in Seq(Objs) /\ call[t] \in CallSet
      /\ UNCHANGED <<mp, cache, held>> /\ call' = [call EXCEPT ![t] = r] /\ store' = x
  BY DEF IndInv, TypeOK, Dequeue
<1>2. req <= Len(store)
  <2>1. Len(store) \in Nat
    BY <1>1, SeqFun
  <2> QED BY <2>1
<1>3. Cut(store, x, y) /\ Len(y) = req
  <2>1. Cut(store, Drop(store, req), Take(store, req)) /\ Len(Take(store, req)) = req
    BY <1>1, <1>2, TakeDrop, CutOther
  <2>2. Cut(store, Take(store, Len(store) - req), Last(store, req)) /\ Len(Last(store, req)) = req
    BY <1>1, <1>2, TakeLast
  <2>3. CASE Stack
    BY <2>2, <2>3
  <2>4. CASE ~Stack
    BY <2>1, <2>4
  <2> QED BY <2>3, <2>4
<1> HIDE DEF x, y
<1>4. x \in Seq(Objs) /\ y \in Seq(Objs)
  BY <1>3 DEF Cut
<1>5. r \in CallSet /\ r.pc = pc /\ r.n = call[t].n /\ r.objs = y
  BY <1>1, <1>4 DEF CallSet
<1> HIDE DEF r
<1>6. call'[t] = r /\ (\A u \in Threads : u # t => call'[u] = call[u]) /\ TypeOK'
  BY <1>1, <1>4, <1>5 DEF TypeOK
<1>7. OnePlace'
  <2> DEFINE a == Store
             b == <<"call", t>>
  <2>1. a \in Places /\ b \in Places /\ a # b
    BY PlaceOf
  <2>2. Where[a] = store /\ Where'[a] = x /\ Where[b] = << >> /\ Where'[b] = y
    BY <1>1, <1>5, <1>6, WhereIs
  <2>3. Where'[b] = Where[b] \o y
    BY <1>4, <2>2, CutAll
  <2>4. Store \in {a, b} /\ \A s \in Threads : <<"call", s>> \in {a, b} \/ call'[s].objs = call[s].objs
    BY <1>6
  <2> HIDE DEF a, b
  <2> QED BY <1>1, <1>3, <2>1, <2>2, <2>3, <2>4, MoveStep
<1> QED BY <1>1, <1>3, <1>5, <1>6, <1>7

(* The cache asks the store for the request and for what fills it up. *)
LEMMA BackfillStep ==
  ASSUME IndInv, NEW t \in Threads, Backfill(t)
  PROVE  IndInv'
<1> DEFINE l == Len(cache[t])
           n == call[t].n
           req == Wanted(t)
           failed == [call[t] EXCEPT !.pc = "direct"]
<1>1. /\ TypeOK /\ call[t].pc = "backfill" /\ call[t].objs = << >> /\ call[t] \in CallSet
      /\ t \in Lcores /\ CacheSize # 0 /\ n < CacheSize /\ l < n
      /\ Dequeue(t, req, "fill", failed)
  BY DEF IndInv, TypeOK, CallOK, Backfill, At
<1>2. l \in Nat /\ n \in Nat /\ CacheSize \in Nat
  BY <1>1, Sizes, SeqFun DEF TypeOK, CallSet
<1>3. req = n + (CacheSize - l) /\ req \in Nat
  <2>1. req = n + (CacheSize - l)
    BY DEF Wanted
  <2> HIDE DEF l, n, CacheSize, req
  <2> QED BY <1>1, <1>2, <2>1
<1>4. CASE req > Len(store)
  <2>1. failed \in CallSet /\ failed.objs = << >> /\ failed.pc = "direct"
    BY <1>1 DEF CallSet, PcSet
  <2> HIDE DEF failed
  <2>2. call' = [call EXCEPT ![t] = failed] /\ UNCHANGED <<mp, store, cache, held>>
    BY <1>1, <1>4 DEF Dequeue
  <2>3. call'[t] = failed
    BY <1>1, <2>2 DEF TypeOK
  <2>4. CallOK(t)'
    BY <2>1, <2>3 DEF CallOK
  <2> QED BY <1>1, <2>1, <2>2, <2>4, CallGoesOn
<1>5. CASE ~(req > Len(store))
  <2> HIDE DEF req, failed
  <2>1. /\ TypeOK' /\ OnePlace' /\ UNCHANGED <<mp, cache, held>>
        /\ \A u \in Threads : u # t => call'[u] = call[u]
        /\ call'[t].pc = "fill" /\ call'[t].n = n /\ Len(call'[t].objs) = req
    BY <1>1, <1>3, <1>5, DequeueMoves DEF PcSet
  <2>2. CallOK(t)'
    BY <1>1, <1>3, <2>1 DEF CallOK, CacheSize
  <2>3. CacheOK(t)'
    BY <1>1, <2>1 DEF IndInv, CacheOK, At, Settled, CacheSize
  <2> QED BY <2>1, <2>2, <2>3, OthersKept
<1> QED BY <1>4, <1>5

(* A get straight from the store. *)
LEMMA DirectStep ==
  ASSUME IndInv, NEW t \in Threads, Direct(t)
  PROVE  IndInv'
<1> DEFINE req == call[t].n
<1>1. /\ TypeOK /\ call[t].pc = "direct" /\ call[t].objs = << >> /\ req \in Nat
      /\ Dequeue(t, req, "return", Idle)
  BY DEF IndInv, TypeOK, CallOK, CallSet, Direct, At
<1>2. CASE req > Len(store)
  <2>1. call' = [call EXCEPT ![t] = Idle] /\ UNCHANGED <<mp, store, cache, held>>
    BY <1>1, <1>2 DEF Dequeue
  <2>2. call'[t] = Idle
    BY <1>1, <2>1 DEF TypeOK
  <2>3. CallOK(t)'
    BY <2>2, IdleCall DEF CallOK
  <2> QED BY <1>1, <2>1, <2>3, IdleCall, CallGoesOn
<1>3. CASE ~(req > Len(store))
  <2>1. /\ TypeOK' /\ OnePlace' /\ UNCHANGED <<mp, cache, held>>
        /\ \A u \in Threads : u # t => call'[u] = call[u]
        /\ call'[t].pc = "return"
    BY <1>1, <1>3, DequeueMoves DEF PcSet
  <2>2. CallOK(t)'
    BY <2>1 DEF CallOK
  <2>3. t \in Lcores => CacheOK(t)'
    BY <1>1, <2>1 DEF IndInv, CacheOK, At, Settled, CacheSize
  <2> QED BY <2>1, <2>2, <2>3, OthersKept
<1> QED BY <1>2, <1>3

(* What the call carries goes to the caller. *)
LEMMA ReturnStep ==
  ASSUME IndInv, NEW t \in Threads, Return(t)
  PROVE  IndInv'
<1> DEFINE o == call[t].objs
<1>1. /\ TypeOK /\ OnePlace /\ call[t].pc = "return" /\ o \in Seq(Objs) /\ held[t] \in Seq(Objs)
      /\ held' = [held EXCEPT ![t] = held[t] \o o] /\ call' = [call EXCEPT ![t] = Idle]
      /\ UNCHANGED <<mp, store, cache>>
  BY DEF IndInv, TypeOK, CallSet, Return, At
<1>2. held[t] \o o \in Seq(Objs)
  BY <1>1, JoinSeq
<1>3. Cut(o, << >>, o)
  BY <1>1, CutAll
<1> HIDE DEF o
<1>4. /\ call'[t] = Idle /\ held'[t] = held[t] \o o
      /\ \A u \in Threads : u # t => call'[u] = call[u] /\ held'[u] = held[u]
  BY <1>1 DEF TypeOK
<1>5. TypeOK'
  BY <1>1, <1>2, IdleCall DEF TypeOK
<1>6. OnePlace'
  <2> DEFINE a == <<"call", t>>
             b == <<"held", t>>
  <2>1. a \in Places /\ b \in Places /\ a # b
    BY PlaceOf
  <2>2. Where[a] = o /\ Where'[a] = << >> /\ Where'[b] = Where[b] \o o
    BY <1>4, IdleCall, WhereIs DEF o
  <2>3. \A s \in Threads : /\ <<"held", s>> \in {a, b} \/ held'[s] = held[s]
                           /\ <<"call", s>> \in {a, b} \/ call'[s].objs = call[s].objs
    BY <1>4
  <2> HIDE DEF a, b
  <2> QED BY <1>1, <1>3, <2>1, <2>2, <2>3, MoveStep
<1>7. CallOK(t)' /\ (t \in Lcores => CacheOK(t)')
  <2>1. CallOK(t)'
    BY <1>4, IdleCall DEF CallOK
  <2>2. t \in Lcores => CacheOK(t)'
    BY <1>1, <1>4, IdleCall DEF IndInv, CacheOK, At, Settled, CacheSize
  <2> QED BY <2>1, <2>2
<1> QED BY <1>1, <1>4, <1>5, <1>6, <1>7, OthersKept

(* The backfill lands behind what is in the cache, and the last objects of *)
(* the cache go to the caller.                                             *)
LEMMA FillStep ==
  ASSUME IndInv, NEW t \in Threads, Fill(t)
  PROVE  IndInv'
<1> DEFINE k == cache[t]
           o == call[t].objs
           n == call[t].n
           full == k \o o
           x == Take(full, Len(full) - n)
           y == Last(full, n)
<1>1. /\ TypeOK /\ OnePlace /\ call[t].pc = "fill" /\ t \in Lcores /\ CacheSize # 0
      /\ k \in Seq(Objs) /\ o \in Seq(Objs) /\ held[t] \in Seq(Objs) /\ n \in Nat
      /\ held' = [held EXCEPT ![t] = held[t] \o y] /\ cache' = [cache EXCEPT ![t] = x]
      /\ call' = [call EXCEPT ![t] = Idle] /\ UNCHANGED <<mp, store>>
  BY DEF IndInv, TypeOK, CallSet, CallOK, Fill, At
<1>2. Len(o) = n + (CacheSize - Len(k)) /\ Len(k) < n /\ n < CacheSize
  BY <1>1 DEF IndInv, CallOK
<1>3. full \in Seq(Objs) /\ Len(full) = Len(k) + Len(o)
  BY <1>1, JoinSeq
<1>4. CacheSize \in Nat /\ CacheSize <= Settled /\ Settled \in Nat /\ Len(k) \in Nat
  BY <1>1, Sizes, SeqFun
<1>5. Len(full) - n = CacheSize /\ n <= Len(full)
  <2> DEFINE a == Len(k)
             b == Len(full)
  <2>1. b = a + (n + (CacheSize - a)) /\ a \in Nat
    BY <1>2, <1>3, <1>4
  <2> HIDE DEF a, b, n, CacheSize
  <2>2. b - n = CacheSize /\ n <= b
    BY <1>1, <1>4, <2>1
  <2> QED BY <2>2 DEF b
<1>6. Cut(full, x, y) /\ x \in Seq(Objs) /\ y \in Seq(Objs) /\ Len(x) = CacheSize
  BY <1>1, <1>3, <1>5, TakeLast DEF Cut
<1>7. held[t] \o y \in Seq(Objs)
  BY <1>1, <1>6, JoinSeq
<1>8. Cut(o, << >>, o)
  BY <1>1, CutAll
<1> HIDE DEF x, y, k, o, n, full
<1>9. /\ call'[t] = Idle /\ held'[t] = held[t] \o y /\ cache'[t] = x
      /\ \A u \in Threads : u # t => call'[u] = call[u] /\ held'[u] = held[u]
      /\ \A u \in Lcores : u # t => cache'[u] = cache[u]
  BY <1>1 DEF TypeOK
<1>10. TypeOK'
  BY <1>1, <1>6, <1>7, IdleCall DEF TypeOK
<1>11. OnePlace'
  <2> DEFINE a == <<"cache", t>>
             b == <<"call", t>>
             c == <<"held", t>>
             g == [z \in Places |-> IF z = a THEN full ELSE IF z = b THEN << >> ELSE Where[z]]
  <2>1. a \in Places /\ b \in Places /\ c \in Places /\ a # b /\ a # c /\ b # c
    BY <1>1, PlaceOf
  <2>2. /\ Where[a] = k /\ Where[b] = o /\ Where[c] = held[t]
        /\ Where'[a] = x /\ Where'[b] = << >> /\ Where'[c] = held[t] \o y
    BY <1>1, <1>9, IdleCall, WhereIs DEF k, o
  <2>3. ASSUME NEW z \in Places, z # a, z # b, z # c PROVE Where'[z] = Where[z]
    <3>1. CASE z = Store
      BY <1>1, <3>1, WhereIs
    <3>2. ASSUME NEW s \in Lcores, z = <<"cache", s>> PROVE Where'[z] = Where[z]
      BY <1>9, <2>3, <3>2, WhereIs
    <3>3. ASSUME NEW s \in Threads, z = <<"held", s>> PROVE Where'[z] = Where[z]
      BY <1>9, <2>3, <3>3, WhereIs
    <3>4. ASSUME NEW s \in Threads, z = <<"call", s>> PROVE Where'[z] = Where[z]
      <4>1. s # t
        BY <2>3, <3>4
      <4>2. call'[s] = call[s]
        BY <1>9, <4>1, Zenon
      <4> QED BY <3>4, <4>2, WhereIs
    <3> QED BY <3>1, <3>2, <3>3, <3>4, PlaceOf
  <2> HIDE DEF a, b, c
  <2>4. /\ g[a] = full /\ g[b] = << >> /\ g[c] = held[t]
        /\ \A z \in Places : z # a /\ z # b => g[z] = Where[z]
    BY <2>1, <2>2
  <2> HIDE DEF g
  <2>5. AllOnce(Where)
    BY <1>1, OnceIsAllOnce
  <2>6. g[a] = Where[a] \o o
    BY <2>2, <2>4 DEF full
  <2>7. AllOnce(g)
    <3>1. \A z \in Places : z # b /\ z # a => g[z] = Where[z]
      BY <2>4
    <3> QED BY <1>1, <1>8, <2>1, <2>2, <2>4, <2>5, <2>6, <3>1, Moved DEF k, o
  <2>8. AllOnce(Where')
    <3>1. ASSUME NEW z \in Places, z # a, z # c PROVE Where'[z] = g[z]
      <4>1. CASE z = b
        BY <2>2, <2>4, <4>1
      <4>2. CASE z # b
        BY <2>3, <2>4, <3>1, <4>2
      <4> QED BY <4>1, <4>2
    <3>2. Where'[c] = g[c] \o y /\ Where'[a] = x /\ g[a] \in Seq(Objs) /\ g[c] \in Seq(Objs)
      BY <1>1, <1>3, <2>2, <2>4
    <3>3. Cut(g[a], x, y)
      BY <1>6, <2>4
    <3> QED BY <2>1, <2>7, <3>1, <3>2, <3>3, Moved
  <2> QED BY <2>8, OnceIsAllOnce
<1>12. CallOK(t)' /\ CacheOK(t)'
  <2>1. CallOK(t)'
    BY <1>9, IdleCall DEF CallOK
  <2>2. Settled' = Settled /\ Len(cache'[t]) = CacheSize
    BY <1>1, <1>6, <1>9 DEF Settled, CacheSize
  <2>3. CacheOK(t)'
    BY <1>4, <1>9, <2>2, IdleCall DEF CacheOK, At
  <2> QED BY <2>1, <2>3
<1> QED BY <1>1, <1>9, <1>10, <1>11, <1>12, OthersKept

-----------------------------------------------------------------------------
(* The invariant holds when the pool has been populated. *)
LEMMA InitInv == Init => IndInv
<1> SUFFICES ASSUME Init PROVE IndInv
  OBVIOUS
<1>1. PoolSize \in Nat
  BY Constants, FS_CardinalityType DEF PoolSize
<1>2. /\ store \in [1..PoolSize -> Objs] /\ IsInjective(store)
      /\ \A o \in Objs : \E i \in 1..PoolSize : store[i] = o
  BY DEF Init, Bijection, Injection, Surjection
<1>3. store \in Seq(Objs) /\ Len(store) = PoolSize
  BY <1>1, <1>2
<1>4. << >> \in Seq(Objs) /\ Len(<< >>) = 0 /\ IsInjective(<< >>) /\ Range(<< >>) = {}
  <2>1. << >> \in Seq(Objs) /\ Len(<< >>) = 0
    BY EmptySeq
  <2>2. \A i \in 1..0 : FALSE
    OBVIOUS
  <2>3. Range(<< >>) = {<< >>[i] : i \in 1..0}
    BY <2>1, SeqFun
  <2>4. Range(<< >>) = {}
    BY <2>2, <2>3
  <2>5. IsInjective(<< >>)
    BY <2>1, <2>2, InjectiveSeq
  <2> QED BY <2>1, <2>4, <2>5
<1>5. /\ \A t \in Lcores : cache[t] = << >>
      /\ \A t \in Threads : held[t] = << >> /\ call[t] = Idle
  BY DEF Init
<1>6. TypeOK
  <2>1. mp \in [stack : BOOLEAN, cache_size : Nat] /\ mp.cache_size <= CacheMax
    <3>1. mp \in [stack : BOOLEAN, cache_size : CacheSizes] /\ mp.cache_size <= CacheMax
      BY DEF Init, CacheSize
    <3> QED BY <3>1, Constants
  <2>2. cache \in [Lcores -> Seq(Objs)] /\ held \in [Threads -> Seq(Objs)]
    BY <1>4 DEF Init
  <2>3. call \in [Threads -> CallSet]
    BY IdleCall DEF Init
  <2> QED BY <1>3, <2>1, <2>2, <2>3 DEF TypeOK
<1>7. ASSUME NEW t \in Threads PROVE CallOK(t)
  BY <1>5, IdleCall DEF CallOK
<1>8. ASSUME NEW t \in Lcores PROVE CacheOK(t)
  <2>1. Settled \in Nat /\ Len(cache[t]) = 0 /\ call[t] = Idle
    BY <1>4, <1>5, <1>6, Sizes DEF Threads
  <2>2. Len(cache[t]) <= Settled
    BY <2>1
  <2> QED BY <2>1, <2>2, IdleCall DEF CacheOK, At
<1>9. OnePlace
  <2>1. Where[Store] = store /\ Store \in Places
    BY WhereIs, PlaceOf
  <2>2. ASSUME NEW x \in Places, x # Store PROVE Where[x] = << >>
    <3>1. ASSUME NEW s \in Lcores, x = <<"cache", s>> PROVE Where[x] = << >>
      BY <1>5, <3>1, WhereIs
    <3>2. ASSUME NEW s \in Threads, x = <<"held", s>> PROVE Where[x] = << >>
      BY <1>5, <3>2, WhereIs
    <3>3. ASSUME NEW s \in Threads, x = <<"call", s>> PROVE Where[x] = << >>
      BY <1>5, <3>3, WhereIs, IdleCall
    <3> QED BY <2>2, <3>1, <3>2, <3>3, PlaceOf
  <2>3. \A x \in Places : IsInjective(Where[x])
    BY <1>2, <1>4, <2>1, <2>2
  <2>4. ASSUME NEW x \in Places, NEW y \in Places, x # y
        PROVE  Range(Where[x]) \cap Range(Where[y]) = {}
    <3>1. x # Store \/ y # Store
      BY <2>4
    <3>2. Range(Where[x]) = {} \/ Range(Where[y]) = {}
      BY <1>4, <2>2, <3>1
    <3> QED BY <3>2
  <2>5. \A o \in Objs : o \in Range(Where[Store])
    <3>1. Range(store) = {store[i] : i \in 1..PoolSize}
      BY <1>3, SeqFun
    <3> QED BY <1>2, <2>1, <3>1
  <2> QED BY <2>1, <2>3, <2>4, <2>5 DEF OnePlace
<1> QED BY <1>6, <1>7, <1>8, <1>9 DEF IndInv

(* The invariant is inductive. *)
LEMMA NextInv == IndInv /\ [Next]_vars => IndInv'
<1> SUFFICES ASSUME IndInv, [Next]_vars PROVE IndInv'
  OBVIOUS
<1>1. ASSUME NEW t \in Threads, NEW n \in 1..MaxBulk, Put(t, n) PROVE IndInv'
  <2>1. n \in Nat
    BY Constants
  <2> QED BY <1>1, <2>1, PutPast, PutCached
<1>2. ASSUME NEW t \in Threads, NEW n \in 1..MaxBulk, Get(t, n) PROVE IndInv'
  <2>1. n \in Nat
    BY Constants
  <2> QED BY <1>2, <2>1, GetPast, GetCached
<1>3. ASSUME NEW t \in Threads,
             \/ Spill(t) \/ Flush(t) \/ Enqueue(t) \/ Publish(t)
             \/ Backfill(t) \/ Fill(t) \/ Direct(t) \/ Return(t)
      PROVE  IndInv'
  BY <1>3, SpillStep, FlushStep, EnqueueStep, PublishStep, BackfillStep, FillStep, DirectStep,
     ReturnStep
<1>4. CASE UNCHANGED vars
  BY <1>4 DEF vars, IndInv, TypeOK, CallOK, CacheOK, At, OnePlace, Where, Settled, FlushThresh,
     CacheSize
<1> QED BY <1>1, <1>2, <1>3, <1>4 DEF Next

(* Every call and every cache is where the invariant says. *)
THEOREM PoolInvariance == Spec => []IndInv
BY InitInv, NextInv, PTL DEF Spec

(* No object of a pool is lost or given to two threads, for any number of  *)
(* threads and any pool that a ring can hold: the enqueue whose result     *)
(* __mempool_generic_put does not look at never fails.                     *)
THEOREM EveryObjectOnce == Spec => []OnePlace
<1>1. IndInv => OnePlace
  BY DEF IndInv
<1> QED BY <1>1, PoolInvariance, PTL

(* What a put or a backfill writes stays inside objs[] of the cache. *)
THEOREM CacheNeverOverflows == Spec => []CacheFits
<1>1. ASSUME IndInv, NEW t \in Lcores
      PROVE  LET written == Len(cache[t]) + (IF At(t, "fill") THEN Len(call[t].objs) ELSE 0)
             IN  written <= Settled + CacheMax /\ written <= 3 * CacheMax
  <2> DEFINE l == Len(cache[t])
             m == IF At(t, "fill") THEN Len(call[t].objs) ELSE 0
  <2>1. TypeOK /\ CallOK(t) /\ CacheOK(t) /\ cache[t] \in Seq(Objs)
    BY <1>1 DEF IndInv, Threads, TypeOK
  <2>2. /\ CacheSize \in Nat /\ CacheSize <= CacheMax /\ CacheMax \in Nat
        /\ Settled \in Nat /\ CacheSize <= Settled /\ Settled <= 2 * CacheMax /\ l \in Nat
    BY <2>1, Sizes, SeqFun
  <2>3. CASE At(t, "fill")
    <3>1. m = call[t].n + (CacheSize - l) /\ call[t].n < CacheSize /\ call[t].n \in Nat
      BY <1>1, <2>1, <2>3 DEF CallOK, At, IndInv, TypeOK, CallSet, Threads
    <3> HIDE DEF m, l, CacheSize, Settled
    <3>2. l + m <= Settled + CacheMax /\ l + m <= 3 * CacheMax
      BY <2>2, <3>1
    <3> QED BY <3>2 DEF m, l
  <2>4. CASE ~At(t, "fill")
    <3>1. m = 0 /\ l <= Settled + CacheMax
      <4>1. m = 0
        BY <2>4
      <4>2. CASE At(t, "spill")
        BY <2>1, <4>1, <4>2 DEF CacheOK
      <4>3. CASE ~At(t, "spill")
        <5>1. l <= Settled
          BY <2>1, <4>3 DEF CacheOK
        <5> HIDE DEF l, Settled
        <5>2. l <= Settled + CacheMax
          BY <2>2, <5>1
        <5> QED BY <4>1, <5>2
      <4> QED BY <4>2, <4>3
    <3> HIDE DEF m, l, CacheSize, Settled
    <3>2. l + m <= Settled + CacheMax /\ l + m <= 3 * CacheMax
      BY <2>2, <3>1
    <3> QED BY <3>2 DEF m, l
  <2> QED BY <2>3, <2>4
<1>2. IndInv => CacheFits
  BY <1>1 DEF CacheFits
<1> QED BY <1>2, PoolInvariance, PTL

-----------------------------------------------------------------------------
(* How many objects threads have, and the sum of what each has. *)

Any(s) == CHOOSE x \in s : TRUE

(* f sums w over the sets of D, an element at a time. *)
Sums(f, w, D) == f = [s \in D |-> IF s = {} THEN 0 ELSE w[Any(s)] + f[s \ {Any(s)}]]

(* A set of numbers has a least one. *)
LEMMA LeastNat ==
  ASSUME NEW T \in SUBSET Nat, T # {}
  PROVE  \E x \in T : \A y \in T : ~(y < x)
<1> DEFINE R == {ss \in Nat \X Nat : ss[1] < ss[2]}
<1>1. IsWellFoundedOn(R, Nat)
  BY NatLessThanWellFounded, Zenon DEF OpToRel
<1> HIDE DEF R
<1>2. PICK x \in T : \A y \in T : ~(<<y, x>> \in R)
  BY <1>1, WFMin
<1>3. \A y \in T : ~(y < x)
  BY <1>2 DEF R
<1> QED BY <1>3

(* An element of a finite set, and what remains without it. *)
LEMMA AnyElement ==
  ASSUME NEW s, IsFiniteSet(s), s # {}
  PROVE  /\ Any(s) \in s /\ IsFiniteSet(s \ {Any(s)}) /\ Cardinality(s) \in Nat \ {0}
         /\ Cardinality(s \ {Any(s)}) = Cardinality(s) - 1
<1>1. PICK a : a = Any(s)
  OBVIOUS
<1>2. a \in s
  BY <1>1 DEF Any
<1>3. IsFiniteSet(s \ {a}) /\ Cardinality(s \ {a}) = Cardinality(s) - 1
  BY <1>2, FS_RemoveElement
<1>4. Cardinality(s) \in Nat /\ Cardinality(s) # 0
  BY FS_CardinalityType, FS_EmptySet
<1> QED BY <1>1, <1>2, <1>3, <1>4

(* The sum over every subset of a finite set. *)
LEMMA SumExists ==
  ASSUME NEW S, IsFiniteSet(S), NEW w
  PROVE  \E f : Sums(f, w, SUBSET S)
<1> DEFINE Small(n) == {s \in SUBSET S : Cardinality(s) <= n}
           T == {n \in Nat : ~ \E f : Sums(f, w, Small(n))}
<1>1. \A s \in SUBSET S : IsFiniteSet(s) /\ Cardinality(s) \in Nat
  BY FS_Subset, FS_CardinalityType
<1>2. T = {}
  <2> SUFFICES ASSUME T # {} PROVE FALSE
    OBVIOUS
  <2>1. PICK n \in T : \A y \in T : ~(y < n)
    <3>1. T \in SUBSET Nat
      OBVIOUS
    <3> HIDE DEF T
    <3> QED BY <3>1, LeastNat
  <2>2. n \in Nat /\ ~ \E f : Sums(f, w, Small(n))
    OBVIOUS
  <2>3. CASE n = 0
    <3>1. \A s \in Small(n) : s = {}
      BY <1>1, <2>3, FS_EmptySet
    <3>2. PICK f : f = [s \in Small(n) |-> 0]
      OBVIOUS
    <3> HIDE DEF Small
    <3>3. f = [s \in Small(n) |-> IF s = {} THEN 0 ELSE w[Any(s)] + f[s \ {Any(s)}]]
      BY <3>1, <3>2
    <3> QED BY <2>2, <3>3 DEF Sums
  <2>4. CASE n # 0
    <3>1. n - 1 \in Nat /\ n - 1 < n
      BY <2>2, <2>4
    <3>2. n - 1 \notin T
      BY <2>1, <3>1
    <3>3. PICK f : Sums(f, w, Small(n - 1))
      BY <3>1, <3>2
    <3>4. PICK g : g = [s \in Small(n) |-> IF s = {} THEN 0 ELSE w[Any(s)] + f[s \ {Any(s)}]]
      OBVIOUS
    <3>5. \A s \in Small(n) : s # {} => s \ {Any(s)} \in Small(n - 1)
      <4> TAKE s \in Small(n)
      <4> HAVE s # {}
      <4>1. IsFiniteSet(s) /\ Cardinality(s) \in Nat /\ Cardinality(s) <= n /\ s \in SUBSET S
        BY <1>1
      <4>2. Cardinality(s \ {Any(s)}) = Cardinality(s) - 1
        BY <4>1, AnyElement
      <4>3. Cardinality(s \ {Any(s)}) <= n - 1
        BY <2>2, <4>1, <4>2
      <4>4. s \ {Any(s)} \in SUBSET S
        BY <4>1
      <4> QED BY <4>3, <4>4
    <3>6. \A s \in Small(n - 1) : s \in Small(n)
      BY <1>1, <2>2
    <3> HIDE DEF Small, T
    <3>7. \A s \in Small(n - 1) : g[s] = f[s]
      <4> TAKE s \in Small(n - 1)
      <4>1. f[s] = IF s = {} THEN 0 ELSE w[Any(s)] + f[s \ {Any(s)}]
        BY <3>3 DEF Sums
      <4>2. g[s] = IF s = {} THEN 0 ELSE w[Any(s)] + f[s \ {Any(s)}]
        BY <3>4, <3>6
      <4> QED BY <4>1, <4>2
    <3>8. g = [s \in Small(n) |-> IF s = {} THEN 0 ELSE w[Any(s)] + g[s \ {Any(s)}]]
      <4>1. \A s \in Small(n) : s # {} => g[s \ {Any(s)}] = f[s \ {Any(s)}]
        BY <3>5, <3>7
      <4> QED BY <3>4, <4>1
    <3> QED BY <2>2, <3>8 DEF Sums
  <2> QED BY <2>3, <2>4
<1>3. PICK n \in Nat : n = Cardinality(S)
  BY FS_CardinalityType
<1>4. SUBSET S = Small(n)
  BY <1>3, FS_Subset
<1>5. \E f : Sums(f, w, Small(n))
  BY <1>2
<1> HIDE DEF Small, T
<1> QED BY <1>4, <1>5

(* At most as many as in both. *)
LEMMA UnionBound ==
  ASSUME NEW A, NEW B, IsFiniteSet(A), IsFiniteSet(B)
  PROVE  /\ IsFiniteSet(A \cup B) /\ Cardinality(A \cup B) \in Nat
         /\ Cardinality(A \cup B) <= Cardinality(A) + Cardinality(B)
<1>1. IsFiniteSet(A \cup B) /\ Cardinality(A \cup B) = Cardinality(A) + Cardinality(B) - Cardinality(A \cap B)
  BY FS_Union
<1>2. IsFiniteSet(A \cap B)
  <2>1. A \cap B \in SUBSET A
    OBVIOUS
  <2> QED BY <2>1, FS_Subset
<1>3. Cardinality(A) \in Nat /\ Cardinality(B) \in Nat /\ Cardinality(A \cap B) \in Nat
  BY <1>2, FS_CardinalityType
<1>4. Cardinality(A \cup B) \in Nat
  BY <1>1, FS_CardinalityType
<1> QED BY <1>1, <1>3, <1>4

(* The objects of t are at most w[t], and k more where t is in L. *)
AtMost(w, O, L, k, t) ==
  /\ w[t] \in Nat /\ IsFiniteSet(O[t])
  /\ Cardinality(O[t]) <= w[t] + (IF t \in L THEN k ELSE 0)

(* Those of all of s are at most f[s], and k more for each that is in L. *)
AllAtMost(f, O, L, k, s) ==
  /\ f[s] \in Nat /\ IsFiniteSet(UNION {O[t] : t \in s})
  /\ Cardinality(UNION {O[t] : t \in s}) <= f[s] + Cardinality(s \cap L) * k

(* The bound on each adds up to the bound on all. *)
LEMMA SumBounds ==
  ASSUME NEW S, IsFiniteSet(S), NEW w, NEW f, Sums(f, w, SUBSET S), NEW O, NEW L, NEW k \in Nat,
         \A t \in S : AtMost(w, O, L, k, t)
  PROVE  \A s \in SUBSET S : AllAtMost(f, O, L, k, s)
<1> DEFINE U(s) == UNION {O[t] : t \in s}
           Good(s) == /\ f[s] \in Nat /\ IsFiniteSet(U(s))
                      /\ Cardinality(U(s)) <= f[s] + Cardinality(s \cap L) * k
           T == {n \in Nat : \E s \in SUBSET S : Cardinality(s) = n /\ ~Good(s)}
<1>0. \A t \in S : /\ w[t] \in Nat /\ IsFiniteSet(O[t])
                   /\ Cardinality(O[t]) <= w[t] + (IF t \in L THEN k ELSE 0)
  BY DEF AtMost
<1>1. \A s \in SUBSET S : IsFiniteSet(s) /\ Cardinality(s) \in Nat
  BY FS_Subset, FS_CardinalityType
<1>2. \A s \in SUBSET S : f[s] = IF s = {} THEN 0 ELSE w[Any(s)] + f[s \ {Any(s)}]
  BY DEF Sums
<1>3. T = {}
  <2> SUFFICES ASSUME T # {} PROVE FALSE
    OBVIOUS
  <2>1. PICK n \in T : \A y \in T : ~(y < n)
    <3>1. T \in SUBSET Nat
      OBVIOUS
    <3> HIDE DEF T
    <3> QED BY <3>1, LeastNat
  <2>2. PICK s \in SUBSET S : Cardinality(s) = n /\ ~Good(s)
    OBVIOUS
  <2>3. CASE s = {}
    <3>1. f[s] = 0 /\ U(s) = {} /\ s \cap L = {}
      BY <1>2, <2>3
    <3>2. IsFiniteSet(U(s)) /\ Cardinality(U(s)) = 0 /\ Cardinality(s \cap L) = 0
      BY <3>1, FS_EmptySet
    <3>3. 0 <= 0 + 0 * k
      OBVIOUS
    <3> QED BY <2>2, <3>1, <3>2, <3>3
  <2>4. CASE s # {}
    <3>1. PICK a : a = Any(s)
      OBVIOUS
    <3>2. PICK u : u = s \ {a}
      OBVIOUS
    <3>3. a \in s /\ a \in S /\ u \in SUBSET S /\ IsFiniteSet(u) /\ n \in Nat \ {0}
          /\ Cardinality(u) = n - 1
      BY <1>1, <2>2, <2>4, <3>1, <3>2, AnyElement
    <3>4. Good(u)
      <4>1. n - 1 \in Nat /\ n - 1 < n
        BY <3>3
      <4>2. n - 1 \notin T
        BY <2>1, <4>1
      <4> QED BY <3>3, <4>1, <4>2
    <3>5. f[s] = w[a] + f[u]
      BY <1>2, <2>4, <3>1, <3>2
    <3>6. U(s) = U(u) \cup O[a]
      BY <3>2, <3>3
    <3>7. /\ f[u] \in Nat /\ IsFiniteSet(U(u)) /\ Cardinality(U(u)) \in Nat
          /\ Cardinality(U(u)) <= f[u] + Cardinality(u \cap L) * k
      BY <3>4, FS_CardinalityType
    <3>8. /\ w[a] \in Nat /\ IsFiniteSet(O[a]) /\ Cardinality(O[a]) \in Nat
          /\ Cardinality(O[a]) <= w[a] + (IF a \in L THEN k ELSE 0)
      BY <1>0, <3>3, FS_CardinalityType
    <3> HIDE DEF U
    <3>9. /\ IsFiniteSet(U(s)) /\ Cardinality(U(s)) \in Nat
          /\ Cardinality(U(s)) <= Cardinality(U(u)) + Cardinality(O[a])
      BY <3>6, <3>7, <3>8, UnionBound
    <3>10. PICK c \in Nat : c = Cardinality(u \cap L) /\ IsFiniteSet(u \cap L)
      <4>1. u \cap L \in SUBSET u
        OBVIOUS
      <4> QED BY <3>3, <4>1, FS_Subset, FS_CardinalityType
    <3>11. Cardinality(s \cap L) = c + (IF a \in L THEN 1 ELSE 0)
      <4>1. CASE a \in L
        <5>1. s \cap L = (u \cap L) \cup {a} /\ a \notin u \cap L
          BY <3>2, <3>3, <4>1
        <5> QED BY <3>10, <4>1, <5>1, FS_AddElement
      <4>2. CASE a \notin L
        <5>1. s \cap L = u \cap L
          BY <3>2, <4>2
        <5>2. c + 0 = c
          OBVIOUS
        <5> QED BY <3>10, <4>2, <5>1, <5>2
      <4> QED BY <4>1, <4>2
    <3>12. (c + 1) * k = c * k + k /\ c * k \in Nat
      OBVIOUS
    <3>13. Cardinality(s \cap L) * k = c * k + (IF a \in L THEN k ELSE 0)
      <4>1. CASE a \in L
        BY <3>11, <3>12, <4>1
      <4>2. CASE a \notin L
        <5>1. Cardinality(s \cap L) = c /\ c * k + 0 = c * k
          BY <3>11, <3>12, <4>2
        <5> QED BY <4>2, <5>1
      <4> QED BY <4>1, <4>2
    <3>14. f[s] \in Nat
      BY <3>5, <3>7, <3>8
    <3>15. PICK e \in Nat : e = c * k
      BY <3>12
    <3>16. Cardinality(U(s)) <= f[s] + Cardinality(s \cap L) * k
      <4>1. Cardinality(U(u)) <= f[u] + e
        BY <3>7, <3>10, <3>15
      <4>2. Cardinality(s \cap L) * k = e + (IF a \in L THEN k ELSE 0)
        BY <3>13, <3>15
      <4> QED BY <3>5, <3>7, <3>8, <3>9, <3>15, <4>1, <4>2
    <3> QED BY <2>2, <3>9, <3>14, <3>16
  <2> QED BY <2>3, <2>4
<1>4. \A s \in SUBSET S : Good(s)
  BY <1>1, <1>3
<1> QED BY <1>4 DEF AllAtMost
-----------------------------------------------------------------------------
(* A get of fewer objects than the cache has room for goes to the store    *)
(* only when a backfill has failed, with fewer objects in the cache.       *)
DirectOK ==
  \A t \in Lcores : At(t, "direct") /\ call[t].n < CacheSize => Len(cache[t]) < call[t].n

(* A step of thread u that leaves it elsewhere than before the store. *)
LEMMA DirectOther ==
  ASSUME IndInv, DirectOK, NEW u \in Threads, mp' = mp,
         \A t \in Threads : t # u => call'[t] = call[t],
         \A t \in Lcores : t # u => cache'[t] = cache[t],
         u \in Lcores /\ call'[u].pc = "direct" /\ call'[u].n < CacheSize =>
           Len(cache'[u]) < call'[u].n
  PROVE  DirectOK'
<1>1. Lcores \subseteq Threads /\ CacheSize' = CacheSize
  BY DEF Threads, CacheSize
<1>2. ASSUME NEW t \in Lcores, call'[t].pc = "direct", call'[t].n < CacheSize
      PROVE  Len(cache'[t]) < call'[t].n
  <2>1. CASE t = u
    BY <1>2, <2>1
  <2>2. CASE t # u
    <3>1. call'[t] = call[t] /\ cache'[t] = cache[t]
      BY <1>1, <2>2
    <3> QED BY <1>2, <3>1 DEF DirectOK, At
  <2> QED BY <2>1, <2>2
<1> QED BY <1>1, <1>2 DEF DirectOK, At

(* It holds on, whatever a thread does. *)
LEMMA NextDirect == IndInv /\ DirectOK /\ [Next]_vars => DirectOK'
<1> SUFFICES ASSUME IndInv, DirectOK, [Next]_vars PROVE DirectOK'
  OBVIOUS
<1>0. /\ call \in [Threads -> CallSet] /\ cache \in [Lcores -> Seq(Objs)] /\ CacheSize \in Nat
      /\ \A t \in Threads : CallOK(t)
  BY Sizes DEF IndInv, TypeOK
<1>1. ASSUME NEW u \in Threads, NEW n \in 1..MaxBulk, Put(u, n) PROVE DirectOK'
  <2>1. /\ mp' = mp /\ \A t \in Threads : t # u => call'[t] = call[t]
        /\ \A t \in Lcores : t # u => cache'[t] = cache[t]
    BY <1>0, <1>1 DEF Put
  <2>2. call'[u].pc # "direct"
    <3>1. CASE PutPassesCache(u, n)
      BY <1>0, <1>1, <3>1 DEF Put
    <3>2. CASE ~PutPassesCache(u, n)
      <4>1. call' = [call EXCEPT ![u].pc =
              IF Len(cache[u]) + n >= FlushThresh THEN "spill" ELSE "idle"]
        BY <1>1, <3>2 DEF Put
      <4>2. call'[u].pc = IF Len(cache[u]) + n >= FlushThresh THEN "spill" ELSE "idle"
        BY <1>0, <4>1 DEF CallSet
      <4> QED BY <4>2
    <3> QED BY <3>1, <3>2
  <2> QED BY <2>1, <2>2, DirectOther
<1>2. ASSUME NEW u \in Threads, NEW n \in 1..MaxBulk, Get(u, n) PROVE DirectOK'
  <2>0. n \in Nat
    BY Constants
  <2>1. /\ mp' = mp /\ \A t \in Threads : t # u => call'[t] = call[t]
        /\ \A t \in Lcores : t # u => cache'[t] = cache[t]
    BY <1>0, <1>2 DEF Get
  <2>2. CASE ~GetPassesCache(u, n) /\ n <= Len(cache[u])
    <3>1. call'[u].pc # "direct"
      BY <1>2, <2>2 DEF Get, At
    <3> QED BY <2>1, <3>1, DirectOther
  <2>3. CASE ~(~GetPassesCache(u, n) /\ n <= Len(cache[u]))
    <3>1. call'[u].n = n /\ call'[u].pc = IF GetPassesCache(u, n) THEN "direct" ELSE "backfill"
      BY <1>0, <1>2, <2>3 DEF Get, CallSet
    <3>2. ASSUME u \in Lcores, call'[u].pc = "direct", call'[u].n < CacheSize PROVE FALSE
      <4>1. GetPassesCache(u, n)
        BY <3>1, <3>2
      <4>2. CacheSize = 0
        BY <1>0, <2>0, <3>1, <3>2, <4>1 DEF GetPassesCache, rte_mempool_default_cache
      <4> QED BY <2>0, <3>1, <3>2, <4>2
    <3> QED BY <2>1, <3>2, DirectOther
  <2> QED BY <2>2, <2>3
<1>3. ASSUME NEW u \in Threads, Backfill(u) PROVE DirectOK'
  <2>1. /\ mp' = mp /\ (\A t \in Threads : t # u => call'[t] = call[t]) /\ cache' = cache
        /\ call[u].pc = "backfill"
    BY <1>0, <1>3 DEF Backfill, Dequeue, At
  <2>2. call'[u].n = call[u].n
    BY <1>0, <1>3 DEF Backfill, Dequeue, CallSet
  <2>3. Len(cache[u]) < call[u].n
    BY <1>0, <2>1 DEF CallOK
  <2> QED BY <2>1, <2>2, <2>3, DirectOther
<1>4. ASSUME NEW u \in Threads,
             \/ Spill(u) \/ Flush(u) \/ Enqueue(u) \/ Publish(u)
             \/ Fill(u) \/ Direct(u) \/ Return(u)
      PROVE  DirectOK'
  <2>1. /\ mp' = mp /\ \A t \in Threads : t # u => call'[t] = call[t]
        /\ \A t \in Lcores : t # u => cache'[t] = cache[t]
    BY <1>0, <1>4 DEF Spill, Flush, Enqueue, Publish, Fill, Direct, Return, Dequeue
  <2>2. call'[u].pc # "direct"
    <3>1. CASE Spill(u) \/ Flush(u)
      <4>1. call'[u].pc = "enqueue"
        BY <1>0, <3>1 DEF Spill, Flush
      <4> QED BY <4>1
    <3>2. CASE Publish(u) \/ Fill(u) \/ Return(u)
      <4>1. call' = [call EXCEPT ![u] = Idle]
        BY <3>2, Zenon DEF Publish, Fill, Return
      <4> QED BY <1>0, <4>1 DEF Idle
    <3>3. CASE Enqueue(u)
      <4>1. \/ call' = [call EXCEPT ![u] = Idle]
            \/ call' = [call EXCEPT ![u].pc = "publish"]
        BY <3>3 DEF Enqueue
      <4> QED BY <1>0, <4>1 DEF Idle, CallSet
    <3>4. CASE Direct(u)
      BY <1>0, <3>4 DEF Direct, Dequeue, Idle, CallSet
    <3> QED BY <1>4, <3>1, <3>2, <3>3, <3>4
  <2> QED BY <2>1, <2>2, DirectOther
<1>5. CASE UNCHANGED vars
  BY <1>5 DEF vars, DirectOK, At, CacheSize
<1> QED BY <1>1, <1>2, <1>3, <1>4, <1>5 DEF Next

(* A get that fails leaves fewer objects in the store than it asked for. *)
LEMMA FailedGet ==
  ASSUME IndInv, [Next]_vars, NEW t \in Lcores, At(t, "direct"), At(t, "idle")'
  PROVE  call[t].n > Len(store)
<1>0. t \in Threads /\ call \in [Threads -> CallSet] /\ call[t].pc = "direct" /\ call'[t].pc = "idle"
  BY DEF IndInv, TypeOK, At, Threads
<1>1. PICK u \in Threads :
        \/ \E n \in 1..MaxBulk : Put(u, n) \/ Get(u, n)
        \/ Spill(u) \/ Flush(u) \/ Enqueue(u) \/ Publish(u)
        \/ Backfill(u) \/ Fill(u) \/ Direct(u) \/ Return(u)
  <2>1. ~UNCHANGED vars
    BY <1>0 DEF vars
  <2> QED BY <2>1 DEF Next
<1>2. ASSUME u # t PROVE call'[t] = call[t]
  BY <1>0, <1>1, <1>2 DEF Put, Get, Spill, Flush, Enqueue, Publish, Backfill, Fill, Direct,
     Return, Dequeue
<1>3. u = t
  BY <1>0, <1>2
<1>4. Direct(t)
  BY <1>0, <1>1, <1>3 DEF Put, Get, Spill, Flush, Enqueue, Publish, Backfill, Fill, Return, At
<1>5. ASSUME ~(call[t].n > Len(store)) PROVE call'[t].pc = "return"
  BY <1>0, <1>4, <1>5 DEF Direct, Dequeue, CallSet
<1> QED BY <1>0, <1>5

(* The objects a thread has, those in its cache with them. *)
Owned(u) ==
  Range(held[u]) \cup Range(call[u].objs) \cup (IF u \in Lcores THEN Range(cache[u]) ELSE {})

(* They are its objects in use and, of another lcore than t, those its     *)
(* cache keeps.                                                            *)
LEMMA OwnedBound ==
  ASSUME IndInv, NEW t \in Lcores, At(t, "direct"), Len(cache[t]) = 0, NEW u \in Threads
  PROVE  /\ InUse(u) \in Nat /\ IsFiniteSet(Owned(u))
         /\ Cardinality(Owned(u)) <= InUse(u) + (IF u \in Lcores \ {t} THEN Settled ELSE 0)
<1> DEFINE H == Range(held[u])
           C == Range(call[u].objs)
           K == Range(cache[u])
           h == Len(held[u])
           c == Len(call[u].objs)
           l == Len(cache[u])
<1>0. Lcores \subseteq Threads /\ TypeOK /\ CallOK(u) /\ \A x \in Places : IsInjective(Where[x])
  BY DEF IndInv, OnePlace, Threads
<1>1. IsFiniteSet(H) /\ Cardinality(H) = h /\ h \in Nat
  <2>1. held[u] \in Seq(Objs) /\ IsInjective(held[u])
    BY <1>0, WhereIs, PlaceOf DEF TypeOK
  <2> QED BY <2>1, LenIsCardinality
<1>2. IsFiniteSet(C) /\ Cardinality(C) = c /\ c \in Nat
  <2>1. call[u].objs \in Seq(Objs) /\ IsInjective(call[u].objs)
    BY <1>0, WhereIs, PlaceOf DEF TypeOK, CallSet
  <2> QED BY <2>1, LenIsCardinality
<1>3. ASSUME u \in Lcores PROVE IsFiniteSet(K) /\ Cardinality(K) = l /\ l \in Nat
  <2>1. cache[u] \in Seq(Objs) /\ IsInjective(cache[u])
    BY <1>0, <1>3, WhereIs, PlaceOf DEF TypeOK
  <2> QED BY <2>1, LenIsCardinality
<1>4. /\ CacheSize \in Nat /\ FlushThresh \in Nat /\ CacheSize <= FlushThresh
      /\ Settled \in Nat /\ CacheSize <= Settled
  BY <1>0, Sizes
<1>5. /\ InUse(u) = h + c + (IF At(u, "spill") THEN l - CacheSize ELSE 0)
      /\ Owned(u) = H \cup C \cup (IF u \in Lcores THEN K ELSE {})
  BY DEF InUse, Owned
<1>6. IsFiniteSet(H \cup C) /\ Cardinality(H \cup C) \in Nat /\ Cardinality(H \cup C) <= h + c
  <2> HIDE DEF H, C, h, c
  <2> QED BY <1>1, <1>2, UnionBound
<1> HIDE DEF H, C, K, h, c, l, CacheSize, FlushThresh, Settled
<1>7. ASSUME ~At(u, "spill") PROVE InUse(u) = h + c
  BY <1>1, <1>2, <1>5, <1>7
<1>8. CASE u \notin Lcores
  <2>1. ~At(u, "spill")
    BY <1>0, <1>8 DEF CallOK, At
  <2>2. Owned(u) = H \cup C
    BY <1>5, <1>8
  <2>3. h + c \in Nat /\ (IF u \in Lcores \ {t} THEN Settled ELSE 0) = 0 /\ (h + c) + 0 = h + c
    BY <1>1, <1>2, <1>8
  <2> QED BY <1>6, <1>7, <2>1, <2>2, <2>3
<1>9. CASE u \in Lcores
  <2>0. IsFiniteSet(K) /\ Cardinality(K) = l /\ l \in Nat /\ Owned(u) = H \cup C \cup K
    BY <1>3, <1>5, <1>9
  <2>1. IsFiniteSet(Owned(u)) /\ Cardinality(Owned(u)) \in Nat /\ Cardinality(Owned(u)) <= (h + c) + l
    <3>1. /\ IsFiniteSet(Owned(u)) /\ Cardinality(Owned(u)) \in Nat
          /\ Cardinality(Owned(u)) <= Cardinality(H \cup C) + Cardinality(K)
      BY <1>6, <2>0, UnionBound
    <3> QED BY <1>1, <1>2, <1>6, <2>0, <3>1
  <2>2. CASE u = t
    <3>1. ~At(u, "spill") /\ l = 0 /\ (IF u \in Lcores \ {t} THEN Settled ELSE 0) = 0
      BY <2>2 DEF At, l
    <3>2. h + c \in Nat /\ (h + c) + l = (h + c) + 0
      BY <1>1, <1>2, <3>1
    <3> QED BY <1>7, <2>1, <3>1, <3>2
  <2>3. CASE u # t /\ At(u, "spill")
    <3>1. FlushThresh <= l
      BY <1>9, <2>3 DEF IndInv, CacheOK, l
    <3>2. InUse(u) = h + c + (l - CacheSize) /\ (IF u \in Lcores \ {t} THEN Settled ELSE 0) = Settled
      BY <1>5, <1>9, <2>3
    <3>3. InUse(u) \in Nat /\ (h + c) + l <= InUse(u) + Settled
      BY <1>1, <1>2, <1>4, <2>0, <3>1, <3>2
    <3>4. Cardinality(Owned(u)) <= InUse(u) + Settled
      BY <1>1, <1>2, <1>4, <2>0, <2>1, <3>3
    <3> QED BY <2>1, <3>2, <3>3, <3>4
  <2>4. CASE u # t /\ ~At(u, "spill")
    <3>1. l <= Settled
      BY <1>9, <2>4 DEF IndInv, CacheOK, l
    <3>2. InUse(u) = h + c /\ (IF u \in Lcores \ {t} THEN Settled ELSE 0) = Settled
      BY <1>7, <1>9, <2>4
    <3>3. InUse(u) \in Nat /\ (h + c) + l <= InUse(u) + Settled
      BY <1>1, <1>2, <1>4, <2>0, <3>1, <3>2
    <3>4. Cardinality(Owned(u)) <= InUse(u) + Settled
      BY <1>1, <1>2, <1>4, <2>0, <2>1, <3>3
    <3> QED BY <2>1, <3>2, <3>3, <3>4
  <2> QED BY <2>2, <2>3, <2>4
<1> QED BY <1>8, <1>9

(* Each thread's objects in use, in one function. *)
UseOf == [u \in Threads |-> InUse(u)]

(* The sum over the threads, as the property has it, is a sum of UseOf. *)
LEMMA SumOfUse ==
  \E f : Sums(f, UseOf, SUBSET Threads) /\ MapThenSumSet(InUse, Threads) = f[Threads]
<1> DEFINE Rec(g) == g = [s \in SUBSET Threads |->
             IF s = {} THEN 0 ELSE InUse(CHOOSE x \in s : TRUE) + g[s \ {CHOOSE x \in s : TRUE}]]
<1>1. IsFiniteSet(Threads)
  BY Constants
<1>2. ASSUME NEW g PROVE Rec(g) <=> Sums(g, UseOf, SUBSET Threads)
  <2>1. ASSUME NEW s \in SUBSET Threads, s # {} PROVE UseOf[Any(s)] = InUse(Any(s))
    <3>1. Any(s) \in Threads
      BY <2>1 DEF Any
    <3> QED BY <3>1, Zenon DEF UseOf
  <2>2. [s \in SUBSET Threads |-> IF s = {} THEN 0 ELSE InUse(Any(s)) + g[s \ {Any(s)}]]
          = [s \in SUBSET Threads |-> IF s = {} THEN 0 ELSE UseOf[Any(s)] + g[s \ {Any(s)}]]
    BY <2>1
  <2> QED BY <2>2, Zenon DEF Sums, Any
<1>3. PICK f : Rec(f)
  <2>1. PICK f : Sums(f, UseOf, SUBSET Threads)
    BY <1>1, SumExists
  <2>2. Rec(f)
    BY <1>2, <2>1, Zenon
  <2> HIDE DEF Rec
  <2> QED BY <2>2
<1>4. \E g : Rec(g) /\ MapThenSumSet(InUse, Threads) = g[Threads]
  BY <1>3, Zenon DEF MapThenSumSet, MapThenFoldSet
<1> QED BY <1>2, <1>4

(* With nothing in the store, every object is some thread's. *)
LEMMA AllOwned ==
  ASSUME IndInv, Len(store) = 0
  PROVE  Objs \subseteq UNION {Owned(u) : u \in Threads}
<1>1. Range(store) = {}
  <2>1. store \in Seq(Objs) /\ \A i \in 1..0 : FALSE
    BY DEF IndInv, TypeOK
  <2>2. Range(store) = {store[i] : i \in 1..0}
    BY <2>1, SeqFun
  <2> QED BY <2>1, <2>2
<1>2. ASSUME NEW o \in Objs PROVE \E u \in Threads : o \in Owned(u)
  <2>1. PICK x \in Places : o \in Range(Where[x])
    BY DEF IndInv, OnePlace
  <2>2. x # Store
    BY <1>1, <2>1, WhereIs
  <2>3. ASSUME NEW u \in Lcores, x = <<"cache", u>> PROVE u \in Threads /\ o \in Owned(u)
    BY <2>1, <2>3, WhereIs DEF Owned, Threads
  <2>4. ASSUME NEW u \in Threads, x = <<"held", u>> \/ x = <<"call", u>> PROVE o \in Owned(u)
    BY <2>1, <2>4, WhereIs DEF Owned
  <2> QED BY <2>2, <2>3, <2>4, PlaceOf
<1> QED BY <1>2

(* The objects of a pool whose store is empty, counted. *)
LEMMA UsedUp ==
  ASSUME IndInv, NEW t \in Lcores, At(t, "direct"), Len(cache[t]) = 0, Len(store) = 0
  PROVE  MapThenSumSet(InUse, Threads) + (Cardinality(Lcores) - 1) * Settled >= PoolSize
<1> DEFINE O == [u \in Threads |-> Owned(u)]
           L == Lcores \ {t}
           U == UNION {O[u] : u \in Threads}
<1>1. IsFiniteSet(Threads) /\ Settled \in Nat
  BY Constants, Sizes DEF IndInv
<1>2. PICK f : Sums(f, UseOf, SUBSET Threads) /\ MapThenSumSet(InUse, Threads) = f[Threads]
  BY SumOfUse
<1>3. ASSUME NEW u \in Threads
      PROVE  AtMost(UseOf, O, L, Settled, u)
  <2>1. UseOf[u] = InUse(u) /\ O[u] = Owned(u)
    BY Zenon DEF UseOf
  <2> QED BY <2>1, OwnedBound DEF AtMost
<1>4. Objs \subseteq U
  BY AllOwned
<1> HIDE DEF O
<1>5. f[Threads] \in Nat /\ IsFiniteSet(U) /\ Cardinality(U) <= f[Threads] + Cardinality(Threads \cap L) * Settled
  <2> HIDE DEF L, Settled
  <2>1. \A s \in SUBSET Threads : AllAtMost(f, O, L, Settled, s)
    BY <1>1, <1>2, <1>3, SumBounds, Zenon
  <2>2. Threads \in SUBSET Threads
    OBVIOUS
  <2> QED BY <2>1, <2>2, Zenon DEF AllAtMost
<1>6. Threads \cap L = L /\ Cardinality(L) = Cardinality(Lcores) - 1 /\ Cardinality(L) \in Nat
  <2>1. Lcores \in SUBSET Threads /\ Threads \cap L = L
    BY DEF Threads
  <2>2. IsFiniteSet(Lcores)
    BY <1>1, <2>1, FS_Subset
  <2>3. IsFiniteSet(L) /\ Cardinality(L) = Cardinality(Lcores) - 1
    BY <2>2, FS_RemoveElement
  <2> QED BY <2>1, <2>3, FS_CardinalityType
<1>7. PoolSize <= Cardinality(U) /\ PoolSize \in Nat /\ Cardinality(U) \in Nat
  <2>1. IsFiniteSet(Objs)
    BY Constants
  <2>2. Cardinality(Objs) \in Nat /\ Cardinality(U) \in Nat /\ Cardinality(Objs) <= Cardinality(U)
    BY <1>4, <1>5, <2>1, FS_Subset, FS_CardinalityType
  <2> QED BY <2>2 DEF PoolSize
<1> HIDE DEF L, U, Settled, PoolSize
<1>8. PICK a \in Nat : a = Cardinality(L) * Settled
  BY <1>1, <1>6
<1>9. PoolSize <= f[Threads] + a
  <2>1. Cardinality(U) <= f[Threads] + a
    BY <1>5, <1>6, <1>8, Zenon
  <2> QED BY <1>5, <1>7, <2>1
<1>10. MapThenSumSet(InUse, Threads) + (Cardinality(Lcores) - 1) * Settled = f[Threads] + a
  BY <1>2, <1>6, <1>8
<1>11. f[Threads] + a >= PoolSize
  BY <1>5, <1>7, <1>9
<1> QED BY <1>10, <1>11

(* A get of one object fails only when the other lcores' caches and the    *)
(* threads' hands have the whole pool: rte_mempool_get of a pool with more *)
(* objects never returns an error.                                         *)
THEOREM GetFailsOnlyWhenUsed == Spec => FailsOnlyWhenUsed
<1> DEFINE A == \A t \in Lcores :
       At(t, "direct") /\ call[t].n = 1 /\ CacheSize > 1 /\ At(t, "idle")' =>
         MapThenSumSet(InUse, Threads) + (Cardinality(Lcores) - 1) * Settled >= PoolSize
<1>1. Init => DirectOK
  <2> SUFFICES ASSUME Init PROVE DirectOK
    OBVIOUS
  <2>1. \A t \in Lcores : call[t].pc = "idle"
    BY DEF Init, Idle, Threads
  <2> QED BY <2>1 DEF DirectOK, At
<1>2. ASSUME IndInv, DirectOK, [Next]_vars PROVE A
  <2> TAKE t \in Lcores
  <2> HAVE At(t, "direct") /\ call[t].n = 1 /\ CacheSize > 1 /\ At(t, "idle")'
  <2>1. Len(cache[t]) < 1 /\ Len(cache[t]) \in Nat /\ Len(store) \in Nat
    <3>1. cache[t] \in Seq(Objs) /\ store \in Seq(Objs) /\ CacheSize \in Nat
      BY <1>2, Sizes DEF IndInv, TypeOK
    <3>2. Len(cache[t]) \in Nat /\ Len(store) \in Nat
      BY <3>1, SeqFun
    <3>3. call[t].n < CacheSize
      BY <3>1
    <3> QED BY <1>2, <3>2, <3>3 DEF DirectOK
  <2>2. 1 > Len(store)
    BY <1>2, FailedGet
  <2>3. Len(cache[t]) = 0 /\ Len(store) = 0
    BY <2>1, <2>2
  <2> QED BY <1>2, <2>3, UsedUp
<1>3. IndInv /\ DirectOK /\ [Next]_vars => [A]_vars
  BY <1>2
<1> HIDE DEF A
<1>4. Spec => [][A]_vars
  BY <1>1, <1>3, NextDirect, PoolInvariance, PTL DEF Spec
<1> QED BY <1>4 DEF FailsOnlyWhenUsed, A
=============================================================================
