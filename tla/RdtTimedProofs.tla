--------------------------- MODULE RdtTimedProofs ---------------------------
(***************************************************************************)
(* The protocol of rdt/ under the simulated clock, for every latency,      *)
(* timeout and command line: the event chain agrees with the links and the *)
(* timer, and what it lets happen is a behaviour of the protocol without   *)
(* it.                                                                     *)
(***************************************************************************)
EXTENDS RdtProofs, RdtTimed, FunctionTheorems, FiniteSetTheorems, SequenceTheorems,
        WellFoundedInduction

(* Two events of one type for one packet. *)
Same(a, b) == a.type = b.type /\ a.pkt = b.pkt

(* How many events of a type are for a packet. *)
Places(ch, t, p) == {i \in 1..Len(ch) : ch[i].type = t /\ ch[i].pkt = p}
Number(ch, t, p) == Cardinality(Places(ch, t, p))

(* A chain of events in the order of time. *)
IsChain(ch) ==
    /\ \E V : ch \in Seq(V)
    /\ \A i \in 1..Len(ch) :
          ch[i] = Event(ch[i].type, ch[i].pkt, ch[i].delay) /\ ch[i].delay \in Nat
    /\ \A i, j \in 1..Len(ch) : i <= j => ch[i].delay <= ch[j].delay

(* long is short with an event for e put in at k, whatever its delays. *)
Spliced(short, long, k, e) ==
    /\ Len(short) \in Nat /\ Len(long) = Len(short) + 1 /\ k \in 1..Len(long)
    /\ \A i \in 1..Len(short) : IF i < k THEN Same(long[i], short[i]) ELSE Same(long[i + 1], short[i])
    /\ Same(long[k], e)

(* The places of a chain are finitely many. *)
LEMMA PlacesFinite ==
    ASSUME NEW ch, Len(ch) \in Nat, NEW t, NEW p
    PROVE  IsFiniteSet(Places(ch, t, p)) /\ Number(ch, t, p) \in Nat
<1>1. IsFiniteSet(1..Len(ch))
  BY FS_Interval
<1>2. Places(ch, t, p) \in SUBSET (1..Len(ch))
  BY DEF Places
<1> QED BY <1>1, <1>2, FS_Subset, FS_CardinalityType DEF Number

(* One more event is counted once. *)
LEMMA SplicedNumber ==
    ASSUME NEW short, NEW long, NEW k, NEW e, Spliced(short, long, k, e), NEW t, NEW p
    PROVE  Number(long, t, p) = Number(short, t, p) + (IF e.type = t /\ e.pkt = p THEN 1 ELSE 0)
<1> DEFINE A == Places(short, t, p)
           B == Places(long, t, p)
           f == [i \in A |-> IF i < k THEN i ELSE i + 1]
<1>0. PICK n \in Nat : n = Len(short)
  BY DEF Spliced
<1>1. /\ Len(long) = n + 1 /\ k \in 1..n + 1
      /\ \A i \in 1..n : IF i < k THEN Same(long[i], short[i]) ELSE Same(long[i + 1], short[i])
      /\ Same(long[k], e)
  BY <1>0 DEF Spliced
<1>2. A = {i \in 1..n : short[i].type = t /\ short[i].pkt = p}
  BY <1>0 DEF Places
<1>3. B = {i \in 1..n + 1 : long[i].type = t /\ long[i].pkt = p}
  BY <1>1 DEF Places
<1>4. IsFiniteSet(A) /\ IsFiniteSet(B) /\ Cardinality(A) \in Nat /\ Cardinality(B) \in Nat
  BY <1>0, <1>1, PlacesFinite DEF Number
<1>5. \A i \in A : f[i] \in B \ {k}
  <2> TAKE i \in A
  <2>1. i \in 1..n /\ short[i].type = t /\ short[i].pkt = p
    BY <1>2
  <2>2. CASE i < k
    <3>1. f[i] = i /\ i \in 1..n + 1 /\ i # k /\ Same(long[i], short[i])
      BY <1>1, <2>1, <2>2
    <3> QED BY <1>3, <2>1, <3>1 DEF Same
  <2>3. CASE ~(i < k)
    <3>1. f[i] = i + 1 /\ i + 1 \in 1..n + 1 /\ i + 1 # k /\ Same(long[i + 1], short[i])
      BY <1>1, <2>1, <2>3
    <3> QED BY <1>3, <2>1, <3>1 DEF Same
  <2> QED BY <2>2, <2>3
<1>6. \A i, j \in A : f[i] = f[j] => i = j
  BY <1>1, <1>2
<1>7. \A j \in B \ {k} : \E i \in A : f[i] = j
  <2> TAKE j \in B \ {k}
  <2>1. j \in 1..n + 1 /\ long[j].type = t /\ long[j].pkt = p /\ j # k
    BY <1>3
  <2>2. CASE j < k
    <3>1. j \in 1..n /\ Same(long[j], short[j])
      BY <1>1, <2>1, <2>2
    <3>2. j \in A
      BY <1>2, <2>1, <3>1 DEF Same
    <3> QED BY <2>2, <3>2
  <2>3. CASE ~(j < k)
    <3>1. PICK i \in 1..n : j = i + 1 /\ ~(i < k)
      BY <1>1, <2>1, <2>3
    <3>2. Same(long[j], short[i])
      BY <1>1, <3>1
    <3>3. i \in A
      BY <1>2, <2>1, <3>1, <3>2 DEF Same
    <3> QED BY <3>1, <3>3
  <2> QED BY <2>2, <2>3
<1> HIDE DEF A, B
<1>8. f \in Bijection(A, B \ {k})
  <2>1. f \in [A -> B \ {k}]
    BY <1>5
  <2> QED BY <1>6, <1>7, <2>1 DEF Bijection, Injection, Surjection, IsInjective
<1>9. Cardinality(B \ {k}) = Cardinality(A)
  BY <1>4, <1>8, FS_Bijection DEF ExistsBijection
<1>10. Cardinality(B \ {k}) = IF k \in B THEN Cardinality(B) - 1 ELSE Cardinality(B)
  BY <1>4, FS_RemoveElement
<1>11. k \in B <=> (e.type = t /\ e.pkt = p)
  BY <1>1, <1>3 DEF Same
<1> QED BY <1>4, <1>9, <1>10, <1>11 DEF Number, A, B

(* A set of numbers has a least one. *)
LEMMA MinNat ==
    ASSUME NEW T \in SUBSET Nat, T # {}
    PROVE  Min(T) \in T /\ \A y \in T : Min(T) <= y
<1> DEFINE R == {ss \in Nat \X Nat : ss[1] < ss[2]}
<1>1. IsWellFoundedOn(R, Nat)
  BY NatLessThanWellFounded, Zenon DEF OpToRel
<1> HIDE DEF R
<1>2. PICK x \in T : \A y \in T : ~(<<y, x>> \in R)
  BY <1>1, WFMin
<1>3. \A y \in T : ~(y < x)
  BY <1>2 DEF R
<1>4. \A y \in T : x <= y
  BY <1>3
<1> QED BY <1>4 DEF Min

(* The first event that happens later, if any. *)
LEMMA FirstLater ==
    ASSUME NEW ch, Len(ch) \in Nat, NEW d, NEW x,
           x = LET I == {j \in 1..Len(ch) : ch[j].delay > d} IN IF I # {} THEN Min(I) ELSE 0
    PROVE  \/ x = 0 /\ \A j \in 1..Len(ch) : ~(ch[j].delay > d)
           \/ /\ x \in 1..Len(ch) /\ ch[x].delay > d
              /\ \A j \in 1..x - 1 : ~(ch[j].delay > d)
<1> DEFINE I == {j \in 1..Len(ch) : ch[j].delay > d}
<1>1. x = IF I # {} THEN Min(I) ELSE 0
  OBVIOUS
<1>2. I \in SUBSET Nat
  OBVIOUS
<1>3. CASE I = {}
  BY <1>1, <1>3
<1>4. CASE I # {}
  <2>1. x \in I /\ \A y \in I : x <= y
    BY <1>1, <1>2, <1>4, MinNat
  <2>2. \A j \in 1..x - 1 : ~(ch[j].delay > d)
    BY <2>1
  <2> QED BY <2>1, <2>2
<1> QED BY <1>3, <1>4

(* A part of a sequence. *)
LEMMA PartOf ==
    ASSUME NEW V, NEW s \in Seq(V), NEW a \in Int, NEW b \in Int, 1 <= a, a <= b + 1, b <= Len(s)
    PROVE  /\ SubSeq(s, a, b) \in Seq(V) /\ Len(SubSeq(s, a, b)) = (b - a) + 1
           /\ \A i \in 1 .. (b - a) + 1 : SubSeq(s, a, b)[i] = s[(a + i) - 1]
<1> DEFINE t == SubSeq(s, a, b)
           m == (b - a) + 1
<1>0. Len(s) \in Nat /\ \A i \in 1..Len(s) : s[i] \in V
  BY LenProperties, ElementOfSeq
<1>1. \A i \in a..b : s[i] \in V
  BY <1>0
<1>2. /\ t \in Seq(V) /\ Len(t) = (IF a <= b THEN b - a + 1 ELSE 0)
      /\ \A i \in 1 .. b - a + 1 : t[i] = s[a + i - 1]
  BY <1>1, SubSeqProperties
<1>3. m \in Nat /\ (IF a <= b THEN b - a + 1 ELSE 0) = m /\ b - a + 1 = m
      /\ \A i \in 1..m : a + i - 1 = (a + i) - 1
  OBVIOUS
<1> HIDE DEF t
<1> QED BY <1>2, <1>3 DEF t

(* A sequence in two parts, the one up to and the one from an index. *)
LEMMA Parts ==
    ASSUME NEW V, NEW s \in Seq(V), NEW k \in 1..Len(s)
    PROVE  /\ Len(s) \in Nat
           /\ SubSeq(s, 1, k - 1) \in Seq(V) /\ Len(SubSeq(s, 1, k - 1)) = k - 1
           /\ \A i \in 1..k - 1 : SubSeq(s, 1, k - 1)[i] = s[i]
           /\ SubSeq(s, k, Len(s)) \in Seq(V) /\ Len(SubSeq(s, k, Len(s))) = (Len(s) - k) + 1
           /\ \A i \in 1..(Len(s) - k) + 1 : SubSeq(s, k, Len(s))[i] = s[(k + i) - 1]
           /\ SubSeq(s, k + 1, Len(s)) \in Seq(V) /\ Len(SubSeq(s, k + 1, Len(s))) = Len(s) - k
           /\ \A i \in 1..Len(s) - k : SubSeq(s, k + 1, Len(s))[i] = s[k + i]
<1>1. PICK n \in Nat : n = Len(s) /\ k \in 1..n
  BY LenProperties
<1>2. /\ SubSeq(s, 1, k - 1) \in Seq(V) /\ Len(SubSeq(s, 1, k - 1)) = ((k - 1) - 1) + 1
      /\ \A i \in 1 .. ((k - 1) - 1) + 1 : SubSeq(s, 1, k - 1)[i] = s[(1 + i) - 1]
  BY <1>1, PartOf
<1>3. /\ SubSeq(s, k, n) \in Seq(V) /\ Len(SubSeq(s, k, n)) = (n - k) + 1
      /\ \A i \in 1 .. (n - k) + 1 : SubSeq(s, k, n)[i] = s[(k + i) - 1]
  BY <1>1, PartOf
<1>4. /\ SubSeq(s, k + 1, n) \in Seq(V) /\ Len(SubSeq(s, k + 1, n)) = (n - (k + 1)) + 1
      /\ \A i \in 1 .. (n - (k + 1)) + 1 : SubSeq(s, k + 1, n)[i] = s[((k + 1) + i) - 1]
  BY <1>1, PartOf
<1>5. /\ ((k - 1) - 1) + 1 = k - 1 /\ \A i \in Int : (1 + i) - 1 = i
      /\ (n - (k + 1)) + 1 = n - k /\ \A i \in Int : ((k + 1) + i) - 1 = k + i
  BY <1>1
<1>6. \A i \in 1..k - 1 : SubSeq(s, 1, k - 1)[i] = s[i]
  BY <1>2, <1>5
<1>7. \A i \in 1..n - k : SubSeq(s, k + 1, n)[i] = s[k + i]
  BY <1>4, <1>5
<1> QED BY <1>1, <1>2, <1>3, <1>4, <1>5, <1>6, <1>7

(* long is short with e put in at k. *)
Put(short, long, k, e) ==
    /\ Len(short) \in Nat /\ Len(long) = Len(short) + 1 /\ k \in 1..Len(long)
    /\ \A i \in 1..Len(short) : IF i < k THEN long[i] = short[i] ELSE long[i + 1] = short[i]
    /\ long[k] = e

(* InsertAt puts an element in. *)
LEMMA InsertPuts ==
    ASSUME NEW V, NEW s \in Seq(V), NEW k \in 1..Len(s), NEW e \in V
    PROVE  InsertAt(s, k, e) \in Seq(V) /\ Put(s, InsertAt(s, k, e), k, e)
<1>1. PICK n \in Nat : n = Len(s) /\ k \in 1..n
  BY LenProperties
<1>2a. PICK u : u = SubSeq(s, 1, k - 1)
  OBVIOUS
<1>2. /\ u \in Seq(V) /\ Len(u) = k - 1
      /\ \A i \in 1..k - 1 : u[i] = s[i]
  BY <1>2a, Parts
<1>3a. PICK v : v = SubSeq(s, k, n)
  OBVIOUS
<1>3. /\ v \in Seq(V) /\ Len(v) = (n - k) + 1
      /\ \A i \in 1..(n - k) + 1 : v[i] = s[(k + i) - 1]
  BY <1>3a, <1>1, Parts
<1>4. <<e>> \in Seq(V) /\ Len(<<e>>) = 1 /\ <<e>>[1] = e
  OBVIOUS
<1>5a. PICK w : w = u \o <<e>>
  OBVIOUS
<1>5. /\ w \in Seq(V) /\ Len(w) = Len(u) + Len(<<e>>)
      /\ \A i \in 1..Len(u) + Len(<<e>>) :
         w[i] = IF i <= Len(u) THEN u[i] ELSE <<e>>[i - Len(u)]
  <2>1. /\ (u \o <<e>>) \in Seq(V) /\ Len((u \o <<e>>)) = Len(u) + Len(<<e>>)
          /\ \A i \in 1..Len(u) + Len(<<e>>) :
             (u \o <<e>>)[i] = IF i <= Len(u) THEN u[i] ELSE <<e>>[i - Len(u)]
    BY <1>2, <1>4, ConcatProperties, Zenon
  <2> QED BY <1>5a, <2>1
<1>5b. w \in Seq(V) /\ v \in Seq(V)
  BY <1>3, <1>5
<1>6a. PICK r : r = w \o v
  OBVIOUS
<1>6. /\ r \in Seq(V) /\ Len(r) = Len(w) + Len(v)
      /\ \A i \in 1..Len(w) + Len(v) :
         r[i] = IF i <= Len(w) THEN w[i] ELSE v[i - Len(w)]
  <2>1. /\ (w \o v) \in Seq(V) /\ Len((w \o v)) = Len(w) + Len(v)
          /\ \A i \in 1..Len(w) + Len(v) :
             (w \o v)[i] = IF i <= Len(w) THEN w[i] ELSE v[i - Len(w)]
    BY <1>5b, ConcatProperties, Zenon
  <2> QED BY <1>6a, <2>1
<1>7. r = InsertAt(s, k, e)
  BY <1>1, <1>2a, <1>3a, <1>5a, <1>6a DEF InsertAt
<1>8. (k - 1) + 1 = k /\ k + ((n - k) + 1) = n + 1
  BY <1>1
<1>9. Len(w) = k /\ \A i \in 1..k : w[i] = IF i <= k - 1 THEN u[i] ELSE <<e>>[i - (k - 1)]
  BY <1>2, <1>4, <1>5, <1>8
<1>10. w[k] = e
  <2>1. k \in 1..k /\ ~(k <= k - 1) /\ k - (k - 1) = 1
    BY <1>1
  <2> QED BY <1>4, <1>9, <2>1
<1>11. \A i \in 1..k - 1 : w[i] = s[i]
  <2>1. \A i \in 1..k - 1 : i \in 1..k /\ i <= k - 1
    BY <1>1
  <2> QED BY <1>2, <1>9, <2>1
<1>12. Len(r) = n + 1 /\ \A i \in 1..n + 1 : r[i] = IF i <= k THEN w[i] ELSE v[i - k]
  BY <1>3, <1>6, <1>8, <1>9
<1>13. r[k] = e
  BY <1>1, <1>10, <1>12
<1>14. ASSUME NEW i \in 1..n PROVE IF i < k THEN r[i] = s[i] ELSE r[i + 1] = s[i]
  <2>1. CASE i < k
    <3>1. i \in 1..n + 1 /\ i <= k /\ i \in 1..k - 1
      BY <1>1, <2>1
    <3> QED BY <1>11, <1>12, <2>1, <3>1
  <2>2. CASE ~(i < k)
    <3>1. /\ i + 1 \in 1..n + 1 /\ ~(i + 1 <= k) /\ (i + 1) - k \in 1..(n - k) + 1
          /\ (k + ((i + 1) - k)) - 1 = i
      BY <1>1, <2>2
    <3>2. r[i + 1] = v[(i + 1) - k]
      BY <1>12, <3>1
    <3>3. v[(i + 1) - k] = s[i]
      BY <1>3, <3>1
    <3> QED BY <2>2, <3>2, <3>3
  <2> QED BY <2>1, <2>2
<1>15. k \in 1..n + 1
  BY <1>1
<1> QED BY <1>1, <1>6, <1>7, <1>12, <1>13, <1>14, <1>15 DEF Put

(* RemoveAt is the reverse. *)
LEMMA RemovePuts ==
    ASSUME NEW V, NEW s \in Seq(V), NEW k \in 1..Len(s)
    PROVE  RemoveAt(s, k) \in Seq(V) /\ Put(RemoveAt(s, k), s, k, s[k])
<1>1. PICK n \in Nat : n = Len(s) /\ k \in 1..n
  BY LenProperties
<1>2a. PICK u : u = SubSeq(s, 1, k - 1)
  OBVIOUS
<1>2. /\ u \in Seq(V) /\ Len(u) = k - 1
      /\ \A i \in 1..k - 1 : u[i] = s[i]
  BY <1>2a, Parts
<1>3a. PICK v : v = SubSeq(s, k + 1, n)
  OBVIOUS
<1>3. /\ v \in Seq(V) /\ Len(v) = n - k
      /\ \A i \in 1..n - k : v[i] = s[k + i]
  BY <1>3a, <1>1, Parts
<1>4a. PICK r : r = u \o v
  OBVIOUS
<1>4. /\ r \in Seq(V) /\ Len(r) = Len(u) + Len(v)
      /\ \A i \in 1..Len(u) + Len(v) :
         r[i] = IF i <= Len(u) THEN u[i] ELSE v[i - Len(u)]
  <2>1. /\ (u \o v) \in Seq(V) /\ Len((u \o v)) = Len(u) + Len(v)
          /\ \A i \in 1..Len(u) + Len(v) :
             (u \o v)[i] = IF i <= Len(u) THEN u[i] ELSE v[i - Len(u)]
    BY <1>2, <1>3, ConcatProperties, Zenon
  <2> QED BY <1>4a, <2>1
<1>5. r = RemoveAt(s, k)
  BY <1>1, <1>2a, <1>3a, <1>4a DEF RemoveAt
<1>6. (k - 1) + (n - k) = n - 1
  BY <1>1
<1>7. Len(r) = n - 1 /\ \A i \in 1..n - 1 : r[i] = IF i <= k - 1 THEN u[i] ELSE v[i - (k - 1)]
  BY <1>2, <1>3, <1>4, <1>6
<1>8. ASSUME NEW i \in 1..n - 1 PROVE IF i < k THEN s[i] = r[i] ELSE s[i + 1] = r[i]
  <2>1. CASE i < k
    <3>1. i <= k - 1 /\ i \in 1..k - 1
      BY <1>1, <2>1
    <3> QED BY <1>2, <1>7, <2>1, <3>1
  <2>2. CASE ~(i < k)
    <3>1. ~(i <= k - 1) /\ i - (k - 1) \in 1..n - k /\ k + (i - (k - 1)) = i + 1
      BY <1>1, <2>2
    <3> QED BY <1>3, <1>7, <2>2, <3>1
  <2> QED BY <2>1, <2>2
<1>9. n - 1 \in Nat /\ n = (n - 1) + 1
  BY <1>1
<1> QED BY <1>1, <1>4, <1>5, <1>7, <1>8, <1>9 DEF Put

(* Append puts an element at the end. *)
LEMMA AppendPuts ==
    ASSUME NEW V, NEW s \in Seq(V), NEW e \in V
    PROVE  Append(s, e) \in Seq(V) /\ Put(s, Append(s, e), Len(s) + 1, e)
<1>1. PICK n \in Nat : n = Len(s)
  BY LenProperties
<1>2a. PICK r : r = Append(s, e)
  OBVIOUS
<1>2. /\ r \in Seq(V) /\ Len(r) = n + 1 /\ r[n + 1] = e
      /\ \A i \in 1..n : r[i] = s[i]
  BY <1>2a, <1>1, AppendProperties
<1>3. \A i \in 1..n : i < n + 1
  BY <1>1
<1> QED BY <1>1, <1>2a, <1>2, <1>3 DEF Put

(* What is put in is counted. *)
LEMMA PutSplices ==
    ASSUME NEW short, NEW long, NEW k, NEW e, Put(short, long, k, e)
    PROVE  Spliced(short, long, k, e)
BY DEF Put, Spliced, Same

-----------------------------------------------------------------------------
(* schedule puts the event after all that happen no later. *)
LEMMA ScheduleChain ==
    ASSUME NEW ch, IsChain(ch), NEW t, NEW p, NEW d \in Nat
    PROVE  /\ IsChain(schedule(ch, Event(t, p, d)))
           /\ \E k : /\ Spliced(ch, schedule(ch, Event(t, p, d)), k, Event(t, p, d))
                     /\ \A i \in 1..Len(ch) : ch[i].delay <= d => i < k
           /\ \A i \in 1..Len(schedule(ch, Event(t, p, d))) :
                 \/ schedule(ch, Event(t, p, d))[i] = Event(t, p, d)
                 \/ \E j \in 1..Len(ch) : schedule(ch, Event(t, p, d))[i] = ch[j]
<1>1a. PICK e : e = Event(t, p, d)
  OBVIOUS
<1>1. e.type = t /\ e.pkt = p /\ e.delay = d /\ e = Event(e.type, e.pkt, e.delay)
  BY <1>1a DEF Event
<1>2. PICK V : ch \in Seq(V)
  BY DEF IsChain
<1>3. PICK n \in Nat : n = Len(ch)
  BY <1>2, LenProperties
<1>4a. PICK W : W = V \cup {e}
  OBVIOUS
<1>4. ch \in Seq(W) /\ e \in W
  <2>1. ch \in [1..n -> V]
    BY <1>2, <1>3, LenProperties
  <2>2. ch \in [1..n -> W]
    BY <1>4a, <2>1
  <2> QED BY <1>4a, <2>2
<1>5a. PICK x : x = SelectInSeq(ch, LAMBDA f : f.delay > e.delay)
  OBVIOUS
<1>5. \/ x = 0 /\ \A j \in 1..n : ~(ch[j].delay > d)
      \/ x \in 1..n /\ ch[x].delay > d /\ \A j \in 1..x - 1 : ~(ch[j].delay > d)
  <2>1. x = LET I == {j \in 1..Len(ch) : ch[j].delay > d} IN IF I # {} THEN Min(I) ELSE 0
    BY <1>1, <1>5a DEF SelectInSeq
  <2> QED BY <1>3, <2>1, FirstLater
<1>6a. PICK s : s = schedule(ch, e)
  OBVIOUS
<1>6. s = IF x = 0 THEN Append(ch, e) ELSE InsertAt(ch, x, e)
  BY <1>5a, <1>6a DEF schedule
<1>7a. PICK k : k = IF x = 0 THEN n + 1 ELSE x
  OBVIOUS
<1>7. s \in Seq(W) /\ Put(ch, s, k, e)
  <2>1. CASE x = 0
    BY <1>3, <1>4, <1>6, <1>7a, <2>1, AppendPuts
  <2>2. CASE x # 0
    <3>1. x \in 1..Len(ch) /\ k = x /\ s = InsertAt(ch, x, e)
      BY <1>3, <1>5, <1>6, <1>7a, <2>2
    <3> QED BY <1>4, <3>1, InsertPuts
  <2> QED BY <2>1, <2>2
<1>8. /\ \A i \in 1..n : ch[i] = Event(ch[i].type, ch[i].pkt, ch[i].delay) /\ ch[i].delay \in Nat
      /\ \A i, j \in 1..n : i <= j => ch[i].delay <= ch[j].delay
  BY <1>3 DEF IsChain
<1>9. k \in 1..n + 1 /\ Len(s) = n + 1 /\ s[k] = e
      /\ \A i \in 1..n : IF i < k THEN s[i] = ch[i] ELSE s[i + 1] = ch[i]
  BY <1>3, <1>7 DEF Put
<1>10. \A i \in 1..n + 1 : s[i] = IF i < k THEN ch[i] ELSE IF i = k THEN e ELSE ch[i - 1]
  <2> TAKE i \in 1..n + 1
  <2>1. CASE i < k
    <3>1. i \in 1..n
      BY <1>9, <2>1
    <3> QED BY <1>9, <2>1, <3>1
  <2>2. CASE i = k
    <3>1. ~(i < k)
      BY <1>9, <2>2
    <3> QED BY <1>9, <2>2, <3>1
  <2>3. CASE i > k
    <3>1. i - 1 \in 1..n /\ ~(i - 1 < k) /\ (i - 1) + 1 = i /\ ~(i < k) /\ i # k
      BY <1>9, <2>3
    <3>2. s[(i - 1) + 1] = ch[i - 1]
      BY <1>9, <3>1
    <3> QED BY <3>1, <3>2
  <2> QED BY <1>9, <2>1, <2>2, <2>3
<1>11. \A i \in 1..n : IF i < k THEN ch[i].delay <= d ELSE d <= ch[i].delay
  <2> TAKE i \in 1..n
  <2>0. ch[i].delay \in Nat
    BY <1>8
  <2>1. CASE i < k
    <3>1. ~(ch[i].delay > d)
      BY <1>5, <1>7a, <2>1
    <3> QED BY <2>0, <2>1, <3>1
  <2>2. CASE ~(i < k)
    <3>1. x \in 1..n /\ k = x /\ ch[x].delay > d
      BY <1>5, <1>7a, <2>2
    <3>2. ch[x].delay <= ch[i].delay /\ ch[x].delay \in Nat
      BY <1>8, <2>2, <3>1
    <3> QED BY <2>0, <2>2, <3>1, <3>2
  <2> QED BY <2>1, <2>2
<1>11a. \A i \in 1..n : ch[i].delay <= d => i < k
  <2> TAKE i \in 1..n
  <2>1. ch[i].delay \in Nat
    BY <1>8
  <2>2. CASE ~(i < k)
    <3>1. x \in 1..n /\ k = x /\ ch[x].delay > d
      BY <1>5, <1>7a, <2>2
    <3>2. ch[x].delay <= ch[i].delay /\ ch[x].delay \in Nat
      BY <1>8, <2>2, <3>1
    <3> QED BY <2>1, <3>1, <3>2
  <2> QED BY <2>2
<1>12a. \A i \in 1..n + 1 : s[i] = e \/ \E j \in 1..n : s[i] = ch[j]
  <2> TAKE i \in 1..n + 1
  <2>1. i < k => i \in 1..n
    BY <1>9
  <2>2. ~(i < k) /\ i # k => i - 1 \in 1..n
    BY <1>9
  <2> QED BY <1>10, <2>1, <2>2
<1>12. \A i \in 1..n + 1 : s[i] = Event(s[i].type, s[i].pkt, s[i].delay) /\ s[i].delay \in Nat
  <2> TAKE i \in 1..n + 1
  <2>2. e.delay \in Nat
    BY <1>1
  <2> QED BY <1>1, <1>8, <1>12a, <2>2
<1>13. ASSUME NEW i \in 1..n + 1, NEW j \in 1..n + 1, i <= j PROVE s[i].delay <= s[j].delay
  <2>1. s[i].delay \in Nat /\ s[j].delay \in Nat
    BY <1>12
  <2>2. CASE j < k
    <3>1. i \in 1..n /\ j \in 1..n /\ i < k
      BY <1>9, <1>13, <2>2
    <3>2. s[i] = ch[i] /\ s[j] = ch[j]
      BY <1>9, <2>2, <3>1
    <3> QED BY <1>8, <1>13, <3>1, <3>2
  <2>3. CASE j = k /\ i < k
    <3>1. i \in 1..n
      BY <1>9, <2>3
    <3>2. s[i] = ch[i] /\ s[j] = e
      BY <1>9, <2>3, <3>1
    <3> QED BY <1>1, <1>11, <2>3, <3>1, <3>2
  <2>4. CASE j = k /\ i = k
    BY <2>1, <2>4
  <2>5. CASE j > k
    <3>1. j - 1 \in 1..n /\ ~(j - 1 < k) /\ ~(j < k) /\ j # k
      BY <1>9, <2>5
    <3>2. s[j] = ch[j - 1]
      BY <1>10, <3>1
    <3>3. CASE i < k
      <4>1. i \in 1..n /\ i <= j - 1 /\ s[i] = ch[i]
        BY <1>9, <1>10, <2>5, <3>3
      <4> QED BY <1>8, <3>1, <3>2, <4>1
    <3>4. CASE i = k
      <4>1. s[i] = e
        BY <1>9, <3>4
      <4> QED BY <1>1, <1>11, <3>1, <3>2, <4>1
    <3>5. CASE i > k
      <4>1. i - 1 \in 1..n /\ i - 1 <= j - 1 /\ ~(i < k) /\ i # k
        BY <1>9, <1>13, <3>5
      <4>2. s[i] = ch[i - 1]
        BY <1>10, <4>1
      <4> QED BY <1>8, <3>1, <3>2, <4>1, <4>2
    <3> QED BY <1>9, <3>3, <3>4, <3>5
  <2> QED BY <1>9, <1>13, <2>2, <2>3, <2>4, <2>5
<1>14. IsChain(s)
  BY <1>7, <1>9, <1>12, <1>13 DEF IsChain
<1>15. Spliced(ch, s, k, e)
  BY <1>7, PutSplices
<1> QED BY <1>1a, <1>3, <1>6a, <1>9, <1>11a, <1>12a, <1>14, <1>15

(* What is taken out of a chain leaves a chain. *)
LEMMA TakenOut ==
    ASSUME NEW short, NEW long, NEW k, NEW e, IsChain(long), Put(short, long, k, e),
           NEW V, short \in Seq(V)
    PROVE  IsChain(short) /\ \A i \in 1..Len(short) : \E j \in 1..Len(long) : short[i] = long[j]
<1>1. PICK n \in Nat : n = Len(short) /\ Len(long) = n + 1
  BY DEF Put
<1>2. \A i \in 1..n : IF i < k THEN short[i] = long[i] ELSE short[i] = long[i + 1]
  BY <1>1 DEF Put
<1>3. /\ \A i \in 1..n + 1 :
            long[i] = Event(long[i].type, long[i].pkt, long[i].delay) /\ long[i].delay \in Nat
      /\ \A i, j \in 1..n + 1 : i <= j => long[i].delay <= long[j].delay
  BY <1>1 DEF IsChain
<1>4a. k \in Int
  BY <1>1 DEF Put
<1>4. \A i \in 1..n : \E j \in 1..n + 1 :
         short[i] = long[j] /\ j = IF i < k THEN i ELSE i + 1
  <2> TAKE i \in 1..n
  <2>1. i \in 1..n + 1 /\ i + 1 \in 1..n + 1
    OBVIOUS
  <2> QED BY <1>2, <2>1
<1>5. \A i \in 1..n : short[i] = Event(short[i].type, short[i].pkt, short[i].delay)
                      /\ short[i].delay \in Nat
  BY <1>3, <1>4
<1>6. ASSUME NEW i \in 1..n, NEW j \in 1..n, i <= j PROVE short[i].delay <= short[j].delay
  <2>1. PICK a \in 1..n + 1 : short[i] = long[a] /\ a = IF i < k THEN i ELSE i + 1
    BY <1>4
  <2>2. PICK b \in 1..n + 1 : short[j] = long[b] /\ b = IF j < k THEN j ELSE j + 1
    BY <1>4
  <2>3. a <= b
    BY <1>4a, <1>6, <2>1, <2>2
  <2> QED BY <1>3, <2>1, <2>2, <2>3
<1>7. IsChain(short)
  BY <1>1, <1>5, <1>6 DEF IsChain
<1> QED BY <1>1, <1>4, <1>7

(* cancel takes out the first timeout, if there is one. *)
LEMMA CancelChain ==
    ASSUME NEW ch, IsChain(ch)
    PROVE  /\ IsChain(cancel(ch))
           /\ \A i \in 1..Len(cancel(ch)) : \E j \in 1..Len(ch) : cancel(ch)[i] = ch[j]
           /\ \/ cancel(ch) = ch /\ \A i \in 1..Len(ch) : ch[i].type # "timeout"
              \/ \E k \in 1..Len(ch) : ch[k].type = "timeout" /\ Spliced(cancel(ch), ch, k, ch[k])
<1> DEFINE I == {j \in 1..Len(ch) : ch[j].type = "timeout"}
<1>1. PICK V : ch \in Seq(V)
  BY DEF IsChain
<1>2. PICK n \in Nat : n = Len(ch)
  BY <1>1, LenProperties
<1>3a. PICK x : x = SelectInSeq(ch, LAMBDA f : f.type = "timeout")
  OBVIOUS
<1>3. x = IF I # {} THEN Min(I) ELSE 0
  BY <1>3a DEF SelectInSeq
<1>4. cancel(ch) = IF x = 0 THEN ch ELSE RemoveAt(ch, x)
  BY <1>3a DEF cancel
<1>5. CASE I = {}
  <2>1. x = 0 /\ \A i \in 1..Len(ch) : ch[i].type # "timeout"
    BY <1>3, <1>5
  <2> QED BY <1>4, <2>1
<1>6. CASE I # {}
  <2>1. I \in SUBSET Nat
    OBVIOUS
  <2>2. x \in I
    BY <1>3, <1>6, <2>1, MinNat
  <2>3. x \in 1..Len(ch) /\ x # 0 /\ ch[x].type = "timeout"
    BY <1>2, <2>2
  <2>4. RemoveAt(ch, x) \in Seq(V) /\ Put(RemoveAt(ch, x), ch, x, ch[x])
    BY <1>1, <2>3, RemovePuts
  <2>5. IsChain(RemoveAt(ch, x)) /\ Spliced(RemoveAt(ch, x), ch, x, ch[x])
    BY <2>4, TakenOut, PutSplices
  <2>6. \A i \in 1..Len(RemoveAt(ch, x)) : \E j \in 1..Len(ch) : RemoveAt(ch, x)[i] = ch[j]
    BY <2>4, TakenOut
  <2> QED BY <1>4, <2>3, <2>5, <2>6
<1> QED BY <1>5, <1>6

(* next_event takes the head off and moves the clock to it. *)
LEMMA NextChain ==
    ASSUME NEW ch, IsChain(ch), ch # << >>
    PROVE  /\ IsChain(next_event(ch)) /\ Spliced(next_event(ch), ch, 1, Head(ch))
           /\ Head(ch) = ch[1] /\ 1 \in 1..Len(ch)
           /\ \A i \in 1..Len(next_event(ch)) :
                 /\ i + 1 \in 1..Len(ch) /\ next_event(ch)[i].type = ch[i + 1].type
                 /\ next_event(ch)[i].delay = ch[i + 1].delay - Head(ch).delay
<1>1. PICK V : ch \in Seq(V)
  BY DEF IsChain
<1>2. PICK n \in Nat \ {0} : n = Len(ch)
  BY <1>1, LenProperties, EmptySeq
<1>3. Head(ch) = ch[1]
  BY <1>1
<1>4. /\ \A i \in 1..n : ch[i] = Event(ch[i].type, ch[i].pkt, ch[i].delay) /\ ch[i].delay \in Nat
      /\ \A i, j \in 1..n : i <= j => ch[i].delay <= ch[j].delay
  BY <1>2 DEF IsChain
<1>5a. PICK h \in Nat : h = ch[1].delay
  BY <1>2, <1>4
<1>5b. PICK s : s = next_event(ch)
  OBVIOUS
<1>5. s = [i \in 1..(n - 1) |-> [ch[i + 1] EXCEPT !.delay = @ - h]]
  BY <1>2, <1>3, <1>5a, <1>5b DEF next_event
<1>6. ASSUME NEW i \in 1..(n - 1)
      PROVE  /\ i + 1 \in 1..n /\ s[i].type = ch[i + 1].type /\ s[i].pkt = ch[i + 1].pkt
             /\ s[i].delay = ch[i + 1].delay - h /\ s[i].delay \in Nat
             /\ s[i] = Event(s[i].type, s[i].pkt, s[i].delay)
  <2>1. i + 1 \in 1..n /\ 1 \in 1..n /\ 1 <= i + 1
    BY <1>2
  <2>2. PICK y : y = ch[i + 1]
    OBVIOUS
  <2>3. y = Event(y.type, y.pkt, y.delay) /\ y.delay \in Nat /\ h <= y.delay
    BY <1>4, <1>5a, <2>1, <2>2
  <2>4. s[i] = [y EXCEPT !.delay = @ - h]
    BY <1>5, <2>2
  <2>5. s[i] = Event(y.type, y.pkt, y.delay - h)
    BY <2>3, <2>4 DEF Event
  <2>6. y.delay - h \in Nat
    BY <2>3
  <2> QED BY <2>1, <2>2, <2>5, <2>6 DEF Event
<1>7. n - 1 \in Nat /\ Len(s) = n - 1 /\ n = (n - 1) + 1
  BY <1>2, <1>5
<1>8. \E U : s \in Seq(U)
  <2>1. PICK U : U = {s[i] : i \in 1..(n - 1)}
    OBVIOUS
  <2>2. s \in [1..(n - 1) -> U]
    BY <1>5, <2>1
  <2> QED BY <1>7, <2>2
<1>9. ASSUME NEW i \in 1..(n - 1), NEW j \in 1..(n - 1), i <= j PROVE s[i].delay <= s[j].delay
  <2>1. i + 1 \in 1..n /\ j + 1 \in 1..n /\ i + 1 <= j + 1
    BY <1>9, <1>6
  <2>2. ch[i + 1].delay <= ch[j + 1].delay /\ ch[i + 1].delay \in Nat /\ ch[j + 1].delay \in Nat
    BY <1>4, <2>1
  <2>3. s[i].delay = ch[i + 1].delay - h /\ s[j].delay = ch[j + 1].delay - h
    BY <1>6
  <2> QED BY <2>2, <2>3
<1>10. IsChain(s)
  BY <1>6, <1>7, <1>8, <1>9 DEF IsChain
<1>11. Spliced(s, ch, 1, Head(ch))
  <2>1. \A i \in 1..(n - 1) : ~(i < 1) /\ Same(ch[i + 1], s[i])
    BY <1>6 DEF Same
  <2>2. 1 \in 1..n
    BY <1>2
  <2> QED BY <1>2, <1>3, <1>7, <2>1, <2>2 DEF Spliced, Same
<1>12. 1 \in 1..n /\ Head(ch).delay = h
  BY <1>2, <1>3, <1>5a
<1>13. \A i \in 1..Len(s) : /\ i + 1 \in 1..Len(ch) /\ s[i].type = ch[i + 1].type
                            /\ s[i].delay = ch[i + 1].delay - Head(ch).delay
  BY <1>2, <1>6, <1>7, <1>12
<1> QED BY <1>2, <1>3, <1>5b, <1>10, <1>11, <1>12, <1>13

-----------------------------------------------------------------------------
(* The chain and what the layers wait for. *)
Copies(p, B) == IF p \in BagToSet(B) THEN B[p] ELSE 0

Agrees(ch, timer, toR, toS) ==
    /\ IsChain(ch) /\ timer \in BOOLEAN
    /\ \A p : Number(ch, "timeout", p) = IF timer /\ p = Garbage THEN 1 ELSE 0
    /\ \A p : Number(ch, "data", p) = Copies(p, toR)
    /\ \A p : Number(ch, "ack", p) = Copies(p, toS)

ChainInv ==
    /\ args \in CommandLines
    /\ IsABag(toReceiver) /\ IsABag(toSender)
    /\ Agrees(chain, sender_timer, toReceiver, toSender)

(* One packet more in a bag. *)
LEMMA BagAddCopies ==
    ASSUME NEW B, IsABag(B), NEW x
    PROVE  /\ IsABag(BX!BagAdd(B, x))
           /\ \A p : Copies(p, BX!BagAdd(B, x)) = Copies(p, B) + (IF x = p THEN 1 ELSE 0)
<1>1. \A p : Copies(p, B) \in Nat /\ (p \in DOMAIN B => B[p] \in Nat /\ B[p] > 0)
  BY DEF IsABag, Copies, BagToSet
<1>2. CASE x \in DOMAIN B
  <2>1. BX!BagAdd(B, x) = [e \in DOMAIN B |-> IF e = x THEN B[e] + 1 ELSE B[e]]
    BY <1>2 DEF BX!BagAdd
  <2>2. IsABag(BX!BagAdd(B, x))
    BY <1>1, <2>1 DEF IsABag
  <2> QED BY <1>1, <1>2, <2>1, <2>2 DEF Copies, BagToSet
<1>3. CASE x \notin DOMAIN B
  <2>1. BX!BagAdd(B, x) = [e \in DOMAIN B \cup {x} |-> IF e = x THEN 1 ELSE B[e]]
    BY <1>3 DEF BX!BagAdd
  <2>2. IsABag(BX!BagAdd(B, x))
    BY <1>1, <2>1 DEF IsABag
  <2> QED BY <1>1, <1>3, <2>1, <2>2 DEF Copies, BagToSet
<1> QED BY <1>2, <1>3

(* One packet less. *)
LEMMA BagRemoveCopies ==
    ASSUME NEW B, IsABag(B), NEW x \in BagToSet(B)
    PROVE  /\ IsABag(BX!BagRemove(B, x))
           /\ \A p : Copies(p, B) = Copies(p, BX!BagRemove(B, x)) + (IF x = p THEN 1 ELSE 0)
<1>1. \A p : Copies(p, B) \in Nat /\ (p \in DOMAIN B => B[p] \in Nat /\ B[p] > 0)
  BY DEF IsABag, Copies, BagToSet
<1>0. x \in DOMAIN B
  BY DEF BagToSet
<1>2. CASE B[x] = 1
  <2>1. BX!BagRemove(B, x) = [e \in DOMAIN B \ {x} |-> B[e]]
    BY <1>0, <1>2 DEF BX!BagRemove
  <2>2. IsABag(BX!BagRemove(B, x))
    BY <1>1, <2>1 DEF IsABag
  <2> QED BY <1>0, <1>1, <1>2, <2>1, <2>2 DEF Copies, BagToSet
<1>3. CASE B[x] # 1
  <2>1. BX!BagRemove(B, x) = [e \in DOMAIN B |-> IF e = x THEN B[e] - 1 ELSE B[e]]
    BY <1>0, <1>3 DEF BX!BagRemove
  <2>2. \A e \in DOMAIN B : (IF e = x THEN B[e] - 1 ELSE B[e]) \in {n \in Nat : n > 0}
    BY <1>1, <1>3
  <2>3. IsABag(BX!BagRemove(B, x))
    BY <2>1, <2>2 DEF IsABag
  <2> QED BY <1>0, <1>1, <2>1, <2>3 DEF Copies, BagToSet
<1> QED BY <1>2, <1>3

(* The packet that has been taken out of a bag can be told. *)
LEMMA SameRemoved ==
    ASSUME NEW B, IsABag(B), NEW x \in BagToSet(B), NEW y \in BagToSet(B),
           BX!BagRemove(B, x) = BX!BagRemove(B, y)
    PROVE  x = y
<1> SUFFICES ASSUME x # y PROVE FALSE
  OBVIOUS
<1>1. PICK C : C = BX!BagRemove(B, x)
  OBVIOUS
<1>2. Copies(x, B) = Copies(x, C) + 1
  BY <1>1, BagRemoveCopies
<1>3. Copies(x, B) = Copies(x, C) + 0
  BY <1>1, BagRemoveCopies
<1>4. IsABag(C)
  BY <1>1, BagRemoveCopies
<1>5. Copies(x, C) \in Nat
  BY <1>4 DEF IsABag, Copies, BagToSet
<1> QED BY <1>2, <1>3, <1>5

(* Every event is counted. *)
LEMMA Counted ==
    ASSUME NEW ch, IsChain(ch), NEW i \in 1..Len(ch)
    PROVE  Number(ch, ch[i].type, ch[i].pkt) \in Nat \ {0}
<1>1. Len(ch) \in Nat
  BY LenProperties DEF IsChain
<1>2. i \in Places(ch, ch[i].type, ch[i].pkt)
  BY DEF Places
<1> QED BY <1>1, <1>2, PlacesFinite, FS_EmptySet DEF Number

(* Counts of an event more, or less. *)
LEMMA SplicedNumbers ==
    ASSUME NEW short, NEW long, NEW k, NEW e, Spliced(short, long, k, e)
    PROVE  /\ \A t, p : Number(short, t, p) \in Nat
           /\ \A t, p : Number(long, t, p) =
                          Number(short, t, p) + (IF e.type = t /\ e.pkt = p THEN 1 ELSE 0)
BY SplicedNumber, PlacesFinite DEF Spliced

(* The event taken off the chain: nothing else is lost. *)
LEMMA TakeEvent ==
    ASSUME NEW ch, NEW timer, NEW toR, NEW toS, Agrees(ch, timer, toR, toS), ch # << >>,
           IsABag(toR), IsABag(toS)
    PROVE  LET h == Head(ch)
               s == next_event(ch)
           IN  /\ h.type = "upper" => Agrees(s, timer, toR, toS)
               /\ h.type = "timeout" => Agrees(s, FALSE, toR, toS)
               /\ h.type = "data" => /\ h.pkt \in BagToSet(toR)
                                     /\ Agrees(s, timer, BX!BagRemove(toR, h.pkt), toS)
               /\ h.type = "ack" => /\ h.pkt \in BagToSet(toS)
                                    /\ Agrees(s, timer, toR, BX!BagRemove(toS, h.pkt))
<1>1. PICK h : h = Head(ch)
  OBVIOUS
<1>2. PICK s : s = next_event(ch)
  OBVIOUS
<1>3. IsChain(ch) /\ IsChain(s) /\ Spliced(s, ch, 1, h) /\ timer \in BOOLEAN
  BY <1>1, <1>2, NextChain DEF Agrees
<1>4. /\ \A t, p : Number(s, t, p) \in Nat
      /\ \A t, p : Number(ch, t, p) =
                     Number(s, t, p) + (IF h.type = t /\ h.pkt = p THEN 1 ELSE 0)
  BY <1>3, SplicedNumbers
<1>5. Number(ch, h.type, h.pkt) \in Nat \ {0}
  BY <1>4
<1>6. /\ \A p : Number(ch, "timeout", p) = IF timer /\ p = Garbage THEN 1 ELSE 0
      /\ \A p : Number(ch, "data", p) = Copies(p, toR)
      /\ \A p : Number(ch, "ack", p) = Copies(p, toS)
  BY DEF Agrees
<1>7. ASSUME h.type = "upper" PROVE Agrees(s, timer, toR, toS)
  <2>1. \A t, p : t # "upper" => Number(s, t, p) = Number(ch, t, p)
    BY <1>4, <1>7
  <2> QED BY <1>3, <1>6, <2>1 DEF Agrees
<1>8. ASSUME h.type = "timeout" PROVE Agrees(s, FALSE, toR, toS)
  <2>1. \A t, p : t # "timeout" => Number(s, t, p) = Number(ch, t, p)
    BY <1>4, <1>8
  <2>2. timer /\ h.pkt = Garbage
    BY <1>5, <1>6, <1>8
  <2>3. \A p : Number(s, "timeout", p) = 0
    BY <1>4, <1>6, <1>8, <2>2
  <2> QED BY <1>3, <1>6, <2>1, <2>3 DEF Agrees
<1>9. ASSUME h.type = "data"
      PROVE  h.pkt \in BagToSet(toR) /\ Agrees(s, timer, BX!BagRemove(toR, h.pkt), toS)
  <2>1. \A t, p : t # "data" => Number(s, t, p) = Number(ch, t, p)
    BY <1>4, <1>9
  <2>2. h.pkt \in BagToSet(toR)
    BY <1>5, <1>6, <1>9 DEF Copies
  <2>3. PICK C : C = BX!BagRemove(toR, h.pkt)
    OBVIOUS
  <2>4. IsABag(C) /\ \A p : Copies(p, toR) = Copies(p, C) + (IF h.pkt = p THEN 1 ELSE 0)
    BY <2>2, <2>3, BagRemoveCopies
  <2>5. \A p : Copies(p, C) \in Nat
    BY <2>4 DEF IsABag, Copies, BagToSet
  <2>6. \A p : Number(s, "data", p) = Copies(p, C)
    BY <1>4, <1>6, <1>9, <2>4, <2>5
  <2> QED BY <1>3, <1>6, <2>1, <2>2, <2>3, <2>6 DEF Agrees
<1>10. ASSUME h.type = "ack"
       PROVE  h.pkt \in BagToSet(toS) /\ Agrees(s, timer, toR, BX!BagRemove(toS, h.pkt))
  <2>1. \A t, p : t # "ack" => Number(s, t, p) = Number(ch, t, p)
    BY <1>4, <1>10
  <2>2. h.pkt \in BagToSet(toS)
    BY <1>5, <1>6, <1>10 DEF Copies
  <2>3. PICK C : C = BX!BagRemove(toS, h.pkt)
    OBVIOUS
  <2>4. IsABag(C) /\ \A p : Copies(p, toS) = Copies(p, C) + (IF h.pkt = p THEN 1 ELSE 0)
    BY <2>2, <2>3, BagRemoveCopies
  <2>5. \A p : Copies(p, C) \in Nat
    BY <2>4 DEF IsABag, Copies, BagToSet
  <2>6. \A p : Number(s, "ack", p) = Copies(p, C)
    BY <1>4, <1>6, <1>10, <2>4, <2>5
  <2> QED BY <1>3, <1>6, <2>1, <2>2, <2>3, <2>6 DEF Agrees
<1> QED BY <1>1, <1>2, <1>7, <1>8, <1>9, <1>10

(* The event put into the chain: of a packet handed over, of the timer     *)
(* started while there is none, or of the next message.                    *)
LEMMA PutEvent ==
    ASSUME NEW ch, NEW timer, NEW toR, NEW toS, Agrees(ch, timer, toR, toS),
           IsABag(toR), IsABag(toS), NEW p, NEW d \in Nat
    PROVE  /\ Agrees(schedule(ch, UpperEvent(d)), timer, toR, toS)
           /\ ~timer => Agrees(schedule(ch, TimeoutAt(d)), TRUE, toR, toS)
           /\ Agrees(schedule(ch, Event("data", p, d)), timer, BX!BagAdd(toR, p), toS)
           /\ Agrees(schedule(ch, Event("ack", p, d)), timer, toR, BX!BagAdd(toS, p))
<1>1. /\ IsChain(ch) /\ timer \in BOOLEAN
      /\ \A x : Number(ch, "timeout", x) = IF timer /\ x = Garbage THEN 1 ELSE 0
      /\ \A x : Number(ch, "data", x) = Copies(x, toR)
      /\ \A x : Number(ch, "ack", x) = Copies(x, toS)
  BY DEF Agrees
<1>2. ASSUME NEW t, NEW q
      PROVE  /\ IsChain(schedule(ch, Event(t, q, d)))
             /\ \A x : Number(schedule(ch, Event(t, q, d)), t, x) =
                         Number(ch, t, x) + (IF q = x THEN 1 ELSE 0)
             /\ \A u, x : u # t => Number(schedule(ch, Event(t, q, d)), u, x) = Number(ch, u, x)
             /\ \A u, x : Number(ch, u, x) \in Nat
  <2>1. PICK s : s = schedule(ch, Event(t, q, d))
    OBVIOUS
  <2>2. PICK e : e = Event(t, q, d)
    OBVIOUS
  <2>3. IsChain(s) /\ \E k : Spliced(ch, s, k, e)
    BY <1>1, <2>1, <2>2, ScheduleChain
  <2>4. PICK k : Spliced(ch, s, k, e)
    BY <2>3
  <2>5. /\ \A u, x : Number(ch, u, x) \in Nat
        /\ \A u, x : Number(s, u, x) =
                       Number(ch, u, x) + (IF e.type = u /\ e.pkt = x THEN 1 ELSE 0)
    BY <2>4, SplicedNumbers
  <2>6. e.type = t /\ e.pkt = q
    BY <2>2 DEF Event
  <2>7. \A u, x : u # t => Number(s, u, x) = Number(ch, u, x)
    BY <2>5, <2>6
  <2>8. \A x : Number(s, t, x) = Number(ch, t, x) + (IF q = x THEN 1 ELSE 0)
    BY <2>5, <2>6
  <2> QED BY <2>1, <2>3, <2>5, <2>7, <2>8
<1>3. Agrees(schedule(ch, UpperEvent(d)), timer, toR, toS)
  <2>1. PICK s : s = schedule(ch, Event("upper", Garbage, d))
    OBVIOUS
  <2>2. IsChain(s) /\ \A u, x : u # "upper" => Number(s, u, x) = Number(ch, u, x)
    BY <1>2, <2>1
  <2> QED BY <1>1, <2>1, <2>2 DEF Agrees, UpperEvent
<1>4. ASSUME ~timer PROVE Agrees(schedule(ch, TimeoutAt(d)), TRUE, toR, toS)
  <2>1. PICK s : s = schedule(ch, Event("timeout", Garbage, d))
    OBVIOUS
  <2>2. IsChain(s) /\ \A u, x : u # "timeout" => Number(s, u, x) = Number(ch, u, x)
    BY <1>2, <2>1
  <2>3. \A x : Number(s, "timeout", x) = Number(ch, "timeout", x) + (IF Garbage = x THEN 1 ELSE 0)
    BY <1>2, <2>1
  <2>4. \A x : Number(s, "timeout", x) = IF x = Garbage THEN 1 ELSE 0
    BY <1>1, <1>4, <2>3
  <2> QED BY <1>1, <2>1, <2>2, <2>4 DEF Agrees, TimeoutAt
<1>5. Agrees(schedule(ch, Event("data", p, d)), timer, BX!BagAdd(toR, p), toS)
  <2>1. PICK s : s = schedule(ch, Event("data", p, d))
    OBVIOUS
  <2>2. IsChain(s) /\ \A u, x : u # "data" => Number(s, u, x) = Number(ch, u, x)
    BY <1>2, <2>1
  <2>3. \A x : Number(s, "data", x) = Number(ch, "data", x) + (IF p = x THEN 1 ELSE 0)
    BY <1>2, <2>1
  <2>4. \A x : Number(s, "data", x) = Copies(x, BX!BagAdd(toR, p))
    BY <1>1, <2>3, BagAddCopies
  <2> QED BY <1>1, <2>1, <2>2, <2>4 DEF Agrees
<1>6. Agrees(schedule(ch, Event("ack", p, d)), timer, toR, BX!BagAdd(toS, p))
  <2>1. PICK s : s = schedule(ch, Event("ack", p, d))
    OBVIOUS
  <2>2. IsChain(s) /\ \A u, x : u # "ack" => Number(s, u, x) = Number(ch, u, x)
    BY <1>2, <2>1
  <2>3. \A x : Number(s, "ack", x) = Number(ch, "ack", x) + (IF p = x THEN 1 ELSE 0)
    BY <1>2, <2>1
  <2>4. \A x : Number(s, "ack", x) = Copies(x, BX!BagAdd(toS, p))
    BY <1>1, <2>3, BagAddCopies
  <2> QED BY <1>1, <2>1, <2>2, <2>4 DEF Agrees
<1> QED BY <1>3, <1>4, <1>5, <1>6

(* cancel takes out the event of the timer, and there is no second one. *)
LEMMA CancelEvent ==
    ASSUME NEW ch, NEW timer, NEW toR, NEW toS, Agrees(ch, timer, toR, toS)
    PROVE  Agrees(cancel(ch), FALSE, toR, toS)
<1>1. /\ IsChain(ch) /\ timer \in BOOLEAN
      /\ \A x : Number(ch, "timeout", x) = IF timer /\ x = Garbage THEN 1 ELSE 0
      /\ \A x : Number(ch, "data", x) = Copies(x, toR)
      /\ \A x : Number(ch, "ack", x) = Copies(x, toS)
  BY DEF Agrees
<1>2. PICK s : s = cancel(ch)
  OBVIOUS
<1>3. IsChain(s)
  BY <1>1, <1>2, CancelChain
<1>4. CASE s = ch /\ \A i \in 1..Len(ch) : ch[i].type # "timeout"
  <2>1. \A x : Places(ch, "timeout", x) = {}
    BY <1>4 DEF Places
  <2>2. \A x : Number(ch, "timeout", x) = 0
    BY <2>1, FS_EmptySet DEF Number
  <2> QED BY <1>1, <1>2, <1>4, <2>2 DEF Agrees
<1>5. ASSUME NEW k \in 1..Len(ch), ch[k].type = "timeout", Spliced(s, ch, k, ch[k])
      PROVE  Agrees(s, FALSE, toR, toS)
  <2>1. PICK e : e = ch[k]
    OBVIOUS
  <2>2. /\ \A t, p : Number(s, t, p) \in Nat
        /\ \A t, p : Number(ch, t, p) =
                       Number(s, t, p) + (IF e.type = t /\ e.pkt = p THEN 1 ELSE 0)
    BY <1>5, <2>1, SplicedNumbers
  <2>3. e.type = "timeout"
    BY <1>5, <2>1
  <2>4. Number(ch, "timeout", e.pkt) \in Nat \ {0}
    BY <2>2, <2>3
  <2>5. timer /\ e.pkt = Garbage
    BY <1>1, <2>4
  <2>6. \A x : Number(s, "timeout", x) = 0
    BY <1>1, <2>2, <2>3, <2>5
  <2>7. \A t, p : t # "timeout" => Number(s, t, p) = Number(ch, t, p)
    BY <2>2, <2>3
  <2> QED BY <1>1, <1>3, <2>6, <2>7 DEF Agrees
<1> QED BY <1>1, <1>2, <1>4, <1>5, CancelChain

(* What a handler does to the timer, Timer does to the chain. *)
LEMMA TimerEvent ==
    ASSUME NEW ch, NEW timer, NEW toR, NEW toS, Agrees(ch, timer, toR, toS),
           IsABag(toR), IsABag(toS), sender_timer' \in BOOLEAN,
           ctl = "main" /\ ctl' = "construct" => sender_timer',
           sender_timer' => (ctl = "main" /\ ctl' = "construct") \/ timer
    PROVE  Agrees(Timer(ch), sender_timer', toR, toS)
<1>1. TIMEOUT \in Nat
  BY TimeAssumption
<1>2. Agrees(cancel(ch), FALSE, toR, toS)
  BY CancelEvent
<1>3. CASE ctl = "main" /\ ctl' = "construct"
  <2>1. Timer(ch) = schedule(cancel(ch), TimeoutAt(TIMEOUT))
    BY <1>3 DEF Timer
  <2>2. sender_timer' = TRUE
    BY <1>3
  <2> QED BY <1>1, <1>2, <2>1, <2>2, PutEvent
<1>4. CASE ~(ctl = "main" /\ ctl' = "construct") /\ ~sender_timer'
  <2>1. Timer(ch) = cancel(ch)
    BY <1>4 DEF Timer
  <2>2. sender_timer' = FALSE
    BY <1>4
  <2> QED BY <1>2, <2>1, <2>2
<1>5. CASE ~(ctl = "main" /\ ctl' = "construct") /\ sender_timer'
  <2>1. Timer(ch) = ch
    BY <1>5 DEF Timer
  <2>2. sender_timer' = TRUE /\ timer = TRUE
    BY <1>5 DEF Agrees
  <2> QED BY <2>1, <2>2
<1> QED BY <1>3, <1>4, <1>5

(* The delays the arguments of main allow. *)
LEMMA DelaysAreNat ==
    ASSUME args \in CommandLines
    PROVE  Latencies \subseteq Nat /\ args.arrivals \subseteq Nat
<1>1. pkt_latency \in Nat /\ args.arrivals \subseteq Nat
  BY TimeAssumption
<1>2. 0..(2 * pkt_latency) \subseteq Nat
  BY <1>1
<1> QED BY <1>1, <1>2 DEF Latencies

(* The event of the next message. *)
LEMMA RecurrenceEvent ==
    ASSUME args \in CommandLines, NEW ch, NEW timer, NEW toR, NEW toS, NEW r,
           Agrees(r, timer, toR, toS), IsABag(toR), IsABag(toS),
           NEW es \in Recurrences(ch)
    PROVE  Agrees(scheduleAll(r, es), timer, toR, toS)
<1>1. es = << >> \/ \E d \in args.arrivals : es = <<UpperEvent(d)>>
  BY DEF Recurrences
<1>2. CASE es = << >>
  BY <1>2 DEF scheduleAll
<1>3. ASSUME NEW d \in args.arrivals, es = <<UpperEvent(d)>>
      PROVE  Agrees(scheduleAll(r, es), timer, toR, toS)
  <2>1. d \in Nat
    BY DelaysAreNat
  <2>2. es # << >> /\ es[1] = UpperEvent(d)
    BY <1>3
  <2>3. scheduleAll(r, es) = schedule(r, UpperEvent(d))
    BY <2>2 DEF scheduleAll
  <2> QED BY <2>1, <2>3, PutEvent
<1> QED BY <1>1, <1>2, <1>3

(* What the lower layer makes of a packet is in the link and in the chain, *)
(* or in neither.                                                          *)
LEMMA TransmitEvents ==
    ASSUME NEW link, IsABag(link), NEW pkt, NEW new \in Transmit(link, pkt), NEW type,
           args \in CommandLines, NEW es \in Arrivals(type, link, new, pkt)
    PROVE  \/ new = link /\ es = << >>
           \/ \E d \in Nat, x \in {pkt, Garbage} :
                 new = BX!BagAdd(link, x) /\ es = <<Event(type, x, d)>>
<1>1. new \in {link, BX!BagAdd(link, pkt), BX!BagAdd(link, Garbage)}
  BY DEF Transmit
<1>2. CASE new = link
  BY <1>2 DEF Arrivals
<1>3. CASE new # link
  <2>1. PICK d \in Latencies :
          es = <<Event(type, IF new = BX!BagAdd(link, pkt) THEN pkt ELSE Garbage, d)>>
    BY <1>3 DEF Arrivals
  <2>2. d \in Nat
    BY DelaysAreNat
  <2>3. CASE new = BX!BagAdd(link, pkt)
    BY <2>1, <2>2, <2>3
  <2>4. CASE new # BX!BagAdd(link, pkt)
    <3>1. new = BX!BagAdd(link, Garbage)
      BY <1>1, <1>3, <2>4
    <3> QED BY <2>1, <2>2, <2>4, <3>1
  <2> QED BY <2>3, <2>4
<1> QED BY <1>2, <1>3

(* The event of a data packet handed over. *)
LEMMA DataArrival ==
    ASSUME NEW ch, NEW timer, NEW toR, NEW toS, Agrees(ch, timer, toR, toS),
           IsABag(toR), IsABag(toS), NEW pkt, NEW new \in Transmit(toR, pkt),
           args \in CommandLines, NEW es \in Arrivals("data", toR, new, pkt)
    PROVE  IsABag(new) /\ Agrees(scheduleAll(ch, es), timer, new, toS)
<1>1. \/ new = toR /\ es = << >>
      \/ \E d \in Nat, x \in {pkt, Garbage} :
            new = BX!BagAdd(toR, x) /\ es = <<Event("data", x, d)>>
  BY TransmitEvents
<1>2. CASE new = toR /\ es = << >>
  BY <1>2 DEF scheduleAll
<1>3. ASSUME NEW d \in Nat, NEW x, new = BX!BagAdd(toR, x), es = <<Event("data", x, d)>>
      PROVE  IsABag(new) /\ Agrees(scheduleAll(ch, es), timer, new, toS)
  <2>1. es # << >> /\ es[1] = Event("data", x, d)
    BY <1>3
  <2>2. scheduleAll(ch, es) = schedule(ch, Event("data", x, d))
    BY <2>1 DEF scheduleAll
  <2> QED BY <1>3, <2>2, PutEvent, BagAddCopies
<1> QED BY <1>1, <1>2, <1>3

(* The event of an acknowledgement handed over. *)
LEMMA AckArrival ==
    ASSUME NEW ch, NEW timer, NEW toR, NEW toS, Agrees(ch, timer, toR, toS),
           IsABag(toR), IsABag(toS), NEW pkt, NEW new \in Transmit(toS, pkt),
           args \in CommandLines, NEW es \in Arrivals("ack", toS, new, pkt)
    PROVE  IsABag(new) /\ Agrees(scheduleAll(ch, es), timer, toR, new)
<1>1. \/ new = toS /\ es = << >>
      \/ \E d \in Nat, x \in {pkt, Garbage} :
            new = BX!BagAdd(toS, x) /\ es = <<Event("ack", x, d)>>
  BY TransmitEvents
<1>2. CASE new = toS /\ es = << >>
  BY <1>2 DEF scheduleAll
<1>3. ASSUME NEW d \in Nat, NEW x, new = BX!BagAdd(toS, x), es = <<Event("ack", x, d)>>
      PROVE  IsABag(new) /\ Agrees(scheduleAll(ch, es), timer, toR, new)
  <2>1. es # << >> /\ es[1] = Event("ack", x, d)
    BY <1>3
  <2>2. scheduleAll(ch, es) = schedule(ch, Event("ack", x, d))
    BY <2>1 DEF scheduleAll
  <2> QED BY <1>3, <2>2, PutEvent, BagAddCopies
<1> QED BY <1>1, <1>2, <1>3

-----------------------------------------------------------------------------
(* The next message. *)
LEMMA TimedUpperLayerStep ==
    ASSUME ChainInv, TimedUpperLayer
    PROVE  ChainInv'
<1>0. /\ args \in CommandLines /\ IsABag(toReceiver) /\ IsABag(toSender)
      /\ Agrees(chain, sender_timer, toReceiver, toSender) /\ sender_timer \in BOOLEAN
  BY DEF ChainInv, Agrees
<1>1. UNCHANGED <<args, toReceiver, toSender>> /\ ctl = "main"
      /\ \/ sender_timer /\ UNCHANGED <<sender_timer, ctl>>
         \/ ~sender_timer /\ sender_timer' = TRUE /\ ctl' = "construct"
  BY DEF TimedUpperLayer, UpperLayerEvent, Sender_FromUpperLayer, Sender_isTimerSet,
         Sender_StartTimer
<1>2. PICK n : n = next_event(chain)
  OBVIOUS
<1>3. Agrees(n, sender_timer, toReceiver, toSender)
  BY <1>0, <1>2, TakeEvent DEF TimedUpperLayer
<1>4. Agrees(Timer(n), sender_timer', toReceiver, toSender)
  <2>1. /\ sender_timer' \in BOOLEAN
        /\ ctl = "main" /\ ctl' = "construct" => sender_timer'
        /\ sender_timer' => (ctl = "main" /\ ctl' = "construct") \/ sender_timer
    BY <1>0, <1>1
  <2> QED BY <1>0, <1>3, <2>1, TimerEvent
<1>5. PICK es \in Recurrences(Timer(n)) : chain' = scheduleAll(Timer(n), es)
  BY <1>2 DEF TimedUpperLayer
<1>6. Agrees(chain', sender_timer', toReceiver, toSender)
  BY <1>0, <1>4, <1>5, RecurrenceEvent
<1> QED BY <1>0, <1>1, <1>6 DEF ChainInv

(* An acknowledgement arrives. *)
LEMMA TimedAckStep ==
    ASSUME ChainInv, TimedAck
    PROVE  ChainInv'
<1>0. /\ args \in CommandLines /\ IsABag(toReceiver) /\ IsABag(toSender)
      /\ Agrees(chain, sender_timer, toReceiver, toSender) /\ sender_timer \in BOOLEAN
  BY DEF ChainInv, Agrees
<1>1. UNCHANGED <<args, toReceiver>> /\ ctl = "main" /\ sender_timer' \in BOOLEAN
      /\ \/ ctl' = "main" /\ (sender_timer' = FALSE \/ UNCHANGED sender_timer)
         \/ sender_timer' = TRUE /\ ctl' = "construct"
  BY <1>0 DEF TimedAck, AckEvent, Sender_FromLowerLayer, Sender_StartTimer, Sender_StopTimer
<1>2. PICK n : n = next_event(chain)
  OBVIOUS
<1>3. toSender' = BX!BagRemove(toSender, Head(chain).pkt) /\ chain' = Timer(n)
  BY <1>2 DEF TimedAck
<1>4. Head(chain).pkt \in BagToSet(toSender) /\ Agrees(n, sender_timer, toReceiver, toSender')
  BY <1>0, <1>2, <1>3, TakeEvent DEF TimedAck
<1>5. IsABag(toSender')
  BY <1>0, <1>3, <1>4, BagRemoveCopies
<1>6. Agrees(Timer(n), sender_timer', toReceiver, toSender')
  <2>1. /\ ctl = "main" /\ ctl' = "construct" => sender_timer'
        /\ sender_timer' => (ctl = "main" /\ ctl' = "construct") \/ sender_timer
    BY <1>0, <1>1
  <2> QED BY <1>0, <1>1, <1>4, <1>5, <2>1, TimerEvent
<1> QED BY <1>0, <1>1, <1>3, <1>5, <1>6 DEF ChainInv

(* The timer expires. *)
LEMMA TimedTimeoutStep ==
    ASSUME ChainInv, TimedTimeout
    PROVE  ChainInv'
<1>0. /\ args \in CommandLines /\ IsABag(toReceiver) /\ IsABag(toSender)
      /\ Agrees(chain, sender_timer, toReceiver, toSender) /\ sender_timer \in BOOLEAN
  BY DEF ChainInv, Agrees
<1>1. UNCHANGED <<args, toReceiver, toSender>> /\ ctl = "main"
      /\ sender_timer' = TRUE /\ ctl' = "construct"
  BY DEF TimedTimeout, TimeoutEvent, Sender_Timeout, Sender_StartTimer
<1>2. PICK n : n = next_event(chain)
  OBVIOUS
<1>3. Agrees(n, FALSE, toReceiver, toSender) /\ chain' = Timer(n)
  BY <1>0, <1>2, TakeEvent DEF TimedTimeout
<1>4. Agrees(Timer(n), sender_timer', toReceiver, toSender)
  BY <1>0, <1>1, <1>3, TimerEvent
<1> QED BY <1>0, <1>1, <1>3, <1>4 DEF ChainInv

(* A data packet arrives. *)
LEMMA TimedDataStep ==
    ASSUME ChainInv, TimedData
    PROVE  ChainInv'
<1>0. /\ args \in CommandLines /\ IsABag(toReceiver) /\ IsABag(toSender)
      /\ Agrees(chain, sender_timer, toReceiver, toSender) /\ sender_timer \in BOOLEAN
  BY DEF ChainInv, Agrees
<1>1. PICK h : h = Head(chain).pkt
  OBVIOUS
<1>2. PICK n : n = next_event(chain)
  OBVIOUS
<1>3. UNCHANGED <<args, sender_timer>> /\ toReceiver' = BX!BagRemove(toReceiver, h)
  BY <1>1 DEF TimedData, DataEvent
<1>4. h \in BagToSet(toReceiver) /\ Agrees(n, sender_timer, toReceiver', toSender)
  BY <1>0, <1>1, <1>2, <1>3, TakeEvent DEF TimedData
<1>5. IsABag(toReceiver')
  BY <1>0, <1>3, <1>4, BagRemoveCopies
<1>6. Receiver_FromLowerLayer(h)
  <2>1. PICK pkt \in BagToSet(toReceiver) :
          toReceiver' = BX!BagRemove(toReceiver, pkt) /\ Receiver_FromLowerLayer(pkt)
    BY DEF TimedData, DataEvent
  <2>2. pkt = h
    BY <1>0, <1>3, <1>4, <2>1, SameRemoved
  <2> QED BY <2>1, <2>2
<1>7. CASE ctl' = "consume" \/ ~RDT_VerifyChecksum(h)
  <2>1. chain' = n
    BY <1>1, <1>2, <1>7 DEF TimedData
  <2>2. UNCHANGED toSender
    BY <1>6, <1>7 DEF Receiver_FromLowerLayer, StoreAhead, AckOutOfWindow
  <2> QED BY <1>0, <1>3, <1>4, <1>5, <2>1, <2>2 DEF ChainInv
<1>8. CASE ~(ctl' = "consume" \/ ~RDT_VerifyChecksum(h))
  <2>1. PICK es \in Arrivals("ack", toSender, toSender', AckPacket(expected - 1)) :
          chain' = scheduleAll(n, es)
    BY <1>1, <1>2, <1>8 DEF TimedData
  <2>2. toSender' \in Transmit(toSender, AckPacket(expected - 1))
    BY <1>6, <1>8 DEF Receiver_FromLowerLayer, StoreAhead, AckOutOfWindow, Receiver_Ack,
                      Receiver_ToLowerLayer
  <2>3. IsABag(toSender') /\ Agrees(chain', sender_timer, toReceiver', toSender')
    BY <1>0, <1>4, <1>5, <2>1, <2>2, AckArrival
  <2> QED BY <1>0, <1>3, <1>5, <2>3 DEF ChainInv
<1> QED BY <1>7, <1>8

(* A step of the sender's loops. *)
LEMMA TimedSenderStep ==
    ASSUME ChainInv, TimedConstruct \/ TimedSend \/ TimedReturn
    PROVE  ChainInv'
<1>0. /\ args \in CommandLines /\ IsABag(toReceiver) /\ IsABag(toSender)
      /\ Agrees(chain, sender_timer, toReceiver, toSender) /\ sender_timer \in BOOLEAN
  BY DEF ChainInv, Agrees
<1>1. CASE TimedConstruct
  <2>1. UNCHANGED <<args, chain, toSender, toReceiver, sender_timer>>
    BY <1>1 DEF TimedConstruct, SenderStep, Sender_ConstructPKT, Sender_SendPKT
  <2> QED BY <1>0, <2>1 DEF ChainInv
<1>2. CASE TimedSend
  <2>1. UNCHANGED <<args, toSender, sender_timer>> /\
        toReceiver' \in Transmit(toReceiver, windows[next_packet_to_send % MAX_WINDOW_SIZE])
    BY <1>2 DEF TimedSend, SenderStep, Sender_ConstructPKT, Sender_SendPKT, SendOne, SendReturn,
                Sender_ToLowerLayer
  <2>2. PICK es \in Arrivals("data", toReceiver, toReceiver',
                             windows[next_packet_to_send % MAX_WINDOW_SIZE]) :
          chain' = scheduleAll(chain, es)
    BY <1>2 DEF TimedSend
  <2>3. IsABag(toReceiver') /\ Agrees(chain', sender_timer, toReceiver', toSender)
    BY <1>0, <2>1, <2>2, DataArrival
  <2> QED BY <1>0, <2>1, <2>3 DEF ChainInv
<1>3. CASE TimedReturn
  <2>1. UNCHANGED <<args, toSender, toReceiver>> /\ ctl = "send"
        /\ (sender_timer' = FALSE \/ UNCHANGED sender_timer)
    BY <1>3 DEF TimedReturn, SenderStep, Sender_ConstructPKT, Sender_SendPKT, SendOne, SendReturn,
                Sender_StopTimer
  <2>2. Agrees(Timer(chain), sender_timer', toReceiver, toSender)
    <3>1. /\ sender_timer' \in BOOLEAN
          /\ ctl = "main" /\ ctl' = "construct" => sender_timer'
          /\ sender_timer' => (ctl = "main" /\ ctl' = "construct") \/ sender_timer
      <4>1. ctl # "main"
        BY <2>1
      <4>2. CASE sender_timer' = FALSE
        BY <4>1, <4>2
      <4>3. CASE UNCHANGED sender_timer
        BY <1>0, <4>1, <4>3
      <4> QED BY <2>1, <4>2, <4>3
    <3> QED BY <1>0, <3>1, TimerEvent
  <2>3. PICK es \in Recurrences(Timer(chain)) : chain' = scheduleAll(Timer(chain), es)
    BY <1>3 DEF TimedReturn
  <2>4. Agrees(chain', sender_timer', toReceiver, toSender)
    BY <1>0, <2>2, <2>3, RecurrenceEvent
  <2> QED BY <1>0, <2>1, <2>4 DEF ChainInv
<1> QED BY <1>1, <1>2, <1>3

(* A step of the receiver's loop. *)
LEMMA TimedConsumeStep ==
    ASSUME ChainInv, TimedConsume
    PROVE  ChainInv'
<1>0. /\ args \in CommandLines /\ IsABag(toReceiver) /\ IsABag(toSender)
      /\ Agrees(chain, sender_timer, toReceiver, toSender) /\ sender_timer \in BOOLEAN
  BY DEF ChainInv, Agrees
<1>1. UNCHANGED <<args, toReceiver, sender_timer>> /\ ctl = "consume"
  BY DEF TimedConsume, ReceiverStep, Receiver_Consume
<1>2. CASE ctl' = "consume"
  <2>1. UNCHANGED <<chain, toSender>>
    BY <1>2 DEF TimedConsume, ReceiverStep, Receiver_Consume
  <2> QED BY <1>0, <1>1, <2>1 DEF ChainInv
<1>3. CASE ctl' # "consume"
  <2>1. PICK es \in Arrivals("ack", toSender, toSender', AckPacket(rpkt.seq)) :
          chain' = scheduleAll(chain, es)
    BY <1>3 DEF TimedConsume
  <2>2. toSender' \in Transmit(toSender, AckPacket(rpkt.seq))
    BY <1>1, <1>3 DEF TimedConsume, ReceiverStep, Receiver_Consume, Receiver_Ack,
                      Receiver_ToLowerLayer
  <2>3. IsABag(toSender') /\ Agrees(chain', sender_timer, toReceiver, toSender')
    BY <1>0, <2>1, <2>2, AckArrival
  <2> QED BY <1>0, <1>1, <2>3 DEF ChainInv
<1> QED BY <1>2, <1>3

(* The first event is the first message. *)
LEMMA TimedInitInv ==
    ASSUME TimedInit
    PROVE  ChainInv
<1>1. /\ args \in CommandLines /\ toReceiver = EmptyBag /\ toSender = EmptyBag
      /\ sender_timer = FALSE /\ chain = <<UpperEvent(0)>>
  BY DEF TimedInit, Init, ServicesInit
<1>2. IsABag(EmptyBag) /\ \A p : Copies(p, EmptyBag) = 0
  BY DEF IsABag, EmptyBag, SetToBag, Copies, BagToSet
<1>3. PICK e : e = UpperEvent(0)
  OBVIOUS
<1>4. e.type = "upper" /\ e.delay = 0 /\ e = Event(e.type, e.pkt, e.delay)
  BY <1>3 DEF UpperEvent, Event
<1>5. /\ chain \in Seq({e}) /\ Len(chain) = 1 /\ chain[1] = e
  BY <1>1, <1>3
<1>6. \A i \in 1..1 : i = 1
  OBVIOUS
<1>7. IsChain(chain)
  <2>1. e.delay \in Nat /\ e.delay <= e.delay
    BY <1>4
  <2>2. \A i \in 1..1 : chain[i] = e
    BY <1>5, <1>6
  <2> QED BY <1>4, <1>5, <2>1, <2>2 DEF IsChain
<1>8. \A t, p : t # "upper" => Number(chain, t, p) = 0
  <2> TAKE t, p
  <2> HAVE t # "upper"
  <2>1. Places(chain, t, p) = {}
    BY <1>4, <1>5, <1>6 DEF Places
  <2> QED BY <2>1, FS_EmptySet DEF Number
<1>9. Agrees(chain, FALSE, EmptyBag, EmptyBag)
  BY <1>2, <1>7, <1>8 DEF Agrees
<1> QED BY <1>1, <1>2, <1>9 DEF ChainInv

(* Every step of the event loop keeps chain, links and timer together. *)
LEMMA TimedNextInv == ChainInv /\ [TimedNext]_timedVars => ChainInv'
<1> SUFFICES ASSUME ChainInv, [TimedNext]_timedVars PROVE ChainInv'
  OBVIOUS
<1>1. CASE UNCHANGED <<toReceiver, toSender, sender_timer, chain, args>>
  BY <1>1 DEF ChainInv
<1>2. CASE TimedFinish
  BY <1>1, <1>2 DEF TimedFinish, Finish, linkVars
<1>3. CASE Terminated /\ UNCHANGED <<chain, args>>
  BY <1>1, <1>3 DEF Terminated, vars, serviceVars, linkVars
<1>4. CASE UNCHANGED timedVars
  BY <1>1, <1>4 DEF timedVars, vars, serviceVars, linkVars
<1> QED BY <1>2, <1>3, <1>4, TimedUpperLayerStep, TimedAckStep, TimedTimeoutStep, TimedDataStep,
           TimedSenderStep, TimedConsumeStep DEF TimedNext

(* A link agrees with the events of its packets, as they are counted. *)
LEMMA LinkAgrees ==
    ASSUME ChainInv
    PROVE  ChainAgrees
<1>0. /\ IsChain(chain) /\ sender_timer \in BOOLEAN
      /\ \A p : Number(chain, "timeout", p) = IF sender_timer /\ p = Garbage THEN 1 ELSE 0
      /\ \A p : Number(chain, "data", p) = Copies(p, toReceiver)
      /\ \A p : Number(chain, "ack", p) = Copies(p, toSender)
  BY DEF ChainInv, Agrees
<1>1. PICK n \in Nat : n = Len(chain) /\ DOMAIN chain = 1..n
  BY <1>0, LenProperties DEF IsChain
<1>2. \A i \in 1..(n - 1) : chain[i].delay <= chain[i + 1].delay
  <2>1. \A i \in 1..(n - 1) : i \in 1..n /\ i + 1 \in 1..n /\ i <= i + 1
    BY <1>1
  <2> QED BY <1>0, <1>1, <2>1 DEF IsChain
<1>3. \A i \in 1..n : Number(chain, chain[i].type, chain[i].pkt) # 0
  BY <1>0, <1>1, Counted
<1>4. ASSUME NEW t PROVE \A i \in EventsOf(t) : i \in 1..n /\ chain[i].type = t
  BY <1>1 DEF EventsOf
<1>5. ASSUME NEW t, NEW p PROVE {i \in EventsOf(t) : chain[i].pkt = p} = Places(chain, t, p)
  BY <1>1 DEF EventsOf, Places
<1>6. ASSUME sender_timer PROVE \E i \in DOMAIN chain : EventsOf("timeout") = {i}
  <2>1. Number(chain, "timeout", Garbage) = 1
    BY <1>0, <1>6
  <2>2. IsFiniteSet(Places(chain, "timeout", Garbage))
    BY <1>1, PlacesFinite
  <2>3. PICK i : Places(chain, "timeout", Garbage) = {i}
    BY <2>1, <2>2, FS_Singleton DEF Number
  <2>4. \A j \in EventsOf("timeout") : chain[j].pkt = Garbage
    BY <1>0, <1>3, <1>4
  <2>5. EventsOf("timeout") = Places(chain, "timeout", Garbage)
    BY <1>5, <2>4
  <2>6. i \in DOMAIN chain
    BY <1>1, <2>3 DEF Places
  <2> QED BY <2>3, <2>5, <2>6
<1>7. ASSUME ~sender_timer PROVE EventsOf("timeout") = {}
  BY <1>0, <1>3, <1>4, <1>7
<1>8. ASSUME NEW p \in BagToSet(toReceiver)
      PROVE  toReceiver[p] = Cardinality({i \in EventsOf("data") : chain[i].pkt = p})
  <2>1. Number(chain, "data", p) = toReceiver[p]
    BY <1>0 DEF Copies
  <2> QED BY <1>5, <2>1 DEF Number
<1>9. ASSUME NEW p \in BagToSet(toSender)
      PROVE  toSender[p] = Cardinality({i \in EventsOf("ack") : chain[i].pkt = p})
  <2>1. Number(chain, "ack", p) = toSender[p]
    BY <1>0 DEF Copies
  <2> QED BY <1>5, <2>1 DEF Number
<1>10. \A i \in EventsOf("data") : BagIn(chain[i].pkt, toReceiver)
  BY <1>0, <1>3, <1>4 DEF Copies, BagIn
<1>11. \A i \in EventsOf("ack") : BagIn(chain[i].pkt, toSender)
  BY <1>0, <1>3, <1>4 DEF Copies, BagIn
<1> QED BY <1>1, <1>2, <1>6, <1>7, <1>8, <1>9, <1>10, <1>11 DEF ChainAgrees

(* The event chain holds, in the order of time, an event for every packet  *)
(* in flight, no other event of a packet, and one of the timer exactly     *)
(* while sender_timer is set: whatever is scheduled, cancelled, restarted  *)
(* or taken off inside the handlers.                                       *)
THEOREM ChainKept == TimedSpec => []ChainAgrees
<1>1. TimedInit => ChainInv
  BY TimedInitInv
<1> QED BY <1>1, TimedNextInv, LinkAgrees, PTL DEF TimedSpec

-----------------------------------------------------------------------------
(* The event chain only chooses: whatever the simulated clock lets happen  *)
(* next is a step the protocol could take without it, so that nothing      *)
(* shown of every order of events is lost with the real one.               *)
THEOREM TimedRefinement == TimedSpec => Spec
<1>1. TimedInit => Init
  BY DEF TimedInit
<1>2. [TimedNext]_timedVars => [Next]_vars
  <2> SUFFICES ASSUME [TimedNext]_timedVars
               PROVE  Next \/ UNCHANGED vars
    OBVIOUS
  <2>1. CASE TimedUpperLayer
    BY <2>1 DEF TimedUpperLayer, Next
  <2>2. CASE TimedAck
    BY <2>2 DEF TimedAck, Next
  <2>3. CASE TimedTimeout
    BY <2>3 DEF TimedTimeout, Next
  <2>4. CASE TimedData
    BY <2>4 DEF TimedData, Next
  <2>5. CASE TimedConstruct \/ TimedSend \/ TimedReturn
    BY <2>5 DEF TimedConstruct, TimedSend, TimedReturn, Next
  <2>6. CASE TimedConsume
    BY <2>6 DEF TimedConsume, Next
  <2>7. CASE TimedFinish
    BY <2>7 DEF TimedFinish, Next
  <2>8. CASE Terminated
    BY <2>8 DEF Next
  <2>9. CASE UNCHANGED timedVars
    BY <2>9 DEF timedVars
  <2> QED BY <2>1, <2>2, <2>3, <2>4, <2>5, <2>6, <2>7, <2>8, <2>9 DEF TimedNext
<1> QED BY <1>1, <1>2, PTL DEF TimedSpec, Spec

(* Under the simulated clock too the upper layers see a reliable channel.  *)
THEOREM TimedChannel ==
    ASSUME MaxBacklog <= MAX_BUFFER_SIZE
    PROVE  TimedSpec => ChannelSpec
BY TimedRefinement, Refinement

-----------------------------------------------------------------------------
(* A link that loses, corrupts and reorders nothing. *)
Perfect == ~args.outoforder /\ ~args.loss /\ ~args.corrupt

(* The number an event of a packet carries. *)
Nr(e) == IF e.type = "data" THEN e.pkt.seq ELSE e.pkt.ack

(* The events of a type are of the intact packets lo to hi - 1, in order.  *)
InFlight(ch, t, lo, hi) ==
    /\ \A i \in 1..Len(ch) :
          ch[i].type = t => ch[i].pkt.intact /\ Nr(ch[i]) \in lo..(hi - 1)
    /\ \A i, j \in 1..Len(ch) :
          i < j /\ ch[i].type = t /\ ch[j].type = t => Nr(ch[i]) < Nr(ch[j])
    /\ \A k \in lo..(hi - 1) : \E i \in 1..Len(ch) : ch[i].type = t /\ Nr(ch[i]) = k

(* An event that comes in time for a timer that expires in r: a data       *)
(* packet while its acknowledgement has a latency left to travel, an       *)
(* acknowledgement while two latencies of the TIMEOUT are used at most.    *)
InTime(e, r) ==
    /\ e.type = "timeout" => e.delay = r
    /\ e.type = "data" => e.delay <= pkt_latency /\ e.delay + TIMEOUT <= r + pkt_latency
    /\ e.type = "ack" => e.delay <= pkt_latency /\ e.delay + TIMEOUT <= r + 2 * pkt_latency

Timely(ch, r) == \A i \in 1..Len(ch) : InTime(ch[i], r)

(* On a perfect link the packets the receiver has not seen and the         *)
(* acknowledgements the sender has not seen are all in flight, in order    *)
(* and in time; the receiver never has to keep a packet.                   *)
PerfectInv ==
    Perfect =>
      /\ InFlight(chain, "data", IF ctl = "consume" THEN expected + 1 ELSE expected,
                  next_packet_to_send)
      /\ InFlight(chain, "ack", ack_expected, expected)
      /\ expected <= next_packet_to_send
      /\ \A i \in 0..(WINDOWS_SIZE - 1) : ~valid_checks[i]
      /\ \E r \in Int :
           /\ Timely(chain, r)
           /\ ctl \in {"construct", "send"} => r >= TIMEOUT
           /\ ctl = "consume" => r + pkt_latency >= TIMEOUT

(* An event of another type changes nothing in flight. *)
LEMMA SplicedOther ==
    ASSUME NEW short, NEW long, NEW k, NEW e, Spliced(short, long, k, e), NEW t, e.type # t,
           NEW lo, NEW hi
    PROVE  InFlight(short, t, lo, hi) <=> InFlight(long, t, lo, hi)
<1> DEFINE f(i) == IF i < k THEN i ELSE i + 1
<1>1. PICK n \in Nat : n = Len(short)
  BY DEF Spliced
<1>2. /\ Len(long) = n + 1 /\ k \in 1..n + 1 /\ long[k].type # t
      /\ \A i \in 1..n : IF i < k THEN Same(long[i], short[i]) ELSE Same(long[i + 1], short[i])
  BY <1>1 DEF Spliced, Same
<1>3. \A i \in 1..n : /\ f(i) \in 1..n + 1 /\ long[f(i)].type = short[i].type
                      /\ long[f(i)].pkt = short[i].pkt /\ Nr(long[f(i)]) = Nr(short[i])
  BY <1>2 DEF Same, Nr
<1>4. \A i, j \in 1..n : i < j <=> f(i) < f(j)
  BY <1>2
<1>5. \A j \in 1..n + 1 : long[j].type = t => \E i \in 1..n : f(i) = j
  <2> SUFFICES ASSUME NEW j \in 1..n + 1, j # k PROVE \E i \in 1..n : f(i) = j
    BY <1>2
  <2>1. CASE j < k
    <3>1. j \in 1..n
      BY <1>2, <2>1
    <3> QED BY <2>1, <3>1
  <2>2. CASE ~(j < k)
    <3>1. j - 1 \in 1..n /\ ~(j - 1 < k) /\ (j - 1) + 1 = j
      BY <1>2, <2>2
    <3> QED BY <3>1
  <2> QED BY <2>1, <2>2
<1> HIDE DEF f
<1>6. ASSUME InFlight(short, t, lo, hi) PROVE InFlight(long, t, lo, hi)
  <2>1. /\ \A i \in 1..n : short[i].type = t => short[i].pkt.intact /\ Nr(short[i]) \in lo..(hi - 1)
        /\ \A i, j \in 1..n : i < j /\ short[i].type = t /\ short[j].type = t
                                => Nr(short[i]) < Nr(short[j])
        /\ \A m \in lo..(hi - 1) : \E i \in 1..n : short[i].type = t /\ Nr(short[i]) = m
    BY <1>1, <1>6 DEF InFlight
  <2>2. \A j \in 1..n + 1 : long[j].type = t => long[j].pkt.intact /\ Nr(long[j]) \in lo..(hi - 1)
    BY <1>3, <1>5, <2>1
  <2>3. ASSUME NEW a \in 1..n + 1, NEW b \in 1..n + 1, a < b, long[a].type = t, long[b].type = t
        PROVE  Nr(long[a]) < Nr(long[b])
    <3>1. PICK i \in 1..n : f(i) = a
      BY <1>5, <2>3
    <3>2. PICK j \in 1..n : f(j) = b
      BY <1>5, <2>3
    <3>3. i < j
      BY <1>4, <2>3, <3>1, <3>2
    <3> QED BY <1>3, <2>1, <2>3, <3>1, <3>2, <3>3
  <2>4. \A m \in lo..(hi - 1) : \E i \in 1..n + 1 : long[i].type = t /\ Nr(long[i]) = m
    BY <1>3, <2>1
  <2> QED BY <1>2, <2>2, <2>3, <2>4 DEF InFlight
<1>7. ASSUME InFlight(long, t, lo, hi) PROVE InFlight(short, t, lo, hi)
  <2>1. /\ \A i \in 1..n + 1 : long[i].type = t => long[i].pkt.intact /\ Nr(long[i]) \in lo..(hi - 1)
        /\ \A i, j \in 1..n + 1 : i < j /\ long[i].type = t /\ long[j].type = t
                                => Nr(long[i]) < Nr(long[j])
        /\ \A m \in lo..(hi - 1) : \E i \in 1..n + 1 : long[i].type = t /\ Nr(long[i]) = m
    BY <1>2, <1>7 DEF InFlight
  <2>2. \A j \in 1..n : short[j].type = t => short[j].pkt.intact /\ Nr(short[j]) \in lo..(hi - 1)
    BY <1>3, <2>1
  <2>3. \A i, j \in 1..n : i < j /\ short[i].type = t /\ short[j].type = t
                             => Nr(short[i]) < Nr(short[j])
    BY <1>3, <1>4, <2>1
  <2>4. ASSUME NEW m \in lo..(hi - 1) PROVE \E i \in 1..n : short[i].type = t /\ Nr(short[i]) = m
    <3>1. PICK j \in 1..n + 1 : long[j].type = t /\ Nr(long[j]) = m
      BY <2>1
    <3>2. PICK i \in 1..n : f(i) = j
      BY <1>5, <3>1
    <3> QED BY <1>3, <3>1, <3>2
  <2> QED BY <1>1, <2>2, <2>3, <2>4 DEF InFlight
<1> QED BY <1>6, <1>7

(* The head of the chain is the first in flight of its type. *)
LEMMA SplicedFirst ==
    ASSUME NEW short, NEW long, NEW e, Spliced(short, long, 1, e),
           NEW lo \in Int, NEW hi \in Int, InFlight(long, e.type, lo, hi)
    PROVE  /\ lo < hi /\ e.pkt.intact /\ Nr(e) = lo
           /\ InFlight(short, e.type, lo + 1, hi)
<1> DEFINE t == e.type
<1>1. PICK n \in Nat : n = Len(short)
  BY DEF Spliced
<1>2. /\ Len(long) = n + 1 /\ 1 \in 1..n + 1
      /\ \A i \in 1..n : Same(long[i + 1], short[i])
      /\ Same(long[1], e)
  <2>1. \A i \in 1..n : ~(i < 1)
    OBVIOUS
  <2> QED BY <1>1, <2>1 DEF Spliced
<1>3. \A i \in 1..n : /\ i + 1 \in 1..n + 1 /\ long[i + 1].type = short[i].type
                      /\ long[i + 1].pkt = short[i].pkt /\ Nr(long[i + 1]) = Nr(short[i])
  BY <1>2 DEF Same, Nr
<1>4. long[1].type = t /\ long[1].pkt = e.pkt /\ Nr(long[1]) = Nr(e)
  BY <1>2 DEF Same, Nr
<1>5. /\ \A i \in 1..n + 1 : long[i].type = t => long[i].pkt.intact /\ Nr(long[i]) \in lo..(hi - 1)
      /\ \A i, j \in 1..n + 1 : i < j /\ long[i].type = t /\ long[j].type = t
                              => Nr(long[i]) < Nr(long[j])
      /\ \A m \in lo..(hi - 1) : \E i \in 1..n + 1 : long[i].type = t /\ Nr(long[i]) = m
  BY <1>2 DEF InFlight
<1> HIDE DEF t
<1>6. e.pkt.intact /\ Nr(e) \in lo..(hi - 1)
  BY <1>2, <1>4, <1>5
<1>7. lo \in lo..(hi - 1) /\ lo < hi
  BY <1>6
<1>8. PICK a \in 1..n + 1 : long[a].type = t /\ Nr(long[a]) = lo
  BY <1>5, <1>7
<1>9. a = 1
  <2>1. CASE 1 < a
    <3>1. Nr(long[1]) < Nr(long[a])
      BY <1>2, <1>4, <1>5, <1>8, <2>1
    <3> QED BY <1>4, <1>6, <1>8, <3>1
  <2> QED BY <2>1
<1>10. Nr(e) = lo
  BY <1>4, <1>8, <1>9
<1>11. ASSUME NEW i \in 1..n, short[i].type = t
       PROVE  short[i].pkt.intact /\ Nr(short[i]) \in (lo + 1)..(hi - 1)
  <2>1. /\ i + 1 \in 1..n + 1 /\ long[i + 1].type = t /\ 1 < i + 1
        /\ long[i + 1].pkt = short[i].pkt /\ Nr(long[i + 1]) = Nr(short[i])
    BY <1>3, <1>11
  <2>2. Nr(long[1]) < Nr(long[i + 1])
    BY <1>2, <1>4, <1>5, <2>1
  <2>3. Nr(short[i]) \in lo..(hi - 1) /\ lo < Nr(short[i])
    BY <1>4, <1>5, <1>10, <2>1, <2>2
  <2>4. Nr(short[i]) \in (lo + 1)..(hi - 1)
    BY <2>3
  <2> QED BY <1>5, <2>1, <2>4
<1>12. ASSUME NEW i \in 1..n, NEW j \in 1..n, i < j, short[i].type = t, short[j].type = t
       PROVE  Nr(short[i]) < Nr(short[j])
  <2>1. i + 1 < j + 1
    BY <1>12
  <2> QED BY <1>3, <1>5, <1>12, <2>1
<1>13. ASSUME NEW m \in (lo + 1)..(hi - 1)
       PROVE  \E i \in 1..n : short[i].type = t /\ Nr(short[i]) = m
  <2>1. m \in lo..(hi - 1) /\ m # lo
    OBVIOUS
  <2>2. PICK j \in 1..n + 1 : long[j].type = t /\ Nr(long[j]) = m
    BY <1>5, <2>1
  <2>3. j # 1
    BY <1>4, <1>10, <2>1, <2>2
  <2>4. j - 1 \in 1..n /\ (j - 1) + 1 = j
    BY <2>3
  <2>5. short[j - 1].type = t /\ Nr(short[j - 1]) = m
    BY <1>3, <2>2, <2>4
  <2> QED BY <2>4, <2>5
<1>14. InFlight(short, t, lo + 1, hi)
  BY <1>1, <1>11, <1>12, <1>13 DEF InFlight
<1> QED BY <1>6, <1>7, <1>10, <1>14 DEF t

(* A packet put in behind all others of its type is the last in flight. *)
LEMMA SplicedLast ==
    ASSUME NEW short, NEW long, NEW k, NEW e, Spliced(short, long, k, e),
           NEW lo \in Int, NEW hi \in Int, lo <= hi, InFlight(short, e.type, lo, hi),
           \A i \in 1..Len(short) : short[i].type = e.type => i < k,
           e.pkt.intact, Nr(e) = hi
    PROVE  InFlight(long, e.type, lo, hi + 1)
<1> DEFINE t == e.type
<1>1. PICK n \in Nat : n = Len(short)
  BY DEF Spliced
<1>2. /\ Len(long) = n + 1 /\ k \in 1..n + 1
      /\ \A i \in 1..n : IF i < k THEN Same(long[i], short[i]) ELSE Same(long[i + 1], short[i])
  BY <1>1 DEF Spliced
<1>3. long[k].type = t /\ long[k].pkt = e.pkt /\ Nr(long[k]) = hi
  BY DEF Spliced, Same, Nr
<1>4. /\ \A i \in 1..n : short[i].type = t => short[i].pkt.intact /\ Nr(short[i]) \in lo..(hi - 1)
      /\ \A i, j \in 1..n : i < j /\ short[i].type = t /\ short[j].type = t
                              => Nr(short[i]) < Nr(short[j])
      /\ \A m \in lo..(hi - 1) : \E i \in 1..n : short[i].type = t /\ Nr(short[i]) = m
      /\ \A i \in 1..n : short[i].type = t => i < k
  BY <1>1 DEF InFlight
<1> HIDE DEF t
<1>5. \A i \in 1..n : i < k => /\ i \in 1..n + 1 /\ long[i].type = short[i].type
                               /\ long[i].pkt = short[i].pkt /\ Nr(long[i]) = Nr(short[i])
  BY <1>2 DEF Same, Nr
<1>6. ASSUME NEW j \in 1..n + 1, long[j].type = t, j # k PROVE j \in 1..n /\ j < k
  <2>1. CASE j < k
    BY <1>2, <2>1
  <2>2. CASE ~(j < k)
    <3>1. j - 1 \in 1..n /\ ~(j - 1 < k) /\ (j - 1) + 1 = j
      BY <1>2, <1>6, <2>2
    <3>2. Same(long[(j - 1) + 1], short[j - 1])
      BY <1>2, <3>1
    <3>3. short[j - 1].type = t
      BY <1>6, <3>1, <3>2 DEF Same
    <3> QED BY <1>4, <3>1, <3>3
  <2> QED BY <2>1, <2>2
<1>7. ASSUME NEW j \in 1..n + 1, long[j].type = t
      PROVE  /\ long[j].pkt.intact
             /\ \/ j = k /\ Nr(long[j]) = hi
                \/ j \in 1..n /\ j < k /\ Nr(long[j]) \in lo..(hi - 1)
  <2>1. CASE j = k
    BY <1>3, <2>1
  <2>2. CASE j # k
    BY <1>4, <1>5, <1>6, <1>7, <2>2
  <2> QED BY <2>1, <2>2
<1>8. \A j \in 1..n + 1 : long[j].type = t => long[j].pkt.intact /\ Nr(long[j]) \in lo..((hi + 1) - 1)
  BY <1>7
<1>9. ASSUME NEW i \in 1..n + 1, NEW j \in 1..n + 1, i < j, long[i].type = t, long[j].type = t
      PROVE  Nr(long[i]) < Nr(long[j])
  <2>1. CASE j = k
    <3>1. Nr(long[j]) = hi /\ i # k
      BY <1>3, <1>9, <2>1
    <3>2. Nr(long[i]) \in lo..(hi - 1)
      BY <1>7, <1>9, <3>1
    <3> QED BY <3>1, <3>2
  <2>2. CASE j # k
    <3>1. j \in 1..n /\ j < k
      BY <1>6, <1>9, <2>2
    <3>2. i \in 1..n /\ i < k
      BY <1>2, <1>9, <3>1
    <3> QED BY <1>4, <1>5, <1>9, <3>1, <3>2
  <2> QED BY <2>1, <2>2
<1>10. ASSUME NEW m \in lo..((hi + 1) - 1)
       PROVE  \E i \in 1..n + 1 : long[i].type = t /\ Nr(long[i]) = m
  <2>1. CASE m = hi
    BY <1>2, <1>3, <2>1
  <2>2. CASE m # hi
    <3>1. m \in lo..(hi - 1)
      BY <2>2
    <3> QED BY <1>4, <1>5, <3>1
  <2> QED BY <2>1, <2>2
<1>11. InFlight(long, t, lo, hi + 1)
  BY <1>2, <1>8, <1>9, <1>10 DEF InFlight
<1> QED BY <1>11 DEF t

(* What is in flight, in order and in time for a timer that expires in r. *)
Flight(ch, a, b, c, d, r) ==
    InFlight(ch, "data", a, b) /\ InFlight(ch, "ack", c, d) /\ Timely(ch, r)

(* The clock moves to the head of the chain. *)
LEMMA TakeInTime ==
    ASSUME NEW ch, IsChain(ch), ch # << >>, NEW r \in Int, Timely(ch, r)
    PROVE  Head(ch).delay \in Nat /\ Timely(next_event(ch), r - Head(ch).delay)
<1>1. PICK s : s = next_event(ch)
  OBVIOUS
<1>2. /\ Head(ch) = ch[1] /\ 1 \in 1..Len(ch)
      /\ \A i \in 1..Len(s) : /\ i + 1 \in 1..Len(ch) /\ s[i].type = ch[i + 1].type
                              /\ s[i].delay = ch[i + 1].delay - Head(ch).delay
  BY <1>1, NextChain
<1>3. PICK h \in Nat : h = Head(ch).delay
  BY <1>2 DEF IsChain
<1>4. pkt_latency \in Nat /\ TIMEOUT \in Nat
  BY TimeAssumption
<1>5. ASSUME NEW i \in 1..Len(s) PROVE InTime(s[i], r - h)
  <2>1. i + 1 \in 1..Len(ch) /\ s[i].type = ch[i + 1].type /\ s[i].delay = ch[i + 1].delay - h
    BY <1>2, <1>3
  <2>2. ch[i + 1].delay \in Nat /\ InTime(ch[i + 1], r)
    BY <2>1 DEF IsChain, Timely
  <2>3. PICK x \in Nat : x = ch[i + 1].delay
    BY <2>2
  <2>4. /\ s[i].type = "timeout" => x = r
        /\ s[i].type = "data" => x <= pkt_latency /\ x + TIMEOUT <= r + pkt_latency
        /\ s[i].type = "ack" => x <= pkt_latency /\ x + TIMEOUT <= r + 2 * pkt_latency
    BY <2>1, <2>2, <2>3 DEF InTime
  <2>5. s[i].delay = x - h
    BY <2>1, <2>3
  <2> QED BY <1>4, <2>4, <2>5 DEF InTime
<1> QED BY <1>1, <1>3, <1>5 DEF Timely

(* An event put in, in time itself. *)
LEMMA PutInTime ==
    ASSUME NEW ch, IsChain(ch), NEW t, NEW p, NEW d \in Nat, NEW r, Timely(ch, r),
           InTime(Event(t, p, d), r)
    PROVE  Timely(schedule(ch, Event(t, p, d)), r)
<1>1. PICK e : e = Event(t, p, d)
  OBVIOUS
<1>2. PICK s : s = schedule(ch, e)
  OBVIOUS
<1>3. \A i \in 1..Len(s) : s[i] = e \/ \E j \in 1..Len(ch) : s[i] = ch[j]
  BY <1>1, <1>2, ScheduleChain
<1> QED BY <1>1, <1>2, <1>3 DEF Timely

(* An event of no packet. *)
LEMMA OtherInFlight ==
    ASSUME NEW ch, IsChain(ch), NEW t, t \notin {"data", "ack"}, NEW p, NEW x \in Nat,
           NEW a, NEW b, NEW c, NEW d, NEW r,
           Flight(ch, a, b, c, d, r), InTime(Event(t, p, x), r)
    PROVE  Flight(schedule(ch, Event(t, p, x)), a, b, c, d, r)
<1>1. PICK e : e = Event(t, p, x)
  OBVIOUS
<1>2. PICK s : s = schedule(ch, e)
  OBVIOUS
<1>3. e.type = t
  BY <1>1 DEF Event
<1>4. PICK k : Spliced(ch, s, k, e)
  BY <1>1, <1>2, ScheduleChain
<1>5. InFlight(s, "data", a, b) /\ InFlight(s, "ack", c, d)
  BY <1>3, <1>4, SplicedOther DEF Flight
<1>6. Timely(s, r)
  BY <1>1, <1>2, PutInTime DEF Flight
<1> QED BY <1>1, <1>2, <1>5, <1>6 DEF Flight

(* A packet handed to a perfect link is the last in flight. *)
LEMMA PacketInFlight ==
    ASSUME NEW ch, IsChain(ch), NEW t \in {"data", "ack"}, NEW p, NEW lo \in Int, NEW hi \in Int,
           lo <= hi, NEW r, Timely(ch, r), InFlight(ch, t, lo, hi), p.intact,
           (IF t = "data" THEN p.seq ELSE p.ack) = hi, InTime(Event(t, p, pkt_latency), r)
    PROVE  LET s == schedule(ch, Event(t, p, pkt_latency))
           IN  /\ InFlight(s, t, lo, hi + 1) /\ Timely(s, r)
               /\ \A u, x, y : u # t /\ InFlight(ch, u, x, y) => InFlight(s, u, x, y)
<1>0. pkt_latency \in Nat
  BY TimeAssumption
<1>1. PICK e : e = Event(t, p, pkt_latency)
  OBVIOUS
<1>2. PICK s : s = schedule(ch, e)
  OBVIOUS
<1>3. e.type = t /\ e.pkt = p /\ Nr(e) = hi
  BY <1>1 DEF Event, Nr
<1>4. PICK k : Spliced(ch, s, k, e) /\ \A i \in 1..Len(ch) : ch[i].delay <= pkt_latency => i < k
  BY <1>0, <1>1, <1>2, ScheduleChain
<1>5. \A i \in 1..Len(ch) : ch[i].type = e.type => i < k
  BY <1>3, <1>4 DEF Timely, InTime
<1>6. InFlight(s, e.type, lo, hi + 1)
  BY <1>3, <1>4, <1>5, SplicedLast
<1>7. Timely(s, r)
  BY <1>0, <1>1, <1>2, PutInTime
<1>8. ASSUME NEW u, NEW x, NEW y, u # t, InFlight(ch, u, x, y) PROVE InFlight(s, u, x, y)
  BY <1>3, <1>4, <1>8, SplicedOther
<1> QED BY <1>1, <1>2, <1>3, <1>6, <1>7, <1>8

(* What a handler does to the timer leaves what is in flight in time: of a *)
(* restarted one the whole TIMEOUT remains.                                *)
LEMMA TimerInFlight ==
    ASSUME NEW ch, NEW timer, NEW toR, NEW toS, Agrees(ch, timer, toR, toS),
           NEW a, NEW b, NEW c, NEW d, NEW r \in Int, Flight(ch, a, b, c, d, r),
           ctl = "main" /\ ctl' = "construct" => sender_timer'
    PROVE  Flight(Timer(ch), a, b, c, d,
                  IF ctl = "main" /\ ctl' = "construct" THEN TIMEOUT ELSE r)
<1>0. TIMEOUT \in Nat /\ pkt_latency \in Nat
  BY TimeAssumption
<1>1. PICK s : s = cancel(ch)
  OBVIOUS
<1>2. IsChain(ch) /\ Agrees(s, FALSE, toR, toS)
  <2>1. IsChain(ch)
    BY DEF Agrees
  <2>2. Agrees(s, FALSE, toR, toS)
    BY <1>1, CancelEvent
  <2> QED BY <2>1, <2>2
<1>3. IsChain(s) /\ \A i \in 1..Len(s) : s[i].type # "timeout"
  <2>1. IsChain(s) /\ \A p : Number(s, "timeout", p) = 0
    BY <1>2 DEF Agrees
  <2> QED BY <2>1, Counted
<1>4. Flight(s, a, b, c, d, r)
  <2>1. \A i \in 1..Len(s) : \E j \in 1..Len(ch) : s[i] = ch[j]
    BY <1>1, <1>2, CancelChain
  <2>2. Timely(s, r)
    BY <2>1 DEF Flight, Timely
  <2>3. s = ch \/ \E k \in 1..Len(ch) : ch[k].type = "timeout" /\ Spliced(s, ch, k, ch[k])
    BY <1>1, <1>2, CancelChain
  <2>4. InFlight(s, "data", a, b) /\ InFlight(s, "ack", c, d)
    <3>1. CASE s = ch
      BY <3>1 DEF Flight
    <3>2. ASSUME NEW k \in 1..Len(ch), ch[k].type = "timeout", Spliced(s, ch, k, ch[k])
          PROVE  InFlight(s, "data", a, b) /\ InFlight(s, "ack", c, d)
      <4>1. ch[k].type # "data" /\ ch[k].type # "ack"
        BY <3>2
      <4> QED BY <3>2, <4>1, SplicedOther DEF Flight
    <3> QED BY <2>3, <3>1, <3>2
  <2> QED BY <2>2, <2>4 DEF Flight
<1>5. CASE ctl = "main" /\ ctl' = "construct"
  <2>1. Timer(ch) = schedule(s, Event("timeout", Garbage, TIMEOUT))
    <3>1. Timer(ch) = schedule(cancel(ch), TimeoutAt(TIMEOUT))
      <4>1. ~(~sender_timer')
        BY <1>5
      <4> QED BY <1>5, <4>1 DEF Timer
    <3> QED BY <1>1, <3>1 DEF TimeoutAt
  <2>2. \A i \in 1..Len(s) : InTime(s[i], r) /\ s[i].delay \in Nat
    BY <1>3, <1>4 DEF Flight, Timely, IsChain
  <2>3. \A i \in 1..Len(s) : InTime(s[i], TIMEOUT)
    BY <1>0, <1>3, <2>2 DEF InTime
  <2>4. Flight(s, a, b, c, d, TIMEOUT)
    BY <1>4, <2>3 DEF Flight, Timely
  <2>5. InTime(Event("timeout", Garbage, TIMEOUT), TIMEOUT)
    BY DEF InTime, Event
  <2>6. Flight(schedule(s, Event("timeout", Garbage, TIMEOUT)), a, b, c, d, TIMEOUT)
    BY <1>0, <1>3, <2>4, <2>5, OtherInFlight
  <2> QED BY <1>5, <2>1, <2>6
<1>6. CASE ~(ctl = "main" /\ ctl' = "construct")
  <2>1. Timer(ch) \in {s, ch}
    BY <1>1, <1>6 DEF Timer
  <2> QED BY <1>4, <1>6, <2>1
<1> QED BY <1>5, <1>6

(* The next message disturbs nothing in flight. *)
LEMMA RecurrenceInFlight ==
    ASSUME args \in CommandLines, NEW ch, NEW n, IsChain(n), NEW es \in Recurrences(ch),
           NEW a, NEW b, NEW c, NEW d, NEW r, Flight(n, a, b, c, d, r)
    PROVE  Flight(scheduleAll(n, es), a, b, c, d, r)
<1>1. es = << >> \/ \E x \in args.arrivals : es = <<UpperEvent(x)>>
  BY DEF Recurrences
<1>2. CASE es = << >>
  BY <1>2 DEF scheduleAll
<1>3. ASSUME NEW x \in args.arrivals, es = <<UpperEvent(x)>>
      PROVE  Flight(scheduleAll(n, es), a, b, c, d, r)
  <2>1. x \in Nat
    BY DelaysAreNat
  <2>2. es # << >> /\ es[1] = Event("upper", Garbage, x)
    BY <1>3 DEF UpperEvent
  <2>3. scheduleAll(n, es) = schedule(n, Event("upper", Garbage, x))
    BY <2>2 DEF scheduleAll
  <2>4. InTime(Event("upper", Garbage, x), r)
    BY DEF InTime, Event
  <2> QED BY <2>1, <2>3, <2>4, OtherInFlight
<1> QED BY <1>1, <1>2, <1>3

(* A perfect link passes a packet on as it is, after pkt_latency. *)
LEMMA PerfectTransmit ==
    ASSUME Perfect, NEW link, NEW new, NEW pkt, NEW type, new \in Transmit(link, pkt),
           RatesAllow(link, new), NEW es \in Arrivals(type, link, new, pkt), NEW ch
    PROVE  scheduleAll(ch, es) = schedule(ch, Event(type, pkt, pkt_latency))
<1>1. new # link /\ new # BX!BagAdd(link, Garbage)
  BY DEF Perfect, RatesAllow
<1>2. new = BX!BagAdd(link, pkt)
  BY <1>1 DEF Transmit
<1>3. Latencies = {pkt_latency}
  BY DEF Perfect, Latencies
<1>4. es = <<Event(type, pkt, pkt_latency)>>
  BY <1>1, <1>2, <1>3 DEF Arrivals
<1> QED BY <1>4 DEF scheduleAll

(* The positions of both sides, from the invariants proved before. *)
LEMMA Positions ==
    ASSUME IndInv, ChainInv
    PROVE  /\ expected \in Nat /\ pkt_seq \in Nat /\ ack_expected \in Nat
           /\ next_packet_to_send \in Nat /\ next_packet_to_send <= pkt_seq
           /\ ack_expected <= expected /\ expected <= pkt_seq
           /\ ack_expected <= next_packet_to_send
           /\ ctl \in {"main", "consume", "final"} =>
                next_packet_to_send = pkt_seq /\ (sender_timer <=> ack_expected < pkt_seq)
           /\ IsChain(chain) /\ args \in CommandLines /\ sender_timer \in BOOLEAN
<1>1. /\ expected \in Nat /\ pkt_seq \in Nat /\ ack_expected \in 0..pkt_seq
      /\ next_packet_to_send \in 0..pkt_seq
  BY DEF IndInv, TypeOK, SenderTypeOK, ReceiverTypeOK
<1>2. ack_expected <= expected /\ expected <= pkt_seq /\ ack_expected <= next_packet_to_send
  BY DEF IndInv, LinkInv, WindowInv
<1>3. ctl \in {"main", "consume", "final"} =>
        next_packet_to_send = pkt_seq /\ (sender_timer <=> ack_expected < pkt_seq)
  BY DEF IndInv, TimerInv
<1>4. IsChain(chain) /\ args \in CommandLines /\ sender_timer \in BOOLEAN
  BY DEF ChainInv, Agrees
<1> QED BY <1>1, <1>2, <1>3, <1>4

(* Between events a packet or its acknowledgement is in flight while the   *)
(* timer runs, and arrives first.                                          *)
LEMMA TimerNotFirst ==
    ASSUME 2 * pkt_latency < TIMEOUT, IndInv, ChainInv, PerfectInv
    PROVE  NoSpuriousTimeout
<1> SUFFICES ASSUME Perfect, ctl = "main", chain # << >>, Head(chain).type = "timeout"
             PROVE  FALSE
  BY DEF NoSpuriousTimeout, Perfect
<1>0. pkt_latency \in Nat /\ TIMEOUT \in Nat
  BY TimeAssumption
<1>1. Head(chain) = chain[1] /\ 1 \in 1..Len(chain) /\ IsChain(chain)
  BY Positions, NextChain
<1>2. sender_timer
  <2>1. Number(chain, chain[1].type, chain[1].pkt) \in Nat \ {0} /\ chain[1].type = "timeout"
    BY <1>1, Counted
  <2>2. \A p : Number(chain, "timeout", p) = IF sender_timer /\ p = Garbage THEN 1 ELSE 0
    BY DEF ChainInv, Agrees
  <2> QED BY <2>1, <2>2
<1>3. /\ ack_expected \in Nat /\ expected \in Nat /\ next_packet_to_send \in Nat
      /\ ack_expected < next_packet_to_send /\ ack_expected <= expected
  BY <1>2, Positions
<1>4. InFlight(chain, "data", expected, next_packet_to_send)
      /\ InFlight(chain, "ack", ack_expected, expected)
  BY DEF PerfectInv
<1>5. PICK r \in Int : Timely(chain, r)
  BY DEF PerfectInv
<1>6. \E i \in 1..Len(chain) : chain[i].type \in {"data", "ack"}
  <2>1. CASE ack_expected < expected
    <3>1. ack_expected \in ack_expected..(expected - 1)
      BY <1>3, <2>1
    <3>2. \E i \in 1..Len(chain) : chain[i].type = "ack"
      BY <1>4, <3>1 DEF InFlight
    <3> QED BY <3>2
  <2>2. CASE ~(ack_expected < expected)
    <3>1. expected \in expected..(next_packet_to_send - 1)
      BY <1>3, <2>2
    <3>2. \E i \in 1..Len(chain) : chain[i].type = "data"
      BY <1>4, <3>1 DEF InFlight
    <3> QED BY <3>2
  <2> QED BY <2>1, <2>2
<1>7. PICK i \in 1..Len(chain) : chain[i].type \in {"data", "ack"}
  BY <1>6
<1>8. Len(chain) \in Nat
  BY <1>1, LenProperties DEF IsChain
<1>9. /\ chain[1].delay = r /\ chain[i].delay \in Nat /\ chain[1].delay <= chain[i].delay
  BY <1>1, <1>5, <1>8 DEF Timely, InTime, IsChain
<1>10. chain[i].delay + TIMEOUT <= r + 2 * pkt_latency
  <2>1. InTime(chain[i], r)
    BY <1>5 DEF Timely
  <2>2. CASE chain[i].type = "ack"
    BY <2>1, <2>2 DEF InTime
  <2>3. CASE chain[i].type = "data"
    <3>1. chain[i].delay + TIMEOUT <= r + pkt_latency
      BY <2>1, <2>3 DEF InTime
    <3> QED BY <1>0, <1>9, <3>1
  <2> QED BY <1>7, <2>2, <2>3
<1> QED BY <1>0, <1>9, <1>10

(* A new message. *)
LEMMA PerfectUpperLayer ==
    ASSUME IndInv, ChainInv, PerfectInv, TimedUpperLayer
    PROVE  PerfectInv'
<1>0. /\ args \in CommandLines /\ IsABag(toReceiver) /\ IsABag(toSender)
      /\ Agrees(chain, sender_timer, toReceiver, toSender)
      /\ IsChain(chain) /\ sender_timer \in BOOLEAN
  BY DEF ChainInv, Agrees
<1>1. /\ UNCHANGED <<args, toReceiver, toSender, expected, ack_expected, next_packet_to_send,
                     valid_checks>>
      /\ ctl = "main" /\ chain # << >> /\ Head(chain).type = "upper"
      /\ \/ sender_timer /\ UNCHANGED <<sender_timer, ctl>>
         \/ ~sender_timer /\ sender_timer' = TRUE /\ ctl' = "construct"
  BY DEF TimedUpperLayer, UpperLayerEvent, Sender_FromUpperLayer, Sender_isTimerSet,
         Sender_StartTimer, receiverVars
<1> SUFFICES ASSUME Perfect PROVE PerfectInv'
  BY <1>1 DEF PerfectInv, Perfect
<1>2. PICK r \in Int : Flight(chain, expected, next_packet_to_send, ack_expected, expected, r)
  BY <1>1 DEF PerfectInv, Flight
<1>3. PICK n : n = next_event(chain)
  OBVIOUS
<1>4. Agrees(n, sender_timer, toReceiver, toSender) /\ Spliced(n, chain, 1, Head(chain))
  BY <1>0, <1>1, <1>3, TakeEvent, NextChain
<1>5. PICK q \in Int : Flight(n, expected, next_packet_to_send, ack_expected, expected, q)
  <2>1. Head(chain).delay \in Nat /\ Timely(n, r - Head(chain).delay)
    BY <1>0, <1>1, <1>2, <1>3, TakeInTime DEF Flight
  <2>2. /\ InFlight(n, "data", expected, next_packet_to_send)
        /\ InFlight(n, "ack", ack_expected, expected)
    BY <1>1, <1>2, <1>4, SplicedOther DEF Flight
  <2>3. r - Head(chain).delay \in Int
    BY <2>1
  <2> QED BY <2>1, <2>2, <2>3 DEF Flight
<1>6. PICK v : v = IF ctl = "main" /\ ctl' = "construct" THEN TIMEOUT ELSE q
  OBVIOUS
<1>7. Flight(Timer(n), expected, next_packet_to_send, ack_expected, expected, v)
  <2>1. ctl = "main" /\ ctl' = "construct" => sender_timer'
    BY <1>1
  <2> QED BY <1>4, <1>5, <1>6, <2>1, TimerInFlight
<1>8. v \in Int /\ (ctl' = "construct" => v = TIMEOUT) /\ ctl' \in {"main", "construct"}
      /\ TIMEOUT \in Nat
  BY <1>1, <1>6, TimeAssumption
<1>9. Agrees(Timer(n), sender_timer', toReceiver, toSender)
  <2>1. /\ sender_timer' \in BOOLEAN
        /\ ctl = "main" /\ ctl' = "construct" => sender_timer'
        /\ sender_timer' => (ctl = "main" /\ ctl' = "construct") \/ sender_timer
    BY <1>0, <1>1
  <2> QED BY <1>0, <1>4, <2>1, TimerEvent
<1>10. PICK es \in Recurrences(Timer(n)) : chain' = scheduleAll(Timer(n), es)
  BY <1>3 DEF TimedUpperLayer
<1>11. Flight(chain', expected, next_packet_to_send, ack_expected, expected, v)
  BY <1>0, <1>7, <1>9, <1>10, RecurrenceInFlight DEF Agrees
<1>12. v >= TIMEOUT \/ ctl' = "main"
  BY <1>8
<1>13. /\ expected <= next_packet_to_send
       /\ \A i \in 0..(WINDOWS_SIZE - 1) : ~valid_checks[i]
  BY DEF PerfectInv
<1> QED BY <1>1, <1>8, <1>11, <1>12, <1>13 DEF PerfectInv, Flight

(* An acknowledgement: it is of the first packet not yet acknowledged, and *)
(* restarts the timer.                                                     *)
LEMMA PerfectAck ==
    ASSUME IndInv, ChainInv, PerfectInv, TimedAck
    PROVE  PerfectInv'
<1>0. /\ args \in CommandLines /\ IsABag(toReceiver) /\ IsABag(toSender)
      /\ Agrees(chain, sender_timer, toReceiver, toSender)
      /\ IsChain(chain) /\ sender_timer \in BOOLEAN
  BY DEF ChainInv, Agrees
<1>1. PICK h : h = Head(chain).pkt
  OBVIOUS
<1>2. PICK n : n = next_event(chain)
  OBVIOUS
<1>3. /\ UNCHANGED <<args, toReceiver, expected, next_packet_to_send, valid_checks>>
      /\ ctl = "main" /\ chain # << >> /\ Head(chain).type = "ack"
      /\ toSender' = BX!BagRemove(toSender, h) /\ chain' = Timer(n)
  BY <1>1, <1>2 DEF TimedAck, AckEvent, Sender_FromLowerLayer, receiverVars
<1> SUFFICES ASSUME Perfect PROVE PerfectInv'
  BY <1>3 DEF PerfectInv, Perfect
<1>4. /\ h \in BagToSet(toSender) /\ Agrees(n, sender_timer, toReceiver, toSender')
      /\ Spliced(n, chain, 1, Head(chain))
  BY <1>0, <1>1, <1>2, <1>3, TakeEvent, NextChain
<1>5. PICK r \in Int : Flight(chain, expected, next_packet_to_send, ack_expected, expected, r)
  BY <1>3 DEF PerfectInv, Flight
<1>6. /\ ack_expected \in Nat /\ expected \in Nat /\ pkt_seq \in Nat /\ expected <= pkt_seq
  BY Positions
<1>7. /\ ack_expected < expected /\ h.intact /\ Nr(Head(chain)) = ack_expected
      /\ InFlight(n, "ack", ack_expected + 1, expected)
  <2>1. ack_expected \in Int /\ expected \in Int
    BY <1>6
  <2> QED BY <1>1, <1>3, <1>4, <1>5, <2>1, SplicedFirst DEF Flight
<1>8. h.ack = ack_expected
  BY <1>1, <1>3, <1>7 DEF Nr
<1>9. PICK q \in Int : Flight(n, expected, next_packet_to_send, ack_expected + 1, expected, q)
  <2>1. Head(chain).delay \in Nat /\ Timely(n, r - Head(chain).delay)
    BY <1>0, <1>2, <1>3, <1>5, TakeInTime DEF Flight
  <2>2. InFlight(n, "data", expected, next_packet_to_send)
    BY <1>3, <1>4, <1>5, SplicedOther DEF Flight
  <2>3. r - Head(chain).delay \in Int
    BY <2>1
  <2> QED BY <1>7, <2>1, <2>2, <2>3 DEF Flight
<1>10. Sender_FromLowerLayer(h)
  <2>1. PICK pkt \in BagToSet(toSender) :
          toSender' = BX!BagRemove(toSender, pkt) /\ Sender_FromLowerLayer(pkt)
    BY DEF TimedAck, AckEvent
  <2>2. pkt = h
    BY <1>0, <1>3, <1>4, <2>1, SameRemoved
  <2> QED BY <2>1, <2>2
<1>11. NewAck(h.ack) /\ RDT_VerifyChecksum(h)
  BY <1>6, <1>7, <1>8 DEF NewAck, RDT_VerifyChecksum
<1>12. ctl' = "construct" /\ ack_expected' = ack_expected + 1 /\ sender_timer' = TRUE
  BY <1>8, <1>10, <1>11 DEF Sender_FromLowerLayer, Sender_StartTimer
<1>13. Flight(chain', expected, next_packet_to_send, ack_expected + 1, expected, TIMEOUT)
  BY <1>3, <1>4, <1>9, <1>12, TimerInFlight
<1>14. TIMEOUT \in Int /\ TIMEOUT >= TIMEOUT
  BY TimeAssumption
<1>15. /\ expected <= next_packet_to_send
       /\ \A i \in 0..(WINDOWS_SIZE - 1) : ~valid_checks[i]
  BY DEF PerfectInv
<1> QED BY <1>3, <1>12, <1>13, <1>14, <1>15 DEF PerfectInv, Flight

(* A data packet: it is the expected one, in time for its acknowledgement. *)
LEMMA PerfectData ==
    ASSUME IndInv, ChainInv, PerfectInv, TimedData
    PROVE  PerfectInv'
<1>0. /\ args \in CommandLines /\ IsABag(toReceiver) /\ IsABag(toSender)
      /\ Agrees(chain, sender_timer, toReceiver, toSender)
      /\ IsChain(chain) /\ sender_timer \in BOOLEAN
  BY DEF ChainInv, Agrees
<1>1. PICK h : h = Head(chain).pkt
  OBVIOUS
<1>2. PICK n : n = next_event(chain)
  OBVIOUS
<1>3. /\ UNCHANGED <<args, expected, ack_expected, next_packet_to_send>>
      /\ ctl = "main" /\ chain # << >> /\ Head(chain).type = "data"
      /\ toReceiver' = BX!BagRemove(toReceiver, h)
  BY <1>1 DEF TimedData, DataEvent, Receiver_FromLowerLayer, senderVars
<1> SUFFICES ASSUME Perfect PROVE PerfectInv'
  BY <1>3 DEF PerfectInv, Perfect
<1>4. h \in BagToSet(toReceiver) /\ Spliced(n, chain, 1, Head(chain))
  BY <1>0, <1>1, <1>2, <1>3, TakeEvent, NextChain
<1>5. PICK r \in Int : Flight(chain, expected, next_packet_to_send, ack_expected, expected, r)
  BY <1>3 DEF PerfectInv, Flight
<1>6. expected \in Nat /\ next_packet_to_send \in Nat
  BY Positions
<1>7. /\ expected < next_packet_to_send /\ h.intact /\ Nr(Head(chain)) = expected
      /\ InFlight(n, "data", expected + 1, next_packet_to_send)
  <2>1. expected \in Int /\ next_packet_to_send \in Int
    BY <1>6
  <2> QED BY <1>1, <1>3, <1>4, <1>5, <2>1, SplicedFirst DEF Flight
<1>8. h.seq = expected
  BY <1>1, <1>3, <1>7 DEF Nr
<1>9. PICK x \in Nat : x = Head(chain).delay /\ Timely(n, r - x)
  BY <1>0, <1>2, <1>3, <1>5, TakeInTime DEF Flight
<1>10. (r - x) + pkt_latency >= TIMEOUT /\ r - x \in Int
  <2>1. Head(chain) = chain[1] /\ 1 \in 1..Len(chain)
    BY <1>0, <1>3, NextChain
  <2>2. x + TIMEOUT <= r + pkt_latency
    BY <1>3, <1>5, <1>9, <2>1 DEF Flight, Timely, InTime
  <2>3. TIMEOUT \in Nat /\ pkt_latency \in Nat
    BY TimeAssumption
  <2> QED BY <2>2, <2>3
<1>11. InFlight(n, "ack", ack_expected, expected)
  BY <1>3, <1>4, <1>5, SplicedOther DEF Flight
<1>12. Receiver_FromLowerLayer(h)
  <2>1. PICK pkt \in BagToSet(toReceiver) :
          toReceiver' = BX!BagRemove(toReceiver, pkt) /\ Receiver_FromLowerLayer(pkt)
    BY DEF TimedData, DataEvent
  <2>2. pkt = h
    BY <1>0, <1>3, <1>4, <2>1, SameRemoved
  <2> QED BY <2>1, <2>2
<1>13. ctl' = "consume" /\ UNCHANGED valid_checks
  <2>1. RDT_VerifyChecksum(h)
    BY <1>7 DEF RDT_VerifyChecksum
  <2>2. ~(expected < h.seq) /\ ~(h.seq < expected) /\ ~(h.seq >= expected + WINDOWS_SIZE)
    BY <1>6, <1>8, ReceiverAssumption
  <2> QED BY <1>12, <2>1, <2>2 DEF Receiver_FromLowerLayer, StoreAhead, AckOutOfWindow
<1>14. chain' = n
  BY <1>2, <1>13 DEF TimedData
<1>15. /\ expected <= next_packet_to_send
       /\ \A i \in 0..(WINDOWS_SIZE - 1) : ~valid_checks[i]
  BY DEF PerfectInv
<1> QED BY <1>3, <1>7, <1>9, <1>10, <1>11, <1>13, <1>14, <1>15 DEF PerfectInv

(* The sender hands a packet over: of its timer the whole TIMEOUT remains. *)
LEMMA PerfectSend ==
    ASSUME IndInv, ChainInv, PerfectInv, TimedSend
    PROVE  PerfectInv'
<1>1. PICK p : p = windows[next_packet_to_send % MAX_WINDOW_SIZE]
  OBVIOUS
<1>2. /\ UNCHANGED <<args, expected, ack_expected, valid_checks>>
      /\ ctl = "send" /\ ctl' = "send"
      /\ next_packet_to_send < pkt_seq /\ next_packet_to_send' = next_packet_to_send + 1
      /\ toReceiver' \in Transmit(toReceiver, p) /\ RatesAllow(toReceiver, toReceiver')
  BY <1>1 DEF TimedSend, SenderStep, Sender_ConstructPKT, Sender_SendPKT, SendOne, SendReturn,
              Sender_ToLowerLayer, receiverVars
<1> SUFFICES ASSUME Perfect PROVE PerfectInv'
  BY <1>2 DEF PerfectInv, Perfect
<1>3. PICK es \in Arrivals("data", toReceiver, toReceiver', p) : chain' = scheduleAll(chain, es)
  BY <1>1 DEF TimedSend
<1>4. chain' = schedule(chain, Event("data", p, pkt_latency))
  BY <1>2, <1>3, PerfectTransmit
<1>5. /\ expected \in Nat /\ next_packet_to_send \in Nat /\ ack_expected \in Nat /\ pkt_seq \in Nat
      /\ ack_expected <= next_packet_to_send /\ IsChain(chain)
  BY Positions
<1>6. p.intact /\ p.seq = next_packet_to_send
  <2>1. next_packet_to_send \in ack_expected..(pkt_seq - 1) /\ next_packet_to_send \in 0..(pkt_seq - 1)
    BY <1>2, <1>5
  <2>2. p = Pkt(next_packet_to_send)
    BY <1>1, <2>1 DEF IndInv, WindowInv, WindowIntact, Pkt
  <2>3. \E s, d, f : Pkt(next_packet_to_send) = DataPacket(next_packet_to_send, s, d, f)
    BY <2>1 DEF IndInv, StreamInv
  <2> QED BY <2>2, <2>3 DEF DataPacket
<1>7. PICK r \in Int : Timely(chain, r) /\ r >= TIMEOUT
  BY <1>2 DEF PerfectInv
<1>8. InTime(Event("data", p, pkt_latency), r)
  <2>1. TIMEOUT \in Nat /\ pkt_latency \in Nat
    BY TimeAssumption
  <2>2. pkt_latency <= pkt_latency /\ pkt_latency + TIMEOUT <= r + pkt_latency
    BY <1>7, <2>1
  <2> QED BY <2>2 DEF InTime, Event
<1>9. /\ InFlight(chain, "data", expected, next_packet_to_send)
      /\ InFlight(chain, "ack", ack_expected, expected)
      /\ expected <= next_packet_to_send
      /\ \A i \in 0..(WINDOWS_SIZE - 1) : ~valid_checks[i]
  BY <1>2 DEF PerfectInv
<1>10. /\ InFlight(chain', "data", expected, next_packet_to_send + 1) /\ Timely(chain', r)
       /\ \A u, x, y : u # "data" /\ InFlight(chain, u, x, y) => InFlight(chain', u, x, y)
  <2>1. expected \in Int /\ next_packet_to_send \in Int
        /\ (IF "data" = "data" THEN p.seq ELSE p.ack) = next_packet_to_send
    BY <1>5, <1>6
  <2> QED BY <1>4, <1>5, <1>6, <1>7, <1>8, <1>9, <2>1, PacketInFlight
<1>11. InFlight(chain', "ack", ack_expected, expected)
  BY <1>9, <1>10
<1>12. expected <= next_packet_to_send + 1
  BY <1>5, <1>9
<1> QED BY <1>2, <1>7, <1>9, <1>10, <1>11, <1>12 DEF PerfectInv

(* The other steps of the sender's loops. *)
LEMMA PerfectReturn ==
    ASSUME IndInv, ChainInv, PerfectInv, TimedConstruct \/ TimedReturn
    PROVE  PerfectInv'
<1>0. /\ args \in CommandLines /\ IsABag(toReceiver) /\ IsABag(toSender)
      /\ Agrees(chain, sender_timer, toReceiver, toSender)
      /\ IsChain(chain) /\ sender_timer \in BOOLEAN
  BY DEF ChainInv, Agrees
<1>1. CASE TimedConstruct
  <2>1. /\ UNCHANGED <<args, chain, expected, ack_expected, valid_checks, next_packet_to_send>>
        /\ ctl = "construct" /\ ctl' \in {"construct", "send"}
    BY <1>1 DEF TimedConstruct, SenderStep, Sender_ConstructPKT, Sender_SendPKT, receiverVars
  <2> QED BY <2>1 DEF PerfectInv, Perfect
<1>2. CASE TimedReturn
  <2>1. /\ UNCHANGED <<args, toReceiver, toSender, expected, ack_expected, valid_checks,
                       next_packet_to_send>>
        /\ ctl = "send" /\ ctl' = "main"
        /\ (sender_timer' = FALSE \/ UNCHANGED sender_timer)
    BY <1>2 DEF TimedReturn, SenderStep, Sender_ConstructPKT, Sender_SendPKT, SendOne, SendReturn,
                Sender_StopTimer, receiverVars
  <2> SUFFICES ASSUME Perfect PROVE PerfectInv'
    BY <2>1 DEF PerfectInv, Perfect
  <2>2. PICK r \in Int : Flight(chain, expected, next_packet_to_send, ack_expected, expected, r)
    BY <2>1 DEF PerfectInv, Flight
  <2>3. ~(ctl = "main" /\ ctl' = "construct")
    BY <2>1
  <2>4. Flight(Timer(chain), expected, next_packet_to_send, ack_expected, expected, r)
    BY <1>0, <2>2, <2>3, TimerInFlight
  <2>5. IsChain(Timer(chain))
    <3>1. Timer(chain) \in {cancel(chain), chain}
      BY <2>3 DEF Timer
    <3>2. IsChain(cancel(chain))
      BY <1>0, CancelChain
    <3> QED BY <1>0, <3>1, <3>2
  <2>6. PICK es \in Recurrences(Timer(chain)) : chain' = scheduleAll(Timer(chain), es)
    BY <1>2 DEF TimedReturn
  <2>7. Flight(chain', expected, next_packet_to_send, ack_expected, expected, r)
    BY <1>0, <2>4, <2>5, <2>6, RecurrenceInFlight
  <2>8. /\ expected <= next_packet_to_send
        /\ \A i \in 0..(WINDOWS_SIZE - 1) : ~valid_checks[i]
    BY DEF PerfectInv
  <2> QED BY <2>1, <2>2, <2>7, <2>8 DEF PerfectInv, Flight
<1> QED BY <1>1, <1>2

(* The receiver answers the packet it has consumed; none waits behind it. *)
LEMMA PerfectConsume ==
    ASSUME IndInv, ChainInv, PerfectInv, TimedConsume
    PROVE  PerfectInv'
<1>1. /\ UNCHANGED <<args, ack_expected, next_packet_to_send>>
      /\ ctl = "consume" /\ expected' = expected + 1 /\ Receiver_Consume
  BY DEF TimedConsume, ReceiverStep, Receiver_Consume, senderVars
<1> SUFFICES ASSUME Perfect PROVE PerfectInv'
  BY <1>1 DEF PerfectInv, Perfect
<1>2. /\ InFlight(chain, "data", expected + 1, next_packet_to_send)
      /\ InFlight(chain, "ack", ack_expected, expected)
      /\ \A i \in 0..(WINDOWS_SIZE - 1) : ~valid_checks[i]
  BY <1>1 DEF PerfectInv
<1>3. PICK r \in Int : Timely(chain, r) /\ r + pkt_latency >= TIMEOUT
  BY <1>1 DEF PerfectInv
<1>4. /\ expected \in Nat /\ ack_expected \in Nat /\ pkt_seq \in Nat
      /\ ack_expected <= expected /\ next_packet_to_send = pkt_seq /\ IsChain(chain)
  BY <1>1, Positions
<1>5. expected < pkt_seq /\ rpkt.seq = expected
  <2>1. expected < pkt_seq /\ rpkt = Pkt(expected)
    BY <1>1 DEF IndInv, ReceiverInv
  <2>2. expected \in 0..(pkt_seq - 1)
    BY <1>4, <2>1
  <2>3. \E s, d, f : Pkt(expected) = DataPacket(expected, s, d, f)
    BY <2>2 DEF IndInv, StreamInv
  <2> QED BY <2>1, <2>3 DEF DataPacket
<1>6. ~valid_checks[(expected + 1) % WINDOWS_SIZE]
  <2>1. (expected + 1) % WINDOWS_SIZE \in 0..(WINDOWS_SIZE - 1)
    BY <1>4, ReceiverAssumption
  <2> QED BY <1>2, <2>1
<1>7. /\ ctl' = "main" /\ UNCHANGED valid_checks
      /\ toSender' \in Transmit(toSender, AckPacket(expected))
  BY <1>1, <1>5, <1>6 DEF Receiver_Consume, Receiver_Ack, Receiver_ToLowerLayer
<1>8. PICK p : p = AckPacket(expected)
  OBVIOUS
<1>9. p.intact /\ p.ack = expected
  BY <1>8 DEF AckPacket
<1>10. chain' = schedule(chain, Event("ack", p, pkt_latency))
  <2>1. PICK es \in Arrivals("ack", toSender, toSender', p) : chain' = scheduleAll(chain, es)
    BY <1>5, <1>7, <1>8 DEF TimedConsume
  <2>2. RatesAllow(toSender, toSender')
    BY <1>7 DEF TimedConsume
  <2> QED BY <1>7, <1>8, <2>1, <2>2, PerfectTransmit
<1>11. InTime(Event("ack", p, pkt_latency), r)
  <2>1. TIMEOUT \in Nat /\ pkt_latency \in Nat
    BY TimeAssumption
  <2>2. pkt_latency <= pkt_latency /\ pkt_latency + TIMEOUT <= r + 2 * pkt_latency
    BY <1>3, <2>1
  <2> QED BY <2>2 DEF InTime, Event
<1>12. /\ InFlight(chain', "ack", ack_expected, expected + 1) /\ Timely(chain', r)
       /\ \A u, x, y : u # "ack" /\ InFlight(chain, u, x, y) => InFlight(chain', u, x, y)
  <2>1. expected \in Int /\ ack_expected \in Int
        /\ (IF "ack" = "data" THEN p.seq ELSE p.ack) = expected
    BY <1>4, <1>9
  <2> QED BY <1>2, <1>3, <1>4, <1>9, <1>10, <1>11, <2>1, PacketInFlight
<1>13. InFlight(chain', "data", expected + 1, next_packet_to_send)
  BY <1>2, <1>12
<1>14. expected + 1 <= next_packet_to_send
  BY <1>4, <1>5
<1> QED BY <1>1, <1>2, <1>3, <1>7, <1>12, <1>13, <1>14 DEF PerfectInv

(* No packet is in flight at first. *)
LEMMA PerfectInit ==
    ASSUME TimedInit
    PROVE  PerfectInv
<1>1. /\ chain = <<UpperEvent(0)>> /\ ctl = "main" /\ expected = 0 /\ ack_expected = 0
      /\ next_packet_to_send = 0 /\ \A i \in 0..(WINDOWS_SIZE - 1) : ~valid_checks[i]
  BY DEF TimedInit, Init, ServicesInit, Sender_Init, Receiver_Init
<1>2. Len(chain) = 1 /\ \A i \in 1..1 : chain[i].type = "upper"
  BY <1>1 DEF UpperEvent, Event
<1>3. 0..(0 - 1) = {} /\ 0 <= 0 /\ 0 \in Int
  OBVIOUS
<1>4. InFlight(chain, "data", 0, 0) /\ InFlight(chain, "ack", 0, 0)
  BY <1>2, <1>3 DEF InFlight
<1>5. Timely(chain, 0)
  BY <1>2 DEF Timely, InTime
<1> QED BY <1>1, <1>3, <1>4, <1>5 DEF PerfectInv

(* On a perfect link everything stays in flight in order and in time. *)
LEMMA PerfectNext ==
    ASSUME 2 * pkt_latency < TIMEOUT, IndInv, ChainInv, PerfectInv, [TimedNext]_timedVars
    PROVE  PerfectInv'
<1>1. CASE TimedTimeout
  <2>1. chain # << >> /\ Head(chain).type = "timeout" /\ ctl = "main" /\ UNCHANGED args
    BY <1>1 DEF TimedTimeout, TimeoutEvent, Sender_Timeout
  <2>2. ~Perfect
    BY <2>1, TimerNotFirst DEF NoSpuriousTimeout, Perfect
  <2> QED BY <2>1, <2>2 DEF PerfectInv, Perfect
<1>2. CASE TimedFinish
  <2>1. UNCHANGED <<args, chain, expected, ack_expected, valid_checks, next_packet_to_send>>
        /\ ctl = "main" /\ ctl' = "final"
    BY <1>2 DEF TimedFinish, Finish, senderVars, receiverVars
  <2> QED BY <2>1 DEF PerfectInv, Perfect
<1>3. CASE UNCHANGED <<vars, chain, args>>
  <2>1. UNCHANGED <<args, chain, expected, ack_expected, valid_checks, next_packet_to_send, ctl>>
    BY <1>3 DEF vars, senderVars, receiverVars, serviceVars
  <2> QED BY <2>1 DEF PerfectInv, Perfect
<1>4. CASE Terminated /\ UNCHANGED <<chain, args>>
  BY <1>3, <1>4 DEF Terminated
<1>5. CASE UNCHANGED timedVars
  BY <1>3, <1>5 DEF timedVars
<1> QED BY <1>1, <1>2, <1>4, <1>5, PerfectUpperLayer, PerfectAck, PerfectData, PerfectSend,
           PerfectReturn, PerfectConsume DEF TimedNext

(* On a link that loses, corrupts and reorders nothing the sender's timer  *)
(* never expires, for every latency of which TIMEOUT is more than twice    *)
(* (0.1 s and 0.3 s in the code): no packet is ever sent a second time.    *)
THEOREM NoNeedlessTimeout ==
    ASSUME 2 * pkt_latency < TIMEOUT, MaxBacklog <= MAX_BUFFER_SIZE
    PROVE  TimedSpec => []NoSpuriousTimeout
<1>1. TimedInit => ChainInv /\ PerfectInv
  BY TimedInitInv, PerfectInit
<1>2. IndInv /\ ChainInv /\ PerfectInv /\ [TimedNext]_timedVars => ChainInv' /\ PerfectInv'
  BY TimedNextInv, PerfectNext
<1>3. IndInv /\ ChainInv /\ PerfectInv => NoSpuriousTimeout
  BY TimerNotFirst
<1>4. TimedSpec => []IndInv
  BY TimedRefinement, Invariance, PTL
<1> QED BY <1>1, <1>2, <1>3, <1>4, PTL DEF TimedSpec
=============================================================================
