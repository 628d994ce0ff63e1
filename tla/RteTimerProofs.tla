--------------------------- MODULE RteTimerProofs ---------------------------
(***************************************************************************)
(* The timers of librte_timer for every number of lcores and timers, any   *)
(* calls and any time: the inductive invariant says for each status of a   *)
(* timer where it may be linked, and which call or manager answers for it. *)
(***************************************************************************)
EXTENDS RteTimer, SequenceTheorems, WellFoundedInduction, TLAPS

CallSet ==
  [pc : {"idle", "config", "del", "add", "done"}, op : {"reset", "stop"},
   tim : Timers \cup {NoOne}, ticks : Nat, expire : Nat, period : Nat,
   target : Lcores \cup {NoOne}, sync : BOOLEAN, locked : BOOLEAN, owner : Lcores \cup {NoOne}]

MgrSet ==
  [pc : {"out", "check", "cut", "mark", "next", "callback", "reload"}, now : Nat,
   run : Seq(Timers), i : Nat, running : Timers \cup {NoOne}, updated : BOOLEAN]

TimerSet ==
  [expire : Nat, period : Nat, state : {"STOP", "CONFIG", "PENDING", "RUNNING"},
   owner : Lcores \cup {NoOne}]

TypeOK ==
  /\ time \in Nat /\ calls \in Nat
  /\ timer \in [Timers -> TimerSet]
  /\ list \in [Lcores -> Seq(Timers)]
  /\ first \in [Lcores -> Nat]
  /\ lock \in [Lcores -> Lcores \cup {NoOne}]
  /\ call \in [Lcores -> CallSet]
  /\ mgr \in [Lcores -> MgrSet]

(* The call has the timer: its status is CONFIG. *)
Working(l) == call[l].pc \in {"del", "add", "done"}

(* The expired timers that are not marked yet. *)
Waiting(l) ==
  IF mgr[l].pc = "mark" THEN {mgr[l].run[j] : j \in mgr[l].i..Len(mgr[l].run)} ELSE {}

(* The timer whose callback runs and has not configured it. *)
Current(l) == IF mgr[l].pc = "callback" /\ ~mgr[l].updated THEN {mgr[l].running} ELSE {}

(* A timer that may be linked in the list of l: it is pending there, or a  *)
(* call is to take it out of the list, or has put it there.                *)
OnList(t, l) ==
  \/ timer[t].state = "PENDING" /\ timer[t].owner = l
  \/ /\ timer[t].state = "CONFIG"
     /\ \/ call[timer[t].owner].pc = "del" /\ call[timer[t].owner].owner = l
        \/ /\ call[timer[t].owner].pc = "done" /\ call[timer[t].owner].op = "reset"
           /\ call[timer[t].owner].target = l

(* A call has the timer it works on, and one of a manager its lock. *)
CallOK(l) ==
  /\ call[l].pc # "idle" => call[l].tim \in Timers /\ mgr[l].pc \in {"out", "callback", "reload"}
  /\ call[l].pc # "idle" /\ call[l].op = "reset" => call[l].target \in Lcores
  /\ Working(l) => timer[call[l].tim].state = "CONFIG" /\ timer[call[l].tim].owner = l
  /\ call[l].pc = "del" => call[l].owner \in Lcores
  /\ call[l].pc = "add" => call[l].op = "reset"
  /\ call[l].locked <=> mgr[l].pc = "reload"
  /\ call[l].locked => call[l].pc # "idle" /\ call[l].tim = mgr[l].running

(* Each status but STOP has an lcore that answers for the timer. *)
StatusOK(t) ==
  /\ timer[t].state # "STOP" => timer[t].owner \in Lcores
  /\ timer[t].state = "CONFIG" => Working(timer[t].owner) /\ call[timer[t].owner].tim = t
  /\ timer[t].state = "RUNNING" => t \in Ready(timer[t].owner) \cup Current(timer[t].owner)

MgrOK(l) ==
  /\ lock[l] = IF mgr[l].pc \in {"mark", "reload"} THEN l ELSE NoOne
  /\ mgr[l].pc \in {"out", "check", "cut"} => mgr[l].run = << >> /\ mgr[l].i = 1
  /\ mgr[l].pc = "mark" => mgr[l].i \in 1..Len(mgr[l].run) + 1
  /\ mgr[l].pc \in {"callback", "reload"} => mgr[l].running \in Timers \ Range(mgr[l].run)
  /\ mgr[l].now <= time

(* What is linked has a status that says so. *)
LinkOK(l) ==
  /\ IsInjective(list[l]) /\ IsInjective(mgr[l].run)
  /\ \A t \in Range(list[l]) \cup Waiting(l) : OnList(t, l)
  /\ \A t \in Ready(l) \cup Current(l) : Runs(t, l)
  /\ Range(list[l]) \cap Waiting(l) = {}
  /\ \A t \in Range(mgr[l].run) \cup Current(l) : timer[t].expire <= time

(* s is in order of expiry. *)
Sorted(s, tm) ==
  \A i, j \in 1..Len(s) : i < j => tm[s[i]].expire <= tm[s[j]].expire

OrderOK(l) ==
  /\ Sorted(list[l], timer)
  /\ mgr[l].pc # "mark" => first[l] = FirstOf(list[l], timer)

IndInv ==
  /\ TypeOK
  /\ \A l \in Lcores : CallOK(l) /\ MgrOK(l) /\ LinkOK(l) /\ OrderOK(l)
  /\ \A t \in Timers : StatusOK(t)

-----------------------------------------------------------------------------
(* Sequences of timers: what is left when some are taken out. *)

(* The timers of a sequence are the values at its indexes. *)
LEMMA SeqFun ==
  ASSUME NEW s \in Seq(Timers)
  PROVE  /\ Len(s) \in Nat /\ DOMAIN s = 1..Len(s) /\ Range(s) \subseteq Timers
         /\ Range(s) = {s[i] : i \in 1..Len(s)}
         /\ \A i \in 1..Len(s) : s[i] \in Timers
<1>1. Len(s) \in Nat /\ DOMAIN s = 1..Len(s) /\ \A i \in 1..Len(s) : s[i] \in Timers
  BY LenProperties, ElementOfSeq
<1> QED BY <1>1 DEF Range

(* Indexes of an injective sequence that hold the same timer are equal. *)
LEMMA InjectiveSeq ==
  ASSUME NEW s \in Seq(Timers)
  PROVE  IsInjective(s) <=> \A i, j \in 1..Len(s) : s[i] = s[j] => i = j
BY SeqFun DEF IsInjective

(* The empty sequence. *)
LEMMA NoTimers ==
  << >> \in Seq(Timers) /\ Len(<< >>) = 0 /\ IsInjective(<< >>) /\ Range(<< >>) = {}
<1>1. << >> \in Seq(Timers) /\ Len(<< >>) = 0
  BY EmptySeq
<1>2. \A i \in 1..0 : FALSE
  OBVIOUS
<1>3. Range(<< >>) = {<< >>[i] : i \in 1..0}
  BY <1>1, SeqFun
<1>4. Range(<< >>) = {}
  BY <1>2, <1>3
<1>5. IsInjective(<< >>)
  BY <1>1, <1>2, InjectiveSeq
<1> QED BY <1>1, <1>4, <1>5

(* A sequence with timers is not empty, and one without is. *)
LEMMA EmptyLen ==
  ASSUME NEW s \in Seq(Timers)
  PROVE  s = << >> <=> Len(s) = 0
<1>1. s = << >> => Len(s) = 0
  BY EmptySeq
<1>2. s # << >> => Len(s) \in Nat \ {0}
  BY EmptySeq
<1> QED BY <1>1, <1>2

(* r is s without some of its timers, in the same order. *)
Thinned(r, s) ==
  \E f \in [1..Len(r) -> 1..Len(s)] :
    /\ \A i, j \in 1..Len(r) : i < j => f[i] < f[j]
    /\ \A i \in 1..Len(r) : r[i] = s[f[i]]

(* Such an r is in order if s was, and has no timer twice. *)
LEMMA ThinnedKeeps ==
  ASSUME NEW s \in Seq(Timers), NEW r \in Seq(Timers), Thinned(r, s), NEW tm
  PROVE  /\ IsInjective(s) => IsInjective(r)
         /\ Sorted(s, tm) => Sorted(r, tm)
         /\ Range(r) \subseteq Range(s)
<1>0. PICK f \in [1..Len(r) -> 1..Len(s)] :
        /\ \A i, j \in 1..Len(r) : i < j => f[i] < f[j]
        /\ \A i \in 1..Len(r) : r[i] = s[f[i]]
  BY DEF Thinned
<1> DEFINE n == Len(r)
           m == Len(s)
<1>1. n \in Nat /\ m \in Nat /\ Range(r) = {r[i] : i \in 1..n} /\ Range(s) = {s[i] : i \in 1..m}
  BY SeqFun
<1>2. \A i \in 1..n : f[i] \in 1..m /\ r[i] = s[f[i]]
  BY <1>0
<1>3. \A i, j \in 1..n : i < j => f[i] < f[j]
  BY <1>0
<1> HIDE DEF n, m
<1>4. ASSUME IsInjective(s) PROVE IsInjective(r)
  <2>1. \A i, j \in 1..m : s[i] = s[j] => i = j
    BY <1>4, InjectiveSeq DEF m
  <2>2. \A i, j \in 1..n : r[i] = r[j] => f[i] = f[j]
    BY <1>2, <2>1
  <2>3. \A i, j \in 1..n : f[i] = f[j] => i = j
    BY <1>1, <1>2, <1>3
  <2> QED BY <2>2, <2>3, InjectiveSeq DEF n
<1>5. ASSUME Sorted(s, tm) PROVE Sorted(r, tm)
  BY <1>2, <1>3, <1>5 DEF Sorted, n, m
<1>6. Range(r) \subseteq Range(s)
  BY <1>1, <1>2
<1> QED BY <1>4, <1>5, <1>6

(* A part of a sequence. *)
LEMMA PartOf ==
  ASSUME NEW s \in Seq(Timers), NEW a \in Int, NEW b \in Int, 1 <= a, a <= b + 1, b <= Len(s)
  PROVE  /\ SubSeq(s, a, b) \in Seq(Timers) /\ Len(SubSeq(s, a, b)) = (b - a) + 1
         /\ \A i \in 1 .. (b - a) + 1 : SubSeq(s, a, b)[i] = s[(a + i) - 1]
         /\ Thinned(SubSeq(s, a, b), s)
         /\ Range(SubSeq(s, a, b)) = {s[i] : i \in a..b}
<1> DEFINE t == SubSeq(s, a, b)
           m == (b - a) + 1
<1>0. Len(s) \in Nat /\ \A i \in 1..Len(s) : s[i] \in Timers
  BY SeqFun
<1>1. \A i \in a..b : s[i] \in Timers
  BY <1>0
<1>2. /\ t \in Seq(Timers) /\ Len(t) = (IF a <= b THEN b - a + 1 ELSE 0)
      /\ \A i \in 1 .. b - a + 1 : t[i] = s[a + i - 1]
  BY <1>1, SubSeqProperties
<1>3. m \in Nat /\ (IF a <= b THEN b - a + 1 ELSE 0) = m /\ b - a + 1 = m
      /\ \A i \in 1..m : a + i - 1 = (a + i) - 1
  OBVIOUS
<1> HIDE DEF t
<1>4. t \in Seq(Timers) /\ Len(t) = m /\ \A i \in 1..m : t[i] = s[(a + i) - 1]
  BY <1>2, <1>3
<1>5. Range(t) = {t[i] : i \in 1..m}
  BY <1>4, SeqFun
<1>6. ASSUME NEW i \in a..b PROVE i - a + 1 \in 1..m /\ (a + (i - a + 1)) - 1 = i
  OBVIOUS
<1>7. \A i \in 1..m : (a + i) - 1 \in a..b /\ (a + i) - 1 \in 1..Len(s)
  BY <1>0
<1>8. \A i, j \in 1..m : i < j => (a + i) - 1 < (a + j) - 1
  OBVIOUS
<1>9. Thinned(t, s)
  <2> DEFINE f == [i \in 1..m |-> (a + i) - 1]
  <2>1. f \in [1..m -> 1..Len(s)] /\ \A i \in 1..m : f[i] = (a + i) - 1
    BY <1>7
  <2> HIDE DEF f
  <2>2. /\ \A i, j \in 1..m : i < j => f[i] < f[j]
        /\ \A i \in 1..m : t[i] = s[f[i]]
    BY <1>4, <1>8, <2>1
  <2> QED BY <1>4, <2>1, <2>2 DEF Thinned
<1> HIDE DEF m
<1>10. Range(t) \subseteq {s[i] : i \in a..b}
  BY <1>4, <1>5, <1>7
<1>11. ASSUME NEW i \in a..b PROVE s[i] \in Range(t)
  <2>1. t[i - a + 1] = s[i] /\ i - a + 1 \in 1..m
    BY <1>4, <1>6
  <2> QED BY <1>5, <2>1
<1>12. Range(t) = {s[i] : i \in a..b}
  BY <1>10, <1>11
<1> QED BY <1>4, <1>9, <1>12 DEF t, m

(* The sequence without the timer at one index. *)
LEMMA RemoveAtIs ==
  ASSUME NEW s \in Seq(Timers), NEW p \in 1..Len(s)
  PROVE  /\ RemoveAt(s, p) \in Seq(Timers) /\ Len(RemoveAt(s, p)) = Len(s) - 1
         /\ \A i \in 1..Len(s) - 1 : RemoveAt(s, p)[i] = IF i < p THEN s[i] ELSE s[i + 1]
         /\ Thinned(RemoveAt(s, p), s)
<1> DEFINE n == Len(s)
           u == SubSeq(s, 1, p - 1)
           v == SubSeq(s, p + 1, n)
           r == u \o v
<1>1. n \in Nat /\ p \in Int /\ 1 <= p /\ p <= n
  BY SeqFun
<1>2. u \in Seq(Timers) /\ Len(u) = p - 1 /\ \A i \in 1..p - 1 : u[i] = s[i]
  <2>1. /\ u \in Seq(Timers) /\ Len(u) = ((p - 1) - 1) + 1
        /\ \A i \in 1 .. ((p - 1) - 1) + 1 : u[i] = s[(1 + i) - 1]
    BY <1>1, PartOf
  <2>2. ((p - 1) - 1) + 1 = p - 1 /\ \A i \in Int : (1 + i) - 1 = i
    BY <1>1
  <2> HIDE DEF u
  <2> QED BY <2>1, <2>2
<1>3. v \in Seq(Timers) /\ Len(v) = n - p /\ \A i \in 1..n - p : v[i] = s[p + i]
  <2>1. /\ v \in Seq(Timers) /\ Len(v) = (n - (p + 1)) + 1
        /\ \A i \in 1 .. (n - (p + 1)) + 1 : v[i] = s[((p + 1) + i) - 1]
    BY <1>1, PartOf
  <2>2. (n - (p + 1)) + 1 = n - p /\ \A i \in Int : ((p + 1) + i) - 1 = p + i
    BY <1>1
  <2> HIDE DEF v, n
  <2> QED BY <2>1, <2>2
<1> HIDE DEF u, v
<1>4. /\ r \in Seq(Timers) /\ Len(r) = Len(u) + Len(v)
      /\ \A i \in 1 .. Len(u) + Len(v) : r[i] = IF i <= Len(u) THEN u[i] ELSE v[i - Len(u)]
  BY <1>2, <1>3, ConcatProperties, Zenon
<1> HIDE DEF r, n
<1>5. /\ r \in Seq(Timers) /\ Len(r) = n - 1
      /\ \A i \in 1..n - 1 : r[i] = IF i <= p - 1 THEN u[i] ELSE v[i - (p - 1)]
  BY <1>1, <1>2, <1>3, <1>4
<1>6. ASSUME NEW i \in 1..n - 1 PROVE r[i] = IF i < p THEN s[i] ELSE s[i + 1]
  <2>1. CASE i < p
    <3>1. i <= p - 1 /\ i \in 1..p - 1
      BY <1>1, <2>1
    <3> QED BY <1>2, <1>5, <2>1, <3>1
  <2>2. CASE ~(i < p)
    <3>1. ~(i <= p - 1) /\ i - (p - 1) \in 1..n - p /\ p + (i - (p - 1)) = i + 1
      BY <1>1, <2>2
    <3> QED BY <1>3, <1>5, <2>2, <3>1
  <2> QED BY <2>1, <2>2
<1>7. Thinned(r, s)
  <2> DEFINE f == [i \in 1..n - 1 |-> IF i < p THEN i ELSE i + 1]
  <2>1. f \in [1..n - 1 -> 1..n]
    BY <1>1
  <2>2. \A i, j \in 1..n - 1 : i < j => f[i] < f[j]
    BY <1>1
  <2>3. \A i \in 1..n - 1 : r[i] = s[f[i]]
    BY <1>6
  <2> HIDE DEF f
  <2> QED BY <1>5, <2>1, <2>2, <2>3 DEF Thinned, n
<1> QED BY <1>5, <1>6, <1>7 DEF r, n, u, v, RemoveAt

(* The timer at that index is gone, and no other. *)
LEMMA RemoveAtRange ==
  ASSUME NEW s \in Seq(Timers), NEW p \in 1..Len(s), IsInjective(s)
  PROVE  Range(RemoveAt(s, p)) = Range(s) \ {s[p]}
<1> DEFINE r == RemoveAt(s, p)
           n == Len(s)
<1>1. /\ n \in Nat /\ Range(s) = {s[i] : i \in 1..n}
      /\ \A i, j \in 1..n : s[i] = s[j] => i = j
  BY SeqFun, InjectiveSeq
<1>2. /\ r \in Seq(Timers) /\ Len(r) = n - 1
      /\ \A i \in 1..n - 1 : r[i] = IF i < p THEN s[i] ELSE s[i + 1]
  BY RemoveAtIs
<1>3. Range(r) = {r[i] : i \in 1..n - 1}
  BY <1>2, SeqFun
<1> HIDE DEF r, n
<1>4. ASSUME NEW i \in 1..n - 1 PROVE r[i] \in Range(s) \ {s[p]}
  <2>1. p \in 1..n
    BY DEF n
  <2>2. CASE i < p
    <3>1. i \in 1..n /\ i # p /\ r[i] = s[i]
      BY <1>1, <1>2, <2>1, <2>2
    <3> QED BY <1>1, <2>1, <3>1
  <2>3. CASE ~(i < p)
    <3>1. i + 1 \in 1..n /\ i + 1 # p /\ r[i] = s[i + 1]
      BY <1>1, <1>2, <2>1, <2>3
    <3> QED BY <1>1, <2>1, <3>1
  <2> QED BY <2>2, <2>3
<1>5. ASSUME NEW i \in 1..n, i # p PROVE s[i] \in Range(r)
  <2>1. p \in 1..n
    BY DEF n
  <2>2. CASE i < p
    <3>1. i \in 1..n - 1 /\ r[i] = s[i]
      BY <1>1, <1>2, <2>1, <2>2
    <3> QED BY <1>3, <3>1
  <2>3. CASE ~(i < p)
    <3>1. i - 1 \in 1..n - 1 /\ ~(i - 1 < p) /\ (i - 1) + 1 = i
      BY <1>1, <1>5, <2>1, <2>3
    <3>2. r[i - 1] = s[i]
      BY <1>2, <3>1
    <3> QED BY <1>3, <3>1, <3>2
  <2> QED BY <2>2, <2>3
<1>6. Range(r) \subseteq Range(s) \ {s[p]}
  BY <1>3, <1>4
<1>7. ASSUME NEW x \in Range(s) \ {s[p]} PROVE x \in Range(r)
  BY <1>1, <1>5
<1> HIDE DEF r
<1> QED BY <1>6, <1>7 DEF r

(* A set of numbers has a least one. *)
LEMMA MinNat ==
  ASSUME NEW T \in SUBSET Nat, T # {}
  PROVE  Min(T) \in T /\ \A y \in T : Min(T) <= y
<1> DEFINE R == {ss \in Nat \X Nat : ss[1] < ss[2]}
<1>1. IsWellFoundedOn(R, Nat)
  BY NatLessThanWellFounded, Zenon DEF OpToRel
<1> HIDE DEF R
<1>2. PICK x \in T : \A y \in T : ~(<<y, x>> \in R)
  BY <1>1, WFMin
<1>3. \A y \in T : ~(y < x)
  BY <1>2 DEF R
<1>4. \A y \in T : x <= y
  BY <1>3
<1> QED BY <1>4 DEF Min

(* timer_del: the timer is taken out wherever it is, and the others stay.  *)
LEMMA Removed ==
  ASSUME NEW s \in Seq(Timers), NEW t \in Timers, IsInjective(s), NEW tm, Sorted(s, tm)
  PROVE  /\ RemoveFirst(s, t) \in Seq(Timers) /\ IsInjective(RemoveFirst(s, t))
         /\ Sorted(RemoveFirst(s, t), tm)
         /\ Range(RemoveFirst(s, t)) = Range(s) \ {t}
         /\ s # << >> /\ s[1] # t =>
              RemoveFirst(s, t) # << >> /\ RemoveFirst(s, t)[1] = s[1]
         /\ s = << >> => RemoveFirst(s, t) = << >>
<1> DEFINE n == Len(s)
           I == {i \in 1..n : s[i] = t}
           p == Min(I)
           r == RemoveFirst(s, t)
<1>1. n \in Nat /\ Range(s) = {s[i] : i \in 1..n} /\ (s = << >> <=> n = 0)
  BY SeqFun, EmptyLen
<1>2. r = IF I # {} THEN RemoveAt(s, p) ELSE s
  <2>1. (\E i \in 1..Len(s) : s[i] = t) <=> I # {}
    OBVIOUS
  <2>2. I # {} => SelectInSeq(s, LAMBDA v : v = t) = p
    BY DEF SelectInSeq
  <2> QED BY <2>1, <2>2 DEF RemoveFirst
<1> HIDE DEF r
<1>3. CASE I = {}
  <2>1. r = s
    BY <1>2, <1>3
  <2>2. t \notin Range(s)
    BY <1>1, <1>3
  <2> QED BY <2>1, <2>2 DEF r
<1>4. CASE I # {}
  <2>1. p \in I
    <3>1. I \in SUBSET Nat
      BY <1>1
    <3> HIDE DEF I
    <3> QED BY <1>4, <3>1, MinNat
  <2>2. p \in 1..n /\ s[p] = t /\ r = RemoveAt(s, p)
    BY <1>2, <1>4, <2>1
  <2> HIDE DEF p, I
  <2>3. /\ r \in Seq(Timers) /\ Len(r) = n - 1 /\ Thinned(r, s)
        /\ \A i \in 1..n - 1 : r[i] = IF i < p THEN s[i] ELSE s[i + 1]
    BY <2>2, RemoveAtIs
  <2>4. IsInjective(r) /\ Sorted(r, tm)
    BY <2>3, ThinnedKeeps
  <2>5. Range(r) = Range(s) \ {t}
    BY <2>2, RemoveAtRange
  <2>6. s # << >>
    BY <1>1, <2>2
  <2>7. ASSUME s[1] # t PROVE r # << >> /\ r[1] = s[1]
    <3>1. p # 1
      BY <2>2, <2>7
    <3> HIDE DEF n
    <3>2. 1 \in 1..n - 1 /\ 1 < p /\ n - 1 # 0
      BY <1>1, <2>2, <3>1
    <3>3. r[1] = s[1]
      BY <2>3, <3>2
    <3>4. r # << >>
      BY <2>3, <3>2, EmptyLen
    <3> QED BY <3>3, <3>4
  <2> QED BY <2>3, <2>4, <2>5, <2>6, <2>7 DEF r
<1> QED BY <1>3, <1>4

(* timer_get_prev_entries: the timers before the place expire no later,    *)
(* and the one at the place, if there is one, expires later.               *)
LEMMA PlaceIs ==
  ASSUME NEW s \in Seq(Timers), NEW e \in Nat, TypeOK
  PROVE  /\ Place(s, e) \in 1..Len(s) + 1
         /\ \A i \in 1..Place(s, e) - 1 : timer[s[i]].expire <= e
         /\ Place(s, e) <= Len(s) => timer[s[Place(s, e)]].expire > e
<1> DEFINE x(i) == timer[s[i]].expire
           n == Len(s)
           p == Later(s, e)
           q == Place(s, e)
           I == {i \in 1..n : x(i) > e}
<1>1. p = IF I # {} THEN Min(I) ELSE 0
  BY DEF SelectInSeq, Later
<1>2. n \in Nat /\ \A i \in 1..n : x(i) \in Nat
  BY SeqFun DEF TypeOK, TimerSet
<1>3. q = IF p = 0 THEN n + 1 ELSE p
  BY DEF Place
<1> HIDE DEF x, n, p, q
<1>4. I \in SUBSET Nat
  BY <1>2
<1>5. I # {} => Min(I) \in I /\ \A y \in I : Min(I) <= y
  BY <1>4, MinNat
<1>6. /\ q \in 1..n + 1 /\ \A i \in 1..q - 1 : x(i) <= e
      /\ q <= n => x(q) > e
  <2>1. CASE I = {}
    <3>1. \A i \in 1..n : x(i) <= e
      BY <1>2, <2>1
    <3>2. q = n + 1
      BY <1>1, <1>3, <2>1
    <3> QED BY <1>2, <3>1, <3>2
  <2>2. CASE I # {}
    <3>1. p \in 1..n /\ x(p) > e /\ \A y \in I : p <= y
      BY <1>1, <1>5, <2>2
    <3> HIDE DEF I
    <3>2. q = p
      BY <1>2, <1>3, <3>1
    <3>3. \A i \in 1..p - 1 : i \in 1..n /\ i \notin I
      BY <1>2, <3>1
    <3>4. \A i \in 1..p - 1 : x(i) <= e
      BY <1>2, <3>3 DEF I
    <3> QED BY <1>2, <3>1, <3>2, <3>4
  <2> QED BY <2>1, <2>2
<1> QED BY <1>6 DEF x, n, q

(* timer_add: the timer goes to its place, and the others stay. *)
LEMMA Inserted ==
  ASSUME TypeOK, NEW s \in Seq(Timers), NEW t \in Timers, NEW e \in Nat, t \notin Range(s),
         IsInjective(s), Sorted(s, timer), NEW tm, tm[t].expire = e,
         \A u \in Timers : u # t => tm[u].expire = timer[u].expire,
         NEW r, r = InsertAt(s, Place(s, e), t)
  PROVE  /\ r \in Seq(Timers) /\ IsInjective(r) /\ Sorted(r, tm)
         /\ Range(r) = Range(s) \cup {t} /\ r # << >>
<1> DEFINE n == Len(s)
           p == Place(s, e)
           x(i) == timer[s[i]].expire
           u == SubSeq(s, 1, p - 1)
           v == SubSeq(s, p, n)
           w == u \o <<t>>
<1>1. /\ n \in Nat /\ Range(s) = {s[i] : i \in 1..n} /\ \A i \in 1..n : s[i] \in Timers /\ s[i] # t
      /\ \A i, j \in 1..n : s[i] = s[j] => i = j
  BY SeqFun, InjectiveSeq
<1>2. /\ p \in 1..n + 1 /\ \A i \in 1..p - 1 : x(i) <= e
      /\ p <= n => x(p) > e
  BY PlaceIs
<1>3. \A i \in 1..n : x(i) \in Nat /\ tm[s[i]].expire = x(i)
  BY <1>1 DEF TypeOK, TimerSet
<1>4. \A i, j \in 1..n : i < j => x(i) <= x(j)
  BY DEF Sorted
<1> HIDE DEF p, n
<1>5. u \in Seq(Timers) /\ Len(u) = p - 1 /\ \A i \in 1..p - 1 : u[i] = s[i]
  <2>1. /\ u \in Seq(Timers) /\ Len(u) = ((p - 1) - 1) + 1
        /\ \A i \in 1 .. ((p - 1) - 1) + 1 : u[i] = s[(1 + i) - 1]
    BY <1>1, <1>2, PartOf DEF n
  <2>2. ((p - 1) - 1) + 1 = p - 1 /\ \A i \in Int : (1 + i) - 1 = i
    BY <1>2
  <2> HIDE DEF u
  <2> QED BY <2>1, <2>2
<1>6. v \in Seq(Timers) /\ Len(v) = (n - p) + 1 /\ \A i \in 1..(n - p) + 1 : v[i] = s[(p + i) - 1]
  <2>1. p \in Int /\ n \in Int /\ 1 <= p /\ p <= n + 1 /\ n <= Len(s)
    BY <1>1, <1>2 DEF n
  <2> QED BY <2>1, PartOf
<1> HIDE DEF u, v
<1>7. /\ w \in Seq(Timers) /\ Len(w) = p /\ w[p] = t
      /\ \A i \in 1..p - 1 : w[i] = s[i]
  <2>1. <<t>> \in Seq(Timers) /\ Len(<<t>>) = 1 /\ <<t>>[1] = t
    OBVIOUS
  <2>2. /\ w \in Seq(Timers) /\ Len(w) = Len(u) + Len(<<t>>)
        /\ \A i \in 1 .. Len(u) + Len(<<t>>) :
             w[i] = IF i <= Len(u) THEN u[i] ELSE <<t>>[i - Len(u)]
    BY <1>5, <2>1, ConcatProperties, Zenon
  <2> HIDE DEF w
  <2>3. (p - 1) + 1 = p /\ p - (p - 1) = 1 /\ ~(p <= p - 1) /\ p \in 1..p
        /\ \A i \in 1..p - 1 : i \in 1..p /\ i <= p - 1
    BY <1>2
  <2>4. \A i \in 1..p : w[i] = IF i <= p - 1 THEN u[i] ELSE <<t>>[i - (p - 1)]
    BY <1>5, <2>1, <2>2, <2>3
  <2>5. w[p] = t
    BY <2>1, <2>3, <2>4
  <2>6. \A i \in 1..p - 1 : w[i] = s[i]
    BY <1>5, <2>3, <2>4
  <2>7. Len(w) = p
    BY <1>5, <2>1, <2>2, <2>3
  <2> QED BY <2>2, <2>5, <2>6, <2>7
<1>8. /\ r \in Seq(Timers) /\ Len(r) = Len(w) + Len(v)
      /\ \A i \in 1 .. Len(w) + Len(v) : r[i] = IF i <= Len(w) THEN w[i] ELSE v[i - Len(w)]
  <2>1. r = w \o v
    BY DEF InsertAt, w, u, v, p, n
  <2> HIDE DEF w
  <2>2. /\ w \o v \in Seq(Timers) /\ Len(w \o v) = Len(w) + Len(v)
        /\ \A i \in 1 .. Len(w) + Len(v) : (w \o v)[i] = IF i <= Len(w) THEN w[i] ELSE v[i - Len(w)]
    BY <1>6, <1>7, ConcatProperties, Zenon
  <2> QED BY <2>1, <2>2
<1> HIDE DEF w
<1>9. Len(r) = n + 1 /\ \A i \in 1..n + 1 : r[i] = IF i <= p THEN w[i] ELSE v[i - p]
  <2>1. p + ((n - p) + 1) = n + 1
    BY <1>1, <1>2
  <2> QED BY <1>6, <1>7, <1>8, <2>1
<1>10. /\ \A i \in 1..p - 1 : i \in 1..n /\ r[i] = s[i]
       /\ r[p] = t
       /\ \A i \in p + 1..n + 1 : i - 1 \in 1..n /\ r[i] = s[i - 1]
  <2>1. ASSUME NEW i \in 1..p - 1 PROVE i \in 1..n /\ r[i] = s[i]
    <3>1. i \in 1..n + 1 /\ i \in 1..n /\ i <= p
      BY <1>1, <1>2
    <3> QED BY <1>7, <1>9, <3>1
  <2>2. r[p] = t
    <3>1. p \in 1..n + 1 /\ p <= p
      BY <1>2
    <3> QED BY <1>7, <1>9, <3>1
  <2>3. ASSUME NEW i \in p + 1..n + 1 PROVE i - 1 \in 1..n /\ r[i] = s[i - 1]
    <3>1. i \in 1..n + 1 /\ i - 1 \in 1..n /\ ~(i <= p) /\ i - p \in 1..(n - p) + 1
          /\ (p + (i - p)) - 1 = i - 1
      BY <1>1, <1>2
    <3> QED BY <1>6, <1>9, <3>1
  <2> QED BY <2>1, <2>2, <2>3
<1>11. \A i \in 1..n + 1 : i \in 1..p - 1 \/ i = p \/ i \in p + 1..n + 1
  BY <1>1, <1>2
<1>12. Range(r) = Range(s) \cup {t}
  <2>1. Range(r) = {r[i] : i \in 1..n + 1}
    BY <1>8, <1>9, SeqFun
  <2>2. Range(r) \subseteq Range(s) \cup {t}
    BY <1>1, <1>10, <1>11, <2>1
  <2>3. t \in Range(r)
    BY <1>2, <1>10, <2>1
  <2>4. ASSUME NEW i \in 1..n PROVE s[i] \in Range(r)
    <3>1. CASE i \in 1..p - 1
      <4>1. i \in 1..n + 1
        BY <1>1
      <4> QED BY <1>10, <2>1, <3>1, <4>1
    <3>2. CASE i \notin 1..p - 1
      <4>1. i + 1 \in p + 1..n + 1 /\ i + 1 \in 1..n + 1 /\ (i + 1) - 1 = i
        BY <1>1, <1>2, <3>2
      <4>2. r[i + 1] = s[i]
        BY <1>10, <4>1
      <4> QED BY <2>1, <4>1, <4>2
    <3> QED BY <3>1, <3>2
  <2> QED BY <1>1, <2>2, <2>3, <2>4
<1>13. IsInjective(r)
  <2>1. ASSUME NEW i \in 1..n + 1, NEW j \in 1..n + 1, r[i] = r[j] PROVE i = j
    <3>1. CASE i = p
      <4>1. j \notin 1..p - 1 /\ j \notin p + 1..n + 1
        BY <1>1, <1>10, <2>1, <3>1
      <4> QED BY <1>11, <3>1, <4>1
    <3>2. CASE j = p
      <4>1. i \notin 1..p - 1 /\ i \notin p + 1..n + 1
        BY <1>1, <1>10, <2>1, <3>2
      <4> QED BY <1>11, <3>2, <4>1
    <3>3. CASE i # p /\ j # p
      <4> DEFINE d(k) == IF k < p THEN k ELSE k - 1
      <4>1. ASSUME NEW k \in 1..n + 1, k # p PROVE d(k) \in 1..n /\ r[k] = s[d(k)]
        <5>1. CASE k < p
          <6>1. k \in 1..p - 1
            BY <1>2, <5>1
          <6> QED BY <1>10, <5>1, <6>1
        <5>2. CASE ~(k < p)
          <6>1. k \in p + 1..n + 1
            BY <1>2, <4>1, <5>2
          <6> QED BY <1>10, <5>2, <6>1
        <5> QED BY <5>1, <5>2
      <4>2. d(i) = d(j)
        BY <1>1, <2>1, <3>3, <4>1
      <4> QED BY <1>2, <3>3, <4>2
    <3> QED BY <3>1, <3>2, <3>3
  <2> QED BY <1>8, <1>9, <2>1, InjectiveSeq
<1>14. Sorted(r, tm)
  <2> DEFINE y(i) == tm[r[i]].expire
  <2>1. y(p) = e /\ \A i \in 1..p - 1 : y(i) = x(i) /\ x(i) <= e /\ i \in 1..n
    BY <1>2, <1>3, <1>10
  <2>2. ASSUME NEW i \in p + 1..n + 1 PROVE i - 1 \in 1..n /\ y(i) = x(i - 1) /\ e <= x(i - 1)
    <3>1. i - 1 \in 1..n /\ y(i) = x(i - 1)
      BY <1>3, <1>10
    <3>2. p \in 1..n /\ p <= i - 1 /\ p <= n
      BY <1>1, <1>2
    <3>3. p = i - 1 \/ p < i - 1
      BY <3>2
    <3>4. x(p) <= x(i - 1)
      <4>1. x(p) \in Nat
        BY <1>3, <3>2
      <4>2. CASE p = i - 1
        BY <4>1, <4>2
      <4>3. CASE p < i - 1
        BY <1>4, <3>1, <3>2, <4>3
      <4> QED BY <3>3, <4>2, <4>3
    <3>5. x(p) > e /\ x(p) \in Nat /\ x(i - 1) \in Nat
      BY <1>2, <1>3, <3>1, <3>2
    <3> HIDE DEF x, y
    <3> QED BY <3>1, <3>4, <3>5
  <2>3. \A i \in 1..n : x(i) \in Nat
    BY <1>3
  <2> HIDE DEF x, y
  <2>4. ASSUME NEW i \in 1..n + 1, NEW j \in 1..n + 1, i < j PROVE y(i) <= y(j)
    <3>1. CASE j \in 1..p - 1
      <4>1. i \in 1..p - 1
        BY <1>2, <2>4, <3>1
      <4> QED BY <1>4, <2>1, <2>4, <3>1, <4>1
    <3>2. CASE j = p
      <4>1. i \in 1..p - 1
        BY <1>2, <2>4, <3>2
      <4> QED BY <2>1, <3>2, <4>1
    <3>3. CASE j \in p + 1..n + 1
      <4>1. j - 1 \in 1..n /\ y(j) = x(j - 1) /\ e <= x(j - 1) /\ x(j - 1) \in Nat
        BY <2>2, <2>3, <3>3
      <4>2. CASE i \in 1..p - 1
        <5>1. y(i) \in Nat /\ y(i) <= e
          BY <2>1, <2>3, <4>2
        <5> QED BY <4>1, <5>1
      <4>3. CASE i = p
        BY <2>1, <4>1, <4>3
      <4>4. CASE i \in p + 1..n + 1
        <5>1. i - 1 \in 1..n /\ y(i) = x(i - 1)
          BY <2>2, <4>4
        <5>2. i - 1 < j - 1
          BY <2>4
        <5> QED BY <1>4, <4>1, <5>1, <5>2
      <4> QED BY <1>11, <4>2, <4>3, <4>4
    <3> QED BY <1>11, <3>1, <3>2, <3>3
  <2> QED BY <1>9, <2>4 DEF Sorted, y
<1>15. r # << >>
  BY <1>1, <1>8, <1>9, EmptyLen
<1> QED BY <1>8, <1>12, <1>13, <1>14, <1>15

(* The expired timers of a list, and the rest of it. *)
LEMMA CutList ==
  ASSUME TypeOK, NEW l \in Lcores, IsInjective(list[l]), Sorted(list[l], timer),
         NEW n, n = Expired(l), NEW r, r = SubSeq(list[l], 1, n), NEW s, s = Unexpired(l, n)
  PROVE  /\ n \in 0..Len(list[l]) /\ Len(r) = n
         /\ r \in Seq(Timers) /\ IsInjective(r)
         /\ s \in Seq(Timers) /\ IsInjective(s) /\ Sorted(s, timer)
         /\ Range(r) \cup Range(s) = Range(list[l]) /\ Range(r) \cap Range(s) = {}
         /\ \A t \in Range(r) : timer[t].expire <= mgr[l].now
<1> DEFINE q == list[l]
           m == Len(q)
           p == Place(q, mgr[l].now)
<1>1. q \in Seq(Timers) /\ mgr[l].now \in Nat
  BY DEF TypeOK, MgrSet
<1>2. /\ m \in Nat /\ Range(q) = {q[i] : i \in 1..m}
      /\ \A i, j \in 1..m : q[i] = q[j] => i = j
  BY <1>1, SeqFun, InjectiveSeq
<1>3. p \in 1..m + 1 /\ \A i \in 1..p - 1 : timer[q[i]].expire <= mgr[l].now
  BY <1>1, PlaceIs
<1>4. n = p - 1
  BY DEF Expired
<1> HIDE DEF m, p
<1>5. n \in 0..m /\ n \in Nat /\ \A i \in 1..n : timer[q[i]].expire <= mgr[l].now
  BY <1>2, <1>3, <1>4
<1>6. /\ r \in Seq(Timers) /\ Len(r) = (n - 1) + 1 /\ Thinned(r, q)
      /\ Range(r) = {q[i] : i \in 1..n}
  <2>1. 1 \in Int /\ n \in Int /\ 1 <= 1 /\ 1 <= n + 1 /\ n <= Len(q)
    BY <1>2, <1>5 DEF m
  <2> QED BY <1>1, <2>1, PartOf
<1>7. s \in Seq(Timers) /\ Thinned(s, q) /\ Range(s) = {q[i] : i \in n + 1..m}
  <2>1. n + 1 \in Int /\ m \in Int /\ 1 <= n + 1 /\ n + 1 <= m + 1 /\ m <= Len(q)
    BY <1>2, <1>5 DEF m
  <2> QED BY <1>1, <2>1, PartOf DEF Unexpired, m
<1>8. IsInjective(r) /\ IsInjective(s) /\ Sorted(s, timer)
  BY <1>1, <1>6, <1>7, ThinnedKeeps
<1>9. \A i \in 1..m : i \in 1..n \/ i \in n + 1..m
  BY <1>2, <1>5
<1>10. (\A i \in 1..n : i \in 1..m) /\ (\A i \in n + 1..m : i \in 1..m /\ i \notin 1..n)
  BY <1>2, <1>5
<1> HIDE DEF q
<1>11. Range(r) \cup Range(s) = Range(q)
  BY <1>2, <1>6, <1>7, <1>9, <1>10
<1>12. Range(r) \cap Range(s) = {}
  BY <1>2, <1>6, <1>7, <1>10
<1>13. \A t \in Range(r) : timer[t].expire <= mgr[l].now
  BY <1>5, <1>6
<1>14. Len(r) = n
  BY <1>5, <1>6
<1> QED BY <1>5, <1>6, <1>7, <1>8, <1>11, <1>12, <1>13, <1>14 DEF q, m

(* The first of several timers, and the others. *)
LEMMA FirstAndTail ==
  ASSUME NEW s \in Seq(Timers), s # << >>, IsInjective(s)
  PROVE  /\ s[1] \in Timers /\ Tail(s) \in Seq(Timers) /\ IsInjective(Tail(s))
         /\ Range(s) = {s[1]} \cup Range(Tail(s)) /\ s[1] \notin Range(Tail(s))
<1> DEFINE n == Len(s)
           r == Tail(s)
<1>1. /\ n \in Nat /\ n # 0 /\ Range(s) = {s[i] : i \in 1..n}
      /\ \A i, j \in 1..n : s[i] = s[j] => i = j
      /\ \A i \in 1..n : s[i] \in Timers
  BY SeqFun, InjectiveSeq, EmptyLen
<1>2. r = SubSeq(s, 2, n)
  BY TailIsSubSeq
<1>3. r \in Seq(Timers) /\ Thinned(r, s) /\ Range(r) = {s[i] : i \in 2..n}
  <2>1. 2 \in Int /\ n \in Int /\ 1 <= 2 /\ 2 <= n + 1 /\ n <= Len(s)
    BY <1>1
  <2> QED BY <1>2, <2>1, PartOf
<1>4. IsInjective(r)
  BY <1>3, ThinnedKeeps
<1> HIDE DEF n, r
<1>5. /\ 1 \in 1..n /\ \A i \in 2..n : i \in 1..n /\ i # 1
      /\ \A i \in 1..n : i = 1 \/ i \in 2..n
  BY <1>1
<1>6. Range(s) = {s[1]} \cup Range(r)
  BY <1>1, <1>3, <1>5
<1>7. s[1] \notin Range(r)
  BY <1>1, <1>3, <1>5
<1> QED BY <1>1, <1>3, <1>4, <1>5, <1>6, <1>7 DEF r

-----------------------------------------------------------------------------
(* A step of one lcore leaves alone what the others answer for. *)

(* A step of l that changes no timer but t. *)
StepOf(l, t) ==
  /\ \A k \in Lcores \ {l} : call'[k] = call[k] /\ mgr'[k] = mgr[k] /\ lock'[k] = lock[k]
  /\ \A u \in Timers \ {t} : timer'[u] = timer[u]
  /\ time' = time
  /\ Working(l) => t = call[l].tim
  /\ t \in Timers /\ timer[t].state \in {"CONFIG", "RUNNING"} => timer[t].owner = l
  /\ (Ready(l) \cup Current(l)) \ {t} \subseteq (Ready(l) \cup Current(l))'

(* The timers of a manager are the marked and the unmarked ones. *)
LEMMA RunParts ==
  ASSUME NEW l \in Lcores, TypeOK, MgrOK(l)
  PROVE  /\ Range(mgr[l].run) = Ready(l) \cup Waiting(l)
         /\ Range(mgr[l].run) \subseteq Timers
         /\ mgr[l].pc # "mark" => Waiting(l) = {} /\ Ready(l) = Range(mgr[l].run)
<1> DEFINE s == mgr[l].run
           n == Len(s)
           i == mgr[l].i
<1>1. s \in Seq(Timers)
  BY DEF TypeOK, MgrSet
<1>2. n \in Nat /\ Range(s) = {s[j] : j \in 1..n} /\ Range(s) \subseteq Timers
  BY <1>1, SeqFun
<1>3. CASE mgr[l].pc = "mark"
  <2>1. i \in 1..n + 1
    BY <1>3 DEF MgrOK
  <2>2. /\ \A j \in 1..n : j \in 1..i - 1 \/ j \in i..n
        /\ \A j \in 1..i - 1 : j \in 1..n
        /\ \A j \in i..n : j \in 1..n
    <3> HIDE DEF i, n
    <3> QED BY <1>2, <2>1
  <2>3. Ready(l) = {s[j] : j \in 1..i - 1} /\ Waiting(l) = {s[j] : j \in i..n}
    BY <1>3 DEF Ready, Waiting
  <2> HIDE DEF s, i, n
  <2>4. Range(s) = Ready(l) \cup Waiting(l)
    BY <1>2, <2>2, <2>3
  <2> QED BY <1>2, <1>3, <2>4 DEF s
<1>4. CASE mgr[l].pc # "mark"
  BY <1>2, <1>4 DEF Ready, Waiting
<1> QED BY <1>3, <1>4

(* What the step does not change. *)
LEMMA StepFrame ==
  ASSUME IndInv, NEW l \in Lcores, NEW t, StepOf(l, t)
  PROVE  /\ \A k \in Lcores \ {l} : CallOK(k)' /\ MgrOK(k)'
         /\ \A u \in Timers \ {t} : StatusOK(u)'
         /\ \A u \in Timers \ {t}, k \in Lcores :
              (OnList(u, k)' <=> OnList(u, k)) /\ (Runs(u, k)' <=> Runs(u, k))
<1>1. ASSUME NEW k \in Lcores \ {l} PROVE CallOK(k)'
  <2>1. /\ call'[k] = call[k] /\ mgr'[k] = mgr[k] /\ k \in Lcores /\ CallOK(k)
        /\ \A u \in Timers \ {t} : timer'[u] = timer[u]
    BY DEF StepOf, IndInv
  <2>2. Working(k) => timer'[call[k].tim] = timer[call[k].tim]
    <3>1. ASSUME Working(k) PROVE call[k].tim \in Timers \ {t}
      <4>1. call[k].tim \in Timers
        BY <2>1, <3>1 DEF CallOK, Working
      <4>2. timer[call[k].tim].state = "CONFIG" /\ timer[call[k].tim].owner = k
        BY <2>1, <3>1 DEF CallOK
      <4>3. call[k].tim # t
        BY <2>1, <4>1, <4>2 DEF StepOf
      <4> QED BY <4>1, <4>3
    <3> QED BY <2>1, <3>1
  <2> QED BY <2>1, <2>2 DEF CallOK, Working
<1>2. ASSUME NEW k \in Lcores \ {l} PROVE MgrOK(k)'
  <2>1. /\ lock'[k] = lock[k] /\ mgr'[k] = mgr[k] /\ k \in Lcores /\ MgrOK(k) /\ time' = time
    BY DEF StepOf, IndInv
  <2> QED BY <2>1 DEF MgrOK
<1>3. ASSUME NEW u \in Timers \ {t}
      PROVE  timer'[u] = timer[u]
             /\ (timer[u].state = "CONFIG" =>
                   call'[timer[u].owner] = call[timer[u].owner] /\ timer[u].owner # l)
  <2>1. timer'[u] = timer[u] /\ StatusOK(u)
    BY DEF StepOf, IndInv
  <2>2. ASSUME timer[u].state = "CONFIG" PROVE timer[u].owner \in Lcores \ {l}
    BY <2>1, <2>2 DEF StatusOK, StepOf
  <2> QED BY <2>1, <2>2 DEF StepOf
<1>4. ASSUME NEW u \in Timers \ {t} PROVE StatusOK(u)'
  <2> DEFINE w == timer[u].owner
  <2>1. timer'[u] = timer[u] /\ StatusOK(u)
    BY <1>3 DEF IndInv
  <2>2. timer[u].state # "STOP" => w \in Lcores
    BY <2>1 DEF StatusOK
  <2>3. timer[u].state = "CONFIG" => Working(w)' /\ call'[w].tim = u
    BY <1>3, <2>1 DEF StatusOK, Working
  <2>4. ASSUME timer[u].state = "RUNNING" PROVE u \in (Ready(w) \cup Current(w))'
    <3>1. u \in Ready(w) \cup Current(w)
      BY <2>1, <2>4 DEF StatusOK
    <3>2. CASE w = l
      BY <2>1, <3>1, <3>2 DEF StepOf
    <3>3. CASE w # l
      <4>1. mgr'[w] = mgr[w]
        BY <2>2, <2>4, <3>3 DEF StepOf
      <4> QED BY <2>1, <3>1, <4>1 DEF Ready, Current
    <3> QED BY <3>2, <3>3
  <2> QED BY <2>1, <2>2, <2>3, <2>4 DEF StatusOK
<1>5. ASSUME NEW u \in Timers \ {t}, NEW k \in Lcores
      PROVE  (OnList(u, k)' <=> OnList(u, k)) /\ (Runs(u, k)' <=> Runs(u, k))
  BY <1>3 DEF OnList, Runs
<1> QED BY <1>1, <1>2, <1>4, <1>5

(* What another lcore links, when the timer of the step comes or goes. *)
LEMMA LinkFrame ==
  ASSUME IndInv, NEW l \in Lcores, NEW t, StepOf(l, t), NEW k \in Lcores \ {l},
         IsInjective(list'[k]), Range(list'[k]) \subseteq Timers,
         Range(list'[k]) \ {t} \subseteq Range(list[k]),
         t \in Range(list'[k]) => OnList(t, k)' /\ t \notin Waiting(k),
         t \in Waiting(k) => OnList(t, k)',
         t \in Range(mgr[k].run) => timer'[t].expire = timer[t].expire
  PROVE  LinkOK(k)'
<1>1. mgr'[k] = mgr[k] /\ time' = time /\ LinkOK(k) /\ MgrOK(k) /\ TypeOK
  BY DEF StepOf, IndInv
<1>2. Ready(k)' = Ready(k) /\ Waiting(k)' = Waiting(k) /\ Current(k)' = Current(k)
  BY <1>1 DEF Ready, Waiting, Current
<1>3. Range(mgr[k].run) = Ready(k) \cup Waiting(k) /\ Range(mgr[k].run) \subseteq Timers
  BY <1>1, RunParts
<1>4. Current(k) \subseteq Timers
  BY <1>1 DEF MgrOK, Current
<1>5. \A u \in Ready(k) \cup Current(k) : u # t
  <2>1. ASSUME NEW u \in Ready(k) \cup Current(k), u = t PROVE FALSE
    <3>1. Runs(u, k)
      BY <1>1 DEF LinkOK
    <3>2. u \in Timers
      BY <1>3, <1>4
    <3> QED BY <2>1, <3>1, <3>2 DEF Runs, StepOf
  <2> QED BY <2>1
<1>6. \A u \in Ready(k) \cup Current(k) : Runs(u, k)'
  <2>1. ASSUME NEW u \in Ready(k) \cup Current(k) PROVE Runs(u, k)'
    <3>1. u \in Timers \ {t} /\ Runs(u, k)
      BY <1>1, <1>3, <1>4, <1>5 DEF LinkOK
    <3> QED BY <3>1, StepFrame
  <2> QED BY <2>1
<1>7. \A u \in Range(list'[k]) \cup Waiting(k) : OnList(u, k)'
  <2>1. ASSUME NEW u \in Range(list'[k]) \cup Waiting(k) PROVE OnList(u, k)'
    <3>1. CASE u = t
      BY <3>1
    <3>2. CASE u # t
      <4>1. u \in Timers \ {t} /\ u \in Range(list[k]) \cup Waiting(k)
        BY <1>3, <3>2
      <4>2. OnList(u, k)
        BY <1>1, <4>1 DEF LinkOK
      <4> QED BY <4>1, <4>2, StepFrame
    <3> QED BY <3>1, <3>2
  <2> QED BY <2>1
<1>8. Range(list'[k]) \cap Waiting(k) = {}
  BY <1>1 DEF LinkOK
<1>9. \A u \in Range(mgr[k].run) \cup Current(k) : timer'[u].expire <= time
  <2>1. ASSUME NEW u \in Range(mgr[k].run) \cup Current(k) PROVE timer'[u].expire <= time
    <3>1. timer[u].expire <= time
      BY <1>1 DEF LinkOK
    <3>2. timer'[u].expire = timer[u].expire
      BY <1>3, <1>4, <1>5 DEF StepOf
    <3> QED BY <3>1, <3>2
  <2> QED BY <2>1
<1>10. IsInjective(mgr[k].run)
  BY <1>1 DEF LinkOK
<1> QED BY <1>1, <1>2, <1>6, <1>7, <1>8, <1>9, <1>10 DEF LinkOK

(* A list that the step does not touch stays in order. *)
LEMMA OrderFrame ==
  ASSUME IndInv, NEW k \in Lcores, list'[k] = list[k], first'[k] = first[k],
         mgr'[k].pc # "mark" => mgr[k].pc # "mark",
         \A u \in Range(list[k]) : timer'[u].expire = timer[u].expire
  PROVE  OrderOK(k)'
<1> DEFINE s == list[k]
<1>1. s \in Seq(Timers) /\ Sorted(s, timer)
      /\ (mgr[k].pc # "mark" => first[k] = FirstOf(s, timer))
  BY DEF IndInv, TypeOK, OrderOK
<1>2. Len(s) \in Nat /\ Range(s) = {s[i] : i \in 1..Len(s)}
  BY <1>1, SeqFun
<1>3. \A i \in 1..Len(s) : timer'[s[i]].expire = timer[s[i]].expire
  BY <1>2
<1>4. Sorted(s, timer')
  BY <1>1, <1>3 DEF Sorted
<1>5. FirstOf(s, timer') = FirstOf(s, timer)
  <2>1. CASE s = << >>
    BY <2>1 DEF FirstOf
  <2>2. CASE s # << >>
    <3>1. Len(s) # 0
      BY <1>1, <2>2, EmptyLen
    <3>2. 1 \in 1..Len(s)
      BY <1>2, <3>1
    <3> QED BY <1>3, <2>2, <3>2 DEF FirstOf
  <2> QED BY <2>1, <2>2
<1> QED BY <1>1, <1>4, <1>5 DEF OrderOK

(* What the lcore of the step links. *)
LEMMA LinkOwn ==
  ASSUME IndInv, NEW l \in Lcores, NEW t, StepOf(l, t),
         IsInjective(list'[l]), IsInjective(mgr'[l].run),
         (Range(list[l]) \cup Waiting(l) \cup Ready(l) \cup Current(l))' \subseteq Timers,
         (Range(list[l]) \cup Waiting(l))' \ {t} \subseteq Range(list[l]) \cup Waiting(l),
         (Ready(l) \cup Current(l))' \ {t} \subseteq Ready(l) \cup Current(l),
         t \in (Range(list[l]) \cup Waiting(l))' => OnList(t, l)',
         t \in (Ready(l) \cup Current(l))' => Runs(t, l)',
         (Range(list[l]) \cap Waiting(l))' = {},
         \A u \in (Range(mgr[l].run) \cup Current(l))' : timer'[u].expire <= time'
  PROVE  LinkOK(l)'
<1>1. LinkOK(l)
  BY DEF IndInv
<1>2. ASSUME NEW u \in (Range(list[l]) \cup Waiting(l))' PROVE OnList(u, l)'
  <2>1. CASE u = t
    BY <2>1
  <2>2. CASE u # t
    <3>1. u \in Timers \ {t} /\ u \in Range(list[l]) \cup Waiting(l)
      BY <2>2
    <3>2. OnList(u, l)
      BY <1>1, <3>1 DEF LinkOK
    <3> QED BY <3>1, <3>2, StepFrame
  <2> QED BY <2>1, <2>2
<1>3. ASSUME NEW u \in (Ready(l) \cup Current(l))' PROVE Runs(u, l)'
  <2>1. CASE u = t
    BY <2>1
  <2>2. CASE u # t
    <3>1. u \in Timers \ {t} /\ u \in Ready(l) \cup Current(l)
      BY <2>2
    <3>2. Runs(u, l)
      BY <1>1, <3>1 DEF LinkOK
    <3> QED BY <3>1, <3>2, StepFrame
  <2> QED BY <2>1, <2>2
<1> QED BY <1>2, <1>3 DEF LinkOK

(* The invariant after a step, from what concerns its lcore and its timer. *)
LEMMA Assembled ==
  ASSUME IndInv, TypeOK', NEW l \in Lcores, NEW t, StepOf(l, t), CallOK(l)', MgrOK(l)',
         t \in Timers => StatusOK(t)', \A k \in Lcores : LinkOK(k)' /\ OrderOK(k)'
  PROVE  IndInv'
<1>1. \A k \in Lcores : CallOK(k)' /\ MgrOK(k)'
  BY StepFrame
<1>2. \A u \in Timers : StatusOK(u)'
  BY StepFrame
<1> QED BY <1>1, <1>2 DEF IndInv

(* The expired timers and the current one are timers. *)
LEMMA AllTimers ==
  ASSUME NEW l \in Lcores, TypeOK, MgrOK(l)
  PROVE  Range(list[l]) \cup Waiting(l) \cup Ready(l) \cup Current(l) \subseteq Timers
<1>1. Range(mgr[l].run) = Ready(l) \cup Waiting(l) /\ Range(mgr[l].run) \subseteq Timers
  BY RunParts
<1>2. Current(l) \subseteq Timers
  BY DEF MgrOK, Current
<1>3. Range(list[l]) \subseteq Timers
  BY SeqFun DEF TypeOK
<1> QED BY <1>1, <1>2, <1>3

(* The same before and after a step. *)
OnlyTimers ==
  \A l \in Lcores : TypeOK /\ MgrOK(l) =>
    /\ Range(list[l]) \cup Waiting(l) \cup Ready(l) \cup Current(l) \subseteq Timers
    /\ Range(mgr[l].run) = Ready(l) \cup Waiting(l)

(* What a manager and a list hold are timers, in any state. *)
LEMMA OnlyTimersAlways == OnlyTimers
BY AllTimers, RunParts DEF OnlyTimers

(* So they are after a step. *)
LEMMA OnlyTimersNext == OnlyTimers'
BY OnlyTimersAlways, PTL

(* The form in which the proofs of the steps use it. *)
LEMMA AllTimersNext ==
  ASSUME NEW l \in Lcores, TypeOK', MgrOK(l)'
  PROVE  /\ (Range(list[l]) \cup Waiting(l) \cup Ready(l) \cup Current(l))' \subseteq Timers
         /\ (Range(mgr[l].run) = Ready(l) \cup Waiting(l))'
BY OnlyTimersNext DEF OnlyTimers

(* A step that changes no timer and no list. *)
LEMMA QuietStep ==
  ASSUME IndInv, TypeOK', NEW l \in Lcores, ~Working(l), UNCHANGED <<time, timer, list>>,
         \A k \in Lcores \ {l} : call'[k] = call[k] /\ mgr'[k] = mgr[k] /\ lock'[k] = lock[k]
                                 /\ first'[k] = first[k],
         CallOK(l)', MgrOK(l)', IsInjective(mgr'[l].run),
         Waiting(l)' \subseteq Waiting(l),
         (Ready(l) \cup Current(l))' = Ready(l) \cup Current(l),
         (Range(mgr[l].run) \cup Current(l))' \subseteq Range(mgr[l].run) \cup Current(l),
         mgr'[l].pc # "mark" => first'[l] = FirstOf(list[l], timer)
  PROVE  IndInv'
<1>1. TypeOK /\ LinkOK(l) /\ OrderOK(l) /\ MgrOK(l) /\ NoOne \notin Timers
  BY TimerAssumption DEF IndInv
<1>2. StepOf(l, NoOne)
  BY <1>1 DEF StepOf
<1>3. LinkOK(l)'
  <2>1. (Range(list[l]) \cup Waiting(l) \cup Ready(l) \cup Current(l))' \subseteq Timers
    BY AllTimersNext
  <2>2. NoOne \notin (Range(list[l]) \cup Waiting(l))' /\ NoOne \notin (Ready(l) \cup Current(l))'
    BY <1>1, <2>1
  <2>3. IsInjective(list'[l]) /\ (Range(list[l]) \cap Waiting(l))' = {}
        /\ \A u \in (Range(mgr[l].run) \cup Current(l))' : timer'[u].expire <= time'
    BY <1>1 DEF LinkOK
  <2>4. (Range(list[l]) \cup Waiting(l))' \ {NoOne} \subseteq Range(list[l]) \cup Waiting(l)
    OBVIOUS
  <2> QED BY <1>2, <2>1, <2>2, <2>3, <2>4, LinkOwn
<1>4. ASSUME NEW k \in Lcores \ {l} PROVE LinkOK(k)'
  <2>1. k \in Lcores /\ list'[k] = list[k] /\ LinkOK(k) /\ MgrOK(k)
    BY DEF IndInv
  <2>2. Range(list[k]) \cup Waiting(k) \cup Ready(k) \cup Current(k) \subseteq Timers
    BY <1>1, <2>1, AllTimers
  <2>3. NoOne \notin Range(list[k]) /\ NoOne \notin Waiting(k) /\ NoOne \notin Range(mgr[k].run)
    BY <1>1, <2>1, <2>2, RunParts
  <2> QED BY <1>2, <2>1, <2>2, <2>3, LinkFrame DEF LinkOK
<1>5. ASSUME NEW k \in Lcores PROVE OrderOK(k)'
  <2>1. CASE k = l
    BY <1>1, <2>1 DEF OrderOK
  <2>2. CASE k # l
    BY <2>2, OrderFrame
  <2> QED BY <2>1, <2>2
<1> QED BY <1>1, <1>2, <1>3, <1>4, <1>5, Assembled

-----------------------------------------------------------------------------
(* The steps that change no timer. *)

(* Time passes. *)
LEMMA TickStep ==
  ASSUME IndInv, Tick
  PROVE  IndInv'
<1>1. UNCHANGED <<timer, list, first, lock, call, mgr, calls>> /\ time' = time + 1 /\ time \in Nat
  BY DEF Tick, IndInv, TypeOK
<1>2. TypeOK'
  BY <1>1 DEF IndInv, TypeOK
<1>3. ASSUME NEW l \in Lcores PROVE CallOK(l)' /\ MgrOK(l)' /\ LinkOK(l)' /\ OrderOK(l)'
  <2>1. CallOK(l) /\ MgrOK(l) /\ LinkOK(l) /\ OrderOK(l) /\ TypeOK
    BY DEF IndInv
  <2>2. CallOK(l)' /\ OrderOK(l)'
    BY <1>1, <2>1 DEF CallOK, OrderOK, Working
  <2>3. mgr[l].now \in Nat /\ mgr[l].now <= time
    BY <2>1 DEF TypeOK, MgrSet, MgrOK
  <2>4. mgr[l].now <= time'
    BY <1>1, <2>3
  <2>5. MgrOK(l)'
    BY <1>1, <2>1, <2>4 DEF MgrOK
  <2>6. /\ Ready(l)' = Ready(l) /\ Waiting(l)' = Waiting(l) /\ Current(l)' = Current(l)
        /\ \A t : (OnList(t, l)' <=> OnList(t, l)) /\ (Runs(t, l)' <=> Runs(t, l))
    BY <1>1 DEF Ready, Waiting, Current, OnList, Runs
  <2>7. ASSUME NEW t \in Range(mgr[l].run) \cup Current(l) PROVE timer[t].expire <= time'
    <3>1. timer[t].expire <= time
      BY <2>1 DEF LinkOK
    <3>2. t \in Timers
      BY <2>1, AllTimers, RunParts
    <3>3. timer[t].expire \in Nat
      BY <2>1, <3>2 DEF TypeOK, TimerSet
    <3> QED BY <1>1, <3>1, <3>3
  <2>8. LinkOK(l)'
    BY <1>1, <2>1, <2>6, <2>7 DEF LinkOK
  <2> QED BY <2>2, <2>5, <2>8
<1>4. ASSUME NEW t \in Timers PROVE StatusOK(t)'
  BY <1>1 DEF IndInv, StatusOK, Working, Ready, Current
<1> QED BY <1>2, <1>3, <1>4 DEF IndInv

(* A call begins. *)
LEMMA BeginStep ==
  ASSUME IndInv, NEW l \in Lcores, Begin(l)
  PROVE  IndInv'
<1>1. /\ UNCHANGED <<time, timer, list, first, lock, mgr>> /\ calls' = calls + 1
      /\ call[l].pc = "idle" /\ mgr[l].pc \in {"out", "callback"}
      /\ TypeOK /\ CallOK(l) /\ MgrOK(l) /\ LinkOK(l) /\ OrderOK(l)
  BY DEF Begin, IndInv
<1>2. PICK c \in CallSet : /\ call' = [call EXCEPT ![l] = c]
                           /\ c.pc = "config" /\ c.tim \in Timers /\ ~c.locked
                           /\ c.op = "reset" => c.target \in Lcores
  <2>1. PICK op \in Ops, t \in Timers, ticks \in Ticks, type \in Types, target \in Lcores,
             sync \in Sync :
       call' = [call EXCEPT ![l] =
         IF op = "stop" THEN [NoCall EXCEPT !.pc = "config", !.tim = t, !.sync = sync]
         ELSE [NoCall EXCEPT !.pc = "config", !.op = "reset", !.tim = t, !.ticks = ticks,
                             !.expire = time + ticks, !.target = target, !.sync = sync,
                             !.period = IF type = "PERIODICAL" THEN ticks ELSE 0]]
    BY DEF Begin
  <2>2. ticks \in Nat /\ sync \in BOOLEAN /\ time \in Nat /\ time + ticks \in Nat
    <3>1. ticks \in Nat /\ sync \in BOOLEAN /\ time \in Nat
      BY <1>1, TimerAssumption DEF TypeOK
    <3> QED BY <3>1
  <2> DEFINE a == [NoCall EXCEPT !.pc = "config", !.tim = t, !.sync = sync]
             b == [NoCall EXCEPT !.pc = "config", !.op = "reset", !.tim = t, !.ticks = ticks,
                             !.expire = time + ticks, !.target = target, !.sync = sync,
                             !.period = IF type = "PERIODICAL" THEN ticks ELSE 0]
  <2>3. a \in CallSet /\ a.pc = "config" /\ a.tim \in Timers /\ ~a.locked /\ a.op = "stop"
    BY <2>2 DEF NoCall, CallSet
  <2>4. b \in CallSet /\ b.pc = "config" /\ b.tim \in Timers /\ ~b.locked /\ b.target \in Lcores
    BY <2>2 DEF NoCall, CallSet
  <2>5. CASE op = "stop"
    BY <2>1, <2>3, <2>5
  <2>6. CASE op # "stop"
    BY <2>1, <2>4, <2>6
  <2> QED BY <2>5, <2>6
<1>3. call'[l] = c /\ \A k \in Lcores \ {l} : call'[k] = call[k]
  BY <1>1, <1>2 DEF TypeOK
<1>4. TypeOK'
  BY <1>1, <1>2 DEF TypeOK
<1>5. ~Working(l) /\ CallOK(l)' /\ MgrOK(l)'
  <2>1. ~Working(l) /\ ~Working(l)'
    BY <1>1, <1>2, <1>3 DEF Working
  <2>2. CallOK(l)'
    BY <1>1, <1>2, <1>3, <2>1 DEF CallOK
  <2>3. MgrOK(l)'
    BY <1>1 DEF MgrOK
  <2> QED BY <2>1, <2>2, <2>3
<1>6. /\ Ready(l)' = Ready(l) /\ Waiting(l)' = Waiting(l) /\ Current(l)' = Current(l)
      /\ IsInjective(mgr'[l].run) /\ (mgr'[l].pc # "mark" => first'[l] = FirstOf(list[l], timer))
  BY <1>1 DEF Ready, Waiting, Current, LinkOK, OrderOK
<1> QED BY <1>1, <1>3, <1>4, <1>5, <1>6, QuietStep

(* What a step of rte_timer_manage keeps of the calls. *)
LEMMA ManagerIdle ==
  ASSUME IndInv, NEW l \in Lcores, mgr[l].pc \in {"check", "cut", "mark", "next"}
  PROVE  ~Working(l) /\ call[l].pc = "idle" /\ ~call[l].locked
BY DEF IndInv, CallOK, Working

(* rte_timer_manage has read the clock. *)
LEMMA ManageBegins ==
  ASSUME IndInv, NEW l \in Lcores, Manage(l)
  PROVE  IndInv'
<1>1. /\ UNCHANGED <<time, timer, list, first, lock, call, calls>>
      /\ call[l].pc = "idle" /\ mgr[l].pc = "out"
      /\ mgr' = [mgr EXCEPT ![l].pc = "check", ![l].now = time]
      /\ TypeOK /\ CallOK(l) /\ MgrOK(l) /\ LinkOK(l) /\ OrderOK(l)
  BY DEF Manage, IndInv
<1>2. /\ mgr'[l].pc = "check" /\ mgr'[l].now = time /\ mgr'[l].run = mgr[l].run
      /\ mgr'[l].i = mgr[l].i /\ mgr'[l] \in MgrSet
      /\ \A k \in Lcores \ {l} : mgr'[k] = mgr[k]
  BY <1>1 DEF TypeOK, MgrSet
<1>3. TypeOK'
  BY <1>1, <1>2 DEF TypeOK
<1>4. ~Working(l) /\ CallOK(l)'
  BY <1>1, <1>2 DEF CallOK, Working
<1>5. MgrOK(l)'
  <2>1. time \in Nat /\ time <= time
    BY <1>1 DEF TypeOK
  <2> QED BY <1>1, <1>2, <2>1 DEF MgrOK
<1>6. Ready(l)' = Ready(l) /\ Waiting(l)' = Waiting(l) /\ Current(l)' = Current(l)
  <2>1. mgr[l].pc # "mark" /\ mgr'[l].pc # "mark" /\ mgr[l].pc # "callback" /\ mgr'[l].pc # "callback"
    BY <1>1, <1>2
  <2>2. Ready(l)' = Ready(l)
    BY <1>2, <2>1 DEF Ready
  <2> QED BY <2>1, <2>2 DEF Waiting, Current
<1>7. IsInjective(mgr'[l].run) /\ first'[l] = FirstOf(list[l], timer)
  BY <1>1, <1>2 DEF LinkOK, OrderOK
<1> QED BY <1>1, <1>2, <1>3, <1>4, <1>5, <1>6, <1>7, QuietStep

(* rte_timer_manage ends without, or after, having run timers. *)
LEMMA ManageOut ==
  ASSUME IndInv, NEW l \in Lcores, UNCHANGED <<time, timer, list, first, lock, call, calls>>,
         mgr[l].pc \in {"check", "cut", "next"}, mgr[l].run = << >>,
         mgr' = [mgr EXCEPT ![l] = NoMgr]
  PROVE  IndInv'
<1>1. TypeOK /\ CallOK(l) /\ MgrOK(l) /\ LinkOK(l) /\ OrderOK(l)
  BY DEF IndInv
<1>2. NoMgr \in MgrSet
  BY NoTimers DEF NoMgr, MgrSet
<1>3. /\ mgr'[l] = NoMgr /\ mgr'[l].pc = "out" /\ mgr'[l].run = << >> /\ mgr'[l].i = 1
      /\ mgr'[l].now = 0 /\ \A k \in Lcores \ {l} : mgr'[k] = mgr[k]
  BY <1>1 DEF TypeOK, NoMgr
<1>4. TypeOK'
  BY <1>1, <1>2 DEF TypeOK
<1>5. ~Working(l) /\ call[l].pc = "idle" /\ ~call[l].locked
  BY ManagerIdle
<1>6. CallOK(l)'
  BY <1>3, <1>5 DEF CallOK, Working
<1>7. MgrOK(l)'
  <2>1. 0 <= time
    BY <1>1 DEF TypeOK
  <2> QED BY <1>1, <1>3, <2>1 DEF MgrOK
<1>8. /\ Ready(l)' = {} /\ Waiting(l)' = {} /\ Current(l)' = {} /\ Ready(l) = {} /\ Current(l) = {}
      /\ IsInjective(mgr'[l].run) /\ first'[l] = FirstOf(list[l], timer) /\ Range(mgr'[l].run) = {}
  BY <1>1, <1>3, NoTimers DEF Ready, Waiting, Current, LinkOK, OrderOK
<1> QED BY <1>3, <1>4, <1>5, <1>6, <1>7, <1>8, QuietStep

(* The quick check. *)
LEMMA ManageCheckStep ==
  ASSUME IndInv, NEW l \in Lcores, ManageCheck(l)
  PROVE  IndInv'
<1>1. /\ UNCHANGED <<time, timer, list, first, lock, call, calls>> /\ mgr[l].pc = "check"
      /\ TypeOK /\ CallOK(l) /\ MgrOK(l) /\ LinkOK(l) /\ OrderOK(l)
      /\ mgr' = [mgr EXCEPT ![l] = IF first[l] > mgr[l].now THEN NoMgr
                                   ELSE [mgr[l] EXCEPT !.pc = "cut"]]
  BY DEF ManageCheck, IndInv
<1>2. CASE first[l] > mgr[l].now
  BY <1>1, <1>2, ManageOut DEF MgrOK
<1>3. CASE ~(first[l] > mgr[l].now)
  <2> DEFINE m == [mgr[l] EXCEPT !.pc = "cut"]
  <2>0. /\ m \in MgrSet /\ m.pc = "cut" /\ m.now = mgr[l].now /\ m.run = mgr[l].run
        /\ m.i = mgr[l].i
    BY <1>1 DEF TypeOK, MgrSet
  <2>1. mgr' = [mgr EXCEPT ![l] = m]
    BY <1>1, <1>3
  <2> HIDE DEF m
  <2>2. /\ mgr'[l].pc = "cut" /\ mgr'[l].now = mgr[l].now /\ mgr'[l].run = mgr[l].run
        /\ mgr'[l].i = mgr[l].i /\ mgr'[l] \in MgrSet
        /\ \A k \in Lcores \ {l} : mgr'[k] = mgr[k]
    BY <1>1, <2>0, <2>1 DEF TypeOK
  <2>3. TypeOK'
    BY <1>1, <2>1, <2>2 DEF TypeOK
  <2>4. ~Working(l) /\ call[l].pc = "idle" /\ ~call[l].locked
    BY <1>1, ManagerIdle
  <2>5. CallOK(l)' /\ MgrOK(l)'
    BY <1>1, <2>2, <2>4 DEF CallOK, Working, MgrOK
  <2>6. /\ Ready(l)' = Ready(l) /\ Waiting(l)' = Waiting(l) /\ Current(l)' = Current(l)
        /\ IsInjective(mgr'[l].run) /\ first'[l] = FirstOf(list[l], timer)
    BY <1>1, <2>2 DEF Ready, Waiting, Current, LinkOK, OrderOK
  <2> QED BY <1>1, <2>2, <2>3, <2>4, <2>5, <2>6, QuietStep
<1> QED BY <1>2, <1>3

(* All expired timers are marked or gone, and the lock is released. *)
LEMMA ManageUnlockStep ==
  ASSUME IndInv, NEW l \in Lcores, ManageUnlock(l)
  PROVE  IndInv'
<1>1. /\ UNCHANGED <<time, timer, list, call, calls>> /\ mgr[l].pc = "mark"
      /\ mgr[l].i > Len(mgr[l].run)
      /\ first' = [first EXCEPT ![l] = FirstOf(list[l], timer)]
      /\ lock' = [lock EXCEPT ![l] = NoOne]
      /\ mgr' = [mgr EXCEPT ![l].pc = "next"]
      /\ TypeOK /\ CallOK(l) /\ MgrOK(l) /\ LinkOK(l) /\ OrderOK(l)
  BY DEF ManageUnlock, IndInv
<1>2. /\ mgr'[l].pc = "next" /\ mgr'[l].now = mgr[l].now /\ mgr'[l].run = mgr[l].run
      /\ mgr'[l].i = mgr[l].i /\ mgr'[l] \in MgrSet /\ mgr[l].run \in Seq(Timers) /\ mgr[l].i \in Nat
      /\ \A k \in Lcores \ {l} : mgr'[k] = mgr[k]
  BY <1>1 DEF TypeOK, MgrSet
<1>3. FirstOf(list[l], timer) \in Nat
  <2>1. list[l] \in Seq(Timers) /\ timer \in [Timers -> TimerSet]
    BY <1>1 DEF TypeOK
  <2>2. CASE list[l] = << >>
    BY <2>2 DEF FirstOf
  <2>3. CASE list[l] # << >>
    <3>1. Len(list[l]) \in Nat /\ Len(list[l]) # 0
      BY <2>1, <2>3, EmptyLen, SeqFun
    <3>2. 1 \in 1..Len(list[l])
      BY <3>1
    <3>3. list[l][1] \in Timers
      BY <2>1, <3>2, SeqFun
    <3> QED BY <2>1, <2>3, <3>3 DEF FirstOf, TimerSet
  <2> QED BY <2>2, <2>3
<1>4. TypeOK'
  BY <1>1, <1>2, <1>3 DEF TypeOK
<1>5. /\ lock'[l] = NoOne /\ first'[l] = FirstOf(list[l], timer)
      /\ \A k \in Lcores \ {l} : lock'[k] = lock[k] /\ first'[k] = first[k]
  BY <1>1 DEF TypeOK
<1>6. ~Working(l) /\ call[l].pc = "idle" /\ ~call[l].locked
  BY <1>1, ManagerIdle
<1>7. CallOK(l)' /\ MgrOK(l)'
  BY <1>1, <1>2, <1>5, <1>6 DEF CallOK, Working, MgrOK
<1>8. /\ Waiting(l)' = {} /\ Current(l)' = {} /\ Current(l) = {} /\ IsInjective(mgr'[l].run)
  BY <1>1, <1>2 DEF Waiting, Current, LinkOK
<1>9. Ready(l)' = Range(mgr[l].run) /\ Ready(l) = Range(mgr[l].run)
  <2>1. Ready(l)' = Range(mgr[l].run)
    BY <1>2 DEF Ready
  <2>2. Len(mgr[l].run) \in Nat
    BY <1>2, SeqFun
  <2>3. \A j \in mgr[l].i..Len(mgr[l].run) : FALSE
    BY <1>1, <1>2, <2>2
  <2>4. Waiting(l) = {}
    BY <1>1, <2>3 DEF Waiting
  <2> QED BY <1>1, <2>1, <2>4, RunParts
<1> QED BY <1>1, <1>2, <1>4, <1>5, <1>6, <1>7, <1>8, <1>9, QuietStep

(* The next callback begins. *)
LEMMA CallbackStep ==
  ASSUME IndInv, NEW l \in Lcores, Callback(l)
  PROVE  IndInv'
<1> DEFINE s == mgr[l].run
<1>1. /\ UNCHANGED <<time, timer, list, first, lock, call, calls>> /\ mgr[l].pc = "next"
      /\ s # << >>
      /\ mgr' = [mgr EXCEPT ![l].pc = "callback", ![l].updated = FALSE,
                            ![l].running = s[1], ![l].run = Tail(s)]
      /\ TypeOK /\ CallOK(l) /\ MgrOK(l) /\ LinkOK(l) /\ OrderOK(l)
  BY DEF Callback, IndInv
<1>2. s \in Seq(Timers) /\ IsInjective(s)
  BY <1>1 DEF TypeOK, MgrSet, LinkOK
<1>3. /\ s[1] \in Timers /\ Tail(s) \in Seq(Timers) /\ IsInjective(Tail(s))
      /\ Range(s) = {s[1]} \cup Range(Tail(s)) /\ s[1] \notin Range(Tail(s))
  BY <1>1, <1>2, FirstAndTail
<1>4. /\ mgr'[l].pc = "callback" /\ mgr'[l].now = mgr[l].now /\ mgr'[l].run = Tail(s)
      /\ mgr'[l].running = s[1] /\ mgr'[l].updated = FALSE
      /\ mgr'[l] \in MgrSet
      /\ \A k \in Lcores \ {l} : mgr'[k] = mgr[k]
  BY <1>1, <1>3 DEF TypeOK, MgrSet
<1>5. TypeOK'
  BY <1>1, <1>4 DEF TypeOK
<1>6. ~Working(l) /\ call[l].pc = "idle" /\ ~call[l].locked
  BY <1>1, ManagerIdle
<1>7. CallOK(l)' /\ MgrOK(l)'
  BY <1>1, <1>3, <1>4, <1>6 DEF CallOK, Working, MgrOK
<1>8. /\ Waiting(l)' = {} /\ Ready(l)' = Range(Tail(s)) /\ Current(l)' = {s[1]}
      /\ Ready(l) = Range(s) /\ Current(l) = {} /\ first'[l] = FirstOf(list[l], timer)
  BY <1>1, <1>4 DEF Ready, Waiting, Current, OrderOK
<1> HIDE DEF s
<1>9. /\ (Ready(l) \cup Current(l))' = Ready(l) \cup Current(l)
      /\ (Range(mgr[l].run) \cup Current(l))' \subseteq Range(mgr[l].run) \cup Current(l)
      /\ IsInjective(mgr'[l].run) /\ Waiting(l)' \subseteq Waiting(l)
  BY <1>3, <1>4, <1>8 DEF s
<1> QED BY <1>1, <1>4, <1>5, <1>6, <1>7, <1>8, <1>9, QuietStep

-----------------------------------------------------------------------------
(* The steps that write a status. *)

(* A call returns, and one of rte_timer_manage gives the lock back. *)
LEMMA ReturnsIs ==
  ASSUME IndInv, NEW l \in Lcores, Returns(l), call[l].pc # "idle"
  PROVE  /\ call' \in [Lcores -> CallSet] /\ lock' \in [Lcores -> Lcores \cup {NoOne}]
         /\ mgr' \in [Lcores -> MgrSet]
         /\ call'[l] = NoCall
         /\ \A k \in Lcores \ {l} : call'[k] = call[k] /\ mgr'[k] = mgr[k] /\ lock'[k] = lock[k]
         /\ time' = time => CallOK(l)' /\ MgrOK(l)'
         /\ Ready(l)' = Ready(l) /\ Waiting(l)' = Waiting(l) /\ Current(l)' = Current(l)
         /\ mgr'[l].run = mgr[l].run
         /\ mgr'[l].pc # "mark" /\ mgr[l].pc # "mark"
         /\ mgr'[l] = IF call[l].locked THEN [mgr[l] EXCEPT !.pc = "next"] ELSE mgr[l]
<1>1. TypeOK /\ CallOK(l) /\ MgrOK(l) /\ call' = [call EXCEPT ![l] = NoCall]
  BY DEF IndInv, Returns
<1>2. NoCall \in CallSet /\ NoCall.pc = "idle" /\ NoCall.locked = FALSE
  BY DEF NoCall, CallSet
<1>3. /\ call' \in [Lcores -> CallSet] /\ call'[l] = NoCall
      /\ \A k \in Lcores \ {l} : call'[k] = call[k]
  BY <1>1, <1>2 DEF TypeOK
<1>4. mgr[l].pc \in {"out", "callback", "reload"} /\ (call[l].locked <=> mgr[l].pc = "reload")
  BY <1>1 DEF CallOK
<1>5. CASE call[l].locked
  <2> DEFINE m == [mgr[l] EXCEPT !.pc = "next"]
  <2>1. /\ m \in MgrSet /\ m.pc = "next" /\ m.now = mgr[l].now /\ m.run = mgr[l].run
        /\ m.i = mgr[l].i
    BY <1>1 DEF TypeOK, MgrSet
  <2>2. mgr' = [mgr EXCEPT ![l] = m] /\ lock' = [lock EXCEPT ![l] = NoOne]
    BY <1>5 DEF Returns
  <2>3. /\ mgr' \in [Lcores -> MgrSet] /\ lock' \in [Lcores -> Lcores \cup {NoOne}]
        /\ mgr'[l] = m /\ lock'[l] = NoOne
        /\ \A k \in Lcores \ {l} : mgr'[k] = mgr[k] /\ lock'[k] = lock[k]
    <3> HIDE DEF m
    <3> QED BY <1>1, <2>1, <2>2 DEF TypeOK
  <2>4. time' = time => CallOK(l)' /\ MgrOK(l)'
    <3> HIDE DEF m
    <3>1. CallOK(l)'
      BY <1>2, <1>3, <2>1, <2>3 DEF CallOK, Working
    <3>2. time' = time => MgrOK(l)'
      BY <1>1, <2>1, <2>3 DEF MgrOK
    <3> QED BY <3>1, <3>2
  <2>5. Ready(l)' = Ready(l) /\ Waiting(l)' = Waiting(l) /\ Current(l)' = Current(l)
    <3>1. mgr[l].pc = "reload" /\ mgr'[l].pc = "next" /\ mgr'[l].run = mgr[l].run
      BY <1>4, <1>5, <2>1, <2>3
    <3>2. Ready(l)' = Ready(l)
      BY <3>1 DEF Ready
    <3> QED BY <3>1, <3>2 DEF Waiting, Current
  <2>6. mgr'[l].run = mgr[l].run /\ mgr'[l].pc # "mark" /\ mgr[l].pc # "mark"
    BY <1>4, <2>1, <2>3
  <2> QED BY <1>3, <1>5, <2>3, <2>4, <2>5, <2>6
<1>6. CASE ~call[l].locked
  <2>1. mgr' = mgr /\ lock' = lock
    BY <1>6 DEF Returns
  <2>2. CallOK(l)'
    BY <1>2, <1>3, <1>4, <1>6, <2>1 DEF CallOK, Working
  <2>3. time' = time => MgrOK(l)'
    BY <1>1, <2>1 DEF MgrOK
  <2>4. Ready(l)' = Ready(l) /\ Waiting(l)' = Waiting(l) /\ Current(l)' = Current(l)
    BY <2>1 DEF Ready, Waiting, Current
  <2> QED BY <1>1, <1>3, <1>4, <1>6, <2>1, <2>2, <2>3, <2>4 DEF TypeOK
<1> QED BY <1>5, <1>6

(* A step that writes the status of one timer and touches no list. *)
LEMMA StatusStep ==
  ASSUME IndInv, TypeOK', NEW l \in Lcores, NEW t \in Timers, StepOf(l, t),
         UNCHANGED <<list, first>>, timer'[t].expire = timer[t].expire,
         mgr'[l].pc # "mark" => mgr[l].pc # "mark",
         \A k \in Lcores \ {l} : OnList(t, k) => OnList(t, k)',
         CallOK(l)', MgrOK(l)', StatusOK(t)', LinkOK(l)'
  PROVE  IndInv'
<1>1. \A u \in Timers : timer'[u].expire = timer[u].expire
  BY DEF StepOf
<1>2. ASSUME NEW k \in Lcores PROVE OrderOK(k)'
  <2>1. Range(list[k]) \subseteq Timers
    BY SeqFun DEF IndInv, TypeOK
  <2>2. mgr'[k].pc # "mark" => mgr[k].pc # "mark"
    BY DEF StepOf
  <2> QED BY <1>1, <2>1, <2>2, OrderFrame
<1>3. ASSUME NEW k \in Lcores \ {l} PROVE LinkOK(k)'
  <2>1. k \in Lcores /\ list'[k] = list[k] /\ LinkOK(k) /\ MgrOK(k) /\ TypeOK
    BY DEF IndInv
  <2>2. Range(list'[k]) \subseteq Timers
    BY <2>1, AllTimers
  <2>3. /\ t \in Range(list'[k]) => OnList(t, k)' /\ t \notin Waiting(k)
        /\ t \in Waiting(k) => OnList(t, k)'
    BY <2>1 DEF LinkOK
  <2>4. IsInjective(list'[k])
    BY <2>1 DEF LinkOK
  <2> QED BY <2>1, <2>2, <2>3, <2>4, LinkFrame
<1> QED BY <1>2, <1>3, Assembled

(* timer_set_config_state fails: a _sync call tries again, another returns. *)
LEMMA ConfigFails ==
  ASSUME IndInv, NEW l \in Lcores, SetConfig(l), Busy(l, call[l].tim)
  PROVE  IndInv'
<1>1. /\ UNCHANGED <<time, timer, list, first, calls>> /\ call[l].pc = "config"
      /\ TypeOK /\ CallOK(l) /\ MgrOK(l) /\ LinkOK(l) /\ OrderOK(l) /\ ~Working(l)
  BY DEF SetConfig, IndInv, Working
<1>2. CASE call[l].sync
  <2> DEFINE e == IF call[l].op = "reset" THEN time + call[l].ticks ELSE 0
             c == [call[l] EXCEPT !.expire = e]
  <2>1. call' = [call EXCEPT ![l] = c] /\ UNCHANGED <<lock, mgr>>
    BY <1>2 DEF SetConfig
  <2>2. e \in Nat
    <3>1. call[l].ticks \in Nat /\ time \in Nat
      BY <1>1 DEF TypeOK, CallSet
    <3> QED BY <3>1
  <2> HIDE DEF e
  <2>3. /\ c \in CallSet /\ c.pc = call[l].pc /\ c.tim = call[l].tim /\ c.op = call[l].op
        /\ c.target = call[l].target /\ c.locked = call[l].locked
    BY <1>1, <2>2 DEF TypeOK, CallSet
  <2> HIDE DEF c
  <2>4. /\ call' \in [Lcores -> CallSet] /\ call'[l] = c
        /\ \A k \in Lcores \ {l} : call'[k] = call[k]
    BY <1>1, <2>1, <2>3 DEF TypeOK
  <2>5. TypeOK'
    BY <1>1, <2>1, <2>4 DEF TypeOK
  <2>6. CallOK(l)' /\ MgrOK(l)'
    BY <1>1, <2>1, <2>3, <2>4 DEF CallOK, MgrOK, Working
  <2>7. Ready(l)' = Ready(l) /\ Waiting(l)' = Waiting(l) /\ Current(l)' = Current(l)
    BY <2>1 DEF Ready, Waiting, Current
  <2>8. IsInjective(mgr'[l].run) /\ (mgr'[l].pc # "mark" => first'[l] = FirstOf(list[l], timer))
    BY <1>1, <2>1 DEF LinkOK, OrderOK
  <2> QED BY <1>1, <2>1, <2>4, <2>5, <2>6, <2>7, <2>8, QuietStep
<1>3. CASE ~call[l].sync
  <2>1. Returns(l)
    BY <1>3 DEF SetConfig
  <2>2. TypeOK'
    BY <1>1, <2>1, ReturnsIs DEF TypeOK
  <2>3. IsInjective(mgr'[l].run) /\ first'[l] = FirstOf(list[l], timer)
    BY <1>1, <2>1, ReturnsIs DEF LinkOK, OrderOK
  <2>4. /\ CallOK(l)' /\ MgrOK(l)'
        /\ \A k \in Lcores \ {l} : call'[k] = call[k] /\ mgr'[k] = mgr[k] /\ lock'[k] = lock[k]
        /\ Ready(l)' = Ready(l) /\ Waiting(l)' = Waiting(l) /\ Current(l)' = Current(l)
        /\ mgr'[l].run = mgr[l].run
    BY <1>1, <2>1, ReturnsIs
  <2> QED BY <1>1, <2>2, <2>3, <2>4, QuietStep
<1> QED BY <1>2, <1>3

(* timer_set_config_state succeeds: the timer is the call's. *)
LEMMA ConfigTakes ==
  ASSUME IndInv, NEW l \in Lcores, SetConfig(l), NEW t \in Timers, call[l].tim = t, ~Busy(l, t)
  PROVE  IndInv'
<1> DEFINE st == timer[t].state
           o == timer[t].owner
           pc == IF st = "PENDING" THEN "del" ELSE IF call[l].op = "stop" THEN "done" ELSE "add"
           c == [call[l] EXCEPT !.owner = o, !.pc = pc]
           x == [timer[t] EXCEPT !.state = "CONFIG", !.owner = l]
           m == IF st = "RUNNING" THEN [mgr[l] EXCEPT !.updated = TRUE] ELSE mgr[l]
<1>1. /\ UNCHANGED <<time, list, first, lock, calls>> /\ call[l].pc = "config"
      /\ TypeOK /\ CallOK(l) /\ MgrOK(l) /\ LinkOK(l) /\ OrderOK(l) /\ ~Working(l) /\ t \in Timers
      /\ StatusOK(t)
  BY DEF SetConfig, IndInv, Working, CallOK
<1>2. st # "CONFIG" /\ (st = "RUNNING" => o = l /\ t = mgr[l].running)
  BY DEF Busy
<1>3. mgr[l].pc \in {"out", "callback", "reload"}
  BY <1>1 DEF CallOK
<1>4. call' = [call EXCEPT ![l] = c] /\ timer' = [timer EXCEPT ![t] = x]
  BY DEF SetConfig, Status
<1>5. mgr' = IF st = "RUNNING" THEN [mgr EXCEPT ![l].updated = TRUE] ELSE mgr
  BY DEF SetConfig
<1>6. /\ x \in TimerSet /\ x.state = "CONFIG" /\ x.owner = l /\ x.expire = timer[t].expire
      /\ o \in Lcores \cup {NoOne} /\ st \in {"STOP", "CONFIG", "PENDING", "RUNNING"}
  BY <1>1 DEF TypeOK, TimerSet
<1>7. pc \in {"del", "done", "add"}
  OBVIOUS
<1>8. call[l].op \in {"reset", "stop"}
  BY <1>1 DEF TypeOK, CallSet
<1>9. (pc = "del" <=> st = "PENDING") /\ (pc = "add" => call[l].op = "reset")
  BY <1>8
<1> HIDE DEF pc, x, o, st
<1>10. /\ c \in CallSet /\ c.pc = pc /\ c.tim = t /\ c.op = call[l].op /\ c.target = call[l].target
       /\ c.locked = call[l].locked /\ c.owner = o
  <2>1. call[l] \in CallSet /\ o \in Lcores \cup {NoOne}
    BY <1>1, <1>6 DEF TypeOK
  <2> QED BY <1>7, <2>1 DEF CallSet
<1>11. /\ m \in MgrSet /\ m.pc = mgr[l].pc /\ m.now = mgr[l].now /\ m.run = mgr[l].run
       /\ m.i = mgr[l].i /\ m.running = mgr[l].running
       /\ (st = "RUNNING" => m.updated = TRUE) /\ (st # "RUNNING" => m = mgr[l])
  <2>1. CASE st = "RUNNING"
    BY <1>1, <2>1 DEF TypeOK, MgrSet
  <2>2. CASE st # "RUNNING"
    <3>1. m = mgr[l] /\ mgr[l] \in MgrSet
      BY <1>1, <2>2 DEF TypeOK
    <3> QED BY <2>2, <3>1
  <2> QED BY <2>1, <2>2
<1>12. mgr' \in [Lcores -> MgrSet] /\ mgr'[l] = m /\ \A k \in Lcores \ {l} : mgr'[k] = mgr[k]
  <2>1. mgr \in [Lcores -> MgrSet]
    BY <1>1 DEF TypeOK
  <2>2. CASE st = "RUNNING"
    <3>1. m = [mgr[l] EXCEPT !.updated = TRUE] /\ mgr' = [mgr EXCEPT ![l].updated = TRUE]
      BY <1>5, <2>2
    <3>2. mgr' = [mgr EXCEPT ![l] = m]
      BY <3>1
    <3> HIDE DEF m
    <3> QED BY <1>11, <2>1, <3>2
  <2>3. CASE st # "RUNNING"
    <3>1. m = mgr[l] /\ mgr' = mgr
      BY <1>5, <2>3
    <3> QED BY <2>1, <3>1
  <2> QED BY <2>2, <2>3
<1> HIDE DEF c, m
<1>13. /\ call' \in [Lcores -> CallSet] /\ call'[l] = c
       /\ \A k \in Lcores \ {l} : call'[k] = call[k]
  BY <1>1, <1>4, <1>10 DEF TypeOK
<1>14. /\ timer' \in [Timers -> TimerSet] /\ timer'[t] = x
       /\ \A u \in Timers \ {t} : timer'[u] = timer[u]
  BY <1>1, <1>4, <1>6 DEF TypeOK
<1>15. TypeOK'
  BY <1>1, <1>12, <1>13, <1>14 DEF TypeOK
<1>16. Ready(l)' = Ready(l) /\ Waiting(l)' = {} /\ Waiting(l) = {} /\ Ready(l) = Range(mgr[l].run)
  <2>1. mgr[l].pc # "mark" /\ mgr'[l].pc # "mark"
    BY <1>3, <1>11, <1>12
  <2>2. Ready(l)' = Ready(l) /\ Ready(l) = Range(mgr[l].run)
    BY <1>11, <1>12, <2>1 DEF Ready
  <2> QED BY <2>1, <2>2 DEF Waiting
<1>17. t \notin Ready(l)
  <2>1. CASE st = "RUNNING"
    <3>1. CASE mgr[l].pc = "out"
      BY <1>1, <1>16, <3>1, NoTimers DEF MgrOK
    <3>2. CASE mgr[l].pc # "out"
      <4>1. mgr[l].running \notin Range(mgr[l].run)
        BY <1>1, <1>3, <3>2 DEF MgrOK
      <4> QED BY <1>2, <1>16, <2>1, <4>1
    <3> QED BY <3>1, <3>2
  <2>2. CASE st # "RUNNING"
    BY <1>1, <2>2 DEF LinkOK, Runs, st
  <2> QED BY <2>1, <2>2
<1>18. Current(l)' \subseteq Current(l) /\ Current(l) \ {t} \subseteq Current(l)' /\ t \notin Current(l)'
  <2>1. CASE st = "RUNNING"
    <3>1. Current(l)' = {}
      BY <1>11, <1>12, <2>1 DEF Current
    <3>2. Current(l) \subseteq {t}
      BY <1>2, <2>1 DEF Current
    <3> QED BY <3>1, <3>2
  <2>2. CASE st # "RUNNING"
    <3>1. Current(l)' = Current(l)
      BY <1>11, <1>12, <2>2 DEF Current
    <3>2. t \notin Current(l)
      BY <1>1, <2>2 DEF LinkOK, Runs, st
    <3> QED BY <3>1, <3>2
  <2> QED BY <2>1, <2>2
<1>19. StepOf(l, t)
  <2>1. (Ready(l) \cup Current(l)) \ {t} \subseteq (Ready(l) \cup Current(l))'
    BY <1>16, <1>18
  <2>2. timer[t].state \in {"CONFIG", "RUNNING"} => timer[t].owner = l
    BY <1>2 DEF st, o
  <2> QED BY <1>1, <1>12, <1>13, <1>14, <2>1, <2>2 DEF StepOf
<1>20. \A k \in Lcores : OnList(t, k) => OnList(t, k)'
  <2>1. ASSUME NEW k \in Lcores, OnList(t, k) PROVE OnList(t, k)'
    <3>1. st = "PENDING" /\ o = k
      BY <1>2, <2>1 DEF OnList, st, o
    <3>2. call'[l].pc = "del" /\ call'[l].owner = k
      BY <1>9, <1>10, <1>13, <3>1
    <3> QED BY <1>6, <1>14, <3>2 DEF OnList
  <2> QED BY <2>1
<1>21. Working(l)' /\ CallOK(l)' /\ StatusOK(t)'
  <2>1. Working(l)' /\ call'[l].tim = t
    BY <1>7, <1>10, <1>13 DEF Working
  <2>2. pc = "del" => o \in Lcores
    BY <1>1, <1>9 DEF StatusOK, st, o
  <2>3. /\ timer'[call'[l].tim].state = "CONFIG" /\ timer'[call'[l].tim].owner = l
        /\ call'[l].op = call[l].op /\ call'[l].target = call[l].target /\ call'[l].owner = o
        /\ call'[l].pc = pc /\ call'[l].pc # "idle" /\ call'[l].locked = call[l].locked
        /\ mgr'[l].pc = mgr[l].pc /\ mgr'[l].running = mgr[l].running
    BY <1>6, <1>7, <1>10, <1>11, <1>12, <1>13, <1>14, <2>1
  <2>4. /\ call[l].op = "reset" => call[l].target \in Lcores
        /\ call[l].locked <=> mgr[l].pc = "reload"
        /\ call[l].locked => t = mgr[l].running
    BY <1>1 DEF CallOK
  <2>5. CallOK(l)'
    BY <1>1, <1>3, <1>9, <2>1, <2>2, <2>3, <2>4 DEF CallOK
  <2>6. StatusOK(t)'
    BY <1>6, <1>14, <2>1 DEF StatusOK
  <2> QED BY <2>1, <2>5, <2>6
<1>22. MgrOK(l)'
  BY <1>1, <1>11, <1>12 DEF MgrOK
<1>23. LinkOK(l)'
  <2>1. /\ IsInjective(list'[l]) /\ IsInjective(mgr'[l].run)
        /\ (Range(list[l]) \cap Waiting(l))' = {}
    BY <1>1, <1>11, <1>12, <1>16 DEF LinkOK
  <2>2. (Range(list[l]) \cup Waiting(l) \cup Ready(l) \cup Current(l))' \subseteq Timers
    BY <1>15, <1>22, AllTimersNext
  <2>3. (Range(list[l]) \cup Waiting(l))' = Range(list[l]) \cup Waiting(l)
    BY <1>1, <1>16
  <2>4. t \in (Range(list[l]) \cup Waiting(l))' => OnList(t, l)'
    BY <1>1, <1>20, <2>3 DEF LinkOK
  <2>5. (Ready(l) \cup Current(l))' \subseteq Ready(l) \cup Current(l)
        /\ t \notin (Ready(l) \cup Current(l))'
    BY <1>16, <1>17, <1>18
  <2>6. \A u \in (Range(mgr[l].run) \cup Current(l))' : timer'[u].expire <= time'
    <3>1. (Range(mgr[l].run) \cup Current(l))' \subseteq Range(mgr[l].run) \cup Current(l)
      BY <1>11, <1>12, <1>18
    <3>2. \A u \in Timers : timer'[u].expire = timer[u].expire
      BY <1>6, <1>14
    <3>3. Range(mgr[l].run) \cup Current(l) \subseteq Timers
      BY <1>1, <1>16, AllTimers
    <3> QED BY <1>1, <3>1, <3>2, <3>3 DEF LinkOK
  <2> QED BY <1>19, <2>1, <2>2, <2>3, <2>4, <2>5, <2>6, LinkOwn
<1>24. timer'[t].expire = timer[t].expire /\ mgr[l].pc # "mark"
  BY <1>3, <1>6, <1>14
<1> QED BY <1>1, <1>15, <1>19, <1>20, <1>21, <1>22, <1>23, <1>24, StatusStep

(* The call writes the new status and returns. *)
LEMMA DoneStep ==
  ASSUME IndInv, NEW l \in Lcores, Done(l), NEW t \in Timers, call[l].tim = t
  PROVE  IndInv'
<1> DEFINE st == IF call[l].op = "stop" THEN "STOP" ELSE "PENDING"
           o == IF call[l].op = "stop" THEN NoOne ELSE call[l].target
           x == [timer[t] EXCEPT !.state = st, !.owner = o]
<1>1. /\ UNCHANGED <<time, list, first, calls>> /\ call[l].pc = "done" /\ Returns(l)
      /\ TypeOK /\ CallOK(l) /\ MgrOK(l) /\ LinkOK(l) /\ OrderOK(l) /\ Working(l)
      /\ timer' = [timer EXCEPT ![t] = x]
  BY DEF Done, IndInv, Working, Status
<1>2. timer[t].state = "CONFIG" /\ timer[t].owner = l
  BY <1>1 DEF CallOK
<1>3. /\ call[l].op \in {"reset", "stop"} /\ (call[l].op = "reset" => call[l].target \in Lcores)
  BY <1>1 DEF CallOK, TypeOK, CallSet
<1>4. /\ st \in {"STOP", "PENDING"} /\ o \in Lcores \cup {NoOne} /\ (st # "STOP" => o \in Lcores)
      /\ call[l].op = "reset" => st = "PENDING" /\ o = call[l].target
  BY <1>3
<1> HIDE DEF st, o
<1>5. x \in TimerSet /\ x.state = st /\ x.owner = o /\ x.expire = timer[t].expire
  <2>1. timer[t] \in TimerSet
    BY <1>1 DEF TypeOK
  <2> QED BY <1>4, <2>1 DEF TimerSet
<1> HIDE DEF x
<1>6. /\ timer' \in [Timers -> TimerSet] /\ timer'[t] = x
      /\ \A u \in Timers \ {t} : timer'[u] = timer[u]
  BY <1>1, <1>5 DEF TypeOK
<1>7. TypeOK'
  BY <1>1, <1>6, ReturnsIs DEF TypeOK
<1>8. /\ CallOK(l)' /\ MgrOK(l)'
      /\ \A k \in Lcores \ {l} : call'[k] = call[k] /\ mgr'[k] = mgr[k] /\ lock'[k] = lock[k]
      /\ Ready(l)' = Ready(l) /\ Waiting(l)' = Waiting(l) /\ Current(l)' = Current(l)
      /\ mgr'[l].run = mgr[l].run /\ mgr[l].pc # "mark"
  BY <1>1, ReturnsIs
<1>9. StepOf(l, t)
  BY <1>1, <1>2, <1>6, <1>8 DEF StepOf
<1>10. \A k \in Lcores : OnList(t, k) => OnList(t, k)'
  <2>1. ASSUME NEW k \in Lcores, OnList(t, k) PROVE OnList(t, k)'
    <3>1. call[l].op = "reset" /\ call[l].target = k
      BY <1>1, <1>2, <2>1 DEF OnList
    <3>2. timer'[t].state = "PENDING" /\ timer'[t].owner = k
      BY <1>4, <1>5, <1>6, <3>1
    <3> QED BY <3>2 DEF OnList
  <2> QED BY <2>1
<1>11. StatusOK(t)'
  BY <1>4, <1>5, <1>6 DEF StatusOK
<1>12. LinkOK(l)'
  <2>1. /\ IsInjective(list'[l]) /\ IsInjective(mgr'[l].run)
        /\ (Range(list[l]) \cap Waiting(l))' = {}
    BY <1>1, <1>8 DEF LinkOK
  <2>2. (Range(list[l]) \cup Waiting(l) \cup Ready(l) \cup Current(l))' \subseteq Timers
    BY <1>7, <1>8, AllTimersNext
  <2>3. (Range(list[l]) \cup Waiting(l))' = Range(list[l]) \cup Waiting(l)
    BY <1>1, <1>8
  <2>4. t \in (Range(list[l]) \cup Waiting(l))' => OnList(t, l)'
    BY <1>1, <1>10, <2>3 DEF LinkOK
  <2>5. (Ready(l) \cup Current(l))' = Ready(l) \cup Current(l) /\ t \notin Ready(l) \cup Current(l)
    BY <1>1, <1>2, <1>8 DEF LinkOK, Runs
  <2>6. \A u \in (Range(mgr[l].run) \cup Current(l))' : timer'[u].expire <= time'
    <3>1. (Range(mgr[l].run) \cup Current(l))' = Range(mgr[l].run) \cup Current(l)
      BY <1>8
    <3>2. \A u \in Timers : timer'[u].expire = timer[u].expire
      BY <1>5, <1>6
    <3>3. Range(mgr[l].run) \cup Current(l) \subseteq Timers
      BY <1>1, RunParts, AllTimers
    <3> QED BY <1>1, <3>1, <3>2, <3>3 DEF LinkOK
  <2> QED BY <1>9, <2>1, <2>2, <2>3, <2>4, <2>5, <2>6, LinkOwn
<1>13. timer'[t].expire = timer[t].expire
  BY <1>5, <1>6
<1> QED BY <1>1, <1>7, <1>8, <1>9, <1>10, <1>11, <1>12, <1>13, StatusStep

(* The next expired timer: its place among the others. *)
LEMMA NextExpired ==
  ASSUME IndInv, NEW l \in Lcores, mgr[l].pc = "mark", mgr[l].i <= Len(mgr[l].run),
         NEW t, t = mgr[l].run[mgr[l].i]
  PROVE  /\ t \in Timers /\ t \in Waiting(l) /\ t \notin Range(list[l]) /\ OnList(t, l)
         /\ mgr[l].i \in 1..Len(mgr[l].run)
         /\ {mgr[l].run[j] : j \in mgr[l].i + 1..Len(mgr[l].run)} = Waiting(l) \ {t}
         /\ {mgr[l].run[j] : j \in 1..(mgr[l].i + 1) - 1} = Ready(l) \cup {t}
         /\ mgr[l].i + 1 \in 1..Len(mgr[l].run) + 1
<1> DEFINE s == mgr[l].run
           i == mgr[l].i
           n == Len(s)
<1>1. TypeOK /\ MgrOK(l) /\ LinkOK(l) /\ s \in Seq(Timers) /\ IsInjective(s) /\ i \in 1..n + 1
  BY DEF IndInv, TypeOK, MgrSet, MgrOK, LinkOK
<1>2. /\ n \in Nat /\ \A j \in 1..n : s[j] \in Timers
      /\ \A j, k \in 1..n : s[j] = s[k] => j = k
  BY <1>1, SeqFun, InjectiveSeq
<1>3. Waiting(l) = {s[j] : j \in i..n} /\ Ready(l) = {s[j] : j \in 1..i - 1} /\ s[i] = t /\ i <= n
  BY DEF Waiting, Ready
<1> HIDE DEF s, i, n
<1>4. /\ i \in 1..n /\ i \in i..n /\ i + 1 \in 1..n + 1
      /\ \A j \in i..n : j \in 1..n /\ (j = i \/ j \in i + 1..n)
      /\ \A j \in i + 1..n : j \in 1..n /\ j # i /\ j \in i..n
      /\ \A j \in 1..i - 1 : j \in 1..(i + 1) - 1
      /\ i \in 1..(i + 1) - 1
      /\ \A j \in 1..(i + 1) - 1 : j = i \/ j \in 1..i - 1
  BY <1>1, <1>2, <1>3
<1>5. t \in Timers /\ t \in Waiting(l)
  BY <1>2, <1>3, <1>4
<1>6. t \notin Range(list[l]) /\ OnList(t, l)
  BY <1>1, <1>5 DEF LinkOK
<1>7. {s[j] : j \in i + 1..n} = Waiting(l) \ {t}
  BY <1>2, <1>3, <1>4
<1>8. {s[j] : j \in 1..(i + 1) - 1} = Ready(l) \cup {t}
  BY <1>3, <1>4
<1> QED BY <1>4, <1>5, <1>6, <1>7, <1>8 DEF s, i, n

(* timer_set_running_state succeeds. *)
LEMMA MarkTakes ==
  ASSUME IndInv, NEW l \in Lcores, MarkRunning(l), NEW t, t = mgr[l].run[mgr[l].i],
         timer[t].state = "PENDING"
  PROVE  IndInv'
<1> DEFINE m == [mgr[l] EXCEPT !.i = mgr[l].i + 1]
           x == [timer[t] EXCEPT !.state = "RUNNING", !.owner = l]
<1>1. /\ UNCHANGED <<time, list, first, lock, call, calls>> /\ mgr[l].pc = "mark"
      /\ mgr[l].i <= Len(mgr[l].run)
      /\ TypeOK /\ CallOK(l) /\ MgrOK(l) /\ LinkOK(l) /\ OrderOK(l)
      /\ timer' = [timer EXCEPT ![t] = x] /\ mgr' = [mgr EXCEPT ![l] = m]
  BY DEF MarkRunning, IndInv, Status
<1>2. /\ t \in Timers /\ t \in Waiting(l) /\ t \notin Range(list[l]) /\ OnList(t, l)
      /\ mgr[l].i \in 1..Len(mgr[l].run)
      /\ {mgr[l].run[j] : j \in mgr[l].i + 1..Len(mgr[l].run)} = Waiting(l) \ {t}
      /\ {mgr[l].run[j] : j \in 1..(mgr[l].i + 1) - 1} = Ready(l) \cup {t}
      /\ mgr[l].i + 1 \in 1..Len(mgr[l].run) + 1
  BY <1>1, NextExpired
<1>3. x \in TimerSet /\ x.state = "RUNNING" /\ x.owner = l /\ x.expire = timer[t].expire
  <2>1. timer[t] \in TimerSet
    BY <1>1, <1>2 DEF TypeOK
  <2> QED BY <2>1 DEF TimerSet
<1>4. /\ m \in MgrSet /\ m.pc = "mark" /\ m.now = mgr[l].now /\ m.run = mgr[l].run
      /\ m.i = mgr[l].i + 1
  <2>1. mgr[l] \in MgrSet /\ mgr[l].i \in Nat
    BY <1>1 DEF TypeOK, MgrSet
  <2>2. mgr[l].i + 1 \in Nat
    BY <2>1
  <2> QED BY <1>1, <2>1, <2>2 DEF MgrSet
<1> HIDE DEF x, m
<1>5. /\ timer' \in [Timers -> TimerSet] /\ timer'[t] = x
      /\ \A u \in Timers \ {t} : timer'[u] = timer[u]
  BY <1>1, <1>2, <1>3 DEF TypeOK
<1>6. mgr' \in [Lcores -> MgrSet] /\ mgr'[l] = m /\ \A k \in Lcores \ {l} : mgr'[k] = mgr[k]
  BY <1>1, <1>4 DEF TypeOK
<1>7. TypeOK'
  BY <1>1, <1>5, <1>6 DEF TypeOK
<1>8. ~Working(l) /\ call[l].pc = "idle" /\ ~call[l].locked
  BY <1>1, ManagerIdle
<1>9. /\ Waiting(l)' = Waiting(l) \ {t} /\ Ready(l)' = Ready(l) \cup {t}
      /\ Current(l)' = {} /\ Current(l) = {}
  <2>1. Waiting(l)' = {mgr[l].run[j] : j \in mgr[l].i + 1..Len(mgr[l].run)}
    BY <1>4, <1>6 DEF Waiting
  <2>2. Ready(l)' = {mgr[l].run[j] : j \in 1..(mgr[l].i + 1) - 1}
    BY <1>4, <1>6 DEF Ready
  <2>3. Current(l)' = {} /\ Current(l) = {}
    BY <1>1, <1>4, <1>6 DEF Current
  <2> QED BY <1>2, <2>1, <2>2, <2>3
<1>10. CallOK(l)'
  BY <1>4, <1>6, <1>8, <1>1 DEF CallOK, Working
<1>11. MgrOK(l)'
  BY <1>1, <1>2, <1>4, <1>6 DEF MgrOK
<1>12. StepOf(l, t)
  BY <1>1, <1>5, <1>6, <1>8, <1>9 DEF StepOf
<1>13. StatusOK(t)' /\ Runs(t, l)'
  BY <1>3, <1>5, <1>9 DEF StatusOK, Runs
<1>14. \A k \in Lcores \ {l} : ~OnList(t, k)
  BY <1>2 DEF OnList
<1>15. LinkOK(l)'
  <2>1. /\ IsInjective(list'[l]) /\ IsInjective(mgr'[l].run)
        /\ (Range(list[l]) \cap Waiting(l))' = {}
    BY <1>1, <1>4, <1>6, <1>9 DEF LinkOK
  <2>2. (Range(list[l]) \cup Waiting(l) \cup Ready(l) \cup Current(l))' \subseteq Timers
    BY <1>7, <1>11, AllTimersNext
  <2>3. /\ (Range(list[l]) \cup Waiting(l))' \ {t} \subseteq Range(list[l]) \cup Waiting(l)
        /\ (Ready(l) \cup Current(l))' \ {t} \subseteq Ready(l) \cup Current(l)
        /\ t \notin (Range(list[l]) \cup Waiting(l))'
    BY <1>1, <1>2, <1>9
  <2>4. \A u \in (Range(mgr[l].run) \cup Current(l))' : timer'[u].expire <= time'
    <3>1. (Range(mgr[l].run) \cup Current(l))' = Range(mgr[l].run) \cup Current(l)
      BY <1>4, <1>6, <1>9
    <3>2. \A u \in Timers : timer'[u].expire = timer[u].expire
      BY <1>3, <1>5
    <3>3. Range(mgr[l].run) \cup Current(l) \subseteq Timers
      BY <1>1, RunParts, AllTimers
    <3> QED BY <1>1, <3>1, <3>2, <3>3 DEF LinkOK
  <2> QED BY <1>12, <1>13, <2>1, <2>2, <2>3, <2>4, LinkOwn
<1>16. timer'[t].expire = timer[t].expire /\ mgr'[l].pc = "mark"
  BY <1>3, <1>4, <1>5, <1>6
<1> QED BY <1>1, <1>2, <1>7, <1>10, <1>11, <1>12, <1>13, <1>14, <1>15, <1>16, StatusStep

(* timer_set_running_state fails: the timer leaves the expired ones. *)
LEMMA MarkDrops ==
  ASSUME IndInv, NEW l \in Lcores, MarkRunning(l), timer[mgr[l].run[mgr[l].i]].state # "PENDING"
  PROVE  IndInv'
<1> DEFINE s == mgr[l].run
           i == mgr[l].i
           n == Len(s)
           r == RemoveAt(s, i)
           m == [mgr[l] EXCEPT !.run = r]
<1>1. /\ UNCHANGED <<time, timer, list, first, lock, call, calls>> /\ mgr[l].pc = "mark" /\ i <= n
      /\ TypeOK /\ CallOK(l) /\ MgrOK(l) /\ LinkOK(l) /\ OrderOK(l)
      /\ mgr' = [mgr EXCEPT ![l] = m]
  BY DEF MarkRunning, IndInv
<1>2. s \in Seq(Timers) /\ IsInjective(s) /\ i \in 1..n + 1 /\ mgr[l] \in MgrSet
  BY <1>1 DEF TypeOK, MgrSet, MgrOK, LinkOK
<1>3. n \in Nat /\ i \in 1..n
  <2>1. n \in Nat
    BY <1>2, SeqFun
  <2> HIDE DEF n, i
  <2> QED BY <1>1, <1>2, <2>1
<1>4. /\ r \in Seq(Timers) /\ Len(r) = n - 1 /\ Thinned(r, s)
      /\ \A j \in 1..n - 1 : r[j] = IF j < i THEN s[j] ELSE s[j + 1]
  BY <1>2, <1>3, RemoveAtIs
<1>5. IsInjective(r) /\ Range(r) \subseteq Range(s)
  BY <1>2, <1>4, ThinnedKeeps
<1> HIDE DEF r
<1>6. /\ m \in MgrSet /\ m.pc = "mark" /\ m.now = mgr[l].now /\ m.run = r /\ m.i = i
  BY <1>1, <1>2, <1>4 DEF MgrSet
<1> HIDE DEF m
<1>7. mgr' \in [Lcores -> MgrSet] /\ mgr'[l] = m /\ \A k \in Lcores \ {l} : mgr'[k] = mgr[k]
  BY <1>1, <1>6 DEF TypeOK
<1>8. TypeOK'
  BY <1>1, <1>7 DEF TypeOK
<1>9. ~Working(l) /\ call[l].pc = "idle" /\ ~call[l].locked
  BY <1>1, ManagerIdle
<1>10. CallOK(l)'
  BY <1>1, <1>6, <1>7, <1>9 DEF CallOK, Working
<1>11. i \in 1..Len(r) + 1
  <2> HIDE DEF i, n
  <2>1. (n - 1) + 1 = n
    BY <1>3
  <2> QED BY <1>3, <1>4, <2>1
<1>12. MgrOK(l)'
  BY <1>1, <1>6, <1>7, <1>11 DEF MgrOK
<1>13. /\ Ready(l) = {s[j] : j \in 1..i - 1} /\ Ready(l)' = {r[j] : j \in 1..i - 1}
       /\ Waiting(l) = {s[j] : j \in i..n} /\ Waiting(l)' = {r[j] : j \in i..n - 1}
  BY <1>1, <1>4, <1>6, <1>7 DEF Ready, Waiting
<1>14. Current(l)' = {} /\ Current(l) = {}
  BY <1>1, <1>6, <1>7 DEF Current
<1> HIDE DEF s, i, n
<1>15. /\ \A j \in 1..i - 1 : j \in 1..n - 1 /\ j < i
       /\ \A j \in i..n - 1 : j \in 1..n - 1 /\ ~(j < i) /\ j + 1 \in i..n
  BY <1>3
<1>16. Ready(l)' = Ready(l)
  BY <1>4, <1>13, <1>15
<1>17. Waiting(l)' \subseteq Waiting(l)
  BY <1>4, <1>13, <1>15
<1>18. (Range(mgr[l].run) \cup Current(l))' \subseteq Range(mgr[l].run) \cup Current(l)
       /\ IsInjective(mgr'[l].run) /\ mgr'[l].pc = "mark"
  BY <1>5, <1>6, <1>7, <1>14 DEF s
<1> QED BY <1>1, <1>7, <1>8, <1>9, <1>10, <1>12, <1>14, <1>16, <1>17, <1>18, QuietStep

(* What the end of a callback finds. *)
LEMMA AfterCallback ==
  ASSUME IndInv, NEW l \in Lcores, CallbackEnd(l)
  PROVE  /\ mgr[l].pc = "callback" /\ call[l].pc = "idle" /\ ~call[l].locked /\ ~Working(l)
         /\ mgr[l].running \in Timers /\ mgr[l].running \notin Range(mgr[l].run)
         /\ Ready(l) = Range(mgr[l].run) /\ Waiting(l) = {}
         /\ ~mgr[l].updated => Current(l) = {mgr[l].running} /\ Runs(mgr[l].running, l)
         /\ mgr[l].updated => Current(l) = {}
         /\ UNCHANGED <<time, list, first, calls>>
         /\ TypeOK /\ CallOK(l) /\ MgrOK(l) /\ LinkOK(l) /\ OrderOK(l)
<1>1. /\ mgr[l].pc = "callback" /\ call[l].pc = "idle" /\ UNCHANGED <<time, list, first, calls>>
      /\ TypeOK /\ CallOK(l) /\ MgrOK(l) /\ LinkOK(l) /\ OrderOK(l)
  BY DEF CallbackEnd, IndInv
<1>2. ~call[l].locked /\ ~Working(l)
  BY <1>1 DEF CallOK, Working
<1>3. mgr[l].running \in Timers /\ mgr[l].running \notin Range(mgr[l].run)
  BY <1>1 DEF MgrOK
<1>4. Ready(l) = Range(mgr[l].run) /\ Waiting(l) = {}
  BY <1>1 DEF Ready, Waiting
<1>5. ~mgr[l].updated => Current(l) = {mgr[l].running} /\ Runs(mgr[l].running, l)
  BY <1>1 DEF Current, LinkOK
<1>6. mgr[l].updated => Current(l) = {}
  BY DEF Current
<1> QED BY <1>1, <1>2, <1>3, <1>4, <1>5, <1>6

(* The callback has configured its timer. *)
LEMMA EndUpdated ==
  ASSUME IndInv, NEW l \in Lcores, CallbackEnd(l), mgr[l].updated
  PROVE  IndInv'
<1> DEFINE m == [mgr[l] EXCEPT !.pc = "next"]
<1>1. UNCHANGED <<timer, lock, call>> /\ mgr' = [mgr EXCEPT ![l] = m]
  BY DEF CallbackEnd
<1>2. /\ mgr[l].pc = "callback" /\ call[l].pc = "idle" /\ ~call[l].locked /\ ~Working(l)
      /\ Ready(l) = Range(mgr[l].run) /\ Waiting(l) = {} /\ Current(l) = {}
      /\ UNCHANGED <<time, list, first, calls>>
      /\ TypeOK /\ CallOK(l) /\ MgrOK(l) /\ LinkOK(l) /\ OrderOK(l)
  BY AfterCallback
<1>3. m \in MgrSet /\ m.pc = "next" /\ m.now = mgr[l].now /\ m.run = mgr[l].run
  BY <1>2 DEF TypeOK, MgrSet
<1> HIDE DEF m
<1>4. mgr' \in [Lcores -> MgrSet] /\ mgr'[l] = m /\ \A k \in Lcores \ {l} : mgr'[k] = mgr[k]
  BY <1>1, <1>2, <1>3 DEF TypeOK
<1>5. TypeOK'
  BY <1>1, <1>2, <1>4 DEF TypeOK
<1>6. CallOK(l)' /\ MgrOK(l)'
  BY <1>1, <1>2, <1>3, <1>4 DEF CallOK, Working, MgrOK
<1>7. Ready(l)' = Range(mgr[l].run) /\ Waiting(l)' = {} /\ Current(l)' = {}
  BY <1>3, <1>4 DEF Ready, Waiting, Current
<1>8. IsInjective(mgr'[l].run) /\ first'[l] = FirstOf(list[l], timer)
  BY <1>2, <1>3, <1>4 DEF LinkOK, OrderOK
<1> QED BY <1>1, <1>2, <1>3, <1>4, <1>5, <1>6, <1>7, <1>8, QuietStep

(* The timer stops, or is pending again while its reload is called. *)
LEMMA EndOwn ==
  ASSUME IndInv, NEW l \in Lcores, CallbackEnd(l), ~mgr[l].updated,
         NEW t, t = mgr[l].running, NEW x \in TimerSet, timer' = [timer EXCEPT ![t] = x],
         x.expire = timer[t].expire, x.state \in {"STOP", "PENDING"}, x.state # "STOP" => x.owner = l,
         NEW pc \in {"next", "reload"}, mgr' = [mgr EXCEPT ![l].pc = pc],
         call' \in [Lcores -> CallSet], lock' \in [Lcores -> Lcores \cup {NoOne}],
         \A k \in Lcores \ {l} : call'[k] = call[k] /\ lock'[k] = lock[k],
         lock'[l] = IF pc = "reload" THEN l ELSE NoOne,
         pc = "next" => call'[l] = call[l],
         pc = "reload" => call'[l].pc = "config" /\ call'[l].tim = t /\ call'[l].op = "reset"
                          /\ call'[l].locked /\ call'[l].target \in Lcores
  PROVE  IndInv'
<1> DEFINE m == [mgr[l] EXCEPT !.pc = pc]
<1>1. mgr' = [mgr EXCEPT ![l] = m]
  OBVIOUS
<1>2. /\ mgr[l].pc = "callback" /\ call[l].pc = "idle" /\ ~call[l].locked /\ ~Working(l)
      /\ t \in Timers /\ t \notin Range(mgr[l].run)
      /\ Ready(l) = Range(mgr[l].run) /\ Waiting(l) = {} /\ Current(l) = {t} /\ Runs(t, l)
      /\ UNCHANGED <<time, list, first, calls>>
      /\ TypeOK /\ CallOK(l) /\ MgrOK(l) /\ LinkOK(l) /\ OrderOK(l)
  BY AfterCallback
<1>3. /\ m \in MgrSet /\ m.pc = pc /\ m.now = mgr[l].now /\ m.run = mgr[l].run
      /\ m.running = mgr[l].running
  <2>1. mgr[l] \in MgrSet
    BY <1>2 DEF TypeOK
  <2> QED BY <2>1 DEF MgrSet
<1> HIDE DEF m
<1>4. mgr' \in [Lcores -> MgrSet] /\ mgr'[l] = m /\ \A k \in Lcores \ {l} : mgr'[k] = mgr[k]
  BY <1>1, <1>2, <1>3 DEF TypeOK
<1>5. /\ timer' \in [Timers -> TimerSet] /\ timer'[t] = x
      /\ \A u \in Timers \ {t} : timer'[u] = timer[u]
  BY <1>2 DEF TypeOK
<1>6. TypeOK'
  BY <1>2, <1>4, <1>5 DEF TypeOK
<1>7. CallOK(l)'
  <2>1. CASE pc = "next"
    BY <1>2, <1>3, <1>4, <2>1 DEF CallOK, Working
  <2>2. CASE pc = "reload"
    BY <1>2, <1>3, <1>4, <2>2 DEF CallOK, Working
  <2> QED BY <2>1, <2>2
<1>8. MgrOK(l)'
  BY <1>2, <1>3, <1>4 DEF MgrOK
<1>9. Ready(l)' = Range(mgr[l].run) /\ Waiting(l)' = {} /\ Current(l)' = {}
  BY <1>3, <1>4 DEF Ready, Waiting, Current
<1>10. StepOf(l, t)
  BY <1>2, <1>4, <1>5, <1>9 DEF StepOf, Runs
<1>11. StatusOK(t)'
  BY <1>5 DEF StatusOK
<1>12. \A k \in Lcores : ~OnList(t, k)
  BY <1>2 DEF OnList, Runs
<1>13. LinkOK(l)'
  <2>1. /\ IsInjective(list'[l]) /\ IsInjective(mgr'[l].run)
        /\ (Range(list[l]) \cap Waiting(l))' = {}
    BY <1>2, <1>3, <1>4, <1>9 DEF LinkOK
  <2>2. (Range(list[l]) \cup Waiting(l) \cup Ready(l) \cup Current(l))' \subseteq Timers
    BY <1>6, <1>8, AllTimersNext
  <2>3. /\ (Range(list[l]) \cup Waiting(l))' \ {t} \subseteq Range(list[l]) \cup Waiting(l)
        /\ (Ready(l) \cup Current(l))' \ {t} \subseteq Ready(l) \cup Current(l)
        /\ t \notin (Ready(l) \cup Current(l))'
    BY <1>2, <1>9
  <2>4. t \notin (Range(list[l]) \cup Waiting(l))'
    BY <1>2, <1>9, <1>12 DEF LinkOK
  <2>5. \A u \in (Range(mgr[l].run) \cup Current(l))' : timer'[u].expire <= time'
    <3>1. (Range(mgr[l].run) \cup Current(l))' \subseteq Range(mgr[l].run) \cup Current(l)
      BY <1>3, <1>4, <1>9
    <3>2. \A u \in Timers : timer'[u].expire = timer[u].expire
      BY <1>5
    <3>3. Range(mgr[l].run) \cup Current(l) \subseteq Timers
      BY <1>2, RunParts, AllTimers
    <3> QED BY <1>2, <3>1, <3>2, <3>3 DEF LinkOK
  <2> QED BY <1>10, <2>1, <2>2, <2>3, <2>4, <2>5, LinkOwn
<1>14. timer'[t].expire = timer[t].expire
  BY <1>5
<1> QED BY <1>2, <1>6, <1>7, <1>8, <1>10, <1>11, <1>12, <1>13, <1>14, StatusStep

(* The end of a callback. *)
LEMMA CallbackEndStep ==
  ASSUME IndInv, NEW l \in Lcores, CallbackEnd(l)
  PROVE  IndInv'
<1>1. CASE mgr[l].updated
  BY <1>1, EndUpdated
<1>2. ASSUME ~mgr[l].updated, NEW t, t = mgr[l].running PROVE IndInv'
  <2>1. /\ t \in Timers /\ TypeOK /\ CallOK(l) /\ MgrOK(l) /\ call[l].pc = "idle"
        /\ mgr[l].pc = "callback" /\ timer[t] \in TimerSet
    BY <1>2, AfterCallback DEF TypeOK
  <2>2. lock[l] = NoOne
    BY <2>1 DEF MgrOK
  <2>3. CASE timer[t].period = 0
    <3> DEFINE x == [timer[t] EXCEPT !.state = "STOP", !.owner = NoOne]
    <3>1. /\ timer' = [timer EXCEPT ![t] = x] /\ mgr' = [mgr EXCEPT ![l].pc = "next"]
          /\ UNCHANGED <<lock, call>>
      BY <1>2, <2>3 DEF CallbackEnd, Status
    <3>2. x \in TimerSet /\ x.expire = timer[t].expire /\ x.state = "STOP"
      BY <2>1 DEF TimerSet
    <3> HIDE DEF x
    <3>3. call' \in [Lcores -> CallSet] /\ lock' \in [Lcores -> Lcores \cup {NoOne}]
      BY <2>1, <3>1 DEF TypeOK
    <3> QED BY <1>2, <2>2, <3>1, <3>2, <3>3, EndOwn
  <2>4. CASE timer[t].period # 0
    <3> DEFINE x == [timer[t] EXCEPT !.state = "PENDING", !.owner = l]
               c == [NoCall EXCEPT !.pc = "config", !.op = "reset", !.tim = t, !.target = l,
                            !.expire = timer[t].expire + timer[t].period,
                            !.period = timer[t].period, !.locked = TRUE]
    <3>1. /\ timer' = [timer EXCEPT ![t] = x] /\ mgr' = [mgr EXCEPT ![l].pc = "reload"]
          /\ lock' = [lock EXCEPT ![l] = l] /\ call' = [call EXCEPT ![l] = c]
      BY <1>2, <2>4 DEF CallbackEnd, Status
    <3>2. x \in TimerSet /\ x.expire = timer[t].expire /\ x.state = "PENDING" /\ x.owner = l
      BY <2>1 DEF TimerSet
    <3>3. timer[t].expire + timer[t].period \in Nat /\ timer[t].period \in Nat
      BY <2>1 DEF TimerSet
    <3>4. /\ c \in CallSet /\ c.pc = "config" /\ c.tim = t /\ c.op = "reset" /\ c.locked
          /\ c.target = l
      BY <2>1, <3>3 DEF NoCall, CallSet
    <3> HIDE DEF x, c
    <3>5. /\ call' \in [Lcores -> CallSet] /\ lock' \in [Lcores -> Lcores \cup {NoOne}]
          /\ call'[l] = c /\ lock'[l] = l
          /\ \A k \in Lcores \ {l} : call'[k] = call[k] /\ lock'[k] = lock[k]
      BY <2>1, <3>1, <3>4 DEF TypeOK
    <3> QED BY <1>2, <3>1, <3>2, <3>4, <3>5, EndOwn
  <2> QED BY <2>3, <2>4
<1> QED BY <1>1, <1>2

-----------------------------------------------------------------------------
(* The steps that change a list. *)

(* No manager cuts a list while a call has its lock. *)
LEMMA LockedList ==
  ASSUME IndInv, NEW l \in Lcores, NEW o \in Lcores, MayLock(l, o)
  PROVE  mgr[o].pc # "mark" /\ Waiting(o) = {}
<1>1. MgrOK(o) /\ CallOK(l) /\ NoOne \notin Lcores
  BY TimerAssumption DEF IndInv
<1>2. mgr[o].pc # "mark"
  BY <1>1 DEF MayLock, MgrOK, CallOK
<1> QED BY <1>2 DEF Waiting

(* timer_del *)
LEMMA DeleteStep ==
  ASSUME IndInv, NEW l \in Lcores, Delete(l), NEW t \in Timers, call[l].tim = t,
         NEW o \in Lcores, call[l].owner = o
  PROVE  IndInv'
<1> DEFINE s == list[o]
           rest == RemoveFirst(s, t)
           pc == IF call[l].op = "stop" THEN "done" ELSE "add"
           c == [call[l] EXCEPT !.pc = pc]
<1>1. /\ UNCHANGED <<time, timer, lock, mgr, calls>> /\ call[l].pc = "del" /\ MayLock(l, o)
      /\ TypeOK /\ CallOK(l) /\ MgrOK(l) /\ LinkOK(l) /\ LinkOK(o) /\ OrderOK(o) /\ Working(l)
      /\ list' = [list EXCEPT ![o] = rest] /\ call' = [call EXCEPT ![l] = c]
      /\ first' = IF s # << >> /\ s[1] = t THEN [first EXCEPT ![o] = FirstOf(rest, timer)] ELSE first
  BY DEF Delete, IndInv, Working
<1>2. timer[t].state = "CONFIG" /\ timer[t].owner = l
  BY <1>1 DEF CallOK
<1>3. s \in Seq(Timers) /\ IsInjective(s) /\ Sorted(s, timer)
  BY <1>1 DEF TypeOK, LinkOK, OrderOK
<1>4. /\ rest \in Seq(Timers) /\ IsInjective(rest) /\ Sorted(rest, timer)
      /\ Range(rest) = Range(s) \ {t}
      /\ s # << >> /\ s[1] # t => rest # << >> /\ rest[1] = s[1]
      /\ s = << >> => rest = << >>
  BY <1>3, Removed
<1> HIDE DEF rest
<1>5. mgr[o].pc # "mark" /\ Waiting(o) = {}
  BY <1>1, LockedList
<1>6. pc \in {"done", "add"} /\ (pc = "done" => call[l].op = "stop")
      /\ (pc = "add" => call[l].op = "reset")
  BY <1>1 DEF TypeOK, CallSet
<1> HIDE DEF pc
<1>7. /\ c \in CallSet /\ c.pc = pc /\ c.tim = t /\ c.op = call[l].op /\ c.target = call[l].target
      /\ c.locked = call[l].locked
  <2>1. call[l] \in CallSet
    BY <1>1 DEF TypeOK
  <2> QED BY <1>6, <2>1 DEF CallSet
<1> HIDE DEF c
<1>8. /\ call' \in [Lcores -> CallSet] /\ call'[l] = c
      /\ \A k \in Lcores \ {l} : call'[k] = call[k]
  BY <1>1, <1>7 DEF TypeOK
<1>9. /\ list' \in [Lcores -> Seq(Timers)] /\ list'[o] = rest
      /\ \A k \in Lcores \ {o} : list'[k] = list[k]
  BY <1>1, <1>4 DEF TypeOK
<1>10. /\ first' \in [Lcores -> Nat] /\ first'[o] = FirstOf(rest, timer)
       /\ \A k \in Lcores \ {o} : first'[k] = first[k]
  <2>1. first \in [Lcores -> Nat] /\ first[o] = FirstOf(s, timer)
    BY <1>1, <1>5 DEF TypeOK, OrderOK
  <2>2. CASE s # << >> /\ s[1] = t
    <3>1. FirstOf(rest, timer) \in Nat
      <4>1. timer \in [Timers -> TimerSet]
        BY <1>1 DEF TypeOK
      <4>2. CASE rest = << >>
        BY <4>2 DEF FirstOf
      <4>3. CASE rest # << >>
        <5>1. Len(rest) \in Nat /\ Len(rest) # 0
          BY <1>4, <4>3, EmptyLen, SeqFun
        <5>2. 1 \in 1..Len(rest)
          BY <5>1
        <5>3. rest[1] \in Timers
          BY <1>4, <5>2, SeqFun
        <5> QED BY <4>1, <4>3, <5>3 DEF FirstOf, TimerSet
      <4> QED BY <4>2, <4>3
    <3>2. first' = [first EXCEPT ![o] = FirstOf(rest, timer)]
      BY <1>1, <2>2
    <3> QED BY <2>1, <3>1, <3>2
  <2>3. CASE s # << >> /\ s[1] # t
    BY <1>1, <1>4, <2>1, <2>3 DEF FirstOf
  <2>4. CASE s = << >>
    BY <1>1, <1>4, <2>1, <2>4 DEF FirstOf
  <2> QED BY <2>2, <2>3, <2>4
<1>11. TypeOK'
  BY <1>1, <1>8, <1>9, <1>10 DEF TypeOK
<1>12. /\ \A k \in Lcores : Ready(k)' = Ready(k) /\ Waiting(k)' = Waiting(k)
                            /\ Current(k)' = Current(k)
  BY <1>1 DEF Ready, Waiting, Current
<1>13. StepOf(l, t)
  BY <1>1, <1>2, <1>8, <1>12 DEF StepOf
<1>14. Working(l)' /\ CallOK(l)' /\ MgrOK(l)' /\ StatusOK(t)'
  <2>1. Working(l)' /\ call'[l].tim = t
    BY <1>6, <1>7, <1>8 DEF Working
  <2>2. CallOK(l)'
    BY <1>1, <1>2, <1>6, <1>7, <1>8, <2>1 DEF CallOK
  <2>3. StatusOK(t)'
    BY <1>1, <1>2, <2>1 DEF StatusOK
  <2>4. MgrOK(l)'
    BY <1>1 DEF MgrOK
  <2> QED BY <2>1, <2>2, <2>3, <2>4
<1>15. ASSUME NEW k \in Lcores
       PROVE  /\ t \notin Range(list'[k]) /\ t \notin Waiting(k) /\ IsInjective(list'[k])
              /\ Range(list'[k]) \subseteq Range(list[k])
  <2>1. LinkOK(k)
    BY DEF IndInv
  <2>2. CASE k = o
    BY <1>4, <1>5, <1>9, <2>2
  <2>3. CASE k # o
    <3>1. ~OnList(t, k)
      BY <1>1, <1>2, <2>3 DEF OnList
    <3>2. list'[k] = list[k]
      BY <1>9, <2>3
    <3> QED BY <2>1, <3>1, <3>2 DEF LinkOK
  <2> QED BY <2>2, <2>3
<1>16. LinkOK(l)'
  <2>1. (Range(list[l]) \cup Waiting(l) \cup Ready(l) \cup Current(l))' \subseteq Timers
    BY <1>11, <1>14, AllTimersNext
  <2>2. (Range(list[l]) \cap Waiting(l))' = {} /\ IsInjective(mgr'[l].run)
    BY <1>1, <1>12, <1>15 DEF LinkOK
  <2>3. /\ (Range(list[l]) \cup Waiting(l))' \ {t} \subseteq Range(list[l]) \cup Waiting(l)
        /\ t \notin (Range(list[l]) \cup Waiting(l))'
    BY <1>12, <1>15
  <2>4. (Ready(l) \cup Current(l))' = Ready(l) \cup Current(l) /\ t \notin Ready(l) \cup Current(l)
    BY <1>1, <1>2, <1>12 DEF LinkOK, Runs
  <2>5. \A u \in (Range(mgr[l].run) \cup Current(l))' : timer'[u].expire <= time'
    BY <1>1, <1>12 DEF LinkOK
  <2> QED BY <1>13, <1>15, <2>1, <2>2, <2>3, <2>4, <2>5, LinkOwn
<1>17. ASSUME NEW k \in Lcores \ {l} PROVE LinkOK(k)'
  <2>1. Range(list'[k]) \subseteq Timers
    BY <1>9, SeqFun
  <2> QED BY <1>1, <1>13, <1>15, <2>1, LinkFrame
<1>18. ASSUME NEW k \in Lcores PROVE OrderOK(k)'
  <2>1. CASE k = o
    BY <1>1, <1>4, <1>9, <1>10, <2>1 DEF OrderOK
  <2>2. CASE k # o
    BY <1>1, <1>9, <1>10, <2>2, OrderFrame
  <2> QED BY <2>1, <2>2
<1> QED BY <1>11, <1>13, <1>14, <1>16, <1>17, <1>18, Assembled

(* timer_add *)
LEMMA AddStep ==
  ASSUME IndInv, NEW l \in Lcores, Add(l), NEW t \in Timers, call[l].tim = t,
         NEW o \in Lcores, call[l].target = o
  PROVE  IndInv'
<1> DEFINE s == list[o]
           e == call[l].expire
           new == InsertAt(s, Place(s, e), t)
           x == [timer[t] EXCEPT !.expire = e, !.period = call[l].period]
           c == [call[l] EXCEPT !.pc = "done"]
<1>1. /\ UNCHANGED <<time, lock, mgr, calls>> /\ call[l].pc = "add" /\ MayLock(l, o)
      /\ TypeOK /\ CallOK(l) /\ MgrOK(l) /\ LinkOK(l) /\ LinkOK(o) /\ OrderOK(o) /\ Working(l)
      /\ list' = [list EXCEPT ![o] = new] /\ call' = [call EXCEPT ![l] = c]
      /\ timer' = [timer EXCEPT ![t] = x]
      /\ first' = [first EXCEPT ![o] = FirstOf(new, timer')]
  BY DEF Add, IndInv, Working
<1>2. timer[t].state = "CONFIG" /\ timer[t].owner = l /\ call[l].op = "reset"
  BY <1>1 DEF CallOK
<1>3. s \in Seq(Timers) /\ IsInjective(s) /\ Sorted(s, timer) /\ e \in Nat /\ call[l].period \in Nat
  BY <1>1 DEF TypeOK, CallSet, LinkOK, OrderOK
<1>4. \A k \in Lcores : ~OnList(t, k)
  BY <1>1, <1>2 DEF OnList
<1>5. \A k \in Lcores : t \notin Range(list[k]) /\ t \notin Waiting(k) /\ t \notin Ready(k)
                        /\ t \notin Current(k)
  <2>1. ASSUME NEW k \in Lcores
        PROVE  t \notin Range(list[k]) /\ t \notin Waiting(k) /\ t \notin Ready(k) \cup Current(k)
    <3>1. LinkOK(k)
      BY DEF IndInv
    <3>2. ~Runs(t, k)
      BY <1>2 DEF Runs
    <3> QED BY <1>4, <3>1, <3>2 DEF LinkOK
  <2> QED BY <2>1
<1>6. /\ x \in TimerSet /\ x.state = "CONFIG" /\ x.owner = l /\ x.expire = e
  <2>1. timer[t] \in TimerSet
    BY <1>1 DEF TypeOK
  <2> HIDE DEF e
  <2> QED BY <1>2, <1>3, <2>1 DEF TimerSet
<1>7. /\ c \in CallSet /\ c.pc = "done" /\ c.tim = t /\ c.op = "reset" /\ c.target = o
      /\ c.locked = call[l].locked
  <2>1. call[l] \in CallSet
    BY <1>1 DEF TypeOK
  <2> QED BY <1>2, <2>1 DEF CallSet
<1> HIDE DEF x, c
<1>8. /\ call' \in [Lcores -> CallSet] /\ call'[l] = c
      /\ \A k \in Lcores \ {l} : call'[k] = call[k]
  BY <1>1, <1>7 DEF TypeOK
<1>9. /\ timer' \in [Timers -> TimerSet] /\ timer'[t] = x
      /\ \A u \in Timers \ {t} : timer'[u] = timer[u]
  BY <1>1, <1>6 DEF TypeOK
<1>10. /\ new \in Seq(Timers) /\ IsInjective(new) /\ Sorted(new, timer')
       /\ Range(new) = Range(s) \cup {t} /\ new # << >>
  <2>1. timer'[t].expire = e /\ \A u \in Timers : u # t => timer'[u].expire = timer[u].expire
    BY <1>6, <1>9
  <2>2. t \notin Range(s)
    BY <1>5
  <2>3. new = InsertAt(s, Place(s, e), t) /\ TypeOK
    BY <1>1
  <2>4. IsInjective(s) /\ Sorted(s, timer) /\ s \in Seq(Timers) /\ e \in Nat
    BY <1>3
  <2> HIDE DEF s, e, new
  <2>5. ASSUME NEW tm, tm[t].expire = e, \A u \in Timers : u # t => tm[u].expire = timer[u].expire
        PROVE  /\ new \in Seq(Timers) /\ IsInjective(new) /\ Sorted(new, tm)
               /\ Range(new) = Range(s) \cup {t} /\ new # << >>
    BY <2>2, <2>3, <2>4, <2>5, Inserted
  <2> QED BY <2>1, <2>5
<1> HIDE DEF new
<1>11. mgr[o].pc # "mark" /\ Waiting(o) = {}
  BY <1>1, LockedList
<1>12. /\ list' \in [Lcores -> Seq(Timers)] /\ list'[o] = new
       /\ \A k \in Lcores \ {o} : list'[k] = list[k]
  BY <1>1, <1>10 DEF TypeOK
<1>13. FirstOf(new, timer') \in Nat
  <2>1. Len(new) \in Nat /\ Len(new) # 0
    BY <1>10, EmptyLen, SeqFun
  <2>2. 1 \in 1..Len(new)
    BY <2>1
  <2>3. new[1] \in Timers
    BY <1>10, <2>2, SeqFun
  <2> QED BY <1>9, <1>10, <2>3 DEF FirstOf, TimerSet
<1>14. /\ first' \in [Lcores -> Nat] /\ first'[o] = FirstOf(new, timer')
       /\ \A k \in Lcores \ {o} : first'[k] = first[k]
  BY <1>1, <1>13 DEF TypeOK
<1>15. TypeOK'
  BY <1>1, <1>8, <1>9, <1>12, <1>14 DEF TypeOK
<1>16. \A k \in Lcores : Ready(k)' = Ready(k) /\ Waiting(k)' = Waiting(k) /\ Current(k)' = Current(k)
  BY <1>1 DEF Ready, Waiting, Current
<1>17. StepOf(l, t)
  BY <1>1, <1>2, <1>8, <1>9, <1>16 DEF StepOf
<1>18. Working(l)' /\ CallOK(l)' /\ MgrOK(l)' /\ StatusOK(t)' /\ OnList(t, o)'
  <2>1. Working(l)' /\ call'[l].tim = t
    BY <1>7, <1>8 DEF Working
  <2>2. CallOK(l)'
    BY <1>1, <1>6, <1>7, <1>8, <1>9, <2>1 DEF CallOK
  <2>3. StatusOK(t)'
    BY <1>6, <1>9, <2>1 DEF StatusOK
  <2>4. MgrOK(l)'
    BY <1>1 DEF MgrOK
  <2>5. OnList(t, o)'
    BY <1>6, <1>7, <1>8, <1>9 DEF OnList
  <2> QED BY <2>1, <2>2, <2>3, <2>4, <2>5
<1>19. ASSUME NEW k \in Lcores
       PROVE  /\ IsInjective(list'[k]) /\ Range(list'[k]) \ {t} \subseteq Range(list[k])
              /\ t \in Range(list'[k]) => OnList(t, k)'
  <2>1. CASE k = o
    BY <1>10, <1>12, <1>18, <2>1
  <2>2. CASE k # o
    <3>1. list'[k] = list[k] /\ LinkOK(k)
      BY <1>12, <2>2 DEF IndInv
    <3> QED BY <1>5, <3>1 DEF LinkOK
  <2> QED BY <2>1, <2>2
<1>20. LinkOK(l)'
  <2>1. (Range(list[l]) \cup Waiting(l) \cup Ready(l) \cup Current(l))' \subseteq Timers
    BY <1>15, <1>18, AllTimersNext
  <2>2. (Range(list[l]) \cap Waiting(l))' = {} /\ IsInjective(mgr'[l].run)
    <3>1. Range(list[l]) \cap Waiting(l) = {} /\ IsInjective(mgr[l].run)
      BY <1>1 DEF LinkOK
    <3> QED BY <1>1, <1>5, <1>16, <1>19, <3>1
  <2>3. /\ (Range(list[l]) \cup Waiting(l))' \ {t} \subseteq Range(list[l]) \cup Waiting(l)
        /\ t \in (Range(list[l]) \cup Waiting(l))' => OnList(t, l)'
    BY <1>5, <1>16, <1>19
  <2>4. (Ready(l) \cup Current(l))' = Ready(l) \cup Current(l) /\ t \notin Ready(l) \cup Current(l)
    BY <1>5, <1>16
  <2>5. \A u \in (Range(mgr[l].run) \cup Current(l))' : timer'[u].expire <= time'
    <3>1. (Range(mgr[l].run) \cup Current(l))' = Range(mgr[l].run) \cup Current(l)
      BY <1>1, <1>16
    <3>2. Range(mgr[l].run) = Ready(l) \cup Waiting(l)
      BY <1>1, RunParts
    <3>3. Range(mgr[l].run) \cup Current(l) \subseteq Timers \ {t}
      BY <1>1, <1>5, <3>2, AllTimers
    <3> QED BY <1>1, <1>9, <3>1, <3>3 DEF LinkOK
  <2> QED BY <1>17, <1>19, <2>1, <2>2, <2>3, <2>4, <2>5, LinkOwn
<1>21. ASSUME NEW k \in Lcores \ {l} PROVE LinkOK(k)'
  <2>1. Range(list'[k]) \subseteq Timers
    BY <1>12, SeqFun
  <2>2. t \notin Range(mgr[k].run)
    <3>1. TypeOK /\ MgrOK(k) /\ k \in Lcores
      BY DEF IndInv
    <3>2. Range(mgr[k].run) = Ready(k) \cup Waiting(k)
      BY <3>1, RunParts
    <3> QED BY <1>5, <3>2
  <2> QED BY <1>5, <1>17, <1>19, <2>1, <2>2, LinkFrame
<1>22. ASSUME NEW k \in Lcores PROVE OrderOK(k)'
  <2>1. CASE k = o
    BY <1>10, <1>12, <1>14, <2>1 DEF OrderOK
  <2>2. CASE k # o
    <3>1. Range(list[k]) \subseteq Timers \ {t}
      BY <1>1, <1>5, SeqFun DEF TypeOK
    <3>2. \A u \in Range(list[k]) : timer'[u].expire = timer[u].expire
      BY <1>9, <3>1
    <3> QED BY <1>1, <1>12, <1>14, <2>2, <3>2, OrderFrame
  <2> QED BY <2>1, <2>2
<1> QED BY <1>15, <1>17, <1>18, <1>20, <1>21, <1>22, Assembled

(* The list is broken at the time that rte_timer_manage has read. *)
LEMMA ManageCutStep ==
  ASSUME IndInv, NEW l \in Lcores, ManageCut(l)
  PROVE  IndInv'
<1> DEFINE n == Expired(l)
           r == SubSeq(list[l], 1, n)
           s == Unexpired(l, n)
           m == [mgr[l] EXCEPT !.pc = "mark", !.run = r]
<1>1. /\ UNCHANGED <<time, timer, first, call, calls>> /\ mgr[l].pc = "cut" /\ lock[l] = NoOne
      /\ TypeOK /\ CallOK(l) /\ MgrOK(l) /\ LinkOK(l) /\ OrderOK(l)
      /\ IsInjective(list[l]) /\ Sorted(list[l], timer) /\ NoOne \notin Timers
  BY TimerAssumption DEF ManageCut, IndInv, LinkOK, OrderOK
<1>2. mgr[l].run = << >> /\ mgr[l].i = 1 /\ mgr[l] \in MgrSet
  BY <1>1 DEF MgrOK, TypeOK
<1>3. CASE n = 0
  <2>1. mgr' = [mgr EXCEPT ![l] = NoMgr] /\ UNCHANGED <<list, lock>>
    BY <1>3 DEF ManageCut
  <2> QED BY <1>1, <1>2, <2>1, ManageOut
<1>4. CASE n # 0
  <2>1. /\ mgr' = [mgr EXCEPT ![l] = m] /\ list' = [list EXCEPT ![l] = s]
        /\ lock' = [lock EXCEPT ![l] = l]
    BY <1>4 DEF ManageCut
  <2>2. /\ n \in 0..Len(list[l]) /\ Len(r) = n
        /\ r \in Seq(Timers) /\ IsInjective(r)
        /\ s \in Seq(Timers) /\ IsInjective(s) /\ Sorted(s, timer)
        /\ Range(r) \cup Range(s) = Range(list[l]) /\ Range(r) \cap Range(s) = {}
        /\ \A t \in Range(r) : timer[t].expire <= mgr[l].now
    BY <1>1, CutList
  <2> HIDE DEF r, s, n
  <2>3. m \in MgrSet /\ m.pc = "mark" /\ m.now = mgr[l].now /\ m.run = r /\ m.i = 1
    BY <1>2, <2>2 DEF MgrSet
  <2> HIDE DEF m
  <2>4. /\ mgr' \in [Lcores -> MgrSet] /\ mgr'[l] = m
        /\ list' \in [Lcores -> Seq(Timers)] /\ list'[l] = s
        /\ lock' \in [Lcores -> Lcores \cup {NoOne}] /\ lock'[l] = l
        /\ \A k \in Lcores \ {l} : mgr'[k] = mgr[k] /\ list'[k] = list[k] /\ lock'[k] = lock[k]
    BY <1>1, <2>1, <2>2, <2>3 DEF TypeOK
  <2>5. TypeOK'
    BY <1>1, <2>4 DEF TypeOK
  <2>6. ~Working(l) /\ call[l].pc = "idle" /\ ~call[l].locked
    BY <1>1, ManagerIdle
  <2>7. CallOK(l)'
    BY <1>1, <2>3, <2>4, <2>6 DEF CallOK, Working
  <2>8. MgrOK(l)'
    <3>1. Len(r) \in Nat
      BY <2>2, SeqFun
    <3>2. 1 \in 1..Len(r) + 1
      BY <3>1
    <3> QED BY <1>1, <2>3, <2>4, <3>2 DEF MgrOK
  <2>9. /\ Ready(l) = {} /\ Waiting(l) = {} /\ Current(l) = {}
        /\ Ready(l)' = {} /\ Waiting(l)' = Range(r) /\ Current(l)' = {}
    <3>1. Ready(l) = {} /\ Waiting(l) = {} /\ Current(l) = {}
      BY <1>1, <1>2, NoTimers DEF Ready, Waiting, Current
    <3>2. \A j \in 1..1 - 1 : FALSE
      OBVIOUS
    <3>3. Ready(l)' = {r[j] : j \in 1..1 - 1}
      BY <2>3, <2>4 DEF Ready
    <3>4. Ready(l)' = {}
      BY <3>2, <3>3
    <3>5. Waiting(l)' = {r[j] : j \in 1..Len(r)} /\ Current(l)' = {}
      BY <2>3, <2>4 DEF Waiting, Current
    <3> QED BY <2>2, <3>1, <3>4, <3>5, SeqFun
  <2>10. StepOf(l, NoOne)
    BY <1>1, <2>4, <2>6, <2>9 DEF StepOf
  <2>11. LinkOK(l)'
    <3>1. (Range(list[l]) \cup Waiting(l) \cup Ready(l) \cup Current(l))' \subseteq Timers
      BY <2>5, <2>8, AllTimersNext
    <3>2. /\ IsInjective(list'[l]) /\ IsInjective(mgr'[l].run)
          /\ (Range(list[l]) \cap Waiting(l))' = {}
      BY <2>2, <2>3, <2>4, <2>9
    <3>3. /\ (Range(list[l]) \cup Waiting(l))' \ {NoOne} \subseteq Range(list[l]) \cup Waiting(l)
          /\ (Ready(l) \cup Current(l))' \ {NoOne} \subseteq Ready(l) \cup Current(l)
      BY <2>2, <2>4, <2>9
    <3>4. NoOne \notin (Range(list[l]) \cup Waiting(l))' /\ NoOne \notin (Ready(l) \cup Current(l))'
      BY <1>1, <3>1
    <3>5. ASSUME NEW u \in (Range(mgr[l].run) \cup Current(l))' PROVE timer'[u].expire <= time'
      <4>1. u \in Range(r)
        BY <2>3, <2>4, <2>9
      <4>2. u \in Timers /\ timer[u].expire <= mgr[l].now
        BY <2>2, <4>1, SeqFun
      <4>3. timer[u].expire \in Nat /\ mgr[l].now \in Nat /\ time \in Nat /\ mgr[l].now <= time
        BY <1>1, <4>2 DEF TypeOK, TimerSet, MgrSet, MgrOK
      <4>4. timer[u].expire <= time
        BY <4>2, <4>3
      <4> QED BY <1>1, <4>4
    <3> QED BY <2>10, <3>1, <3>2, <3>3, <3>4, <3>5, LinkOwn
  <2>12. ASSUME NEW k \in Lcores \ {l} PROVE LinkOK(k)'
    <3>1. k \in Lcores /\ list'[k] = list[k] /\ LinkOK(k) /\ MgrOK(k)
      BY <2>4 DEF IndInv
    <3>2. Range(list[k]) \cup Waiting(k) \cup Ready(k) \cup Current(k) \subseteq Timers
      BY <1>1, <3>1, AllTimers
    <3>3. NoOne \notin Range(list[k]) /\ NoOne \notin Waiting(k) /\ NoOne \notin Range(mgr[k].run)
      BY <1>1, <3>1, <3>2, RunParts
    <3> QED BY <2>10, <3>1, <3>2, <3>3, LinkFrame DEF LinkOK
  <2>13. ASSUME NEW k \in Lcores PROVE OrderOK(k)'
    <3>1. CASE k = l
      BY <1>1, <2>2, <2>3, <2>4, <3>1 DEF OrderOK
    <3>2. CASE k # l
      BY <1>1, <2>4, <3>2, OrderFrame
    <3> QED BY <3>1, <3>2
  <2> QED BY <1>1, <2>5, <2>7, <2>8, <2>10, <2>11, <2>12, <2>13, Assembled
<1> QED BY <1>3, <1>4

-----------------------------------------------------------------------------
(* The invariant holds when the subsystem has been initialised. *)
LEMMA InitInv == Init => IndInv
<1> SUFFICES ASSUME Init PROVE IndInv
  OBVIOUS
<1>1. NoCall \in CallSet /\ NoMgr \in MgrSet
  BY NoTimers DEF NoCall, CallSet, NoMgr, MgrSet
<1>2. TypeOK
  <2>1. timer \in [Timers -> TimerSet]
    BY DEF Init, TimerSet
  <2>2. list \in [Lcores -> Seq(Timers)]
    BY NoTimers DEF Init
  <2> QED BY <1>1, <2>1, <2>2 DEF Init, TypeOK
<1>3. ASSUME NEW l \in Lcores PROVE CallOK(l) /\ MgrOK(l) /\ LinkOK(l) /\ OrderOK(l)
  <2>1. /\ list[l] = << >> /\ first[l] = 0 /\ lock[l] = NoOne /\ call[l] = NoCall /\ mgr[l] = NoMgr
        /\ time = 1
    BY DEF Init
  <2>2. /\ mgr[l].pc = "out" /\ mgr[l].now = 0 /\ mgr[l].run = << >> /\ mgr[l].i = 1
        /\ call[l].pc = "idle" /\ call[l].locked = FALSE
    BY <2>1 DEF NoMgr, NoCall
  <2>3. CallOK(l)
    BY <2>2 DEF CallOK, Working
  <2>4. MgrOK(l)
    BY <2>1, <2>2 DEF MgrOK
  <2>5. Ready(l) = {} /\ Waiting(l) = {} /\ Current(l) = {}
    BY <2>2, NoTimers DEF Ready, Waiting, Current
  <2>6. LinkOK(l)
    BY <2>1, <2>2, <2>5, NoTimers DEF LinkOK
  <2>7. Sorted(<< >>, timer)
    <3>1. \A i \in 1..0 : FALSE
      OBVIOUS
    <3> QED BY <3>1, NoTimers DEF Sorted
  <2>8. OrderOK(l)
    BY <2>1, <2>7 DEF OrderOK, FirstOf
  <2> QED BY <2>3, <2>4, <2>6, <2>8
<1>4. ASSUME NEW t \in Timers PROVE StatusOK(t)
  <2>1. timer[t].state = "STOP"
    BY DEF Init
  <2> QED BY <2>1 DEF StatusOK
<1> QED BY <1>2, <1>3, <1>4 DEF IndInv

(* The invariant is inductive. *)
LEMMA NextInv == IndInv /\ [Next]_vars => IndInv'
<1> SUFFICES ASSUME IndInv, [Next]_vars PROVE IndInv'
  OBVIOUS
<1>1. CASE Tick
  BY <1>1, TickStep
<1>2. ASSUME NEW l \in Lcores, Begin(l) PROVE IndInv'
  BY <1>2, BeginStep
<1>3. ASSUME NEW l \in Lcores, CallStep(l) PROVE IndInv'
  <2>1. PICK t : t = call[l].tim
    OBVIOUS
  <2>2. CASE SetConfig(l)
    <3>1. t \in Timers
      BY <2>1, <2>2 DEF IndInv, CallOK, SetConfig
    <3> QED BY <2>1, <2>2, <3>1, ConfigFails, ConfigTakes
  <2>3. CASE Delete(l)
    <3>1. t \in Timers /\ call[l].owner \in Lcores
      BY <2>1, <2>3 DEF IndInv, CallOK, Delete
    <3> QED BY <2>1, <2>3, <3>1, DeleteStep
  <2>4. CASE Add(l)
    <3>1. t \in Timers /\ call[l].target \in Lcores
      BY <2>1, <2>4 DEF IndInv, CallOK, Add
    <3> QED BY <2>1, <2>4, <3>1, AddStep
  <2>5. CASE Done(l)
    <3>1. t \in Timers
      BY <2>1, <2>5 DEF IndInv, CallOK, Done
    <3> QED BY <2>1, <2>5, <3>1, DoneStep
  <2> QED BY <1>3, <2>2, <2>3, <2>4, <2>5 DEF CallStep
<1>4. ASSUME NEW l \in Lcores, ManageStep(l) PROVE IndInv'
  <2>1. CASE MarkRunning(l)
    BY <2>1, MarkTakes, MarkDrops
  <2>2. CASE ManageEnd(l)
    BY <2>2, ManageOut DEF ManageEnd
  <2> QED BY <1>4, <2>1, <2>2, ManageBegins, ManageCheckStep, ManageCutStep, ManageUnlockStep,
             CallbackStep, CallbackEndStep DEF ManageStep
<1>5. CASE UNCHANGED vars
  <2>1. TypeOK' /\ \A l \in Lcores : CallOK(l)' /\ MgrOK(l)'
    BY <1>5 DEF vars, IndInv, TypeOK, CallOK, Working, MgrOK
  <2>2. \A t \in Timers : StatusOK(t)'
    BY <1>5 DEF vars, IndInv, StatusOK, Working, Ready, Current
  <2>3. ASSUME NEW l \in Lcores PROVE LinkOK(l)' /\ OrderOK(l)'
    <3>1. LinkOK(l)'
      BY <1>5 DEF vars, IndInv, LinkOK, Waiting, Ready, Current, OnList, Runs
    <3>2. OrderOK(l)'
      BY <1>5 DEF vars, IndInv, OrderOK, Sorted, FirstOf
    <3> QED BY <3>1, <3>2
  <2> QED BY <2>1, <2>2, <2>3 DEF IndInv
<1> QED BY <1>1, <1>2, <1>3, <1>4, <1>5 DEF Next

(* Every status has its answer, in every reachable state. *)
THEOREM TimerInvariance == Spec => []IndInv
BY InitInv, NextInv, PTL DEF Spec

-----------------------------------------------------------------------------
(* What the invariant says of the library. *)

(* A timer that an lcore links says so, and no other lcore can link it. *)
LEMMA HeldBy ==
  ASSUME IndInv, NEW l \in Lcores
  PROVE  /\ \A t \in Held(l) : t \in Timers /\ (OnList(t, l) \/ Runs(t, l))
         /\ Range(mgr[l].run) = Ready(l) \cup Waiting(l)
<1>1. TypeOK /\ MgrOK(l) /\ LinkOK(l)
  BY DEF IndInv
<1>2. /\ Range(mgr[l].run) = Ready(l) \cup Waiting(l)
      /\ Range(list[l]) \cup Waiting(l) \cup Ready(l) \cup Current(l) \subseteq Timers
  BY <1>1, RunParts, AllTimers
<1> QED BY <1>1, <1>2 DEF Held, LinkOK

(* The status of a timer names one lcore. *)
LEMMA OnePlaceOnly ==
  ASSUME NEW t, NEW l, NEW k
  PROVE  /\ OnList(t, l) => ~Runs(t, k)
         /\ OnList(t, l) /\ OnList(t, k) => l = k
         /\ Runs(t, l) /\ Runs(t, k) => l = k
BY DEF OnList, Runs

(* LinkedOnce, for any number of lcores and timers: a timer is in one list *)
(* at most, a list of pending timers or the expired ones of a manager, and *)
(* there once, whatever calls the lcores make at the same time.            *)
THEOREM LinkedAtMostOnce == Spec => []LinkedOnce
<1>1. IndInv => LinkedOnce
  <2> SUFFICES ASSUME IndInv, NEW l \in Lcores
               PROVE  /\ IsInjective(list[l]) /\ IsInjective(mgr[l].run)
                      /\ Range(list[l]) \cap Range(mgr[l].run) = {}
                      /\ \A k \in Lcores \ {l} : Held(l) \cap Held(k) = {}
    BY DEF LinkedOnce
  <2>1. LinkOK(l) /\ Range(mgr[l].run) = Ready(l) \cup Waiting(l)
    BY HeldBy DEF IndInv
  <2>2. Range(list[l]) \cap Ready(l) = {}
    BY <2>1, OnePlaceOnly DEF LinkOK
  <2>3. ASSUME NEW k \in Lcores \ {l}, NEW t \in Held(l) \cap Held(k) PROVE FALSE
    BY <2>3, HeldBy, OnePlaceOnly
  <2> QED BY <2>1, <2>2, <2>3 DEF LinkOK
<1> QED BY <1>1, TimerInvariance, PTL

(* RunningOwned: the status RUNNING and the work that is left to           *)
(* rte_timer_manage agree, on every lcore.                                 *)
THEOREM RunningHasOwner == Spec => []RunningOwned
<1>1. IndInv => RunningOwned
  <2> SUFFICES ASSUME IndInv, NEW t \in Timers, NEW l \in Lcores
               PROVE  /\ t \in Ready(l) => Runs(t, l)
                      /\ Runs(t, l) => t \in Ready(l) \/ t = mgr[l].running
    BY DEF RunningOwned
  <2>1. LinkOK(l) /\ StatusOK(t)
    BY DEF IndInv
  <2> QED BY <2>1 DEF LinkOK, StatusOK, Runs, Current
<1> QED BY <1>1, TimerInvariance, PTL

(* ListOrdered: timer_add and timer_del keep every list in order of        *)
(* expiry, and the expiry that the quick check reads is the first one's.   *)
THEOREM ListsInOrder == Spec => []ListOrdered
<1>1. IndInv => ListOrdered
  <2> SUFFICES ASSUME IndInv, NEW l \in Lcores
               PROVE  /\ \A i \in 1..Len(list[l]) - 1 :
                           timer[list[l][i]].expire <= timer[list[l][i + 1]].expire
                      /\ lock[l] = NoOne => first[l] = FirstOf(list[l], timer)
    BY DEF ListOrdered
  <2>1. list[l] \in Seq(Timers) /\ OrderOK(l) /\ MgrOK(l) /\ NoOne \notin Lcores
    BY TimerAssumption DEF IndInv, TypeOK
  <2>2. Len(list[l]) \in Nat
    BY <2>1, SeqFun
  <2>3. ASSUME NEW i \in 1..Len(list[l]) - 1
        PROVE  i \in 1..Len(list[l]) /\ i + 1 \in 1..Len(list[l]) /\ i < i + 1
    BY <2>2
  <2>4. \A i \in 1..Len(list[l]) - 1 : timer[list[l][i]].expire <= timer[list[l][i + 1]].expire
    BY <2>1, <2>3 DEF OrderOK, Sorted
  <2>5. lock[l] = NoOne => mgr[l].pc # "mark"
    BY <2>1 DEF MgrOK
  <2> QED BY <2>1, <2>4, <2>5 DEF OrderOK
<1> QED BY <1>1, TimerInvariance, PTL

(* NeverEarly: no callback runs before the expiry of its timer, although   *)
(* the time that rte_timer_manage compares with was read before the lock.  *)
THEOREM NoEarlyCallback == Spec => []NeverEarly
<1>1. IndInv => NeverEarly
  BY DEF NeverEarly, IndInv, LinkOK, Current
<1> QED BY <1>1, TimerInvariance, PTL

(* StoppedUnreferenced: a timer that rte_timer_stop has stopped is in no   *)
(* list, and a callback that still runs will not touch it again.           *)
THEOREM StopReleases == Spec => []StoppedUnreferenced
<1>1. IndInv => StoppedUnreferenced
  <2> SUFFICES ASSUME IndInv, NEW t \in Timers, timer[t].state = "STOP", NEW l \in Lcores
               PROVE  /\ t \notin Held(l)
                      /\ mgr[l].pc = "callback" /\ mgr[l].running = t => mgr[l].updated
    BY DEF StoppedUnreferenced
  <2>1. ~OnList(t, l) /\ ~Runs(t, l)
    BY DEF OnList, Runs
  <2>2. t \notin Current(l)
    BY <2>1 DEF IndInv, LinkOK
  <2> QED BY <2>1, <2>2, HeldBy DEF Current
<1> QED BY <1>1, TimerInvariance, PTL

(* A call that begins changes nothing but itself. *)
LEMMA BeginKeeps ==
  ASSUME NEW l \in Lcores, Begin(l)
  PROVE  UNCHANGED <<time, timer, list, first, lock, mgr>>
BY DEF Begin

(* The expired timers and the others are those of the list. *)
LEMMA CutKeeps ==
  ASSUME IndInv, NEW l \in Lcores
  PROVE  Range(SubSeq(list[l], 1, Expired(l))) \cup Range(Unexpired(l, Expired(l))) = Range(list[l])
<1> DEFINE n == Expired(l)
           r == SubSeq(list[l], 1, n)
           s == Unexpired(l, n)
<1>1. TypeOK /\ IsInjective(list[l]) /\ Sorted(list[l], timer)
  BY DEF IndInv, LinkOK, OrderOK
<1>2. Range(r) \cup Range(s) = Range(list[l])
  BY <1>1, CutList
<1> QED BY <1>2

(* A timer in a list that no call is to take out stays linked there: when  *)
(* it is cut off it is one of the expired.                                 *)
LEMMA ListKeeps ==
  ASSUME IndInv, [Next]_vars, NEW l \in Lcores, NEW t \in Range(list[l]),
         t \in Timers, \A k \in Lcores : call[k].pc = "del" => call[k].tim # t
  PROVE  t \in Held(l)'
<1>1. /\ TypeOK /\ list[l] \in Seq(Timers) /\ IsInjective(list[l]) /\ Sorted(list[l], timer)
  BY DEF IndInv, TypeOK, LinkOK, OrderOK
<1>2. SUFFICES ASSUME list' # list PROVE t \in Held(l)'
  BY <1>2 DEF Held
<1>3. PICK k \in Lcores : Delete(k) \/ Add(k) \/ ManageCut(k)
  <2>1. ~UNCHANGED vars /\ ~Tick
    BY <1>2 DEF vars, Tick
  <2>2. PICK k \in Lcores : Begin(k) \/ CallStep(k) \/ ManageStep(k)
    BY <2>1 DEF Next
  <2>3. ~Begin(k) /\ ~SetConfig(k) /\ ~Done(k)
    BY <1>2, BeginKeeps DEF SetConfig, Done
  <2>4. ~Manage(k) /\ ~ManageCheck(k) /\ ~MarkRunning(k) /\ ~ManageUnlock(k)
    BY <1>2 DEF Manage, ManageCheck, MarkRunning, ManageUnlock
  <2>5. ~Callback(k) /\ ~ManageEnd(k) /\ ~CallbackEnd(k)
    BY <1>2 DEF Callback, ManageEnd, CallbackEnd
  <2> QED BY <2>2, <2>3, <2>4, <2>5 DEF CallStep, ManageStep
<1>4. CASE Delete(k)
  <2> DEFINE u == call[k].tim
             r == RemoveFirst(list[l], u)
  <2>1. list' = [list EXCEPT ![call[k].owner] = RemoveFirst(list[call[k].owner], u)]
    BY <1>4 DEF Delete
  <2>2. u \in Timers /\ u # t
    BY <1>4 DEF Delete, IndInv, CallOK, Working
  <2>3. Range(r) = Range(list[l]) \ {u}
    BY <1>1, <2>2, Removed
  <2>4. list'[l] = list[l] \/ list'[l] = r
    BY <1>1, <2>1 DEF TypeOK
  <2> HIDE DEF r
  <2>5. t \in Range(list'[l])
    BY <2>2, <2>3, <2>4
  <2> QED BY <2>5 DEF Held
<1>5. CASE Add(k)
  <2>1. PICK u, o, e : u = call[k].tim /\ o = call[k].target /\ e = call[k].expire
    OBVIOUS
  <2> DEFINE r == InsertAt(list[l], Place(list[l], e), u)
             tm == [timer EXCEPT ![u].expire = e]
  <2>2. list' = [list EXCEPT ![o] = InsertAt(list[o], Place(list[o], e), u)]
    BY <1>5, <2>1 DEF Add
  <2>3. u \in Timers /\ e \in Nat /\ timer[u].state = "CONFIG" /\ call[k].pc = "add"
    BY <1>5, <2>1 DEF Add, IndInv, TypeOK, CallSet, CallOK, Working
  <2>4. ~OnList(u, l)
    <3>1. timer[u].owner = k
      BY <2>1, <2>3 DEF IndInv, CallOK, Working
    <3> QED BY <2>3, <3>1 DEF OnList
  <2>5. u \notin Range(list[l])
    BY <2>4 DEF IndInv, LinkOK
  <2>6. tm[u].expire = e /\ \A v \in Timers : v # u => tm[v].expire = timer[v].expire
    BY <1>1, <2>3 DEF TypeOK, TimerSet
  <2> HIDE DEF tm
  <2>7. Range(r) = Range(list[l]) \cup {u}
    BY <1>1, <2>3, <2>5, <2>6, Inserted
  <2>8. list'[l] = list[l] \/ list'[l] = r
    BY <1>1, <2>2 DEF TypeOK
  <2> HIDE DEF r
  <2>9. t \in Range(list'[l])
    BY <2>7, <2>8
  <2> QED BY <2>9 DEF Held
<1>6. CASE ManageCut(k)
  <2> DEFINE n == Expired(k)
             r == SubSeq(list[k], 1, n)
             s == Unexpired(k, n)
  <2>1. /\ list' = [list EXCEPT ![k] = s]
        /\ mgr' = [mgr EXCEPT ![k].pc = "mark", ![k].run = r]
    BY <1>2, <1>6 DEF ManageCut
  <2>2. CASE k # l
    <3>1. list'[l] = list[l]
      BY <1>1, <2>1, <2>2 DEF TypeOK
    <3> QED BY <3>1 DEF Held
  <2>3. CASE k = l
    <3>1. Range(r) \cup Range(s) = Range(list[l])
      BY <2>3, CutKeeps
    <3> HIDE DEF n, r, s
    <3>2. list'[l] = s /\ mgr'[l].run = r
      BY <1>1, <2>1, <2>3 DEF TypeOK, MgrSet
    <3> QED BY <3>1, <3>2 DEF Held
  <2> QED BY <2>2, <2>3
<1> QED BY <1>3, <1>4, <1>5, <1>6

(* A timer that has expired stays with its manager until it runs: only one *)
(* that is being configured is dropped, and only marked ones run.          *)
LEMMA RunKeeps ==
  ASSUME IndInv, [Next]_vars, NEW l \in Lcores, NEW t \in Range(mgr[l].run),
         t \in Timers, timer[t].state # "RUNNING"
  PROVE  t \in Held(l)' \/ (mgr[l].pc = "mark" /\ timer[t].state # "PENDING")
<1>1. /\ TypeOK /\ mgr[l] \in MgrSet /\ mgr[l].run \in Seq(Timers) /\ IsInjective(mgr[l].run)
      /\ MgrOK(l) /\ LinkOK(l)
  BY DEF IndInv, TypeOK, LinkOK, MgrSet
<1>2. mgr[l].run # << >>
  BY NoTimers
<1>3. SUFFICES ASSUME mgr'[l].run # mgr[l].run
               PROVE  t \in Held(l)' \/ (mgr[l].pc = "mark" /\ timer[t].state # "PENDING")
  BY <1>3 DEF Held
<1>4. mgr' # mgr
  BY <1>3
<1>5. PICK k \in Lcores : CallStep(k) \/ ManageStep(k)
  <2>1. ~UNCHANGED vars /\ ~Tick /\ \A k \in Lcores : ~Begin(k)
    BY <1>4, BeginKeeps DEF vars, Tick
  <2> QED BY <2>1 DEF Next
<1>6. CASE CallStep(k)
  <2>1. ASSUME Returns(k) PROVE FALSE
    <3>1. mgr' = [mgr EXCEPT ![k].pc = "next"]
      BY <1>4, <2>1 DEF Returns
    <3> QED BY <1>1, <1>3, <3>1 DEF TypeOK, MgrSet
  <2>2. ASSUME mgr' = [mgr EXCEPT ![k].updated = TRUE] PROVE FALSE
    BY <1>1, <1>3, <2>2 DEF TypeOK, MgrSet
  <2> QED BY <1>4, <1>6, <2>1, <2>2 DEF CallStep, SetConfig, Delete, Add, Done
<1>7. CASE ManageStep(k)
  <2>1. k = l
    BY <1>1, <1>3, <1>7 DEF ManageStep, Manage, ManageCheck, ManageCut, MarkRunning, ManageUnlock,
                            Callback, ManageEnd, CallbackEnd, TypeOK
  <2>2. mgr[l].pc \notin {"out", "check", "cut"}
    BY <1>1, <1>2 DEF MgrOK
  <2>3. ~Manage(l) /\ ~ManageCheck(l) /\ ~ManageCut(l) /\ ~ManageEnd(l)
    BY <1>2, <2>2 DEF Manage, ManageCheck, ManageCut, ManageEnd
  <2>4. ~ManageUnlock(l) /\ ~CallbackEnd(l)
    BY <1>1, <1>3 DEF ManageUnlock, CallbackEnd, TypeOK, MgrSet
  <2>5. CASE MarkRunning(l)
    <3> DEFINE i == mgr[l].i
               r == RemoveAt(mgr[l].run, i)
    <3>1. /\ mgr[l].pc = "mark" /\ i <= Len(mgr[l].run) /\ i \in 1..Len(mgr[l].run)
      BY <2>5, NextExpired DEF MarkRunning
    <3>2. timer[mgr[l].run[i]].state # "PENDING"
      <4> SUFFICES ASSUME timer[mgr[l].run[i]].state = "PENDING" PROVE FALSE
        OBVIOUS
      <4>1. mgr' = [mgr EXCEPT ![l].i = i + 1]
        BY <2>5 DEF MarkRunning
      <4> QED BY <1>1, <1>3, <4>1 DEF TypeOK, MgrSet
    <3>3. mgr' = [mgr EXCEPT ![l].run = r]
      BY <2>5, <3>2 DEF MarkRunning
    <3>4. Range(r) = Range(mgr[l].run) \ {mgr[l].run[i]}
      BY <1>1, <3>1, RemoveAtRange
    <3> HIDE DEF r
    <3>5. mgr'[l].run = r
      BY <1>1, <3>3 DEF TypeOK, MgrSet
    <3> QED BY <3>1, <3>2, <3>4, <3>5 DEF Held
  <2>6. CASE Callback(l)
    <3>1. mgr[l].pc = "next" /\ mgr'[l].run = Tail(mgr[l].run)
      BY <1>1, <2>6 DEF Callback, TypeOK, MgrSet
    <3>2. Range(mgr[l].run) = Ready(l)
      BY <1>1, <3>1, RunParts
    <3>3. timer[t].state = "RUNNING"
      BY <1>1, <3>2 DEF LinkOK, Runs
    <3> QED BY <3>3
  <2> QED BY <1>7, <2>1, <2>3, <2>4, <2>5, <2>6 DEF ManageStep
<1> QED BY <1>5, <1>6, <1>7

(* A pending timer that its manager is putting back stays in its hands: no *)
(* failure of the call is possible while nobody configures the timer.      *)
LEMMA ReloadKeeps ==
  ASSUME IndInv, [Next]_vars, NEW l \in Lcores, NEW t \in Timers, timer[t].state = "PENDING",
         mgr[l].pc = "reload", mgr[l].running = t, timer'[t].state = "PENDING"
  PROVE  mgr'[l].pc = "reload" /\ mgr'[l].running = t
<1>1. TypeOK /\ mgr[l] \in MgrSet /\ CallOK(l)
  BY DEF IndInv, TypeOK
<1>2. call[l].pc # "idle" /\ call[l].tim = t /\ ~Working(l)
  BY <1>1 DEF CallOK
<1>3. CASE UNCHANGED mgr
  BY <1>3
<1>4. CASE ~UNCHANGED mgr
  <2>1. PICK k \in Lcores : CallStep(k) \/ ManageStep(k)
    <3>1. ~UNCHANGED vars /\ ~Tick /\ \A k \in Lcores : ~Begin(k)
      BY <1>4, BeginKeeps DEF vars, Tick
    <3> QED BY <3>1 DEF Next
  <2>2. CASE k # l
    <3>1. mgr'[l] = mgr[l]
      BY <1>1, <2>1, <2>2 DEF CallStep, SetConfig, Returns, Delete, Add, Done, ManageStep, Manage,
           ManageCheck, ManageCut, MarkRunning, ManageUnlock, Callback, ManageEnd, CallbackEnd, TypeOK
    <3> QED BY <3>1
  <2>3. CASE k = l
    <3>1. SetConfig(l)
      <4>1. ~Delete(l) /\ ~Add(l) /\ ~Done(l)
        BY <1>2 DEF Delete, Add, Done, Working
      <4>2. ~Manage(l) /\ ~ManageCheck(l) /\ ~ManageCut(l) /\ ~MarkRunning(l) /\ ~ManageUnlock(l)
        BY DEF Manage, ManageCheck, ManageCut, MarkRunning, ManageUnlock
      <4>3. ~Callback(l) /\ ~ManageEnd(l) /\ ~CallbackEnd(l)
        BY DEF Callback, ManageEnd, CallbackEnd
      <4> QED BY <2>1, <2>3, <4>1, <4>2, <4>3 DEF CallStep, ManageStep
    <3>2. ~Busy(l, t)
      BY DEF Busy
    <3>3. timer' = Status(t, "CONFIG", l)
      BY <1>2, <3>1, <3>2 DEF SetConfig
    <3>4. timer'[t].state = "CONFIG"
      BY <1>1, <3>3 DEF Status, TypeOK, TimerSet
    <3> QED BY <3>4
  <2> QED BY <2>2, <2>3
<1> QED BY <1>3, <1>4

(* The timer of a reset that has only its status left to write is linked,  *)
(* or the lcore it is for, another one, has found it expired.              *)
Scheduled(l) ==
  call[l].pc = "done" /\ call[l].op = "reset" =>
    \/ call[l].tim \in Held(call[l].target)
    \/ call[l].target # l /\ timer[call[l].tim].expire <= time

(* Add links the timer. *)
LEMMA AddLinks ==
  ASSUME IndInv, NEW l \in Lcores, Add(l)
  PROVE  Scheduled(l)'
<1>1. PICK u, o, e : u = call[l].tim /\ o = call[l].target /\ e = call[l].expire
  OBVIOUS
<1> DEFINE r == InsertAt(list[o], Place(list[o], e), u)
           tm == [timer EXCEPT ![u].expire = e]
<1>2. /\ TypeOK /\ u \in Timers /\ o \in Lcores /\ e \in Nat /\ call[l].pc = "add"
      /\ timer[u].state = "CONFIG" /\ timer[u].owner = l
  BY <1>1 DEF Add, IndInv, TypeOK, CallSet, CallOK, Working
<1>3. /\ list[o] \in Seq(Timers) /\ IsInjective(list[o]) /\ Sorted(list[o], timer)
  BY <1>2 DEF IndInv, TypeOK, LinkOK, OrderOK
<1>4. u \notin Range(list[o])
  <2>1. ~OnList(u, o)
    BY <1>2 DEF OnList
  <2> QED BY <1>2, <2>1 DEF IndInv, LinkOK
<1>5. tm[u].expire = e /\ \A v \in Timers : v # u => tm[v].expire = timer[v].expire
  BY <1>2 DEF TypeOK, TimerSet
<1>6. list' = [list EXCEPT ![o] = r] /\ call' = [call EXCEPT ![l].pc = "done"]
  BY <1>1 DEF Add
<1> HIDE DEF tm
<1>7. Range(r) = Range(list[o]) \cup {u}
  BY <1>2, <1>3, <1>4, <1>5, Inserted
<1> HIDE DEF r
<1>8. list'[o] = r
  BY <1>2, <1>6 DEF TypeOK
<1>9. call'[l].tim = u /\ call'[l].target = o
  BY <1>1, <1>2, <1>6 DEF TypeOK, CallSet
<1> QED BY <1>7, <1>8, <1>9 DEF Scheduled, Held

(* A call that is about to write its status does nothing else. *)
LEMMA DoneCall ==
  ASSUME IndInv, [Next]_vars, NEW l \in Lcores, call'[l].pc = "done", call'[l].op = "reset"
  PROVE  Add(l) \/ (call'[l] = call[l] /\ call[l].pc = "done")
<1>1. TypeOK /\ call[l] \in CallSet
  BY DEF IndInv, TypeOK
<1>2. SUFFICES ASSUME call'[l] # call[l] PROVE Add(l)
  BY <1>2
<1>3. ~UNCHANGED vars /\ ~Tick
  BY <1>2 DEF vars, Tick
<1>4. PICK k \in Lcores : Begin(k) \/ CallStep(k) \/ ManageStep(k)
  BY <1>3 DEF Next
<1>5. ~Manage(k) /\ ~ManageCheck(k) /\ ~ManageCut(k) /\ ~MarkRunning(k) /\ ~ManageUnlock(k)
  BY <1>2 DEF Manage, ManageCheck, ManageCut, MarkRunning, ManageUnlock
<1>6. ~Callback(k) /\ ~ManageEnd(k)
  BY <1>2 DEF Callback, ManageEnd
<1>7. ~Begin(k)
  <2> SUFFICES ASSUME Begin(k) PROVE FALSE
    OBVIOUS
  <2>1. PICK op \in Ops, t \in Timers, ticks \in Ticks, type \in Types,
             target \in Lcores, sync \in Sync :
       call' = [call EXCEPT ![k] =
         IF op = "stop" THEN [NoCall EXCEPT !.pc = "config", !.tim = t, !.sync = sync]
         ELSE [NoCall EXCEPT !.pc = "config", !.op = "reset", !.tim = t, !.ticks = ticks,
                             !.expire = time + ticks, !.target = target, !.sync = sync,
                             !.period = IF type = "PERIODICAL" THEN ticks ELSE 0]]
    BY DEF Begin
  <2> DEFINE c ==
         IF op = "stop" THEN [NoCall EXCEPT !.pc = "config", !.tim = t, !.sync = sync]
         ELSE [NoCall EXCEPT !.pc = "config", !.op = "reset", !.tim = t, !.ticks = ticks,
                             !.expire = time + ticks, !.target = target, !.sync = sync,
                             !.period = IF type = "PERIODICAL" THEN ticks ELSE 0]
  <2>2. call' = [call EXCEPT ![k] = c]
    BY <2>1
  <2>3. c.pc = "config"
    BY DEF NoCall
  <2> HIDE DEF c
  <2> QED BY <1>1, <1>2, <2>2, <2>3 DEF TypeOK
<1>8. ~CallbackEnd(k)
  <2> SUFFICES ASSUME CallbackEnd(k) PROVE FALSE
    OBVIOUS
  <2> DEFINE t == mgr[k].running
             c == [NoCall EXCEPT !.pc = "config", !.op = "reset", !.tim = t, !.target = k,
                                 !.expire = timer[t].expire + timer[t].period,
                                 !.period = timer[t].period, !.locked = TRUE]
  <2>1. call' = call \/ call' = [call EXCEPT ![k] = c]
    BY DEF CallbackEnd
  <2>2. c.pc = "config"
    BY DEF NoCall
  <2> HIDE DEF c
  <2> QED BY <1>1, <1>2, <2>1, <2>2 DEF TypeOK
<1>9. ~Returns(k)
  <2> SUFFICES ASSUME Returns(k) PROVE FALSE
    OBVIOUS
  <2>1. call' = [call EXCEPT ![k] = NoCall]
    BY DEF Returns
  <2> QED BY <1>1, <1>2, <2>1 DEF TypeOK, NoCall
<1>10. ~Done(k)
  BY <1>9 DEF Done
<1>11. ~Delete(k)
  <2> SUFFICES ASSUME Delete(k) PROVE FALSE
    OBVIOUS
  <2>1. call' = [call EXCEPT ![k].pc = IF call[k].op = "stop" THEN "done" ELSE "add"]
    BY DEF Delete
  <2> QED BY <1>1, <1>2, <2>1 DEF TypeOK, CallSet
<1>12. ~SetConfig(k)
  <2> SUFFICES ASSUME SetConfig(k) PROVE FALSE
    OBVIOUS
  <2>1. \/ /\ call[k].pc = "config"
           /\ call' = [call EXCEPT ![k].expire = IF call[k].op = "reset" THEN time + call[k].ticks ELSE 0]
        \/ call' = [call EXCEPT ![k].owner = timer[call[k].tim].owner,
                ![k].pc = IF timer[call[k].tim].state = "PENDING" THEN "del"
                          ELSE IF call[k].op = "stop" THEN "done" ELSE "add"]
    BY <1>9 DEF SetConfig
  <2>2. k = l
    BY <1>1, <1>2, <2>1 DEF TypeOK
  <2>3. call'[l].op = call[l].op
    BY <1>1, <2>1, <2>2 DEF TypeOK, CallSet
  <2>4. call[l].op = "reset"
    BY <2>3
  <2>5. call \in [Lcores -> CallSet]
    BY <1>1 DEF TypeOK
  <2>6. CASE /\ call[k].pc = "config"
             /\ call' = [call EXCEPT ![k].expire = IF call[k].op = "reset" THEN time + call[k].ticks ELSE 0]
    BY <2>2, <2>5, <2>6 DEF CallSet
  <2>7. CASE call' = [call EXCEPT ![k].owner = timer[call[k].tim].owner,
                ![k].pc = IF timer[call[k].tim].state = "PENDING" THEN "del"
                          ELSE IF call[k].op = "stop" THEN "done" ELSE "add"]
    <3>1. call'[l].pc = IF timer[call[k].tim].state = "PENDING" THEN "del"
                        ELSE IF call[k].op = "stop" THEN "done" ELSE "add"
      BY <2>2, <2>5, <2>7 DEF CallSet
    <3> QED BY <2>2, <2>4, <3>1
  <2> QED BY <2>1, <2>6, <2>7
<1>13. Add(k)
  BY <1>4, <1>5, <1>6, <1>7, <1>8, <1>10, <1>11, <1>12 DEF CallStep, ManageStep
<1>14. call' = [call EXCEPT ![k].pc = "done"]
  BY <1>13 DEF Add
<1>15. k = l
  BY <1>1, <1>2, <1>14 DEF TypeOK
<1> QED BY <1>13, <1>15

(* The expiry of a timer that l configures is changed by l alone, and time *)
(* does not go back.                                                       *)
LEMMA ExpiryKept ==
  ASSUME IndInv, [Next]_vars, NEW l \in Lcores, NEW t \in Timers,
         call[l].pc = "done", call[l].tim = t
  PROVE  timer'[t].expire = timer[t].expire /\ time' >= time /\ time \in Nat
<1>1. TypeOK /\ time \in Nat
  BY DEF IndInv, TypeOK
<1>2. timer[t].state = "CONFIG" /\ timer[t].owner = l
  BY DEF IndInv, CallOK, Working
<1>3. ASSUME NEW u \in Timers, NEW st, NEW o, timer' = Status(u, st, o)
      PROVE  timer'[t].expire = timer[t].expire
  BY <1>1, <1>3 DEF Status, TypeOK, TimerSet
<1>4. CASE UNCHANGED vars \/ Tick
  BY <1>1, <1>4 DEF vars, Tick
<1>5. CASE \E k \in Lcores : Begin(k) \/ CallStep(k) \/ ManageStep(k)
  <2>1. PICK k \in Lcores : Begin(k) \/ CallStep(k) \/ ManageStep(k)
    BY <1>5
  <2>2. time' = time
    <3>1. Begin(k) => time' = time
      BY DEF Begin
    <3>2. CallStep(k) => time' = time
      BY DEF CallStep, SetConfig, Delete, Add, Done
    <3>3. ManageStep(k) => time' = time
      <4>1. Manage(k) \/ ManageCheck(k) \/ ManageCut(k) \/ MarkRunning(k) => time' = time
        BY DEF Manage, ManageCheck, ManageCut, MarkRunning
      <4>2. ManageUnlock(k) \/ Callback(k) \/ ManageEnd(k) \/ CallbackEnd(k) => time' = time
        BY DEF ManageUnlock, Callback, ManageEnd, CallbackEnd
      <4> QED BY <4>1, <4>2 DEF ManageStep
    <3> QED BY <2>1, <3>1, <3>2, <3>3
  <2>3. CASE UNCHANGED timer
    BY <1>1, <2>2, <2>3
  <2>4. CASE Add(k)
    <3>1. /\ call[k].tim \in Timers /\ timer[call[k].tim].owner = k /\ call[k].pc = "add"
      BY <2>4 DEF Add, IndInv, CallOK, Working
    <3>2. call[k].tim # t
      BY <1>2, <3>1
    <3>3. timer' = [timer EXCEPT ![call[k].tim].expire = call[k].expire,
                                 ![call[k].tim].period = call[k].period]
      BY <2>4 DEF Add
    <3>4. timer'[t] = timer[t]
      BY <1>1, <3>1, <3>2, <3>3 DEF TypeOK
    <3> QED BY <1>1, <2>2, <3>4
  <2>5. CASE SetConfig(k) \/ Done(k)
    <3>1. call[k].tim \in Timers
      BY <2>5 DEF SetConfig, Done, IndInv, CallOK
    <3>2. UNCHANGED timer \/ \E st, o : timer' = Status(call[k].tim, st, o)
      BY <2>5 DEF SetConfig, Done
    <3> QED BY <1>1, <1>3, <2>2, <3>1, <3>2
  <2>6. CASE MarkRunning(k)
    <3>1. mgr[k].run[mgr[k].i] \in Timers
      BY <2>6, NextExpired DEF MarkRunning
    <3>2. UNCHANGED timer \/ \E st, o : timer' = Status(mgr[k].run[mgr[k].i], st, o)
      BY <2>6 DEF MarkRunning
    <3> QED BY <1>1, <1>3, <2>2, <3>1, <3>2
  <2>7. CASE CallbackEnd(k)
    <3>1. mgr[k].running \in Timers
      BY <2>7 DEF CallbackEnd, IndInv, MgrOK
    <3>2. UNCHANGED timer \/ \E st, o : timer' = Status(mgr[k].running, st, o)
      BY <2>7 DEF CallbackEnd
    <3> QED BY <1>1, <1>3, <2>2, <3>1, <3>2
  <2>8. CASE Begin(k) \/ Delete(k) \/ Manage(k) \/ ManageCheck(k) \/ ManageCut(k)
             \/ ManageUnlock(k) \/ Callback(k) \/ ManageEnd(k)
    <3>1. Begin(k) \/ Delete(k) \/ Manage(k) \/ ManageCheck(k) => UNCHANGED timer
      BY DEF Begin, Delete, Manage, ManageCheck
    <3>2. ManageCut(k) \/ ManageUnlock(k) \/ Callback(k) \/ ManageEnd(k) => UNCHANGED timer
      BY DEF ManageCut, ManageUnlock, Callback, ManageEnd
    <3> QED BY <2>8, <3>1, <3>2, <2>3
  <2> QED BY <2>1, <2>4, <2>5, <2>6, <2>7, <2>8 DEF CallStep, ManageStep
<1> QED BY <1>4, <1>5 DEF Next

(* Nobody but its manager lets go of a timer that a reset has linked. *)
LEMMA ScheduledStep ==
  ASSUME IndInv, [Next]_vars, NEW l \in Lcores, Scheduled(l)
  PROVE  Scheduled(l)'
<1> SUFFICES ASSUME call'[l].pc = "done", call'[l].op = "reset", ~Add(l) PROVE Scheduled(l)'
  BY AddLinks DEF Scheduled
<1>1. call'[l] = call[l] /\ call[l].pc = "done" /\ call[l].op = "reset"
  BY DoneCall
<1>2. PICK t, o : t = call[l].tim /\ o = call[l].target
  OBVIOUS
<1>3. t \in Timers /\ o \in Lcores /\ timer[t].state = "CONFIG" /\ timer[t].owner = l
  BY <1>1, <1>2 DEF IndInv, CallOK, Working
<1>4. timer'[t].expire = timer[t].expire /\ time' >= time /\ time \in Nat
  BY <1>1, <1>2, <1>3, ExpiryKept
<1>5. time' \in Nat /\ timer[t].expire \in Nat
  BY <1>3, NextInv DEF IndInv, TypeOK, TimerSet
<1>6. CASE o # l /\ timer[t].expire <= time
  BY <1>1, <1>2, <1>4, <1>5, <1>6 DEF Scheduled
<1>7. CASE t \in Range(list[o])
  <2>1. \A k \in Lcores : call[k].pc = "del" => call[k].tim # t
    BY <1>1, <1>3 DEF IndInv, CallOK, Working
  <2>2. t \in Held(o)'
    BY <1>3, <1>7, <2>1, ListKeeps
  <2> QED BY <1>1, <1>2, <2>2 DEF Scheduled, Held
<1>8. CASE t \in Range(mgr[o].run)
  <2>1. t \in Held(o)' \/ mgr[o].pc = "mark"
    BY <1>3, <1>8, RunKeeps
  <2>2. CASE mgr[o].pc = "mark"
    <3>1. o # l
      BY <1>1, <2>2 DEF IndInv, CallOK
    <3>2. timer[t].expire <= time
      BY <1>3, <1>8 DEF IndInv, LinkOK
    <3> QED BY <1>1, <1>2, <1>4, <1>5, <3>1, <3>2 DEF Scheduled
  <2>3. CASE t \in Held(o)'
    BY <1>1, <1>2, <2>3 DEF Scheduled, Held
  <2> QED BY <2>1, <2>2, <2>3
<1> QED BY <1>1, <1>2, <1>6, <1>7, <1>8 DEF Scheduled, Held

(* A reset that returns has its timer linked, unless it was overtaken.     *)
LEMMA AlwaysScheduled == Spec => [](IndInv /\ \A l \in Lcores : Scheduled(l))
<1>1. Init => \A l \in Lcores : Scheduled(l)
  BY DEF Init, NoCall, Scheduled
<1>2. IndInv /\ (\A l \in Lcores : Scheduled(l)) /\ [Next]_vars => (\A l \in Lcores : Scheduled(l))'
  BY ScheduledStep
<1> QED BY <1>1, <1>2, InitInv, NextInv, PTL DEF Spec

(* A timer becomes pending when a reset writes its status, or when a       *)
(* manager is about to reload it.                                          *)
LEMMA BecomesPending ==
  ASSUME IndInv, [Next]_vars, NEW t \in Timers, timer[t].state # "PENDING", timer'[t].state = "PENDING"
  PROVE  \/ \E l \in Lcores : /\ call[l].pc = "done" /\ call[l].op = "reset" /\ call[l].tim = t
                              /\ Done(l)
         \/ \E l \in Lcores : mgr'[l].pc = "reload" /\ mgr'[l].running = t
<1>1. TypeOK
  BY DEF IndInv
<1>2. ASSUME NEW u \in Timers, NEW st, NEW o, timer' = Status(u, st, o)
      PROVE  u = t /\ st = "PENDING"
  BY <1>1, <1>2 DEF Status, TypeOK, TimerSet
<1>3. ~UNCHANGED timer
  OBVIOUS
<1>4. PICK k \in Lcores : CallStep(k) \/ ManageStep(k)
  <2>1. ~UNCHANGED vars /\ ~Tick /\ \A k \in Lcores : ~Begin(k)
    BY <1>3, BeginKeeps DEF vars, Tick
  <2> QED BY <2>1 DEF Next
<1>5. ~Delete(k) /\ ~Manage(k) /\ ~ManageCheck(k) /\ ~ManageCut(k) /\ ~ManageUnlock(k)
  BY <1>3 DEF Delete, Manage, ManageCheck, ManageCut, ManageUnlock
<1>6. ~Callback(k) /\ ~ManageEnd(k)
  BY <1>3 DEF Callback, ManageEnd
<1>7. ~Add(k)
  <2> SUFFICES ASSUME Add(k) PROVE FALSE
    OBVIOUS
  <2>1. call[k].tim \in Timers
    BY DEF Add, IndInv, CallOK
  <2>2. timer' = [timer EXCEPT ![call[k].tim].expire = call[k].expire,
                               ![call[k].tim].period = call[k].period]
    BY DEF Add
  <2>3. timer'[t].state = timer[t].state
    BY <1>1, <2>1, <2>2 DEF TypeOK, TimerSet
  <2> QED BY <2>3
<1>8. ~SetConfig(k)
  <2> SUFFICES ASSUME SetConfig(k) PROVE FALSE
    OBVIOUS
  <2>1. call[k].tim \in Timers
    BY DEF SetConfig, IndInv, CallOK
  <2>2. timer' = Status(call[k].tim, "CONFIG", k)
    BY <1>3 DEF SetConfig
  <2> QED BY <1>2, <2>1, <2>2
<1>9. ~MarkRunning(k)
  <2> SUFFICES ASSUME MarkRunning(k) PROVE FALSE
    OBVIOUS
  <2>1. mgr[k].run[mgr[k].i] \in Timers
    BY NextExpired DEF MarkRunning
  <2>2. timer' = Status(mgr[k].run[mgr[k].i], "RUNNING", k)
    BY <1>3 DEF MarkRunning
  <2> QED BY <1>2, <2>1, <2>2
<1>10. CASE Done(k)
  <2>1. call[k].tim \in Timers /\ call[k].pc = "done"
    BY <1>10 DEF Done, IndInv, CallOK
  <2>2. call[k].op \in {"reset", "stop"}
    BY <1>1 DEF TypeOK, CallSet
  <2>3. call[k].op # "stop"
    <3> SUFFICES ASSUME call[k].op = "stop" PROVE FALSE
      OBVIOUS
    <3>1. timer' = Status(call[k].tim, "STOP", NoOne)
      BY <1>10 DEF Done
    <3> QED BY <1>2, <2>1, <3>1
  <2>4. timer' = Status(call[k].tim, "PENDING", call[k].target)
    BY <1>10, <2>3 DEF Done
  <2>5. call[k].tim = t
    BY <1>2, <2>1, <2>4
  <2> QED BY <1>10, <2>1, <2>2, <2>3, <2>5
<1>11. CASE CallbackEnd(k)
  <2>1. mgr[k].running \in Timers
    BY <1>11 DEF CallbackEnd, IndInv, MgrOK
  <2>2. ~(timer' = Status(mgr[k].running, "STOP", NoOne))
    BY <1>2, <2>1
  <2>3. /\ timer' = Status(mgr[k].running, "PENDING", k)
        /\ mgr' = [mgr EXCEPT ![k].pc = "reload"]
    BY <1>3, <1>11, <2>2 DEF CallbackEnd
  <2>4. mgr[k].running = t
    BY <1>2, <2>1, <2>3
  <2>5. mgr'[k].pc = "reload" /\ mgr'[k].running = t
    BY <1>1, <2>3, <2>4 DEF TypeOK, MgrSet
  <2> QED BY <2>5
<1> QED BY <1>4, <1>5, <1>6, <1>7, <1>8, <1>9, <1>10, <1>11 DEF CallStep, ManageStep

(* PendingKept: whichever step any lcore takes, a timer that is pending    *)
(* after it is linked, or was lost before, or its reset for another lcore  *)
(* was overtaken by its expiry.                                            *)
THEOREM PendingStaysLinked == Spec => PendingKept
<1>1. ASSUME IndInv, [Next]_vars, NEW t \in Timers,
             timer[t].state = "PENDING", Linked(t), timer'[t].state = "PENDING"
      PROVE  Linked(t)'
  <2>1. PICK l \in Lcores : t \in Held(l) \/ (mgr[l].pc = "reload" /\ mgr[l].running = t)
    BY <1>1 DEF Linked
  <2>2. \A k \in Lcores : call[k].pc = "del" => call[k].tim # t
    BY <1>1 DEF IndInv, CallOK, Working
  <2>3. t \in Held(l) => t \in Held(l)'
    BY <1>1, <2>2, ListKeeps, RunKeeps DEF Held
  <2>4. mgr[l].pc = "reload" /\ mgr[l].running = t => mgr'[l].pc = "reload" /\ mgr'[l].running = t
    BY <1>1, ReloadKeeps
  <2> QED BY <2>1, <2>3, <2>4 DEF Linked
<1>2. ASSUME IndInv, \A l \in Lcores : Scheduled(l), [Next]_vars, NEW t \in Timers,
             timer[t].state # "PENDING", timer'[t].state = "PENDING"
      PROVE  Linked(t)' \/ Overtaken(t)
  <2>1. CASE \E l \in Lcores : mgr'[l].pc = "reload" /\ mgr'[l].running = t
    BY <2>1 DEF Linked
  <2>2. CASE \E l \in Lcores : /\ call[l].pc = "done" /\ call[l].op = "reset" /\ call[l].tim = t
                               /\ Done(l)
    <3>1. PICK l \in Lcores : /\ call[l].pc = "done" /\ call[l].op = "reset" /\ call[l].tim = t
                              /\ Done(l)
      BY <2>2
    <3>2. call[l].target \in Lcores /\ TypeOK
      BY <1>2, <3>1 DEF IndInv, CallOK
    <3>3. CASE call[l].target # l /\ timer[t].expire <= time
      BY <3>1, <3>3 DEF Overtaken
    <3>4. CASE t \in Held(call[l].target)
      <4>1. list' = list /\ (mgr' = mgr \/ mgr' = [mgr EXCEPT ![l].pc = "next"])
        BY <3>1 DEF Done, Returns
      <4>2. mgr'[call[l].target].run = mgr[call[l].target].run
        <5> DEFINE o == call[l].target
        <5>1. mgr[o] \in MgrSet /\ mgr[l] \in MgrSet /\ mgr \in [Lcores -> MgrSet]
          BY <3>2 DEF TypeOK
        <5>2. CASE mgr' = mgr
          BY <5>2
        <5>3. CASE mgr' = [mgr EXCEPT ![l].pc = "next"] /\ o = l
          BY <5>1, <5>3 DEF MgrSet
        <5>4. CASE mgr' = [mgr EXCEPT ![l].pc = "next"] /\ o # l
          BY <3>2, <5>1, <5>4
        <5> QED BY <4>1, <5>2, <5>3, <5>4
      <4> QED BY <3>2, <3>4, <4>1, <4>2 DEF Held, Linked
    <3> QED BY <1>2, <3>1, <3>3, <3>4 DEF Scheduled
  <2> QED BY <1>2, <2>1, <2>2, BecomesPending
<1>3. IndInv /\ (\A l \in Lcores : Scheduled(l)) /\ [Next]_vars =>
        [\A t \in Timers :
           timer'[t].state = "PENDING" /\ ~Linked(t)' =>
             (timer[t].state = "PENDING" /\ ~Linked(t)) \/ Overtaken(t)]_vars
  BY <1>1, <1>2
<1> QED BY <1>3, AlwaysScheduled, PTL DEF Spec, PendingKept

=============================================================================
