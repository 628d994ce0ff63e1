--------------------------- MODULE MeteringProofs ---------------------------
(***************************************************************************)
(* The meters for any rates, bursts, gaps and lengths of packets: no       *)
(* stretch of traffic exceeds what the buckets allow, and no packet is     *)
(* degraded that does not exceed it.                                       *)
(***************************************************************************)
EXTENDS Metering, TLAPS

(* What a bucket of the given size, bytes b per period p, last filled at   *)
(* time a, says of a packet at time t since which s bytes were spent: n    *)
(* fillings ago the packet had not come yet (Above), or was there (Below). *)
Above(s, t, a, level, size, b, p) ==
  \E n \in Nat : s + level <= size + n * b /\ t < (a - n * p) + p

Below(s, t, a, level, size, b, p) ==
  \E n \in Nat : s + level >= size + n * b /\ t >= a - n * p

(* How long ago a bucket was filled when el cycles have passed, and when   *)
(* that was.                                                               *)
Age(st, el, last) == ((st + el) - last) % Word
FilledAt(st, el, last) == el - Age(st, el, last)

(* From the first packet on a bucket was filled less than a period ago. *)
Clock(lg, st, el, last, tb) == last \in Nat /\ (lg # << >> => Age(st, el, last) < tb.period)

(* What is spent since a packet of the log lg, when snt is spent in all. *)
Spent(lg, snt, colors, i) == Of(snt, colors) - Of(lg[i].before, colors)

Upper(lg, snt, colors, size, tb, a, level) ==
  \A i \in 1..Len(lg) :
    Above(Spent(lg, snt, colors, i), lg[i].t, a, level, size, tb.bytes, tb.period)

Lower(lg, snt, colors, size, tb, a, level) ==
  IF lg = << >> THEN level = size
  ELSE \E i \in 1..Len(lg) :
         Below(Spent(lg, snt, colors, i), lg[i].t, a, level, size, tb.bytes, tb.period)

Bucket(lg, snt, st, el, colors, size, tb, last, level) ==
  /\ Clock(lg, st, el, last, tb)
  /\ level \in 0..size
  /\ Upper(lg, snt, colors, size, tb, FilledAt(st, el, last), level)
  /\ Lower(lg, snt, colors, size, tb, FilledAt(st, el, last), level)

(* The excess bucket of a srTCM: it is never filled by itself, only with   *)
(* what the committed one does not take.                                   *)
Excess ==
  /\ meter.te \in 0..par.ebs
  /\ Upper(log, sent, {Green, Yellow}, par.cbs + par.ebs, Committed,
           FilledAt(start, elapsed, meter.time), meter.tc + meter.te)
  /\ IF log = << >> THEN meter.te = par.ebs
     ELSE meter.te + Spent(log, sent, {Yellow}, 1) >= par.ebs

Meter == [time : Nat, time2 : Nat, tc : Nat, te : Nat]

Entry == [t : Nat, len : Nat, color : Colors, in : Colors, before : [Colors -> Nat]]

TypeOK ==
  /\ meter \in Meter
  /\ par \in Params /\ ParamsOK(par)
  /\ start \in Nat /\ elapsed \in Nat
  /\ log \in Seq(Entry) /\ sent \in [Colors -> Nat]

InOrder == \A i \in 1..Len(log) : log[i].t <= elapsed

TcOK == Bucket(log, sent, start, elapsed, {Green}, par.cbs, Committed, meter.time, meter.tc)

TpOK == Bucket(log, sent, start, elapsed, {Green, Yellow}, par.pbs, Peak, meter.time2, meter.te)

IndInv ==
  /\ TypeOK /\ InOrder
  /\ TcOK
  /\ IF Kind = "srtcm" THEN Excess ELSE TpOK
  /\ RateLimited
  /\ DegradedForCause

-----------------------------------------------------------------------------
(* A quotient of natural numbers, by its bounds. *)
LEMMA Quotient ==
  ASSUME NEW a \in Nat, NEW w \in Nat \ {0}
  PROVE  /\ a \div w \in Nat /\ w * (a \div w) <= a /\ a < w * (a \div w) + w
         /\ a % w \in 0..(w - 1) /\ a % w = a - w * (a \div w)
OBVIOUS

(* Products compare as their factors do. *)
LEMMA Factor ==
  ASSUME NEW a \in Int, NEW b \in Int, NEW w \in Nat \ {0}
  PROVE  /\ a * w \in Int
         /\ a * w < b * w + w => a <= b
         /\ a <= b => a * w <= b * w
<1>1. a * w \in Int /\ b * w \in Int
  OBVIOUS
<1>2. a <= b => a * w <= b * w
  OBVIOUS
<1>3. ASSUME a > b PROVE a * w >= b * w + w
  <2>1. PICK d \in Nat : a = (b + 1) + d
    <3>1. a - (b + 1) \in Nat
      BY <1>3
    <3> QED
      BY <3>1
  <2>2. a * w = (b * w + w) + d * w
    BY <2>1
  <2>3. d * w \in Nat
    OBVIOUS
  <2> QED
    BY <1>1, <2>2, <2>3
<1> QED
  BY <1>1, <1>2, <1>3

(* Distributing a period over fillings. *)
LEMMA Sums ==
  ASSUME NEW n \in Nat, NEW m \in Nat, NEW b \in Nat
  PROVE  /\ (n + m) * b = n * b + m * b
         /\ n * b \in Nat /\ m * b \in Nat /\ n + m \in Nat
OBVIOUS

(* A bucket filled m more times, by at most what it has earned. *)
LEMMA AboveStep ==
  ASSUME NEW s \in Int, NEW t \in Int, NEW a \in Int, NEW level \in Int, NEW size \in Int,
         NEW b \in Nat, NEW p \in Nat, NEW m \in Nat, NEW f \in Int, NEW take \in Int,
         Above(s, t, a, level, size, b, p), f <= level + m * b
  PROVE  Above(s + take, t, a + m * p, f - take, size, b, p)
<1>1. PICK n \in Nat : s + level <= size + n * b /\ t < (a - n * p) + p
  BY DEF Above
<1>2. /\ (n + m) * b = n * b + m * b /\ (n + m) * p = n * p + m * p
      /\ n * b \in Nat /\ m * b \in Nat /\ n * p \in Nat /\ m * p \in Nat /\ n + m \in Nat
  BY Sums
<1>3. (s + take) + (f - take) <= size + (n + m) * b
  BY <1>1, <1>2
<1>4. t < ((a + m * p) - (n + m) * p) + p
  BY <1>1, <1>2
<1> QED
  BY <1>2, <1>3, <1>4 DEF Above

(* A packet that comes now. *)
LEMMA AboveNew ==
  ASSUME NEW t \in Int, NEW a \in Int, NEW size \in Int, NEW b \in Nat, NEW p \in Nat,
         NEW f \in Int, NEW take \in Int, f <= size, t < a + p
  PROVE  Above(take, t, a, f - take, size, b, p)
<1>1. 0 * b = 0 /\ 0 * p = 0
  OBVIOUS
<1>2. take + (f - take) <= size + 0 * b /\ t < (a - 0 * p) + p
  BY <1>1
<1> QED
  BY <1>2 DEF Above

(* What was spent since a packet is bounded by the time since then. *)
LEMMA AboveBounds ==
  ASSUME NEW s \in Int, NEW t \in Nat, NEW a \in Int, NEW level \in Nat, NEW size \in Int,
         NEW b \in Nat, NEW p \in Nat \ {0}, NEW now \in Nat,
         Above(s, t, a, level, size, b, p), a <= now, t <= now
  PROVE  s <= (size + b * ((now - t) \div p)) + b
<1>1. PICK n \in Nat : s + level <= size + n * b /\ t < (a - n * p) + p
  BY DEF Above
<1> DEFINE q == (now - t) \div p
<1>2. now - t \in Nat
  OBVIOUS
<1>3. q \in Nat /\ now - t < p * q + p
  BY <1>2, Quotient
<1>4. p * q = q * p /\ b * q = q * b
  BY <1>3
<1> HIDE DEF q
<1>5. n * p \in Int /\ q * p \in Int /\ (q + 1) * p = q * p + p
  BY <1>3
<1>6. n * p < (q + 1) * p + p
  BY <1>1, <1>3, <1>4, <1>5
<1>7. n <= q + 1
  BY <1>6, <1>3, Factor
<1>8. n * b <= (q + 1) * b /\ (q + 1) * b = q * b + b /\ q * b \in Nat /\ n * b \in Nat
  BY <1>3, <1>7
<1>9. s <= (size + b * q) + b
  BY <1>1, <1>4, <1>8
<1> QED
  BY <1>9 DEF q

(* A bucket that is not full has kept all it has earned. *)
LEMMA BelowStep ==
  ASSUME NEW s \in Int, NEW t \in Int, NEW a \in Int, NEW level \in Int, NEW size \in Int,
         NEW b \in Nat, NEW p \in Nat, NEW m \in Nat, NEW f \in Int, NEW take \in Int,
         Below(s, t, a, level, size, b, p), f >= level + m * b
  PROVE  Below(s + take, t, a + m * p, f - take, size, b, p)
<1>1. PICK n \in Nat : s + level >= size + n * b /\ t >= a - n * p
  BY DEF Below
<1>2. /\ (n + m) * b = n * b + m * b /\ (n + m) * p = n * p + m * p
      /\ n * b \in Nat /\ m * b \in Nat /\ n * p \in Nat /\ m * p \in Nat /\ n + m \in Nat
  BY Sums
<1>3. (s + take) + (f - take) >= size + (n + m) * b
  BY <1>1, <1>2
<1>4. t >= (a + m * p) - (n + m) * p
  BY <1>1, <1>2
<1> QED
  BY <1>2, <1>3, <1>4 DEF Below

(* A full bucket is as one that was never used before this packet. *)
LEMMA BelowNew ==
  ASSUME NEW t \in Int, NEW a \in Int, NEW size \in Int, NEW b \in Nat, NEW p \in Nat,
         NEW f \in Int, NEW take \in Int, f = size, t >= a
  PROVE  Below(take, t, a, f - take, size, b, p)
<1>1. 0 * b = 0 /\ 0 * p = 0
  OBVIOUS
<1>2. take + (f - take) >= size + 0 * b /\ t >= a - 0 * p
  BY <1>1
<1> QED
  BY <1>2 DEF Below

(* A packet longer than the level exceeds the rate since some packet. *)
LEMMA BelowExceeds ==
  ASSUME NEW s \in Int, NEW t \in Nat, NEW a \in Int, NEW level \in Int, NEW size \in Int,
         NEW b \in Nat, NEW p \in Nat \ {0}, NEW now \in Nat, NEW len \in Nat,
         Below(s, t, a, level, size, b, p), now < a + p, t <= now, level < len
  PROVE  s + len > size + b * ((now - t) \div p)
<1>1. PICK n \in Nat : s + level >= size + n * b /\ t >= a - n * p
  BY DEF Below
<1> DEFINE q == (now - t) \div p
<1>2. now - t \in Nat
  OBVIOUS
<1>3. q \in Nat /\ p * q <= now - t
  BY <1>2, Quotient
<1>4. p * q = q * p /\ b * q = q * b
  BY <1>3
<1> HIDE DEF q
<1>5. n * p \in Int /\ q * p \in Int
  BY <1>3
<1>6. q * p < n * p + p
  BY <1>1, <1>3, <1>4, <1>5
<1>7. q <= n
  BY <1>6, <1>3, Factor
<1>8. q * b <= n * b /\ q * b \in Nat /\ n * b \in Nat
  BY <1>3, <1>7
<1>9. s + len > size + b * q
  BY <1>1, <1>4, <1>8
<1> QED
  BY <1>9 DEF q

-----------------------------------------------------------------------------
(* Division by the word, also of negative numbers. *)
LEMMA Divide ==
  ASSUME NEW x \in Int
  PROVE  /\ x % Word \in 0..(Word - 1) /\ x \div Word \in Int
         /\ x = (x \div Word) * Word + (x % Word)
<1>1. Word \in Nat \ {0}
  BY MeterAssumption
<1> QED
  BY <1>1

(* The remainder is the only one of its kind. *)
LEMMA Remainder ==
  ASSUME NEW x \in Int, NEW k \in Int, NEW r \in 0..(Word - 1), x = k * Word + r
  PROVE  x % Word = r
<1>1. Word \in Nat \ {0}
  BY MeterAssumption
<1>2. PICK q \in Int, e \in 0..(Word - 1) : x = q * Word + e /\ e = x % Word
  BY Divide
<1>3. q * Word \in Int /\ k * Word \in Int
  BY <1>1, Factor
<1>4. q * Word < k * Word + Word /\ k * Word < q * Word + Word
  BY <1>1, <1>2, <1>3
<1>5. q <= k /\ k <= q
  BY <1>1, <1>4, Factor
<1>6. q = k
  BY <1>5
<1>7. q * Word + e = q * Word + r
  BY <1>2, <1>6
<1>8. e = r
  BY <1>1, <1>3, <1>7
<1> QED
  BY <1>2, <1>8

(* Multiples of the word do not change a remainder. *)
LEMMA SameRemainder ==
  ASSUME NEW x \in Int, NEW y \in Int, NEW k \in Int, x = y + k * Word
  PROVE  x % Word = y % Word
<1>1. Word \in Nat \ {0}
  BY MeterAssumption
<1>2. PICK q \in Int, e \in 0..(Word - 1) : y = q * Word + e /\ e = y % Word
  BY Divide
<1>3. q * Word \in Int /\ k * Word \in Int /\ (q + k) * Word = q * Word + k * Word
  BY <1>1
<1>4. x = (q + k) * Word + e
  BY <1>2, <1>3
<1>5. q + k \in Int
  OBVIOUS
<1>6. x % Word = e
  BY <1>4, <1>5, Remainder
<1> QED
  BY <1>2, <1>6

(* The time since the last filling, read off a clock that wraps. *)
LEMMA Elapse ==
  ASSUME NEW x \in Int, NEW last \in Int
  PROVE  ((x % Word) - last) % Word = (x - last) % Word
<1>1. PICK q \in Int, e \in 0..(Word - 1) : x = q * Word + e /\ e = x % Word
  BY Divide
<1>2. Word \in Nat \ {0}
  BY MeterAssumption
<1>3. q * Word \in Int
  BY <1>2, Factor
<1>4. x - last = (e - last) + q * Word /\ x - last \in Int /\ e - last \in Int
  <2>1. PICK y \in Int : y = q * Word
    BY <1>3
  <2>2. x = y + e /\ e \in Int
    BY <1>1, <1>2, <2>1
  <2> QED
    BY <2>1, <2>2
<1>5. (x - last) % Word = (e - last) % Word
  BY <1>4, SameRemainder
<1> QED
  BY <1>1, <1>5

(* A later reading is later by as much, while the clock does not come round. *)
LEMMA Later ==
  ASSUME NEW x \in Int, NEW gap \in Nat, (x % Word) + gap < Word
  PROVE  (x + gap) % Word = (x % Word) + gap
<1>1. PICK q \in Int, e \in 0..(Word - 1) : x = q * Word + e /\ e = x % Word
  BY Divide
<1>2. Word \in Nat \ {0}
  BY MeterAssumption
<1>3. q * Word \in Int
  BY <1>2, Factor
<1>4. x + gap = q * Word + (e + gap) /\ e + gap \in 0..(Word - 1)
  BY <1>1, <1>2, <1>3
<1>5. x + gap \in Int
  OBVIOUS
<1>6. (x + gap) % Word = e + gap
  BY <1>4, <1>5, Remainder
<1> QED
  BY <1>1, <1>6

-----------------------------------------------------------------------------
(* Buckets are filled with whole bytes in periods that are not empty. *)
LEMMA TbParams ==
  ASSUME NEW rate \in Nat \ {0}
  PROVE  /\ rte_meter_get_tb_params(rate).bytes \in Nat
         /\ rte_meter_get_tb_params(rate).period \in Nat \ {0}
<1>1. PICK h \in Nat \ {0}, m \in Nat \ {0} : h = Hz /\ m = PeriodMin
  BY MeterAssumption
<1>2. PICK mr \in Nat : mr = m * rate /\ mr >= rate
  <2>1. m * rate \in Nat /\ 1 * rate <= m * rate
    OBVIOUS
  <2> QED
    BY <2>1
<1>3. CASE h >= mr
  <2>1. rte_meter_get_tb_params(rate) = [bytes |-> 1, period |-> h \div rate]
    BY <1>1, <1>2, <1>3 DEF rte_meter_get_tb_params
  <2>2. PICK q \in Nat : q = h \div rate /\ h < rate * q + rate
    BY Quotient
  <2>3. q # 0
    BY <1>2, <1>3, <2>2
  <2> QED
    BY <2>1, <2>2, <2>3
<1>4. CASE ~(h >= mr)
  <2>1. PICK x \in Nat : x = mr + (h - 1)
    OBVIOUS
  <2>2. PICK b \in Nat : b = x \div h /\ x < h * b + h
    BY Quotient
  <2>3. PICK hb \in Nat : hb = h * b /\ hb >= rate
    BY <1>2, <2>1, <2>2
  <2>4. PICK q \in Nat : q = hb \div rate /\ hb < rate * q + rate
    BY Quotient
  <2>5. q # 0
    BY <2>3, <2>4
  <2>6. PeriodMin * rate + Hz - 1 = x /\ ~(Hz >= PeriodMin * rate)
    BY <1>1, <1>2, <1>4, <2>1
  <2>7. (PeriodMin * rate + Hz - 1) \div Hz = b /\ (Hz * b) \div rate = q
    BY <1>1, <2>2, <2>3, <2>4, <2>6
  <2>8. rte_meter_get_tb_params(rate) = [bytes |-> b, period |-> q]
    BY <2>6, <2>7 DEF rte_meter_get_tb_params
  <2> QED
    BY <2>5, <2>8
<1> QED
  BY <1>3, <1>4

(* The totals with one more packet, and its part in those of some colours. *)
Counted(snt, c, len) == [snt EXCEPT ![c] = @ + len]

Part(c, len, colors) == IF c \in colors THEN len ELSE 0

(* Totals of colours, when one more packet is counted. *)
LEMMA OfStep ==
  ASSUME NEW snt \in [Colors -> Nat], NEW c \in Colors, NEW len \in Nat, NEW colors
  PROVE  /\ Of(snt, colors) \in Nat
         /\ Of(Counted(snt, c, len), colors) = Of(snt, colors) + Part(c, len, colors)
<1> DEFINE s2 == Counted(snt, c, len)
<1>1. /\ Of(snt, colors) = ((IF Green \in colors THEN snt[Green] ELSE 0)
                             + (IF Yellow \in colors THEN snt[Yellow] ELSE 0))
                             + (IF Red \in colors THEN snt[Red] ELSE 0)
      /\ snt[Green] \in Nat /\ snt[Yellow] \in Nat /\ snt[Red] \in Nat
  BY DEF Of, Colors
<1>2. /\ s2[Green] = IF c = Green THEN snt[Green] + len ELSE snt[Green]
      /\ s2[Yellow] = IF c = Yellow THEN snt[Yellow] + len ELSE snt[Yellow]
      /\ s2[Red] = IF c = Red THEN snt[Red] + len ELSE snt[Red]
  BY DEF Colors, Counted
<1> HIDE DEF s2
<1>3. Of(s2, colors) = ((IF Green \in colors THEN s2[Green] ELSE 0)
                             + (IF Yellow \in colors THEN s2[Yellow] ELSE 0))
                             + (IF Red \in colors THEN s2[Red] ELSE 0)
  BY DEF Of
<1>4. Of(s2, colors) = Of(snt, colors) + Part(c, len, colors)
  <2>1. CASE c = Green
    BY <2>1, <1>1, <1>2, <1>3 DEF Green, Yellow, Red, Part
  <2>2. CASE c = Yellow
    BY <2>2, <1>1, <1>2, <1>3 DEF Green, Yellow, Red, Part
  <2>3. CASE c = Red
    BY <2>3, <1>1, <1>2, <1>3 DEF Green, Yellow, Red, Part
  <2> QED
    BY <2>1, <2>2, <2>3 DEF Colors
<1> QED
  BY <1>1, <1>4 DEF s2

(* A bucket last filled at last is filled n times, up to l2, when a packet *)
(* comes at t and the one before came at el.                               *)
Ticks(lg, st, el, t, last, tb, n, l2) ==
  /\ st \in Nat /\ el \in Nat /\ t \in Nat /\ el <= t
  /\ tb.period \in Nat \ {0} /\ (t - el) + tb.period <= Word
  /\ Clock(lg, st, el, last, tb)
  /\ n = Periods((st + t) % Word, last, tb)
  /\ l2 = LastFill((st + t) % Word, last, tb)

(* The clock of a bucket when a packet comes. *)
LEMMA Tick ==
  ASSUME NEW lg, NEW st, NEW el, NEW t, NEW last, NEW tb, NEW n, NEW l2,
         Ticks(lg, st, el, t, last, tb, n, l2)
  PROVE  /\ n \in Nat /\ n <= Word \div tb.period
         /\ l2 \in Nat /\ Age(st, t, l2) \in Nat /\ Age(st, t, l2) < tb.period
         /\ lg # << >> => FilledAt(st, t, l2) = FilledAt(st, el, last) + n * tb.period
<1>0. PICK time :
        /\ time = (st + t) % Word /\ n = Periods(time, last, tb) /\ l2 = LastFill(time, last, tb)
        /\ st \in Nat /\ el \in Nat /\ t \in Nat /\ el <= t
        /\ tb.period \in Nat \ {0} /\ (t - el) + tb.period <= Word
        /\ Clock(lg, st, el, last, tb)
  BY DEF Ticks
<1>1. Word \in Nat \ {0} /\ last \in Nat
  BY <1>0, MeterAssumption DEF Clock
<1>2. PICK p \in Nat \ {0} : p = tb.period
  BY <1>0
<1>3. PICK gap \in Nat, x \in Nat : t = el + gap /\ gap + tb.period <= Word /\ x = st + t
  <2>1. t - el \in Nat /\ t = el + (t - el)
    BY <1>0
  <2> QED
    BY <1>0, <2>1
<1>4. PICK d \in 0..(Word - 1) : d = (x - last) % Word
  <2>1. x - last \in Int
    BY <1>1
  <2> QED
    BY <2>1, Divide
<1>5. d = (time - last) % Word
  <2>1. x \in Int /\ last \in Int
    BY <1>1
  <2>2. ((x % Word) - last) % Word = (x - last) % Word
    BY <2>1, Elapse
  <2>3. time = x % Word
    BY <1>0, <1>3
  <2> QED
    BY <1>4, <2>2, <2>3
<1>6. n = d \div p
  BY <1>0, <1>2, <1>5 DEF Periods
<1>7. l2 = (last + n * p) % Word
  BY <1>0, <1>2 DEF LastFill
<1>8. d \in Nat
  BY <1>1
<1>9. n \in Nat /\ l2 \in Nat /\ (x - l2) % Word = d - n * p /\ d - n * p < p /\ d - n * p \in Nat
  <2>1. n \in Nat /\ p * n <= d /\ d < p * n + p
    BY <1>6, <1>8, Quotient
  <2>2. p * n = n * p /\ n * p \in Nat
    BY <2>1
  <2>3. PICK y \in Int : y = last + n * p
    BY <1>1, <2>2
  <2>4. PICK k \in Int, e \in 0..(Word - 1) : y = k * Word + e /\ e = y % Word
    BY Divide
  <2>5. PICK j \in Int : x - last = j * Word + d /\ d \in 0..(Word - 1)
    <3>1. x - last \in Int
      BY <1>1
    <3> QED
      BY <3>1, <1>4, Divide
  <2>6. k * Word \in Int /\ j * Word \in Int /\ (j + k) * Word = j * Word + k * Word
    BY <1>1
  <2>7. x - e = (j + k) * Word + (d - n * p)
    <3>1. PICK z \in Int, kw \in Int, jw \in Int : z = n * p /\ kw = k * Word /\ jw = j * Word
      BY <2>2, <2>6
    <3>2. /\ y = last + z /\ y = kw + e /\ x - last = jw + d /\ (j + k) * Word = jw + kw
          /\ last \in Int /\ e \in Int /\ d \in Int
      BY <1>1, <1>8, <2>3, <2>4, <2>5, <2>6, <3>1
    <3>3. x - e = (jw + kw) + (d - z)
      BY <3>2
    <3> QED
      BY <3>1, <3>2, <3>3
  <2>8. d - n * p \in 0..(Word - 1) /\ d - n * p < p /\ d - n * p \in Nat
    <3>1. PICK z \in Nat : z = n * p
      BY <2>2
    <3>2. z <= d /\ d < z + p /\ d < Word
      BY <1>1, <2>1, <2>2, <2>5, <3>1
    <3>3. d - z \in 0..(Word - 1) /\ d - z < p /\ d - z \in Nat
      BY <1>1, <3>2
    <3> QED
      BY <3>1, <3>3
  <2>9. x - e \in Int /\ j + k \in Int
    BY <1>1
  <2>10. (x - e) % Word = d - n * p
    BY <2>7, <2>8, <2>9, Remainder
  <2>11. l2 = e
    BY <1>7, <2>3, <2>4
  <2>12. e \in Nat
    BY <1>1
  <2>13. (x - l2) % Word = d - n * p
    BY <2>10, <2>11
  <2> QED
    BY <2>1, <2>8, <2>11, <2>12, <2>13
<1>10. Age(st, t, l2) = d - n * p
  BY <1>3, <1>9 DEF Age
<1>11. n <= Word \div p
  <2>1. PICK q \in Nat : q = Word \div p /\ Word < p * q + p
    BY <1>1, Quotient
  <2>2. p * q = q * p /\ q * p \in Nat /\ n * p \in Int
    BY <1>9
  <2>3. n * p <= d /\ d < Word
    BY <1>1, <1>8, <1>9, <2>2
  <2>4. n * p < q * p + p
    BY <1>1, <1>8, <2>1, <2>2, <2>3
  <2>5. n <= q
    BY <1>9, <2>4, Factor
  <2> QED
    BY <2>1, <2>5
<1>12. ASSUME lg # << >>
       PROVE  FilledAt(st, t, l2) = FilledAt(st, el, last) + n * p
  <2>1. PICK y \in Int : y = (st + el) - last /\ x - last = y + gap
    BY <1>0, <1>1, <1>3
  <2>2. PICK g \in 0..(Word - 1) : g = y % Word /\ g < p
    <3>1. y % Word \in 0..(Word - 1)
      BY Divide
    <3>2. Age(st, el, last) < tb.period
      BY <1>0, <1>12 DEF Clock
    <3> QED
      BY <3>1, <3>2, <2>1, <1>2 DEF Age
  <2>3. g \in Nat /\ g + gap < Word
    BY <1>1, <1>2, <1>3, <2>2
  <2>4. d = g + gap
    BY <1>4, <2>1, <2>2, <2>3, Later
  <2>5. Age(st, el, last) = g
    BY <2>1, <2>2 DEF Age
  <2>6. FilledAt(st, el, last) = el - g /\ FilledAt(st, t, l2) = t - (d - n * p)
    BY <2>5, <1>10 DEF FilledAt
  <2>7. n * p \in Int
    BY <1>9
  <2>8. t - (d - n * p) = (el - g) + n * p
    BY <1>0, <1>3, <2>3, <2>4, <2>7
  <2> QED
    BY <2>6, <2>8
<1> QED
  BY <1>2, <1>9, <1>10, <1>11, <1>12

-----------------------------------------------------------------------------
(* Packet e is appended to the log. *)
Arrives(lg, snt, e, lg2, snt2) ==
  /\ lg \in Seq(Entry) /\ snt \in [Colors -> Nat] /\ e \in Entry /\ e.before = snt
  /\ lg2 = Append(lg, e)
  /\ snt2 = [snt EXCEPT ![e.color] = @ + e.len]

(* What it takes from a bucket that pays for some colours. *)
Take(e, colors) == IF e.color \in colors THEN e.len ELSE 0

(* The log afterwards. *)
LEMMA LogStep ==
  ASSUME NEW lg, NEW snt, NEW e, NEW lg2, NEW snt2, Arrives(lg, snt, e, lg2, snt2)
  PROVE  /\ Len(lg) \in Nat /\ Len(lg2) = Len(lg) + 1 /\ lg2 # << >>
         /\ lg2 \in Seq(Entry) /\ snt2 \in [Colors -> Nat]
         /\ \A i \in 1..Len(lg) : lg2[i] = lg[i] /\ lg[i] \in Entry
         /\ lg2[Len(lg) + 1] = e
         /\ e.t \in Nat /\ e.len \in Nat /\ e.color \in Colors
<1>1. e.t \in Nat /\ e.len \in Nat /\ e.color \in Colors
  BY DEF Arrives, Entry
<1>2. snt2 \in [Colors -> Nat]
  BY <1>1 DEF Arrives
<1>3. lg \in Seq(Entry) /\ e \in Entry /\ lg2 = Append(lg, e)
  BY DEF Arrives
<1>4. /\ Len(lg) \in Nat /\ Len(lg2) = Len(lg) + 1 /\ lg2 # << >>
      /\ lg2 \in Seq(Entry)
      /\ \A i \in 1..Len(lg) : lg2[i] = lg[i] /\ lg[i] \in Entry
      /\ lg2[Len(lg) + 1] = e
  BY <1>3
<1> QED
  BY <1>1, <1>2, <1>4

(* What is spent since the packets of the log afterwards. *)
LEMMA SpentStep ==
  ASSUME NEW lg, NEW snt, NEW e, NEW lg2, NEW snt2, Arrives(lg, snt, e, lg2, snt2), NEW colors
  PROVE  /\ Take(e, colors) \in Nat
         /\ Spent(lg2, snt2, colors, Len(lg) + 1) = Take(e, colors)
         /\ \A i \in 1..Len(lg) :
              /\ Spent(lg, snt, colors, i) \in Int /\ lg[i].t \in Nat /\ lg2[i].t = lg[i].t
              /\ Spent(lg2, snt2, colors, i) = Spent(lg, snt, colors, i) + Take(e, colors)
<1>1. e.len \in Nat /\ e.color \in Colors /\ snt \in [Colors -> Nat]
  <2>1. e.len \in Nat /\ e.color \in Colors
    BY LogStep
  <2>2. snt \in [Colors -> Nat]
    BY DEF Arrives
  <2> QED
    BY <2>1, <2>2
<1>2. Take(e, colors) \in Nat
  BY <1>1 DEF Take
<1>3. Of(snt, colors) \in Nat /\ Of(snt2, colors) = Of(snt, colors) + Take(e, colors)
  <2>1. snt2 = Counted(snt, e.color, e.len)
    BY DEF Arrives, Counted
  <2>2. Take(e, colors) = Part(e.color, e.len, colors)
    BY DEF Take, Part
  <2> QED
    BY <1>1, <2>1, <2>2, OfStep
<1>4. lg2[Len(lg) + 1].before = snt
  BY LogStep DEF Arrives
<1>5. Spent(lg2, snt2, colors, Len(lg) + 1) = Take(e, colors)
  BY <1>2, <1>3, <1>4 DEF Spent
<1>6. ASSUME NEW i \in 1..Len(lg)
      PROVE  /\ Spent(lg, snt, colors, i) \in Int /\ lg[i].t \in Nat /\ lg2[i].t = lg[i].t
             /\ Spent(lg2, snt2, colors, i) = Spent(lg, snt, colors, i) + Take(e, colors)
  <2>1. lg2[i] = lg[i] /\ lg[i] \in Entry
    BY LogStep
  <2>2. lg[i].before \in [Colors -> Nat] /\ lg[i].t \in Nat
    BY <2>1 DEF Entry
  <2>3. Of(lg[i].before, colors) \in Nat
    BY <1>1, <2>2, OfStep
  <2> QED
    BY <1>2, <1>3, <2>1, <2>2, <2>3 DEF Spent
<1> QED
  BY <1>2, <1>5, <1>6

(* A bucket at level, filled at time a, is filled n more times: to f, at   *)
(* time a2. Before the first packet its time does not matter.              *)
Refill(lg, size, tb, a, level, n, a2, f) ==
  /\ a \in Int /\ level \in Nat /\ n \in Nat /\ a2 \in Int /\ f \in Nat
  /\ f <= level + n * tb.bytes /\ f <= size
  /\ lg # << >> => a2 = a + n * tb.period

(* A bucket filled n times pays for a packet and stays sound. *)
LEMMA UpperStep ==
  ASSUME NEW lg, NEW snt, NEW e, NEW lg2, NEW snt2, Arrives(lg, snt, e, lg2, snt2),
         NEW colors, NEW size \in Nat, NEW tb, tb.bytes \in Nat, tb.period \in Nat,
         NEW a, NEW level, NEW n, NEW a2, NEW f, Refill(lg, size, tb, a, level, n, a2, f),
         Upper(lg, snt, colors, size, tb, a, level), e.t < a2 + tb.period,
         NEW level2, level2 = f - Take(e, colors)
  PROVE  Upper(lg2, snt2, colors, size, tb, a2, level2)
<1>0. /\ a \in Int /\ level \in Nat /\ n \in Nat /\ a2 \in Int /\ f \in Nat
      /\ f <= level + n * tb.bytes /\ f <= size
      /\ lg # << >> => a2 = a + n * tb.period
  BY DEF Refill
<1>1. Len(lg) \in Nat /\ Len(lg2) = Len(lg) + 1 /\ lg2[Len(lg) + 1] = e /\ e.t \in Int
  BY LogStep
<1>2. Take(e, colors) \in Int
  BY SpentStep
<1>3. Above(Take(e, colors), e.t, a2, level2, size, tb.bytes, tb.period)
  <2>1. f \in Int /\ size \in Int
    BY <1>0
  <2> QED
    BY <1>0, <2>1, <1>1, <1>2, AboveNew
<1>4. ASSUME NEW i \in 1..Len(lg)
      PROVE  Above(Spent(lg2, snt2, colors, i), lg2[i].t, a2, level2, size, tb.bytes, tb.period)
  <2>1. lg # << >>
    BY <1>1
  <2>2. Above(Spent(lg, snt, colors, i), lg[i].t, a, level, size, tb.bytes, tb.period)
    BY DEF Upper
  <2>3. PICK s \in Int, t \in Int : s = Spent(lg, snt, colors, i) /\ t = lg[i].t
    <3>1. Spent(lg, snt, colors, i) \in Int /\ lg[i].t \in Nat
      BY SpentStep
    <3> QED
      BY <3>1
  <2>4. Spent(lg2, snt2, colors, i) = s + Take(e, colors) /\ lg2[i].t = t
    BY <2>3, SpentStep
  <2>5. level \in Int /\ size \in Int /\ f \in Int /\ a2 = a + n * tb.period
    BY <1>0, <2>1
  <2>6. Above(s, t, a, level, size, tb.bytes, tb.period)
    BY <2>2, <2>3
  <2>7. Above(s + Take(e, colors), t, a + n * tb.period, f - Take(e, colors), size,
              tb.bytes, tb.period)
    BY <1>0, <1>2, <2>5, <2>6, AboveStep
  <2> QED
    BY <2>4, <2>5, <2>7
<1>5. ASSUME NEW i \in 1..Len(lg2)
      PROVE  Above(Spent(lg2, snt2, colors, i), lg2[i].t, a2, level2, size, tb.bytes, tb.period)
  <2>1. i \in 1..Len(lg) \/ i = Len(lg) + 1
    BY <1>1
  <2>2. CASE i = Len(lg) + 1
    BY <2>2, <1>1, <1>3, SpentStep
  <2> QED
    BY <2>1, <2>2, <1>4
<1> QED
  BY <1>5 DEF Upper

(* A bucket filled with all it has earned, or to the brim, has lost nothing. *)
LEMMA LowerStep ==
  ASSUME NEW lg, NEW snt, NEW e, NEW lg2, NEW snt2, Arrives(lg, snt, e, lg2, snt2),
         NEW colors, NEW size \in Nat, NEW tb, tb.bytes \in Nat, tb.period \in Nat,
         NEW a, NEW level, NEW n, NEW a2, NEW f, Refill(lg, size, tb, a, level, n, a2, f),
         Lower(lg, snt, colors, size, tb, a, level),
         f >= level + n * tb.bytes \/ f = size, e.t >= a2,
         NEW level2, level2 = f - Take(e, colors)
  PROVE  Lower(lg2, snt2, colors, size, tb, a2, level2)
<1>0. /\ a \in Int /\ level \in Nat /\ n \in Nat /\ a2 \in Int /\ f \in Nat
      /\ f <= level + n * tb.bytes /\ f <= size
      /\ lg # << >> => a2 = a + n * tb.period
  BY DEF Refill
<1>1. Len(lg) \in Nat /\ Len(lg2) = Len(lg) + 1 /\ lg2[Len(lg) + 1] = e /\ e.t \in Int /\ lg2 # << >>
  BY LogStep
<1>2. Take(e, colors) \in Int
  BY SpentStep
<1>3. n * tb.bytes \in Nat
  BY <1>0
<1>4. CASE f = size
  <2>1. f \in Int /\ size \in Int
    BY <1>0
  <2>2. Below(Take(e, colors), e.t, a2, level2, size, tb.bytes, tb.period)
    BY <1>0, <2>1, <1>1, <1>2, <1>4, BelowNew
  <2>3. Len(lg) + 1 \in 1..Len(lg2)
    BY <1>1
  <2>4. Below(Spent(lg2, snt2, colors, Len(lg) + 1), lg2[Len(lg) + 1].t, a2, level2, size,
              tb.bytes, tb.period)
    BY <2>2, <1>1, SpentStep
  <2> QED
    BY <1>1, <2>3, <2>4 DEF Lower
<1>5. CASE f # size
  <2>1. f >= level + n * tb.bytes
    BY <1>5
  <2>2. lg # << >>
    BY <1>0, <1>3, <1>5, <2>1 DEF Lower
  <2>3. PICK i \in 1..Len(lg) :
          Below(Spent(lg, snt, colors, i), lg[i].t, a, level, size, tb.bytes, tb.period)
    BY <2>2 DEF Lower
  <2>4. PICK s \in Int, t \in Int : s = Spent(lg, snt, colors, i) /\ t = lg[i].t
    <3>1. Spent(lg, snt, colors, i) \in Int /\ lg[i].t \in Nat
      BY SpentStep
    <3> QED
      BY <3>1
  <2>5. Spent(lg2, snt2, colors, i) = s + Take(e, colors) /\ lg2[i].t = t
    BY <2>4, SpentStep
  <2>6. level \in Int /\ size \in Int /\ f \in Int /\ a2 = a + n * tb.period
    BY <1>0, <2>2
  <2>7. Below(s, t, a, level, size, tb.bytes, tb.period)
    BY <2>3, <2>4
  <2>8. Below(s + Take(e, colors), t, a + n * tb.period, f - Take(e, colors), size,
              tb.bytes, tb.period)
    BY <1>0, <1>2, <2>1, <2>6, <2>7, BelowStep
  <2>9. i \in 1..Len(lg2)
    BY <1>1
  <2> QED
    BY <1>1, <2>5, <2>6, <2>8, <2>9 DEF Lower
<1> QED
  BY <1>4, <1>5

(* The packets of the log afterwards: none is later than the new one. *)
LEMMA Entries ==
  ASSUME NEW lg, NEW snt, NEW e, NEW lg2, NEW snt2, Arrives(lg, snt, e, lg2, snt2),
         \A i \in 1..Len(lg) : lg[i].t <= e.t, NEW colors, NEW i \in 1..Len(lg2)
  PROVE  Spent(lg2, snt2, colors, i) \in Int /\ lg2[i].t \in Nat /\ lg2[i].t <= e.t
<1>1. Len(lg) \in Nat /\ Len(lg2) = Len(lg) + 1 /\ lg2[Len(lg) + 1] = e /\ e.t \in Nat
  BY LogStep
<1>2. /\ Take(e, colors) \in Nat
      /\ Spent(lg2, snt2, colors, Len(lg) + 1) = Take(e, colors)
  BY SpentStep
<1>3. \A k \in 1..Len(lg) :
        /\ Spent(lg, snt, colors, k) \in Int /\ lg[k].t \in Nat /\ lg2[k].t = lg[k].t
        /\ Spent(lg2, snt2, colors, k) = Spent(lg, snt, colors, k) + Take(e, colors)
  BY SpentStep
<1>4. CASE i = Len(lg) + 1
  <2>1. Take(e, colors) \in Int /\ e.t <= e.t
    BY <1>1, <1>2
  <2> QED
    BY <1>1, <1>2, <1>4, <2>1
<1>5. CASE i \in 1..Len(lg)
  BY <1>2, <1>3, <1>5
<1>6. i \in 1..Len(lg) \/ i = Len(lg) + 1
  BY <1>1
<1> QED
  BY <1>4, <1>5, <1>6

(* Bounds on the bytes of a log that ends now. *)
LEMMA UpperBounds ==
  ASSUME NEW lg, NEW snt, NEW e, NEW lg2, NEW snt2, Arrives(lg, snt, e, lg2, snt2),
         \A i \in 1..Len(lg) : lg[i].t <= e.t,
         NEW colors, NEW size \in Nat, NEW tb, tb.bytes \in Nat, tb.period \in Nat \ {0},
         NEW a \in Int, NEW level \in Nat, a <= e.t, Upper(lg2, snt2, colors, size, tb, a, level),
         NEW i \in 1..Len(lg2)
  PROVE  Spent(lg2, snt2, colors, i)
           <= (size + tb.bytes * ((e.t - lg2[i].t) \div tb.period)) + tb.bytes
<1>1. Len(lg) \in Nat /\ Len(lg2) = Len(lg) + 1 /\ lg2[Len(lg) + 1] = e /\ e.t \in Nat
  BY LogStep
<1>2. Spent(lg2, snt2, colors, i) \in Int /\ lg2[i].t \in Nat /\ lg2[i].t <= e.t
  BY Entries
<1>3. Above(Spent(lg2, snt2, colors, i), lg2[i].t, a, level, size, tb.bytes, tb.period)
  BY DEF Upper
<1>4. PICK s \in Int, t \in Nat : s = Spent(lg2, snt2, colors, i) /\ t = lg2[i].t
  BY <1>2
<1>5. Above(s, t, a, level, size, tb.bytes, tb.period) /\ t <= e.t /\ size \in Int
  BY <1>2, <1>3, <1>4
<1>6. s <= (size + tb.bytes * ((e.t - t) \div tb.period)) + tb.bytes
  BY <1>1, <1>5, AboveBounds
<1> QED
  BY <1>4, <1>6

(* A packet that a bucket cannot pay for exceeds the rate since some packet. *)
LEMMA LowerExceeds ==
  ASSUME NEW lg, NEW snt, NEW e, NEW lg2, NEW snt2, Arrives(lg, snt, e, lg2, snt2),
         \A i \in 1..Len(lg) : lg[i].t <= e.t,
         NEW colors, NEW size \in Nat, NEW tb, tb.bytes \in Nat, tb.period \in Nat \ {0},
         NEW a \in Int, NEW level \in Nat, e.t < a + tb.period, level < e.len,
         Lower(lg2, snt2, colors, size, tb, a, level)
  PROVE  \E i \in 1..Len(lg2) :
           Spent(lg2, snt2, colors, i) + e.len
             > size + tb.bytes * ((e.t - lg2[i].t) \div tb.period)
<1>1. /\ Len(lg) \in Nat /\ Len(lg2) = Len(lg) + 1 /\ lg2[Len(lg) + 1] = e
      /\ e.t \in Nat /\ e.len \in Nat /\ lg2 # << >>
  BY LogStep
<1>2. PICK i \in 1..Len(lg2) :
        Below(Spent(lg2, snt2, colors, i), lg2[i].t, a, level, size, tb.bytes, tb.period)
  BY <1>1 DEF Lower
<1>3. Spent(lg2, snt2, colors, i) \in Int /\ lg2[i].t \in Nat /\ lg2[i].t <= e.t
  BY Entries
<1>4. PICK s \in Int, t \in Nat : s = Spent(lg2, snt2, colors, i) /\ t = lg2[i].t
  BY <1>3
<1>5. Below(s, t, a, level, size, tb.bytes, tb.period) /\ t <= e.t /\ size \in Int /\ level \in Int
  BY <1>2, <1>3, <1>4
<1>6. s + e.len > size + tb.bytes * ((e.t - t) \div tb.period)
  BY <1>1, <1>5, BelowExceeds
<1> QED
  BY <1>4, <1>6

-----------------------------------------------------------------------------
(* The level of a bucket once it is filled. *)
Filled(time, last, tb, level, size) ==
  Least((level + Periods(time, last, tb) * tb.bytes) % Word, size)

-----------------------------------------------------------------------------
(* The properties on a log lg of a flow with parameters p. *)
RateOK(lg, colors, size, tb) ==
  \A j \in 1..Len(lg) : \A i \in 1..j :
    (Of(lg[j].before, colors) - Of(lg[i].before, colors)) + Take(lg[j], colors)
      <= size + tb.bytes * ((lg[j].t - lg[i].t) \div tb.period) + tb.bytes

Cause(lg, colors, size, tb, j) ==
  \E i \in 1..j :
    (Of(lg[j].before, colors) - Of(lg[i].before, colors)) + lg[j].len
      > size + tb.bytes * ((lg[j].t - lg[i].t) \div tb.period)

CauseOK(lg, p, j) ==
  /\ lg[j].in = Green /\ (lg[j].color = Yellow \/ (p.kind = "srtcm" /\ lg[j].color = Red)) =>
       Cause(lg, {Green}, p.cbs, rte_meter_get_tb_params(p.cir), j)
  /\ lg[j].in # Red /\ lg[j].color = Red =>
       IF p.kind = "srtcm"
       THEN Cause(lg, {Yellow}, p.ebs, [bytes |-> 0, period |-> 1], j)
       ELSE Cause(lg, {Green, Yellow}, p.pbs, rte_meter_get_tb_params(p.pir), j)

(* These are the properties of the specification. *)
LEMMA RateIs ==
  RateLimited <=> /\ RateOK(log, {Green}, par.cbs, Committed)
                  /\ RateOK(log, {Green, Yellow}, PeakSize, Peak)
BY DEF RateLimited, RateOK, Conforms, Bytes, BytesBefore, Earned, Take

(* The same of degraded packets. *)
LEMMA CauseIs == DegradedForCause <=> \A j \in 1..Len(log) : CauseOK(log, par, j)
BY DEF DegradedForCause, CauseOK, Cause, Exceeds, BytesBefore, Earned, Committed, Peak, Kind

(* The new packet's bytes, as the properties count them. *)
LEMMA NewBytes ==
  ASSUME NEW lg, NEW snt, NEW e, NEW lg2, NEW snt2, Arrives(lg, snt, e, lg2, snt2),
         NEW colors, NEW i \in 1..Len(lg2)
  PROVE  /\ Take(e, colors) \in Nat
         /\ Of(e.before, colors) - Of(lg2[i].before, colors) \in Int
         /\ (Of(e.before, colors) - Of(lg2[i].before, colors)) + Take(e, colors)
              = Spent(lg2, snt2, colors, i)
<1>1. e.len \in Nat /\ e.color \in Colors /\ lg2[i] \in Entry
  BY LogStep
<1>2. snt \in [Colors -> Nat] /\ e.before = snt /\ snt2 = Counted(snt, e.color, e.len)
  BY DEF Arrives, Counted
<1>3. lg2[i].before \in [Colors -> Nat]
  BY <1>1 DEF Entry
<1>4. Take(e, colors) = Part(e.color, e.len, colors) /\ Take(e, colors) \in Nat
  BY <1>1 DEF Take, Part
<1>5. /\ Of(snt, colors) \in Nat /\ Of(lg2[i].before, colors) \in Nat
      /\ Of(snt2, colors) = Of(snt, colors) + Take(e, colors)
  <2>1. Of(snt, colors) \in Nat /\ Of(snt2, colors) = Of(snt, colors) + Take(e, colors)
    BY <1>1, <1>2, <1>4, OfStep
  <2>2. Of(lg2[i].before, colors) \in Nat
    BY <1>1, <1>3, OfStep
  <2> QED
    BY <2>1, <2>2
<1> QED
  BY <1>2, <1>4, <1>5 DEF Spent

(* Rates stay kept when they are up to the new packet. *)
LEMMA RateStep ==
  ASSUME NEW lg, NEW snt, NEW e, NEW lg2, NEW snt2, Arrives(lg, snt, e, lg2, snt2),
         NEW colors, NEW size, NEW tb, RateOK(lg, colors, size, tb),
         \A i \in 1..Len(lg2) :
           Spent(lg2, snt2, colors, i)
             <= (size + tb.bytes * ((e.t - lg2[i].t) \div tb.period)) + tb.bytes
  PROVE  RateOK(lg2, colors, size, tb)
<1>1. /\ Len(lg) \in Nat /\ Len(lg2) = Len(lg) + 1 /\ lg2[Len(lg) + 1] = e
      /\ \A i \in 1..Len(lg) : lg2[i] = lg[i]
  BY LogStep
<1>2. ASSUME NEW i \in 1..Len(lg2)
      PROVE  (Of(e.before, colors) - Of(lg2[i].before, colors)) + Take(e, colors)
               <= size + tb.bytes * ((e.t - lg2[i].t) \div tb.period) + tb.bytes
  <2>1. (Of(e.before, colors) - Of(lg2[i].before, colors)) + Take(e, colors)
          = Spent(lg2, snt2, colors, i)
    BY NewBytes
  <2> QED
    BY <2>1
<1>3. ASSUME NEW j \in 1..Len(lg2), NEW i \in 1..j
      PROVE  (Of(lg2[j].before, colors) - Of(lg2[i].before, colors)) + Take(lg2[j], colors)
               <= size + tb.bytes * ((lg2[j].t - lg2[i].t) \div tb.period) + tb.bytes
  <2>1. CASE j = Len(lg) + 1
    <3>1. i \in 1..Len(lg2) /\ lg2[j] = e
      BY <1>1, <2>1
    <3> QED
      BY <1>2, <3>1
  <2>2. CASE j \in 1..Len(lg)
    <3>1. i \in 1..Len(lg) /\ lg2[j] = lg[j] /\ lg2[i] = lg[i]
      BY <1>1, <2>2
    <3> QED
      BY <2>2, <3>1 DEF RateOK
  <2> QED
    BY <1>1, <2>1, <2>2
<1> QED
  BY <1>3 DEF RateOK

(* The cause of an earlier packet stays one. *)
LEMMA CauseKept ==
  ASSUME NEW lg, NEW snt, NEW e, NEW lg2, NEW snt2, Arrives(lg, snt, e, lg2, snt2),
         NEW p, NEW j \in 1..Len(lg), CauseOK(lg, p, j)
  PROVE  CauseOK(lg2, p, j)
<1>1. Len(lg) \in Nat /\ \A i \in 1..Len(lg) : lg2[i] = lg[i]
  BY LogStep
<1>2. lg2[j] = lg[j] /\ \A i \in 1..j : lg2[i] = lg[i]
  BY <1>1
<1>3. \A colors, size, tb : Cause(lg, colors, size, tb, j) => Cause(lg2, colors, size, tb, j)
  BY <1>2 DEF Cause
<1> QED
  BY <1>2, <1>3 DEF CauseOK

(* A cause of the new packet, when it takes nothing. *)
LEMMA CauseNew ==
  ASSUME NEW lg, NEW snt, NEW e, NEW lg2, NEW snt2, Arrives(lg, snt, e, lg2, snt2),
         NEW colors, NEW size, NEW tb, Take(e, colors) = 0, NEW i \in 1..Len(lg2),
         Spent(lg2, snt2, colors, i) + e.len
           > size + tb.bytes * ((e.t - lg2[i].t) \div tb.period)
  PROVE  Cause(lg2, colors, size, tb, Len(lg2))
<1>1. Len(lg) \in Nat /\ Len(lg2) = Len(lg) + 1 /\ lg2[Len(lg) + 1] = e
  BY LogStep
<1>2. /\ Of(e.before, colors) - Of(lg2[i].before, colors) \in Int
      /\ (Of(e.before, colors) - Of(lg2[i].before, colors)) + Take(e, colors)
           = Spent(lg2, snt2, colors, i)
  BY NewBytes
<1>3. Of(e.before, colors) - Of(lg2[i].before, colors) = Spent(lg2, snt2, colors, i)
  BY <1>2
<1>4. (Of(e.before, colors) - Of(lg2[i].before, colors)) + e.len
        > size + tb.bytes * ((e.t - lg2[i].t) \div tb.period)
  BY <1>3
<1>5. lg2[Len(lg2)] = e
  BY <1>1
<1> QED
  BY <1>4, <1>5 DEF Cause

-----------------------------------------------------------------------------
(* The excess bucket of a srTCM once it is filled. *)
FilledExcess(time, m, tb, p) ==
  LET x == (m.tc + Periods(time, m.time, tb) * tb.bytes) % Word
  IN IF x > p.cbs THEN Least(m.te + (x - p.cbs), p.ebs) ELSE m.te

(* What a srTCM does with a packet. *)
LEMMA SrtcmIs ==
  ASSUME NEW m \in Meter, NEW p, NEW time, NEW len, NEW color,
         NEW tb, tb = rte_meter_get_tb_params(p.cir),
         NEW fc, fc = Filled(time, m.time, tb, m.tc, p.cbs),
         NEW fe, fe = FilledExcess(time, m, tb, p),
         NEW r, r = rte_meter_srtcm_check(m, p, time, len, color)
  PROVE  /\ r.color = IF color = Green /\ fc >= len THEN Green
                      ELSE IF color # Red /\ fe >= len THEN Yellow ELSE Red
         /\ r.m = [time |-> LastFill(time, m.time, tb), time2 |-> m.time2,
                   tc |-> IF r.color = Green THEN fc - len ELSE fc,
                   te |-> IF r.color = Yellow THEN fe - len ELSE fe]
<1>1. PICK f : f = SrtcmFill(m, p, time)
  OBVIOUS
<1>2. f = [time |-> LastFill(time, m.time, tb), time2 |-> m.time2, tc |-> fc, te |-> fe]
  BY <1>1 DEF SrtcmFill, Filled, FilledExcess, Overflow, Meter
<1>3. r = [m |-> SrtcmTake(f, len, SrtcmColor(f, len, color)), color |-> SrtcmColor(f, len, color)]
  BY <1>1 DEF rte_meter_srtcm_check
<1>4. f.tc = fc /\ f.te = fe
  BY <1>2
<1>5. r.color = SrtcmColor(f, len, color) /\ r.m = SrtcmTake(f, len, r.color)
  BY <1>3
<1>6. SrtcmTake(f, len, r.color)
        = [time |-> LastFill(time, m.time, tb), time2 |-> m.time2,
           tc |-> IF r.color = Green THEN fc - len ELSE fc,
           te |-> IF r.color = Yellow THEN fe - len ELSE fe]
  <2>1. PICK c, tc2, te2 : /\ c = r.color
                            /\ tc2 = (IF c = Green THEN fc - len ELSE fc)
                            /\ te2 = (IF c = Yellow THEN fe - len ELSE fe)
    OBVIOUS
  <2>2. SrtcmTake(f, len, c) = [f EXCEPT !.tc = tc2, !.te = te2]
    BY <1>4, <2>1 DEF SrtcmTake
  <2>3. PICK u, v : u = LastFill(time, m.time, tb) /\ v = m.time2
    OBVIOUS
  <2>4. f = [time |-> u, time2 |-> v, tc |-> fc, te |-> fe]
    BY <1>2, <2>3
  <2>5. [f EXCEPT !.tc = tc2, !.te = te2] = [time |-> u, time2 |-> v, tc |-> tc2, te |-> te2]
    <3>1. [f EXCEPT !.tc = tc2, !.te = te2] = [[f EXCEPT !.tc = tc2] EXCEPT !.te = te2]
      OBVIOUS
    <3>2. PICK g : g = [f EXCEPT !.tc = tc2]
      OBVIOUS
    <3>3. g = [time |-> u, time2 |-> v, tc |-> tc2, te |-> fe]
      BY <2>4, <3>2
    <3>4. [g EXCEPT !.te = te2] = [time |-> u, time2 |-> v, tc |-> tc2, te |-> te2]
      BY <3>3
    <3> QED
      BY <3>1, <3>2, <3>4
  <2> QED
    BY <2>1, <2>2, <2>3, <2>5
<1>7. SrtcmColor(f, len, color) = IF color = Green /\ fc >= len THEN Green
                      ELSE IF color # Red /\ fe >= len THEN Yellow ELSE Red
  BY <1>4 DEF SrtcmColor
<1> QED
  BY <1>5, <1>6, <1>7

(* What a trTCM does with a packet. *)
LEMMA TrtcmIs ==
  ASSUME NEW m \in Meter, NEW p, NEW time, NEW len, NEW color,
         NEW tb, tb = rte_meter_get_tb_params(p.cir),
         NEW tp, tp = rte_meter_get_tb_params(p.pir),
         NEW fc, fc = Filled(time, m.time, tb, m.tc, p.cbs),
         NEW fe, fe = Filled(time, m.time2, tp, m.te, p.pbs),
         NEW r, r = rte_meter_trtcm_check(m, p, time, len, color)
  PROVE  /\ r.color = IF color = Red \/ fe < len THEN Red
                      ELSE IF color = Yellow \/ fc < len THEN Yellow ELSE Green
         /\ r.m = [time |-> LastFill(time, m.time, tb), time2 |-> LastFill(time, m.time2, tp),
                   tc |-> IF r.color = Green THEN fc - len ELSE fc,
                   te |-> IF r.color # Red THEN fe - len ELSE fe]
<1>1. PICK f : f = TrtcmFill(m, p, time)
  OBVIOUS
<1>2. f = [time |-> LastFill(time, m.time, tb), time2 |-> LastFill(time, m.time2, tp),
           tc |-> fc, te |-> fe]
  BY <1>1 DEF TrtcmFill, Filled, Meter
<1>3. r = [m |-> TrtcmTake(f, len, TrtcmColor(f, len, color)), color |-> TrtcmColor(f, len, color)]
  BY <1>1 DEF rte_meter_trtcm_check
<1>4. f.tc = fc /\ f.te = fe
  BY <1>2
<1>5. r.color = TrtcmColor(f, len, color) /\ r.m = TrtcmTake(f, len, r.color)
  BY <1>3
<1>6. TrtcmTake(f, len, r.color)
        = [time |-> LastFill(time, m.time, tb), time2 |-> LastFill(time, m.time2, tp),
           tc |-> IF r.color = Green THEN fc - len ELSE fc,
           te |-> IF r.color # Red THEN fe - len ELSE fe]
  <2>1. PICK c, tc2, te2 : /\ c = r.color
                            /\ tc2 = (IF c = Green THEN fc - len ELSE fc)
                            /\ te2 = (IF c # Red THEN fe - len ELSE fe)
    OBVIOUS
  <2>2. TrtcmTake(f, len, c) = [f EXCEPT !.tc = tc2, !.te = te2]
    BY <1>4, <2>1 DEF TrtcmTake
  <2>3. PICK u, v : u = LastFill(time, m.time, tb) /\ v = LastFill(time, m.time2, tp)
    OBVIOUS
  <2>4. f = [time |-> u, time2 |-> v, tc |-> fc, te |-> fe]
    BY <1>2, <2>3
  <2>5. [f EXCEPT !.tc = tc2, !.te = te2] = [time |-> u, time2 |-> v, tc |-> tc2, te |-> te2]
    <3>1. [f EXCEPT !.tc = tc2, !.te = te2] = [[f EXCEPT !.tc = tc2] EXCEPT !.te = te2]
      OBVIOUS
    <3>2. PICK g : g = [f EXCEPT !.tc = tc2]
      OBVIOUS
    <3>3. g = [time |-> u, time2 |-> v, tc |-> tc2, te |-> fe]
      BY <2>4, <3>2
    <3>4. [g EXCEPT !.te = te2] = [time |-> u, time2 |-> v, tc |-> tc2, te |-> te2]
      BY <3>3
    <3> QED
      BY <3>1, <3>2, <3>4
  <2> QED
    BY <2>1, <2>2, <2>3, <2>5
<1>7. TrtcmColor(f, len, color) = IF color = Red \/ fe < len THEN Red
                      ELSE IF color = Yellow \/ fc < len THEN Yellow ELSE Green
  BY <1>4 DEF TrtcmColor
<1> QED
  BY <1>5, <1>6, <1>7

-----------------------------------------------------------------------------
(* Packet e comes at time t, the one before came at el. A bucket with the  *)
(* given rate and size pays for some colours; its level is f once it is    *)
(* filled.                                                                 *)
Charged(lg, snt, e, lg2, snt2, st, el, t, colors, rate, size, tb, last, level, f) ==
  /\ Arrives(lg, snt, e, lg2, snt2)
  /\ \A i \in 1..Len(lg) : lg[i].t <= el
  /\ st \in Nat /\ el \in Nat /\ t \in Nat /\ e.t = t /\ el <= t /\ t - el \in Gaps
  /\ rate \in Nat \ {0} /\ size \in Nat /\ Fits(rate, size)
  /\ tb = rte_meter_get_tb_params(rate)
  /\ Bucket(lg, snt, st, el, colors, size, tb, last, level)
  /\ f = Filled((st + t) % Word, last, tb, level, size)

(* It is filled n times: it was last filled at time a, and is now at a2. *)
FillOf(lg, e, st, el, tb, size, last, level, f, n, a, a2) ==
  /\ n = Periods((st + e.t) % Word, last, tb)
  /\ a = FilledAt(st, el, last)
  /\ a2 = FilledAt(st, e.t, LastFill((st + e.t) % Word, last, tb))
  /\ n * tb.bytes \in Nat
  /\ (level + n * tb.bytes) % Word = level + n * tb.bytes
  /\ f = Least(level + n * tb.bytes, size)
  /\ a2 <= e.t /\ e.t < a2 + tb.period
  /\ lg # << >> => a2 = a + n * tb.period

(* The numbers of such a bucket. *)
LEMMA ChargedIs ==
  ASSUME NEW lg, NEW snt, NEW e, NEW lg2, NEW snt2, NEW st, NEW el, NEW t, NEW colors,
         NEW rate, NEW size, NEW tb, NEW last, NEW level, NEW f,
         Charged(lg, snt, e, lg2, snt2, st, el, t, colors, rate, size, tb, last, level, f)
  PROVE  /\ \A i \in 1..Len(lg) : lg[i].t <= e.t
         /\ size \in Nat /\ tb.bytes \in Nat /\ tb.period \in Nat \ {0}
         /\ level \in 0..size /\ f \in 0..size
         /\ \E n \in Nat, a \in Int, a2 \in Int :
              /\ FillOf(lg, e, st, el, tb, size, last, level, f, n, a, a2)
              /\ Clock(lg2, st, t, LastFill((st + t) % Word, last, tb), tb)
              /\ Upper(lg2, snt2, colors, size, tb, a2, f - Take(e, colors))
              /\ Lower(lg2, snt2, colors, size, tb, a2, f - Take(e, colors))
<1> SUFFICES
      ASSUME Arrives(lg, snt, e, lg2, snt2), \A i \in 1..Len(lg) : lg[i].t <= el,
             st \in Nat, el \in Nat, t \in Nat, e.t = t, el <= t, t - el \in Gaps,
             rate \in Nat \ {0}, size \in Nat, Fits(rate, size),
             tb = rte_meter_get_tb_params(rate),
             Bucket(lg, snt, st, el, colors, size, tb, last, level),
             f = Filled((st + t) % Word, last, tb, level, size),
             NEW time, time = (st + t) % Word, NEW n, n = Periods(time, last, tb),
             NEW a2, a2 = FilledAt(st, t, LastFill(time, last, tb))
      PROVE  /\ \A i \in 1..Len(lg) : lg[i].t <= e.t
             /\ size \in Nat /\ tb.bytes \in Nat /\ tb.period \in Nat \ {0}
             /\ level \in 0..size /\ f \in 0..size
             /\ \E k \in Nat, a \in Int, c \in Int :
                  /\ FillOf(lg, e, st, el, tb, size, last, level, f, k, a, c)
                  /\ Clock(lg2, st, t, LastFill((st + t) % Word, last, tb), tb)
                  /\ Upper(lg2, snt2, colors, size, tb, c, f - Take(e, colors))
                  /\ Lower(lg2, snt2, colors, size, tb, c, f - Take(e, colors))
  BY DEF Charged
<1>1. tb.bytes \in Nat /\ tb.period \in Nat \ {0}
  BY TbParams
<1>2. (t - el) + tb.period <= Word /\ size + (Word \div tb.period) * tb.bytes < Word
  BY DEF Fits
<1>3. Clock(lg, st, el, last, tb) /\ level \in 0..size /\ last \in Nat
  BY DEF Bucket, Clock
<1>0. PICK last2 : last2 = LastFill(time, last, tb)
  OBVIOUS
<1>4. /\ n \in Nat /\ n <= Word \div tb.period
      /\ last2 \in Nat /\ Age(st, t, last2) \in Nat /\ Age(st, t, last2) < tb.period
      /\ lg # << >> => FilledAt(st, t, last2) = FilledAt(st, el, last) + n * tb.period
  <2>1. Ticks(lg, st, el, t, last, tb, n, last2)
    BY <1>0, <1>1, <1>2, <1>3 DEF Ticks
  <2> QED
    BY <2>1, Tick
<1>5. /\ a2 = t - Age(st, t, last2)
      /\ lg # << >> => a2 = FilledAt(st, el, last) + n * tb.period
  BY <1>0, <1>4 DEF FilledAt
<1>6. a2 \in Int /\ a2 <= e.t /\ e.t < a2 + tb.period
  <2>1. PICK g \in Nat, p \in Nat : g = Age(st, t, last2) /\ p = tb.period /\ g < p
    BY <1>1, <1>4
  <2>2. a2 = (t) - g
    BY <1>5, <2>1
  <2> QED
    BY <2>1, <2>2
<1>7. PICK q \in Nat : q = Word \div tb.period /\ n <= q /\ size + q * tb.bytes < Word
  <2>1. Word \in Nat
    BY MeterAssumption
  <2>2. Word \div tb.period \in Nat
    BY <1>1, <2>1, Quotient
  <2> QED
    BY <1>2, <1>4, <2>2
<1>8. n * tb.bytes \in Nat /\ (level + n * tb.bytes) % Word = level + n * tb.bytes
  <2>1. PICK b \in Nat : b = tb.bytes
    BY <1>1
  <2>2. n * b \in Nat /\ q * b \in Nat /\ n * b <= q * b
    BY <1>4, <1>7
  <2>3. PICK y \in Nat : y = level + n * b
    BY <1>3, <2>2
  <2>4. y < Word /\ Word \in Nat \ {0}
    BY <1>3, <1>7, <2>1, <2>2, <2>3, MeterAssumption
  <2>5. 0 * Word + y = y /\ y \in 0..(Word - 1) /\ y \in Int /\ 0 \in Int
    BY <2>4
  <2>6. y % Word = y
    BY <2>5, Remainder
  <2> QED
    BY <2>1, <2>2, <2>3, <2>6
<1>9. f = Least(level + n * tb.bytes, size)
  BY <1>8 DEF Filled
<1>10. f \in 0..size /\ f <= level + n * tb.bytes /\ (f >= level + n * tb.bytes \/ f = size)
  <2>1. PICK y \in Nat : y = level + n * tb.bytes
    BY <1>3, <1>8
  <2>2. f = IF y < size THEN y ELSE size
    BY <1>9, <2>1 DEF Least
  <2> QED
    BY <2>1, <2>2
<1>11. Clock(lg2, st, t, last2, tb)
  BY <1>4 DEF Clock
<1>12. PICK a \in Int : a = FilledAt(st, el, last)
  <2>1. (st + el) - last \in Int
    BY <1>3
  <2>2. ((st + el) - last) % Word \in 0..(Word - 1) /\ Word \in Nat
    BY <2>1, Divide, MeterAssumption
  <2>3. Age(st, el, last) \in Nat
    BY <2>2 DEF Age
  <2> QED
    BY <2>3 DEF FilledAt
<1>13. /\ Upper(lg, snt, colors, size, tb, a, level) /\ Lower(lg, snt, colors, size, tb, a, level)
       /\ lg # << >> => a2 = a + n * tb.period
       /\ level \in Nat /\ f \in Nat /\ f <= size
  BY <1>3, <1>5, <1>10, <1>12 DEF Bucket
<1>14. Refill(lg, size, tb, a, level, n, a2, f)
  BY <1>4, <1>6, <1>10, <1>13 DEF Refill
<1>15. PICK level2 : level2 = f - Take(e, colors)
  OBVIOUS
<1>16. Upper(lg2, snt2, colors, size, tb, a2, level2)
  BY <1>1, <1>6, <1>13, <1>14, <1>15, UpperStep
<1>17. Lower(lg2, snt2, colors, size, tb, a2, level2)
  BY <1>1, <1>6, <1>10, <1>13, <1>14, <1>15, LowerStep
<1>18. ASSUME NEW i \in 1..Len(lg) PROVE lg[i].t <= e.t
  <2>1. lg[i] \in Entry
    BY LogStep
  <2>2. lg[i].t \in Nat
    BY <2>1 DEF Entry
  <2> QED
    BY <2>2
<1>19. FillOf(lg, e, st, el, tb, size, last, level, f, n, a, a2)
  BY <1>0, <1>5, <1>6, <1>8, <1>9, <1>12, <1>13 DEF FillOf
<1> QED
  BY <1>0, <1>1, <1>3, <1>4, <1>6, <1>10, <1>11, <1>15, <1>16, <1>17, <1>18, <1>19

(* It stays a bucket, keeps its rate, and a packet it does not pay for     *)
(* exceeds it.                                                             *)
LEMMA BucketKept ==
  ASSUME NEW lg, NEW snt, NEW e, NEW lg2, NEW snt2, NEW st, NEW el, NEW t, NEW colors,
         NEW rate, NEW size, NEW tb, NEW last, NEW level, NEW f,
         Charged(lg, snt, e, lg2, snt2, st, el, t, colors, rate, size, tb, last, level, f),
         RateOK(lg, colors, size, tb), e.color \in colors => f >= e.len,
         NEW last2, last2 = LastFill((st + t) % Word, last, tb),
         NEW level2, level2 = f - Take(e, colors)
  PROVE  /\ level2 \in 0..size
         /\ Bucket(lg2, snt2, st, t, colors, size, tb, last2, level2)
         /\ RateOK(lg2, colors, size, tb)
         /\ e.color \notin colors /\ f < e.len => Cause(lg2, colors, size, tb, Len(lg2))
<1>1. Arrives(lg, snt, e, lg2, snt2)
  BY DEF Charged
<1>2. /\ \A i \in 1..Len(lg) : lg[i].t <= e.t
      /\ size \in Nat /\ tb.bytes \in Nat /\ tb.period \in Nat \ {0} /\ f \in 0..size
  BY ChargedIs
<1>3. PICK a2 \in Int :
        /\ a2 = FilledAt(st, t, last2) /\ Clock(lg2, st, t, last2, tb)
        /\ a2 <= e.t /\ e.t < a2 + tb.period
        /\ Upper(lg2, snt2, colors, size, tb, a2, level2)
        /\ Lower(lg2, snt2, colors, size, tb, a2, level2)
  <2>1. PICK n \in Nat, a \in Int, a2 \in Int :
          /\ FillOf(lg, e, st, el, tb, size, last, level, f, n, a, a2)
          /\ Clock(lg2, st, t, LastFill((st + t) % Word, last, tb), tb)
          /\ Upper(lg2, snt2, colors, size, tb, a2, f - Take(e, colors))
          /\ Lower(lg2, snt2, colors, size, tb, a2, f - Take(e, colors))
    BY ChargedIs
  <2>2. e.t = t
    BY DEF Charged
  <2>3. a2 = FilledAt(st, t, last2) /\ a2 <= e.t /\ e.t < a2 + tb.period
    BY <2>1, <2>2 DEF FillOf
  <2> QED
    BY <2>1, <2>3
<1>4. level2 \in 0..size
  <2>1. e.len \in Nat
    BY <1>1, LogStep
  <2>2. Take(e, colors) \in Nat /\ Take(e, colors) <= f
    BY <1>2, <2>1 DEF Take
  <2> QED
    BY <1>2, <2>2
<1>5. Bucket(lg2, snt2, st, t, colors, size, tb, last2, level2)
  BY <1>3, <1>4 DEF Bucket
<1>6. level2 \in Nat
  BY <1>2, <1>4
<1>7. RateOK(lg2, colors, size, tb)
  <2>1. \A i \in 1..Len(lg2) :
          Spent(lg2, snt2, colors, i)
            <= (size + tb.bytes * ((e.t - lg2[i].t) \div tb.period)) + tb.bytes
    BY <1>1, <1>2, <1>3, <1>6, UpperBounds
  <2> QED
    BY <1>1, <2>1, RateStep
<1>8. ASSUME e.color \notin colors, f < e.len
      PROVE  Cause(lg2, colors, size, tb, Len(lg2))
  <2>1. Take(e, colors) = 0
    BY <1>8 DEF Take
  <2>2. level2 < e.len
    BY <1>2, <1>8, <2>1
  <2>3. PICK i \in 1..Len(lg2) :
          Spent(lg2, snt2, colors, i) + e.len
            > size + tb.bytes * ((e.t - lg2[i].t) \div tb.period)
    BY <1>1, <1>2, <1>3, <1>6, <2>2, LowerExceeds
  <2> QED
    BY <1>1, <2>1, <2>3, CauseNew
<1> QED
  BY <1>4, <1>5, <1>7, <1>8

-----------------------------------------------------------------------------
(* The parameters of the flow. *)
LEMMA ParOK ==
  ASSUME TypeOK
  PROVE  /\ par.cir \in Nat \ {0} /\ par.cbs \in Nat /\ Fits(par.cir, par.cbs)
         /\ Kind = "srtcm" => par.ebs \in Nat
         /\ Kind # "srtcm" => par.pir \in Nat \ {0} /\ par.pbs \in Nat /\ Fits(par.pir, par.pbs)
<1>1. par \in Params /\ ParamsOK(par)
  BY DEF TypeOK
<1>2. /\ par.cir \in Nat /\ par.cbs \in Nat /\ Fits(par.cir, par.cbs)
      /\ par.kind = "srtcm" => par.ebs \in Nat
      /\ par.kind # "srtcm" => par.pir \in Nat /\ par.pbs \in Nat /\ Fits(par.pir, par.pbs)
  BY <1>1, MeteringAssumption
<1>3. par.cir # 0 /\ (par.kind # "srtcm" => par.pir # 0)
  BY <1>1 DEF ParamsOK, SrtcmParamsOK, TrtcmParamsOK
<1> QED
  BY <1>2, <1>3 DEF Kind

(* At first the buckets are full. *)
LEMMA InitInv == MeterInit => IndInv
<1> SUFFICES ASSUME MeterInit PROVE IndInv
  OBVIOUS
<1>1. PICK p \in Params, lead \in MeterLeads :
        /\ ParamsOK(p) /\ par = p /\ start \in Starts
        /\ meter = Config(p, (start + lead) % Word) /\ elapsed = 0 /\ log = << >>
        /\ sent = [c \in Colors |-> 0]
  BY DEF MeterInit
<1>2. PICK tsc \in Nat : tsc = (start + lead) % Word
  <2>1. start + lead \in Int /\ Word \in Nat
    BY <1>1, MeteringAssumption, MeterAssumption
  <2>2. (start + lead) % Word \in 0..(Word - 1)
    BY <2>1, Divide
  <2> QED
    BY <2>1, <2>2
<1>3. /\ p.cbs \in Nat
      /\ p.kind = "srtcm" => p.ebs \in Nat
      /\ p.kind # "srtcm" => p.pbs \in Nat
  BY <1>1, MeteringAssumption
<1>4. PICK te \in Nat :
        /\ meter = [time |-> tsc, time2 |-> tsc, tc |-> p.cbs, te |-> te]
        /\ te = IF p.kind = "srtcm" THEN p.ebs ELSE p.pbs
  <2>1. CASE p.kind = "srtcm"
    BY <2>1, <1>1, <1>2, <1>3 DEF Config, rte_meter_srtcm_config
  <2>2. CASE p.kind # "srtcm"
    BY <2>2, <1>1, <1>2, <1>3 DEF Config, rte_meter_trtcm_config
  <2> QED
    BY <2>1, <2>2
<1>5. /\ meter.time = tsc /\ meter.time2 = tsc /\ meter.tc = p.cbs
      /\ p.kind = "srtcm" => meter.te = p.ebs
      /\ p.kind # "srtcm" => meter.te = p.pbs
      /\ meter \in Meter
  <2>1. /\ meter.time = tsc /\ meter.time2 = tsc /\ meter.tc = p.cbs /\ meter.te = te
        /\ meter \in Meter
    BY <1>3, <1>4 DEF Meter
  <2> QED
    BY <1>4, <2>1
<1>6. Len(log) = 0 /\ log \in Seq(Entry)
  BY <1>1
<1>7. TypeOK /\ InOrder
  BY <1>1, <1>5, <1>6, MeteringAssumption DEF TypeOK, InOrder
<1>8. ASSUME NEW colors, NEW size \in Nat, NEW tb
      PROVE  Bucket(log, sent, start, elapsed, colors, size, tb, tsc, size)
  BY <1>1, <1>6 DEF Bucket, Clock, Upper, Lower
<1>9. TcOK
  <2>1. Bucket(log, sent, start, elapsed, {Green}, p.cbs, Committed, tsc, p.cbs)
    BY <1>3, <1>8
  <2> QED
    BY <1>1, <1>5, <2>1 DEF TcOK
<1>10. IF Kind = "srtcm" THEN Excess ELSE TpOK
  <2>1. CASE p.kind = "srtcm"
    BY <2>1, <1>1, <1>3, <1>5, <1>6 DEF Excess, Upper, Kind
  <2>2. CASE p.kind # "srtcm"
    <3>1. Bucket(log, sent, start, elapsed, {Green, Yellow}, p.pbs, Peak, tsc, p.pbs)
      BY <2>2, <1>3, <1>8
    <3> QED
      BY <1>1, <1>5, <2>2, <3>1 DEF TpOK, Kind
  <2> QED
    BY <2>1, <2>2, <1>1 DEF Kind
<1>11. RateLimited /\ DegradedForCause
  BY <1>6 DEF RateLimited, Conforms, DegradedForCause
<1> QED
  BY <1>7, <1>9, <1>10, <1>11 DEF IndInv

(* A packet as it is logged: what the meter says of it, and when. *)
Logged(e, gap, len, color, r) ==
  /\ Arrives(log, sent, e, log', sent')
  /\ e.t = elapsed + gap /\ e.len = len /\ e.in = color /\ e.color = r.color
  /\ elapsed' = e.t /\ start' = start /\ par' = par /\ meter' = r.m
  /\ elapsed <= e.t /\ e.t \in Nat /\ e.t - elapsed \in Gaps
  /\ r = Check((start + e.t) % Word, len, color)

(* The colour of a packet. *)
LEMMA PacketIs ==
  ASSUME TypeOK, NEW gap \in Gaps, NEW len \in Lens, NEW color \in InColors,
         MeterPacket(gap, len, color)
  PROVE  \E e, r : Logged(e, gap, len, color, r)
<1>1. /\ gap \in Nat /\ len \in Nat /\ color \in Colors /\ meter \in Meter
      /\ elapsed \in Nat /\ log \in Seq(Entry) /\ sent \in [Colors -> Nat]
  BY MeteringAssumption DEF TypeOK
<1>2. PICK t, r : t \in Nat /\ t = elapsed + gap /\ r = Check((start + t) % Word, len, color)
  BY <1>1
<1>3. r.color \in Colors
  <2>1. CASE Kind = "srtcm"
    <3>1. PICK f : r.color = SrtcmColor(f, len, color)
      BY <2>1, <1>2 DEF Check, rte_meter_srtcm_check
    <3> QED
      BY <3>1 DEF SrtcmColor, Colors
  <2>2. CASE Kind # "srtcm"
    <3>1. PICK f : r.color = TrtcmColor(f, len, color)
      BY <2>2, <1>2 DEF Check, rte_meter_trtcm_check
    <3> QED
      BY <3>1 DEF TrtcmColor, Colors
  <2> QED
    BY <2>1, <2>2
<1>4. PICK c \in Colors : c = r.color
  BY <1>3
<1>5. PICK e : e = [t |-> t, len |-> len, color |-> c, in |-> color, before |-> sent]
  OBVIOUS
<1>6. e \in Entry /\ e.t = t /\ e.len = len /\ e.color = c /\ e.in = color /\ e.before = sent
  BY <1>1, <1>2, <1>5 DEF Entry
<1>7. /\ meter' = r.m /\ elapsed' = t /\ par' = par /\ start' = start
      /\ log' = Append(log, e) /\ sent' = [sent EXCEPT ![c] = @ + len]
  BY <1>2, <1>4, <1>5 DEF MeterPacket
<1>8. Arrives(log, sent, e, log', sent')
  BY <1>1, <1>6, <1>7 DEF Arrives
<1>9. elapsed <= t /\ t - elapsed = gap
  BY <1>1, <1>2
<1> QED
  BY <1>2, <1>4, <1>6, <1>7, <1>8, <1>9 DEF Logged

(* The committed bucket of either meter. *)
LEMMA TcCharged ==
  ASSUME IndInv, NEW e, NEW gap, NEW len, NEW color, NEW r, Logged(e, gap, len, color, r),
         NEW f, f = Filled((start + e.t) % Word, meter.time, Committed, meter.tc, par.cbs)
  PROVE  /\ Charged(log, sent, e, log', sent', start, elapsed, e.t, {Green}, par.cir, par.cbs,
                    Committed, meter.time, meter.tc, f)
         /\ RateOK(log, {Green}, par.cbs, Committed)
<1>1. par.cir \in Nat \ {0} /\ par.cbs \in Nat /\ Fits(par.cir, par.cbs)
  BY ParOK DEF IndInv
<1>2. TcOK /\ InOrder /\ start \in Nat /\ elapsed \in Nat /\ RateLimited
  BY DEF IndInv, TypeOK
<1>3. RateOK(log, {Green}, par.cbs, Committed)
  BY <1>2, RateIs
<1>4. Arrives(log, sent, e, log', sent') /\ elapsed <= e.t /\ e.t \in Nat /\ e.t - elapsed \in Gaps
  BY DEF Logged
<1> QED
  BY <1>1, <1>2, <1>3, <1>4 DEF Charged, TcOK, InOrder, Committed

(* The types and the order of the log after a packet. *)
LEMMA LogInv ==
  ASSUME IndInv, NEW e, NEW gap, NEW len, NEW color, NEW r, Logged(e, gap, len, color, r),
         r.m \in Meter
  PROVE  TypeOK' /\ InOrder'
<1>1. /\ Arrives(log, sent, e, log', sent') /\ elapsed <= e.t /\ e.t \in Nat
      /\ elapsed' = e.t /\ start' = start /\ par' = par /\ meter' = r.m
  BY DEF Logged
<1>2. TypeOK /\ InOrder /\ elapsed \in Nat
  BY DEF IndInv, TypeOK
<1>3. /\ Len(log) \in Nat /\ Len(log') = Len(log) + 1
      /\ log' \in Seq(Entry) /\ sent' \in [Colors -> Nat]
      /\ \A i \in 1..Len(log) : log'[i] = log[i] /\ log[i] \in Entry
      /\ log'[Len(log) + 1] = e
  BY <1>1, LogStep
<1>4. TypeOK'
  BY <1>1, <1>2, <1>3 DEF TypeOK
<1>5. ASSUME NEW i \in 1..Len(log') PROVE log'[i].t <= elapsed'
  <2>1. CASE i = Len(log) + 1
    BY <2>1, <1>1, <1>3
  <2>2. CASE i \in 1..Len(log)
    <3>1. log'[i] = log[i] /\ log[i] \in Entry /\ log[i].t <= elapsed
      BY <2>2, <1>2, <1>3 DEF InOrder
    <3>2. log[i].t \in Nat
      BY <3>1 DEF Entry
    <3>3. log[i].t <= e.t
      BY <1>1, <1>2, <3>1, <3>2
    <3> QED
      BY <1>1, <3>1, <3>3
  <2> QED
    BY <1>3, <2>1, <2>2
<1> QED
  BY <1>4, <1>5 DEF InOrder

(* The causes of earlier packets, and that of the new one. *)
LEMMA CauseInv ==
  ASSUME IndInv, NEW e, NEW gap, NEW len, NEW color, NEW r, Logged(e, gap, len, color, r),
         CauseOK(log', par, Len(log'))
  PROVE  DegradedForCause'
<1>1. Arrives(log, sent, e, log', sent') /\ par' = par
  BY DEF Logged
<1>2. Len(log) \in Nat /\ Len(log') = Len(log) + 1
  BY <1>1, LogStep
<1>3. \A j \in 1..Len(log) : CauseOK(log, par, j)
  BY CauseIs DEF IndInv
<1>4. \A j \in 1..Len(log) : CauseOK(log', par, j)
  BY <1>1, <1>3, CauseKept
<1>5. \A j \in 1..Len(log') : CauseOK(log', par', j)
  BY <1>1, <1>2, <1>4
<1> QED
  BY <1>5 DEF DegradedForCause, CauseOK, Cause, Exceeds, BytesBefore, Earned, Committed, Peak, Kind

(* The rates after the new packet. *)
LEMMA RateInv ==
  ASSUME RateOK(log', {Green}, par.cbs, Committed), RateOK(log', {Green, Yellow}, PeakSize, Peak),
         par' = par
  PROVE  RateLimited'
<1>1. Committed' = Committed /\ Peak' = Peak /\ PeakSize' = PeakSize
  BY DEF Committed, Peak, PeakSize, Kind
<1>2. RateOK(log', {Green}, par'.cbs, Committed') /\ RateOK(log', {Green, Yellow}, PeakSize', Peak')
  BY <1>1
<1> QED
  BY <1>2 DEF RateLimited, RateOK, Conforms, Bytes, BytesBefore, Earned, Take

(* What a packet takes, by its colour. *)
LEMMA Takes ==
  ASSUME NEW e
  PROVE  /\ Take(e, {Green}) = IF e.color = Green THEN e.len ELSE 0
         /\ Take(e, {Yellow}) = IF e.color = Yellow THEN e.len ELSE 0
         /\ e.color \in Colors =>
              Take(e, {Green, Yellow}) = IF e.color # Red THEN e.len ELSE 0
BY DEF Take, Colors, Green, Yellow, Red

(* A packet through a trTCM. *)
LEMMA TrtcmInv ==
  ASSUME IndInv, Kind # "srtcm",
         NEW e, NEW gap, NEW len, NEW color, NEW r, Logged(e, gap, len, color, r)
  PROVE  IndInv'
<1>1. PICK time, tb, tp, fc, fe :
        /\ time = (start + e.t) % Word
        /\ tb = rte_meter_get_tb_params(par.cir) /\ tp = rte_meter_get_tb_params(par.pir)
        /\ fc = Filled(time, meter.time, tb, meter.tc, par.cbs)
        /\ fe = Filled(time, meter.time2, tp, meter.te, par.pbs)
  OBVIOUS
<1>2. tb = Committed /\ tp = Peak /\ PeakSize = par.pbs
  BY <1>1 DEF Committed, Peak, PeakSize
<1>3. /\ Arrives(log, sent, e, log', sent') /\ elapsed <= e.t /\ e.t \in Nat
      /\ e.t - elapsed \in Gaps /\ elapsed' = e.t /\ start' = start /\ par' = par /\ meter' = r.m
      /\ e.len = len /\ e.in = color /\ e.color = r.color
  BY DEF Logged
<1>4. r = rte_meter_trtcm_check(meter, par, time, len, color) /\ meter \in Meter
  BY <1>1 DEF Logged, Check, IndInv, TypeOK
<1>5. /\ r.color = IF color = Red \/ fe < len THEN Red
                   ELSE IF color = Yellow \/ fc < len THEN Yellow ELSE Green
      /\ r.m = [time |-> LastFill(time, meter.time, tb), time2 |-> LastFill(time, meter.time2, tp),
                tc |-> IF r.color = Green THEN fc - len ELSE fc,
                te |-> IF r.color # Red THEN fe - len ELSE fe]
  BY <1>1, <1>4, TrtcmIs
<1>6. /\ Charged(log, sent, e, log', sent', start, elapsed, e.t, {Green}, par.cir, par.cbs,
                 tb, meter.time, meter.tc, fc)
      /\ RateOK(log, {Green}, par.cbs, tb)
  BY <1>1, <1>2, TcCharged
<1>7. /\ Charged(log, sent, e, log', sent', start, elapsed, e.t, {Green, Yellow}, par.pir, par.pbs,
                 tp, meter.time2, meter.te, fe)
      /\ RateOK(log, {Green, Yellow}, par.pbs, tp)
  <2>1. par.pir \in Nat \ {0} /\ par.pbs \in Nat /\ Fits(par.pir, par.pbs)
    BY ParOK DEF IndInv
  <2>2. TpOK /\ InOrder /\ start \in Nat /\ elapsed \in Nat /\ RateLimited
    BY DEF IndInv, TypeOK
  <2>3. RateOK(log, {Green, Yellow}, par.pbs, tp)
    BY <1>2, <2>2, RateIs
  <2> QED
    BY <1>1, <1>2, <1>3, <2>1, <2>2, <2>3 DEF Charged, TpOK, InOrder
<1>8. /\ fc \in Nat /\ fe \in Nat /\ len \in Nat /\ e.color \in Colors
  <2>1. par.cbs \in Nat /\ par.pbs \in Nat /\ fc \in 0..par.cbs /\ fe \in 0..par.pbs
    BY <1>6, <1>7, ChargedIs
  <2> QED
    BY <1>3, <2>1, LogStep
<1>9. /\ e.color = Green => fc >= e.len
      /\ e.color \in {Green, Yellow} => fe >= e.len
      /\ e.in = Green /\ e.color = Yellow => fc < e.len
      /\ e.in # Red /\ e.color = Red => fe < e.len
  BY <1>3, <1>5, <1>8 DEF Green, Yellow, Red
<1>10. PICK lc, lp, tc2, te2 :
         /\ lc = LastFill(time, meter.time, tb) /\ lp = LastFill(time, meter.time2, tp)
         /\ tc2 = fc - Take(e, {Green}) /\ te2 = fe - Take(e, {Green, Yellow})
  OBVIOUS
<1>11. r.m = [time |-> lc, time2 |-> lp, tc |-> tc2, te |-> te2]
  <2>1. tc2 = IF r.color = Green THEN fc - len ELSE fc
    <3>1. Take(e, {Green}) = IF e.color = Green THEN len ELSE 0
      BY <1>3, Takes
    <3> QED
      BY <1>3, <1>8, <1>10, <3>1
  <2>2. te2 = IF r.color # Red THEN fe - len ELSE fe
    BY <1>3, <1>8, <1>10, Takes
  <2> QED
    BY <1>5, <1>10, <2>1, <2>2
<1>12. meter'.time = lc /\ meter'.time2 = lp /\ meter'.tc = tc2 /\ meter'.te = te2
  BY <1>3, <1>11
<1>13. /\ tc2 \in 0..par.cbs
       /\ Bucket(log', sent', start, e.t, {Green}, par.cbs, tb, lc, tc2)
       /\ RateOK(log', {Green}, par.cbs, tb)
       /\ e.color \notin {Green} /\ fc < e.len => Cause(log', {Green}, par.cbs, tb, Len(log'))
  <2>1. e.color \in {Green} => fc >= e.len
    BY <1>9
  <2> QED
    BY <1>1, <1>6, <1>10, <2>1, BucketKept
<1>14. /\ te2 \in 0..par.pbs
       /\ Bucket(log', sent', start, e.t, {Green, Yellow}, par.pbs, tp, lp, te2)
       /\ RateOK(log', {Green, Yellow}, par.pbs, tp)
       /\ e.color \notin {Green, Yellow} /\ fe < e.len
            => Cause(log', {Green, Yellow}, par.pbs, tp, Len(log'))
  BY <1>1, <1>7, <1>9, <1>10, BucketKept
<1>15. TcOK' /\ TpOK' /\ Kind' # "srtcm"
  BY <1>2, <1>3, <1>12, <1>13, <1>14 DEF TcOK, TpOK, Committed, Peak, Kind
<1>16. r.m \in Meter
  <2>1. tc2 \in Nat /\ te2 \in Nat
    BY <1>6, <1>7, <1>13, <1>14, ChargedIs
  <2>2. lc \in Nat /\ lp \in Nat
    BY <1>13, <1>14 DEF Bucket, Clock
  <2> QED
    BY <1>11, <2>1, <2>2 DEF Meter
<1>17. TypeOK' /\ InOrder'
  BY <1>16, LogInv
<1>18. RateLimited'
  BY <1>2, <1>3, <1>13, <1>14, RateInv
<1>19. CauseOK(log', par, Len(log'))
  <2>1. log'[Len(log')] = e
    BY <1>3, LogStep
  <2>2. e.color = Yellow => e.color \notin {Green}
    BY DEF Green, Yellow
  <2>3. e.color = Red => e.color \notin {Green, Yellow}
    BY DEF Green, Yellow, Red
  <2>4. par.kind # "srtcm"
    BY DEF Kind
  <2> QED
    BY <1>1, <1>9, <1>13, <1>14, <2>1, <2>2, <2>3, <2>4 DEF CauseOK
<1>20. DegradedForCause'
  BY <1>19, CauseInv
<1> QED
  BY <1>15, <1>17, <1>18, <1>20 DEF IndInv

(* A packet through a srTCM. *)
LEMMA SrtcmInv ==
  ASSUME IndInv, Kind = "srtcm",
         NEW e, NEW gap, NEW len, NEW color, NEW r, Logged(e, gap, len, color, r)
  PROVE  IndInv'
<1>1. PICK time, tb, fc, fe :
        /\ time = (start + e.t) % Word
        /\ tb = rte_meter_get_tb_params(par.cir)
        /\ fc = Filled(time, meter.time, tb, meter.tc, par.cbs)
        /\ fe = FilledExcess(time, meter, tb, par)
  OBVIOUS
<1>2. tb = Committed /\ tb = Peak /\ PeakSize = par.cbs + par.ebs
  BY <1>1 DEF Committed, Peak, PeakSize
<1>3. /\ Arrives(log, sent, e, log', sent') /\ elapsed <= e.t /\ e.t \in Nat
      /\ e.t - elapsed \in Gaps /\ elapsed' = e.t /\ start' = start /\ par' = par /\ meter' = r.m
      /\ e.len = len /\ e.in = color /\ e.color = r.color
  BY DEF Logged
<1>4. r = rte_meter_srtcm_check(meter, par, time, len, color) /\ meter \in Meter
  BY <1>1 DEF Logged, Check, IndInv, TypeOK
<1>5. /\ r.color = IF color = Green /\ fc >= len THEN Green
                   ELSE IF color # Red /\ fe >= len THEN Yellow ELSE Red
      /\ r.m = [time |-> LastFill(time, meter.time, tb), time2 |-> meter.time2,
                tc |-> IF r.color = Green THEN fc - len ELSE fc,
                te |-> IF r.color = Yellow THEN fe - len ELSE fe]
  BY <1>1, <1>4, SrtcmIs
<1>6. /\ Charged(log, sent, e, log', sent', start, elapsed, e.t, {Green}, par.cir, par.cbs,
                 tb, meter.time, meter.tc, fc)
      /\ RateOK(log, {Green}, par.cbs, tb)
  BY <1>1, <1>2, TcCharged
<1>7. /\ \A i \in 1..Len(log) : log[i].t <= e.t
      /\ par.cbs \in Nat /\ tb.bytes \in Nat /\ tb.period \in Nat \ {0}
      /\ meter.tc \in 0..par.cbs /\ fc \in 0..par.cbs
  BY <1>6, ChargedIs
<1>8. PICK n \in Nat, a \in Int, a2 \in Int :
        /\ n = Periods(time, meter.time, tb) /\ a = FilledAt(start, elapsed, meter.time)
        /\ a2 = FilledAt(start, e.t, LastFill(time, meter.time, tb))
        /\ n * tb.bytes \in Nat
        /\ (meter.tc + n * tb.bytes) % Word = meter.tc + n * tb.bytes
        /\ fc = Least(meter.tc + n * tb.bytes, par.cbs)
        /\ a2 <= e.t /\ e.t < a2 + tb.period
        /\ log # << >> => a2 = a + n * tb.period
  <2>1. PICK n \in Nat, a \in Int, a2 \in Int :
          FillOf(log, e, start, elapsed, tb, par.cbs, meter.time, meter.tc, fc, n, a, a2)
    BY <1>6, ChargedIs
  <2> QED
    BY <1>1, <2>1 DEF FillOf
<1>9. par.ebs \in Nat /\ meter.te \in 0..par.ebs /\ Excess
  <2>1. Excess
    BY DEF IndInv
  <2> QED
    BY <2>1, ParOK DEF IndInv, Excess
<1>10. /\ fc \in 0..par.cbs /\ fe \in meter.te..par.ebs
       /\ fc + fe <= (meter.tc + meter.te) + n * tb.bytes /\ fc + fe <= par.cbs + par.ebs
  <2>1. PICK tc \in Nat, te \in Nat, cbs \in Nat, ebs \in Nat, add \in Nat :
          /\ tc = meter.tc /\ te = meter.te /\ cbs = par.cbs /\ ebs = par.ebs
          /\ add = n * tb.bytes /\ tc <= cbs /\ te <= ebs
    <3>1. meter.tc \in Nat /\ meter.tc <= par.cbs /\ meter.te \in Nat /\ meter.te <= par.ebs
      BY <1>7, <1>9
    <3> QED
      BY <1>7, <1>8, <1>9, <3>1
  <2>2. fc = Least(tc + add, cbs)
    BY <1>8, <2>1
  <2>3. fe = IF tc + add > cbs THEN Least(te + ((tc + add) - cbs), ebs) ELSE te
    BY <1>1, <1>8, <2>1 DEF FilledExcess
  <2>4. fc \in 0..cbs /\ fe \in te..ebs /\ fc + fe <= (tc + te) + add /\ fc + fe <= cbs + ebs
    BY <2>1, <2>2, <2>3 DEF Least
  <2> QED
    BY <2>1, <2>4
<1>11. fc \in Nat /\ fe \in Nat /\ len \in Nat /\ e.color \in Colors
  <2>1. e.len \in Nat /\ e.color \in Colors
    BY <1>3, LogStep
  <2> QED
    BY <1>3, <1>7, <1>9, <1>10, <2>1
<1>12. /\ e.color = Green => fc >= e.len
       /\ e.color = Yellow => fe >= e.len
       /\ e.in = Green /\ e.color \in {Yellow, Red} => fc < e.len
       /\ e.in # Red /\ e.color = Red => fe < e.len
  BY <1>3, <1>5, <1>11 DEF Green, Yellow, Red
<1>13. PICK lc, tc2, te2 :
         /\ lc = LastFill(time, meter.time, tb)
         /\ tc2 = fc - Take(e, {Green}) /\ te2 = fe - Take(e, {Yellow})
  OBVIOUS
<1>14. r.m = [time |-> lc, time2 |-> meter.time2, tc |-> tc2, te |-> te2]
  <2>1. tc2 = IF r.color = Green THEN fc - len ELSE fc
    <3>1. Take(e, {Green}) = IF e.color = Green THEN len ELSE 0
      BY <1>3, Takes
    <3> QED
      BY <1>3, <1>11, <1>13, <3>1
  <2>2. te2 = IF r.color = Yellow THEN fe - len ELSE fe
    <3>1. Take(e, {Yellow}) = IF e.color = Yellow THEN len ELSE 0
      BY <1>3, Takes
    <3> QED
      BY <1>3, <1>11, <1>13, <3>1
  <2> QED
    BY <1>5, <1>13, <2>1, <2>2
<1>15. meter'.time = lc /\ meter'.tc = tc2 /\ meter'.te = te2
  BY <1>3, <1>14
<1>16. /\ tc2 \in 0..par.cbs
       /\ Bucket(log', sent', start, e.t, {Green}, par.cbs, tb, lc, tc2)
       /\ RateOK(log', {Green}, par.cbs, tb)
       /\ e.color \notin {Green} /\ fc < e.len => Cause(log', {Green}, par.cbs, tb, Len(log'))
  <2>1. e.color \in {Green} => fc >= e.len
    BY <1>12
  <2> QED
    BY <1>1, <1>6, <1>13, <2>1, BucketKept
<1>17. te2 \in 0..par.ebs /\ tc2 \in Nat /\ te2 \in Nat
  <2>1. Take(e, {Yellow}) = IF e.color = Yellow THEN len ELSE 0
    BY <1>3, Takes
  <2>2. Take(e, {Yellow}) \in Nat /\ Take(e, {Yellow}) <= fe
    BY <1>3, <1>11, <1>12, <2>1
  <2>3. fe <= par.ebs
    BY <1>9, <1>10
  <2> QED
    BY <1>7, <1>9, <1>11, <1>13, <1>16, <2>2, <2>3
<1>18. Upper(log', sent', {Green, Yellow}, par.cbs + par.ebs, tb, a2, tc2 + te2)
  <2>1. PICK size, level, f, level2 :
          /\ size \in Nat /\ level \in Nat /\ f \in Nat
          /\ size = par.cbs + par.ebs /\ level = meter.tc + meter.te /\ f = fc + fe
          /\ level2 = tc2 + te2
    BY <1>7, <1>9, <1>11
  <2>2. Upper(log, sent, {Green, Yellow}, size, tb, a, level)
    BY <1>2, <1>8, <1>9, <2>1 DEF Excess
  <2>3. Refill(log, size, tb, a, level, n, a2, f)
    BY <1>8, <1>10, <2>1 DEF Refill
  <2>4. level2 = f - Take(e, {Green, Yellow})
    <3>1. /\ Take(e, {Green}) = IF e.color = Green THEN len ELSE 0
          /\ Take(e, {Yellow}) = IF e.color = Yellow THEN len ELSE 0
          /\ Take(e, {Green, Yellow}) = IF e.color # Red THEN len ELSE 0
      BY <1>3, <1>11, Takes
    <3>2. Take(e, {Green, Yellow}) = Take(e, {Green}) + Take(e, {Yellow})
      BY <1>11, <3>1 DEF Colors, Green, Yellow, Red
    <3>3. Take(e, {Green}) \in Nat /\ Take(e, {Yellow}) \in Nat
      BY <1>11, <3>1
    <3> QED
      BY <1>11, <1>13, <2>1, <3>2, <3>3
  <2>5. tb.period \in Nat
    BY <1>7
  <2>6. Upper(log', sent', {Green, Yellow}, size, tb, a2, level2)
    BY <1>3, <1>7, <1>8, <2>1, <2>2, <2>3, <2>4, <2>5, UpperStep
  <2> QED
    BY <2>1, <2>6
<1>19. log' # << >> /\ te2 + Spent(log', sent', {Yellow}, 1) >= par.ebs
  <2>1. log' # << >>
    BY <1>3, LogStep
  <2>2. /\ Take(e, {Yellow}) \in Nat
        /\ Spent(log', sent', {Yellow}, Len(log) + 1) = Take(e, {Yellow})
        /\ \A i \in 1..Len(log) :
             /\ Spent(log, sent, {Yellow}, i) \in Int
             /\ Spent(log', sent', {Yellow}, i) = Spent(log, sent, {Yellow}, i) + Take(e, {Yellow})
    BY <1>3, SpentStep
  <2>3. log \in Seq(Entry)
    BY <1>3 DEF Arrives
  <2>4. CASE log = << >>
    <3>1. Len(log) + 1 = 1
      BY <2>4
    <3>2. meter.te = par.ebs
      BY <1>9, <2>4 DEF Excess
    <3>3. fe = par.ebs
      BY <1>9, <1>10, <3>2
    <3> QED
      BY <1>9, <1>13, <2>1, <2>2, <3>1, <3>3
  <2>5. CASE log # << >>
    <3>1. 1 \in 1..Len(log)
      BY <2>3, <2>5
    <3>2. PICK s \in Int : s = Spent(log, sent, {Yellow}, 1)
      BY <2>2, <3>1
    <3>3. Spent(log', sent', {Yellow}, 1) = s + Take(e, {Yellow})
      BY <2>2, <3>1, <3>2
    <3>4. meter.te + s >= par.ebs
      BY <1>9, <2>5, <3>2 DEF Excess
    <3>5. fe >= meter.te /\ meter.te \in Nat
      BY <1>9, <1>10
    <3> QED
      BY <1>9, <1>11, <1>13, <2>1, <2>2, <3>3, <3>4, <3>5
  <2> QED
    BY <2>4, <2>5
<1>20. TcOK' /\ Excess' /\ Kind' = "srtcm"
  <2>1. par' = par /\ start' = start /\ elapsed' = e.t /\ Committed' = tb /\ Kind' = "srtcm"
    BY <1>2, <1>3 DEF Committed, Kind
  <2>2. TcOK'
    BY <1>15, <1>16, <2>1 DEF TcOK
  <2>3. FilledAt(start', elapsed', meter'.time) = a2
    BY <1>8, <1>13, <1>15, <2>1
  <2>4. Upper(log', sent', {Green, Yellow}, par'.cbs + par'.ebs, Committed',
              FilledAt(start', elapsed', meter'.time), meter'.tc + meter'.te)
    BY <1>15, <1>18, <2>1, <2>3
  <2>5. meter'.te \in 0..par'.ebs /\ meter'.te + Spent(log', sent', {Yellow}, 1) >= par'.ebs
    BY <1>15, <1>17, <1>19, <2>1
  <2>6. Excess'
    BY <1>19, <2>4, <2>5 DEF Excess
  <2> QED
    BY <2>1, <2>2, <2>6
<1>21. r.m \in Meter
  <2>1. lc \in Nat
    BY <1>16 DEF Bucket, Clock
  <2>2. meter.time2 \in Nat
    BY <1>4 DEF Meter
  <2> QED
    BY <1>14, <1>17, <2>1, <2>2 DEF Meter
<1>22. TypeOK' /\ InOrder'
  BY <1>21, LogInv
<1>23. RateLimited'
  <2>1. PICK size \in Nat, level2 \in Nat : size = par.cbs + par.ebs /\ level2 = tc2 + te2
    BY <1>7, <1>9, <1>17
  <2>2. Upper(log', sent', {Green, Yellow}, size, tb, a2, level2)
    BY <1>18, <2>1
  <2>3. \A i \in 1..Len(log') :
          Spent(log', sent', {Green, Yellow}, i)
            <= (size + tb.bytes * ((e.t - log'[i].t) \div tb.period)) + tb.bytes
    BY <1>3, <1>7, <1>8, <2>2, UpperBounds
  <2>4. RateOK(log, {Green, Yellow}, size, tb)
    BY <1>2, <2>1, RateIs DEF IndInv
  <2>5. RateOK(log', {Green, Yellow}, size, tb)
    <3>1. Arrives(log, sent, e, log', sent')
      BY <1>3
    <3> QED
      BY <2>3, <2>4, <3>1, RateStep
  <2> QED
    BY <1>2, <1>3, <1>16, <2>1, <2>5, RateInv
<1>24. CauseOK(log', par, Len(log'))
  <2>1. log'[Len(log')] = e
    BY <1>3, LogStep
  <2>2. e.color \in {Yellow, Red} => e.color \notin {Green}
    BY DEF Green, Yellow, Red
  <2>3. ASSUME e.in # Red, e.color = Red
        PROVE  Cause(log', {Yellow}, par.ebs, [bytes |-> 0, period |-> 1], Len(log'))
    <3>1. Take(e, {Yellow}) = 0
      BY <2>3 DEF Take, Yellow, Red
    <3>2. te2 < e.len
      BY <1>11, <1>12, <1>13, <2>3, <3>1
    <3>3. 1 \in 1..Len(log')
      BY <1>3, LogStep
    <3>4. Spent(log', sent', {Yellow}, 1) \in Int /\ log'[1].t \in Nat
      BY <1>3, <1>7, <3>3, Entries
    <3>5. Spent(log', sent', {Yellow}, 1) + e.len > par.ebs
      BY <1>3, <1>9, <1>11, <1>17, <1>19, <3>2, <3>4
    <3>6. PICK tz : tz = [bytes |-> 0, period |-> 1]
      OBVIOUS
    <3>7. tz.bytes = 0 /\ tz.period = 1
      BY <3>6
    <3>8. PICK q \in Int : q = (e.t - log'[1].t) \div tz.period
      BY <1>3, <3>4, <3>7
    <3>9. par.ebs + tz.bytes * q = par.ebs
      BY <1>9, <3>7
    <3>10. Spent(log', sent', {Yellow}, 1) + e.len
             > par.ebs + tz.bytes * ((e.t - log'[1].t) \div tz.period)
      BY <3>5, <3>8, <3>9
    <3>11. Cause(log', {Yellow}, par.ebs, tz, Len(log'))
      BY <1>3, <3>1, <3>3, <3>10, CauseNew
    <3> QED
      BY <3>6, <3>11
  <2>4. par.kind = "srtcm"
    BY DEF Kind
  <2>5. ASSUME e.in = Green, e.color = Yellow \/ e.color = Red
        PROVE  Cause(log', {Green}, par.cbs, tb, Len(log'))
    BY <1>12, <1>16, <2>2, <2>5
  <2> QED
    BY <1>1, <2>1, <2>3, <2>4, <2>5 DEF CauseOK
<1>25. DegradedForCause'
  BY <1>24, CauseInv
<1> QED
  BY <1>20, <1>22, <1>23, <1>25 DEF IndInv

-----------------------------------------------------------------------------
(* The invariant holds whatever the flow does. *)
THEOREM MeteringInvariance == MeterSpec => []IndInv
<1>1. ASSUME IndInv, [MeterNext]_meteringVars PROVE IndInv'
  <2>1. CASE MeterNext
    <3>1. PICK gap \in Gaps, len \in Lens, color \in InColors : MeterPacket(gap, len, color)
      BY <2>1 DEF MeterNext
    <3>2. TypeOK
      BY <1>1 DEF IndInv
    <3>3. PICK e, r : Logged(e, gap, len, color, r)
      BY <3>1, <3>2, PacketIs
    <3> QED
      BY <1>1, <3>3, SrtcmInv, TrtcmInv
  <2>2. CASE UNCHANGED meteringVars
    BY <1>1, <2>2 DEF meteringVars, IndInv, TypeOK, InOrder, TcOK, TpOK, Excess, Committed, Peak, PeakSize,
       Kind, RateLimited, Conforms, Bytes, BytesBefore, Earned, DegradedForCause, Exceeds
  <2> QED
    BY <1>1, <2>1, <2>2
<1> QED
  BY <1>1, InitInv, PTL DEF MeterSpec

(* rte_meter_*_check: in every stretch of traffic the green bytes, and the *)
(* green and yellow ones together, stay within bursts and rates, for all   *)
(* parameters of a flow and all lengths and times of its packets.          *)
THEOREM RatesAreKept == MeterSpec => []RateLimited
<1>1. IndInv => RateLimited
  BY DEF IndInv
<1> QED
  BY <1>1, MeteringInvariance, PTL

(* rte_meter_*_check: a packet that is degraded exceeds, in some stretch   *)
(* that ends with it, what the flow has been promised.                     *)
THEOREM DegradedWithCause == MeterSpec => []DegradedForCause
<1>1. IndInv => DegradedForCause
  BY DEF IndInv
<1> QED
  BY <1>1, MeteringInvariance, PTL

=============================================================================
