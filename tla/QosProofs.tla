----------------------------- MODULE QosProofs -----------------------------
(***************************************************************************)
(* lab3 for any flows, thresholds that rte_red_config_init accepts, bursts *)
(* and lengths of packets: the averages of random early detection, and     *)
(* what the dropper does to the flows.                                     *)
(***************************************************************************)
EXTENDS Qos, TLAPS

RedSet == [avg : Nat, count : Nat, q_time : {0}]

(* The weight of the average in a queue length of one packet. *)
Weight(p) == Pow2[p.wq_log2] * Scale

TypeOK ==
  /\ time \in Nat /\ last_time \in Nat /\ burst \in Nat
  /\ start_times \in [Flows -> Nat]
  /\ app_reds \in [FC -> RedSet]
  /\ queues \in [Flows -> Nat] /\ arrived \in [Flows -> Nat] /\ passed \in [Flows -> Nat]
  /\ drops \subseteq FC
  /\ peak \in [FC -> Nat]

(* The configurations were accepted. *)
Accepted == \A fc \in FC : RedParamsOK(RedParams[fc[1]][fc[2]])

(* The queue lengths are the packets passed in this burst, from the first  *)
(* packet of the burst on; before it, time has moved on.                   *)
InBurst ==
  /\ burst > 0 => last_time = time
  /\ burst = 0 => arrived = Zero /\ passed = Zero
  /\ last_time = time => queues = passed

IndInv ==
  /\ TypeOK /\ Accepted /\ InBurst
  /\ AverageBounded /\ DroppedForCause /\ EveryFlowServed

-----------------------------------------------------------------------------
(* The powers of 2 that the shifts multiply by. *)
LEMMA Powers ==
  /\ Scale = 1024
  /\ \A n \in 1..12 : Pow2[n] \in Nat /\ Pow2[n] >= 2
BY DEF Scale, Pow2, RTE_RED_SCALING

(* A quotient of natural numbers, by its bounds. *)
LEMMA Quotient ==
  ASSUME NEW a \in Nat, NEW w \in Nat \ {0}
  PROVE  /\ a \div w \in Nat /\ w * (a \div w) <= a /\ a < w * (a \div w) + w
         /\ a % w \in Nat /\ a % w <= a
OBVIOUS

(* A product grows with its factors. *)
LEMMA Times ==
  ASSUME NEW a \in Nat, NEW b \in Nat, NEW c \in Nat, a <= b
  PROVE  a * c \in Nat /\ a * c <= b * c
OBVIOUS

(* The exponentially weighted average of lengths up to P stays below P. *)
LEMMA EwmaBelow ==
  ASSUME NEW P \in Nat, NEW q \in 0..P, NEW w \in Nat \ {0}, NEW a \in Nat, a <= P * (w * 1024)
  PROVE  /\ (a + q * 1024) - (a \div w) \in Nat
         /\ (a + q * 1024) - (a \div w) <= P * (w * 1024)
<1> DEFINE d == a \div w
           K == P * 1024
<1>1. d \in Nat /\ K \in Nat /\ w * d <= a /\ a < w * d + w /\ w * d \in Nat /\ w * K \in Nat
  BY Quotient
<1>2. P * (w * 1024) = w * K /\ q * 1024 <= K /\ q * 1024 \in Nat
  OBVIOUS
<1> HIDE DEF d, K
<1>3. d <= a
  <2>1. d <= w * d
    BY <1>1
  <2> QED BY <1>1, <2>1
<1>4. a - d <= w * K - K
  <2>1. CASE d >= K
    <3>1. w * K <= w * d
      BY <1>1, <2>1
    <3> QED BY <1>1, <1>2, <2>1, <3>1
  <2>2. CASE d + 1 <= K
    <3>1. (w - 1) * (d + 1) <= (w - 1) * K
      <4>1. w - 1 \in Nat /\ d + 1 \in Nat
        BY <1>1
      <4> QED BY <1>1, <2>2, <4>1
    <3>2. (w - 1) * (d + 1) = ((w * d + w) - d) - 1 /\ (w - 1) * K = w * K - K
      BY <1>1
    <3> QED BY <1>1, <3>1, <3>2
  <2> QED BY <1>1, <2>1, <2>2
<1> QED BY <1>1, <1>2, <1>3, <1>4 DEF d

(* The factor that an idle queue's average is scaled by is at most 1. *)
LEMMA FactorBelow ==
  ASSUME NEW wq \in 1..12, NEW m \in Nat
  PROVE  QemptyFactor(wq, m) \in 0..1024
<1> DEFINE n == m * rte_red_log2_1_minus_Wq[wq]
           k == n \div Scale
           F == Fraction(n)
<1>1. n \in Nat
  <2>1. rte_red_log2_1_minus_Wq[wq] \in Nat
    BY DEF rte_red_log2_1_minus_Wq
  <2> QED BY <2>1
<1> HIDE DEF n
<1>2. F \in 0..1024
  <2>1. ((n \div 64) % 16) + 1 \in 1..16
    BY <1>1
  <2>2. \A i \in 1..16 : rte_red_pow2_frac_inv[i] \in 0..1024
    BY DEF rte_red_pow2_frac_inv
  <2> QED BY <2>1, <2>2 DEF Fraction
<1>3. k \in Nat
  BY <1>1, Powers
<1> HIDE DEF F, k
<1>4. QemptyFactor(wq, m) = IF k >= 10 THEN 0 ELSE IF k = 0 THEN F
                            ELSE (F + Pow2[k] \div 2) \div Pow2[k]
  BY DEF QemptyFactor, RTE_RED_SCALING, n, k, F
<1>5. ASSUME k \in 1..9 PROVE (F + Pow2[k] \div 2) \div Pow2[k] \in 0..1024
  <2> DEFINE w == Pow2[k]
  <2>1. w \in Nat /\ w >= 2
    BY <1>5, Powers
  <2> HIDE DEF w
  <2>2. F + w \div 2 \in Nat /\ F + w \div 2 <= 1024 + w \div 2 /\ w \div 2 <= w /\ w \div 2 \in Nat
    BY <1>2, <2>1
  <2>3. PICK d : d = (F + w \div 2) \div w
    OBVIOUS
  <2>4. d \in Nat /\ w * d <= F + w \div 2
    BY <2>1, <2>2, <2>3, Quotient
  <2>5. ~(d >= 1025)
    <3>1. ASSUME d >= 1025 PROVE w * d >= w * 1025
      BY <2>1, <2>4, <3>1
    <3> QED BY <2>1, <2>2, <2>4, <3>1
  <2> QED BY <2>3, <2>4, <2>5 DEF w
<1>6. k < 10 /\ k # 0 => k \in 1..9
  BY <1>3
<1> QED BY <1>2, <1>3, <1>4, <1>5, <1>6

(* The average of an idle queue does not grow. *)
LEMMA DecayBelow ==
  ASSUME NEW cfg, cfg.wq_log2 \in 1..12, NEW a \in Nat, NEW idle \in Nat
  PROVE  Decayed(cfg, a, idle) \in 0..a
<1> DEFINE m == idle \div RTE_RED_S
           F == QemptyFactor(cfg.wq_log2, m)
           d == a \div 1024
<1>1. m \in Nat
  BY RedAssumption, Quotient
<1>2. F \in 0..1024
  <2>1. ASSUME NEW wq \in 1..12, NEW x \in Nat PROVE QemptyFactor(wq, x) \in 0..1024
    BY FactorBelow
  <2> HIDE DEF m
  <2> QED BY <1>1, <2>1
<1>3. d \in Nat /\ 1024 * d <= a
  OBVIOUS
<1>4. Decayed(cfg, a, idle) = IF m >= RTE_RED_2POW16 THEN 0 ELSE d * F
  BY Powers DEF Decayed
<1> HIDE DEF m, F, d
<1>5. d * F \in Nat /\ d * F <= d * 1024
  BY <1>2, <1>3
<1>6. d * F \in 0..a
  BY <1>3, <1>5
<1> QED BY <1>4, <1>6

(* The lower threshold is a number. *)
LEMMA MinIsNat ==
  ASSUME NEW p \in RedParamSet
  PROVE  p.min_th \in Nat
<1>1. p.min_th \in 0..RTE_RED_2POW16 - 1
  BY Zenon DEF RedParamSet
<1>2. ASSUME NEW x \in 0..RTE_RED_2POW16 - 1 PROVE x \in Nat
  BY SMT DEF RTE_RED_2POW16
<1> QED BY <1>1, <1>2, Zenon

(* What rte_red_enqueue makes of an average below P times its weight, for  *)
(* a queue no longer than P: it stays there, an empty queue takes the      *)
(* packet, and a drop means that P has reached the lower threshold.        *)
LEMMA EnqueueIs ==
  ASSUME NEW p \in RedParamSet, RedParamsOK(p), NEW cfg, cfg = rte_red_config_init(p),
         NEW red \in RedSet, NEW tm \in Nat, NEW rand, NEW P \in Nat, NEW q \in 0..P,
         red.avg <= P * Weight(p), NEW e \in rte_red_enqueue(cfg, red, q, tm, rand)
  PROVE  /\ e.red \in RedSet /\ e.red.avg <= P * Weight(p)
         /\ q = 0 => e.ret = 0
         /\ e.ret # 0 => P >= p.min_th
<1>1. /\ p.wq_log2 \in 1..12 /\ cfg.wq_log2 = p.wq_log2 /\ p.min_th \in Nat
      /\ cfg.min_th = p.min_th * Weight(p)
  BY MinIsNat DEF RedParamsOK, rte_red_config_init, Weight
<1> DEFINE w == Pow2[p.wq_log2]
           a == red.avg
<1>2. /\ w \in Nat \ {0} /\ Weight(p) = w * 1024 /\ Scale = 1024
      /\ a \in Nat /\ red.count \in Nat /\ red.q_time = 0
  BY <1>1, Powers DEF Weight, RedSet
<1>3. \A c \in Nat : (c + 1) % RedWord \in Nat
  BY RedAssumption
<1>4. CASE q = 0
  <2>1. e = [red |-> EnqueueEmpty(cfg, red, tm), rand |-> rand, ret |-> 0]
    BY <1>4 DEF rte_red_enqueue
  <2>2. e.red = EnqueueEmpty(cfg, red, tm) /\ e.ret = 0
    BY <2>1
  <2>3. PICK b : b = Decayed(cfg, a, tm - red.q_time)
    OBVIOUS
  <2>4. b \in 0..a
    <3>1. tm - red.q_time \in Nat
      BY <1>2
    <3> HIDE DEF a
    <3>2. cfg.wq_log2 \in 1..12 /\ a \in Nat
      BY <1>1, <1>2
    <3> QED BY <2>3, <3>1, <3>2, DecayBelow, Zenon
  <2>5. e.red.avg = b /\ e.red \in RedSet
    <3>1. e.red = [red EXCEPT !.count = (red.count + 1) % RedWord, !.avg = b]
      BY <2>2, <2>3 DEF EnqueueEmpty
    <3>2. b \in Nat
      BY <1>2, <2>4
    <3>3. ASSUME NEW c \in Nat, NEW r, r = [red EXCEPT !.count = c, !.avg = b]
          PROVE  r.avg = b /\ r \in RedSet
      BY <3>2, <3>3 DEF RedSet
    <3> QED BY <1>2, <1>3, <3>1, <3>3
  <2>6. P * Weight(p) \in Nat
    BY <1>2
  <2> HIDE DEF w
  <2>7. e.red.avg <= P * Weight(p)
    BY <1>2, <2>4, <2>5, <2>6
  <2> QED BY <2>2, <2>5, <2>7
<1>5. CASE q # 0
  <2> DEFINE b == Ewma(cfg, a, q)
             new == [red EXCEPT !.avg = b]
             ret == Verdict(cfg, new, rand)
  <2>1. /\ e.red = [new EXCEPT !.count = IF ret = 0 THEN (red.count + 1) % RedWord ELSE 0]
        /\ e.ret = ret
    BY <1>5 DEF rte_red_enqueue
  <2>2. b \in Nat /\ b <= P * Weight(p)
    <3> DEFINE x == (a + q * 1024) - (a \div w)
    <3>1. b = x % RedWord
      BY <1>1, <1>2 DEF Ewma
    <3> HIDE DEF b, a, w
    <3>2. x \in Nat /\ x <= P * Weight(p)
      BY <1>2, EwmaBelow DEF a
    <3> HIDE DEF x
    <3>3. x % RedWord \in Nat /\ x % RedWord <= x
      BY <3>2, RedAssumption, Quotient
    <3>4. P * Weight(p) \in Nat
      BY <1>2
    <3> QED BY <3>1, <3>2, <3>3, <3>4
  <2> HIDE DEF b
  <2>3. new \in RedSet /\ new.avg = b
    BY <2>2 DEF RedSet
  <2>4. ret # 0 => b >= cfg.min_th
    <3>1. cfg.min_th \in Nat
      BY <1>1, <1>2
    <3> QED BY <2>2, <2>3, <3>1 DEF Verdict
  <2> HIDE DEF ret, new
  <2>5. e.red \in RedSet /\ e.red.avg = b
    BY <1>2, <1>3, <2>1, <2>3 DEF RedSet
  <2>6. ASSUME b >= cfg.min_th PROVE P >= p.min_th
    <3> DEFINE W == Weight(p)
    <3>1. W \in Nat /\ W > 0
      BY <1>2
    <3>2. p.min_th * W <= P * W
      <4>1. p.min_th * W \in Nat /\ P * W \in Nat
        BY <1>1, <3>1
      <4> QED BY <1>1, <2>2, <2>6, <4>1
    <3> HIDE DEF W
    <3>3. ASSUME P + 1 <= p.min_th PROVE FALSE
      <4>1. (P + 1) * W <= p.min_th * W
        BY <1>1, <3>1, <3>3, Times
      <4>2. (P + 1) * W = P * W + W /\ P * W \in Nat
        BY <3>1
      <4> QED BY <1>1, <3>1, <3>2, <4>1, <4>2
    <3> QED BY <1>1, <3>3
  <2> QED BY <1>5, <2>1, <2>2, <2>4, <2>5, <2>6
<1> QED BY <1>4, <1>5

-----------------------------------------------------------------------------
(* The parameters of a flow and colour. *)
Par(fc) == RedParams[fc[1]][fc[2]]

(* They are in order, once they are accepted. *)
LEMMA ParOK ==
  ASSUME Accepted, NEW fc \in FC
  PROVE  Par(fc) \in RedParamSet /\ RedParamsOK(Par(fc)) /\ Weight(Par(fc)) \in Nat
<1>1. fc[1] \in Flows /\ fc[2] \in Colors
  BY DEF FC
<1>2. Par(fc) \in RedParamSet /\ RedParamsOK(Par(fc))
  BY <1>1, QosAssumption DEF Accepted, Par
<1>3. ASSUME NEW p, RedParamsOK(p) PROVE Weight(p) \in Nat
  <2>1. p.wq_log2 \in 1..12
    BY <1>3 DEF RedParamsOK
  <2>2. ASSUME NEW n \in 1..12 PROVE Pow2[n] * Scale \in Nat
    BY Powers
  <2> QED BY <2>1, <2>2, Zenon DEF Weight
<1> QED BY <1>2, <1>3

(* The bound on the averages, in terms of the weights. *)
LEMMA BoundIs ==
  AverageBounded <=> \A fc \in FC : app_reds[fc].avg <= peak[fc] * Weight(Par(fc))
BY DEF AverageBounded, Par, Weight, rte_red_config_init

(* The invariant holds before the first burst. *)
LEMMA InitInv == Init => IndInv
<1> SUFFICES ASSUME Init PROVE IndInv
  OBVIOUS
<1>1. Zero \in [Flows -> Nat] /\ \A f \in Flows : Zero[f] = 0
  BY DEF Zero
<1>2. start_times \in [Flows -> Nat]
  BY QosAssumption DEF Init
<1>3. app_reds \in [FC -> RedSet] /\ \A fc \in FC : app_reds[fc].avg = 0
  BY DEF Init, RedSet, rte_red_rt_data_init
<1>4. peak \in [FC -> Nat] /\ \A fc \in FC : peak[fc] = 0
  BY DEF Init
<1>5. TypeOK
  BY <1>1, <1>2, <1>3, <1>4 DEF Init, TypeOK
<1>6. Accepted /\ InBurst
  BY DEF Init, Accepted, InBurst
<1>7. EveryFlowServed /\ DroppedForCause
  BY <1>1 DEF Init, EveryFlowServed, DroppedForCause
<1>8. AverageBounded
  <2>1. ASSUME NEW fc \in FC PROVE app_reds[fc].avg <= peak[fc] * Weight(Par(fc))
    <3>1. Weight(Par(fc)) \in Nat
      BY <1>6, ParOK
    <3>2. 0 * Weight(Par(fc)) = 0
      BY <3>1
    <3> QED BY <1>3, <1>4, <3>2
  <2> QED BY <2>1, BoundIs
<1> QED BY <1>5, <1>6, <1>7, <1>8 DEF IndInv

(* Time moves on between bursts, and nothing else does. *)
LEMMA NextBurstInv ==
  ASSUME IndInv, NextBurst
  PROVE  IndInv'
<1>1. /\ burst > 0 /\ time' = time + BurstNanos /\ burst' = 0 /\ arrived' = Zero /\ passed' = Zero
      /\ UNCHANGED <<meterVars, dropVars, drops, peak>>
      /\ TypeOK /\ Accepted /\ InBurst
  BY DEF NextBurst, IndInv
<1>2. UNCHANGED <<start_times, app_reds, queues, last_time>>
  BY <1>1 DEF meterVars, dropVars
<1>3. last_time = time /\ time \in Nat /\ BurstNanos \in Nat /\ BurstNanos # 0
  BY <1>1, QosAssumption DEF InBurst, TypeOK
<1>4. time' \in Nat /\ last_time' # time'
  BY <1>1, <1>2, <1>3
<1>5. Zero \in [Flows -> Nat] /\ \A f \in Flows : Zero[f] = 0
  BY DEF Zero
<1>6. TypeOK'
  BY <1>1, <1>2, <1>4, <1>5 DEF TypeOK
<1>7. Accepted' /\ InBurst'
  BY <1>1, <1>4 DEF Accepted, InBurst
<1>8. EveryFlowServed'
  BY <1>1, <1>5 DEF EveryFlowServed
<1>9. AverageBounded' /\ DroppedForCause'
  BY <1>1, <1>2 DEF IndInv, AverageBounded, DroppedForCause
<1> QED BY <1>6, <1>7, <1>8, <1>9 DEF IndInv

(* The meter gives a packet one of the three colours. *)
LEMMA Coloured ==
  ASSUME NEW m, NEW p, NEW tm, NEW len
  PROVE  rte_meter_srtcm_color_blind_check(m, p, tm, len).color \in Colors
<1>1. \A f, l, c : SrtcmColor(f, l, c) \in Colors
  BY DEF SrtcmColor, Colors
<1> QED BY <1>1 DEF rte_meter_srtcm_color_blind_check, rte_meter_srtcm_check

(* A packet of flow f, judged by the queue lengths in cleared; e is what   *)
(* rte_red_enqueue made of the average of its flow and colour.             *)
Judged(f, fc, cleared, e) ==
  /\ last_time' = time /\ time' = time /\ start_times' = start_times
  /\ app_reds' = [app_reds EXCEPT ![fc] = e.red]
  /\ queues' = IF e.ret = 0 THEN [cleared EXCEPT ![f] = @ + 1] ELSE cleared
  /\ passed' = IF e.ret = 0 THEN [passed EXCEPT ![f] = @ + 1] ELSE passed
  /\ drops' = IF e.ret = 0 THEN drops ELSE drops \cup {fc}
  /\ arrived' = [arrived EXCEPT ![f] = @ + 1]
  /\ peak' = [peak EXCEPT ![fc] = IF cleared[f] > @ THEN cleared[f] ELSE @]
  /\ burst' = burst + 1

(* What the meter and the dropper do to a packet. *)
LEMMA PacketIs ==
  ASSUME NEW f \in Flows, NEW len, Packet(f, len)
  PROVE  \E c \in Colors :
           \E e \in rte_red_enqueue(rte_red_config_init(RedParams[f][c]), app_reds[<<f, c>>],
                                    ClearedQueues(f)[f], ctime(f), rand_val) :
             Judged(f, <<f, c>>, ClearedQueues(f), e)
<1> DEFINE m == rte_meter_srtcm_color_blind_check(app_flows[f], SrtcmParams[f], ctime(f), len)
           c == m.color
           fc == <<f, c>>
<1>1. c \in Colors
  BY Coloured
<1>2. PICK e \in rte_red_enqueue(rte_red_config_init(RedParams[f][c]), app_reds[fc],
                                 ClearedQueues(f)[f], ctime(f), rand_val) :
        /\ app_reds' = [app_reds EXCEPT ![fc] = e.red]
        /\ queues' = IF e.ret = 0 THEN [ClearedQueues(f) EXCEPT ![f] = @ + 1] ELSE ClearedQueues(f)
        /\ passed' = IF e.ret = 0 THEN [passed EXCEPT ![f] = @ + 1] ELSE passed
        /\ drops' = IF e.ret = 0 THEN drops ELSE drops \cup {fc}
  BY Zenon DEF Packet
<1>3. /\ last_time' = time /\ time' = time /\ start_times' = start_times
      /\ arrived' = [arrived EXCEPT ![f] = @ + 1] /\ burst' = burst + 1
      /\ peak' = [peak EXCEPT ![fc] = IF ClearedQueues(f)[f] > @ THEN ClearedQueues(f)[f] ELSE @]
  BY Zenon DEF Packet
<1> HIDE DEF c
<1> QED BY <1>1, <1>2, <1>3, Zenon DEF Judged

(* A packet keeps the invariant: it is judged by the packets of its flow   *)
(* that have passed in this burst.                                         *)
LEMMA PacketInv ==
  ASSUME IndInv, NEW f \in Flows, NEW len, Packet(f, len)
  PROVE  IndInv'
<1>1. TypeOK /\ Accepted /\ InBurst /\ EveryFlowServed /\ DroppedForCause
      /\ \A x \in FC : app_reds[x].avg <= peak[x] * Weight(Par(x))
  BY BoundIs DEF IndInv
<1>2. ClearedQueues(f) = passed
  <2>1. CASE time # last_time
    <3>1. burst = 0
      BY <1>1, <2>1 DEF InBurst, TypeOK
    <3> QED BY <1>1, <2>1, <3>1 DEF InBurst, ClearedQueues
  <2>2. CASE time = last_time
    BY <1>1, <2>2 DEF InBurst, ClearedQueues
  <2> QED BY <2>1, <2>2
<1>3. PICK c \in Colors :
        \E e \in rte_red_enqueue(rte_red_config_init(RedParams[f][c]), app_reds[<<f, c>>],
                                 passed[f], ctime(f), rand_val) :
          Judged(f, <<f, c>>, passed, e)
  BY <1>2, PacketIs
<1>4. PICK fc : fc = <<f, c>>
  OBVIOUS
<1>5. fc \in FC /\ Par(fc) = RedParams[f][c]
  BY <1>4 DEF FC, Par
<1>6. PICK e \in rte_red_enqueue(rte_red_config_init(Par(fc)), app_reds[fc], passed[f], ctime(f),
                                 rand_val) :
        Judged(f, fc, passed, e)
  BY <1>3, <1>4, <1>5
<1>7. PICK q, P, W : q = passed[f] /\ P = (IF q > peak[fc] THEN q ELSE peak[fc])
                     /\ W = Weight(Par(fc))
  OBVIOUS
<1>8. /\ q \in Nat /\ peak[fc] \in Nat /\ W \in Nat /\ app_reds[fc] \in RedSet
      /\ Par(fc) \in RedParamSet /\ RedParamsOK(Par(fc)) /\ app_reds[fc].avg <= peak[fc] * W
  BY <1>1, <1>5, <1>7, ParOK DEF TypeOK
<1>9. P \in Nat /\ q \in 0..P /\ peak[fc] <= P
  BY <1>7, <1>8
<1>10. app_reds[fc].avg <= P * W
  <2>1. app_reds[fc].avg \in Nat /\ peak[fc] * W \in Nat /\ peak[fc] * W <= P * W /\ P * W \in Nat
    BY <1>8, <1>9, Times DEF RedSet
  <2> QED BY <1>8, <2>1
<1>11. ctime(f) \in Nat
  <2>1. time * Hz \in Nat /\ NanoPerSec \in Nat \ {0} /\ start_times[f] \in Nat
    BY <1>1, MeterAssumption, QosAssumption DEF TypeOK
  <2>2. Cycles(time) \in Nat
    BY <2>1, Quotient DEF Cycles
  <2> QED BY <2>1, <2>2 DEF ctime
<1>12. /\ e.red \in RedSet /\ e.red.avg <= P * W
       /\ q = 0 => e.ret = 0
       /\ e.ret # 0 => P >= Par(fc).min_th
  <2>1. PICK p, cfg, red, tm, rand : /\ p = Par(fc) /\ cfg = rte_red_config_init(p)
                                     /\ red = app_reds[fc] /\ tm = ctime(f) /\ rand = rand_val
    OBVIOUS
  <2>2. e \in rte_red_enqueue(cfg, red, q, tm, rand)
    BY <1>6, <1>7, <2>1
  <2>3. red.avg <= P * Weight(p) /\ red \in RedSet /\ tm \in Nat /\ p \in RedParamSet /\ RedParamsOK(p)
    BY <1>7, <1>8, <1>10, <1>11, <2>1
  <2>4. /\ e.red \in RedSet /\ e.red.avg <= P * Weight(p)
        /\ q = 0 => e.ret = 0
        /\ e.ret # 0 => P >= p.min_th
    BY <1>9, <2>1, <2>2, <2>3, EnqueueIs
  <2> QED BY <1>7, <2>1, <2>4
<1>13. /\ app_reds' \in [FC -> RedSet] /\ app_reds'[fc] = e.red
       /\ peak' \in [FC -> Nat] /\ peak'[fc] = P
       /\ \A x \in FC \ {fc} : app_reds'[x] = app_reds[x] /\ peak'[x] = peak[x]
  <2>1. /\ app_reds' = [app_reds EXCEPT ![fc] = e.red] /\ peak' = [peak EXCEPT ![fc] = P]
    BY <1>6, <1>7 DEF Judged
  <2> QED BY <1>1, <1>5, <1>9, <1>12, <2>1 DEF TypeOK
<1>14. /\ arrived' \in [Flows -> Nat] /\ passed' \in [Flows -> Nat] /\ queues' = passed'
       /\ e.ret = 0 => passed'[f] = q + 1
       /\ e.ret # 0 => passed' = passed
       /\ \A g \in Flows \ {f} : arrived'[g] = arrived[g] /\ passed'[g] = passed[g]
  <2>1. /\ arrived' = [arrived EXCEPT ![f] = arrived[f] + 1] /\ queues' = passed'
        /\ passed' = IF e.ret = 0 THEN [passed EXCEPT ![f] = q + 1] ELSE passed
    BY <1>6, <1>7 DEF Judged
  <2>2. arrived[f] \in Nat /\ arrived \in [Flows -> Nat] /\ passed \in [Flows -> Nat]
    BY <1>1 DEF TypeOK
  <2>3. arrived[f] + 1 \in Nat /\ q + 1 \in Nat
    BY <1>8, <2>2
  <2> QED BY <2>1, <2>2, <2>3
<1>15. /\ last_time' = time /\ time' = time /\ start_times' = start_times /\ burst' = burst + 1
       /\ drops' = IF e.ret = 0 THEN drops ELSE drops \cup {fc}
  BY <1>6 DEF Judged
<1>16. TypeOK'
  <2>1. burst' \in Nat
    BY <1>1, <1>15 DEF TypeOK
  <2>2. drops' \subseteq FC
    BY <1>1, <1>5, <1>15 DEF TypeOK
  <2> QED BY <1>1, <1>13, <1>14, <1>15, <2>1, <2>2 DEF TypeOK
<1>17. InBurst'
  <2>1. burst' # 0
    BY <1>1, <1>15 DEF TypeOK
  <2> QED BY <1>14, <1>15, <2>1 DEF InBurst
<1>18. EveryFlowServed'
  <2>1. ASSUME NEW g \in Flows, g # f PROVE arrived'[g] > 0 => passed'[g] > 0
    BY <1>1, <1>14, <2>1 DEF EveryFlowServed
  <2>2. passed'[f] > 0
    <3>1. CASE e.ret = 0
      BY <1>8, <1>14, <3>1
    <3>2. CASE e.ret # 0
      <4>1. q # 0 /\ passed'[f] = q
        BY <1>7, <1>12, <1>14, <3>2
      <4> QED BY <1>8, <4>1
    <3> QED BY <3>1, <3>2
  <2> QED BY <2>1, <2>2 DEF EveryFlowServed
<1>19. AverageBounded'
  <2>1. ASSUME NEW x \in FC PROVE app_reds'[x].avg <= peak'[x] * Weight(Par(x))
    <3>1. CASE x = fc
      BY <1>7, <1>12, <1>13, <3>1
    <3>2. CASE x # fc
      BY <1>1, <1>13, <3>2
    <3> QED BY <3>1, <3>2
  <2> QED BY <2>1 DEF AverageBounded, Par, Weight, rte_red_config_init
<1>20. DroppedForCause'
  <2>1. ASSUME NEW x \in drops' PROVE peak'[x] >= Par(x).min_th
    <3>1. CASE x = fc /\ e.ret # 0
      BY <1>12, <1>13, <3>1
    <3>2. CASE x \in drops
      <4>1. x \in FC /\ peak[x] >= Par(x).min_th
        BY <1>1, <3>2 DEF TypeOK, DroppedForCause, Par
      <4>2. CASE x # fc
        BY <1>13, <4>1, <4>2
      <4>3. CASE x = fc
        <5>1. ASSUME NEW a \in Nat, a <= peak[fc] PROVE a <= P
          BY <1>8, <1>9, <5>1
        <5>2. Par(fc).min_th \in Nat
          BY <1>8, MinIsNat
        <5> QED BY <1>8, <1>9, <1>13, <4>1, <4>3, <5>1, <5>2
      <4> QED BY <4>2, <4>3
    <3> QED BY <1>15, <3>1, <3>2
  <2> QED BY <2>1 DEF DroppedForCause, Par
<1>21. Accepted'
  BY <1>1 DEF Accepted
<1> QED BY <1>16, <1>17, <1>18, <1>19, <1>20, <1>21 DEF IndInv

(* The invariant is inductive. *)
LEMMA NextInv == IndInv /\ [Next]_vars => IndInv'
<1> SUFFICES ASSUME IndInv, [Next]_vars PROVE IndInv'
  OBVIOUS
<1>1. CASE NextBurst
  BY <1>1, NextBurstInv
<1>2. ASSUME NEW f \in Flows, NEW len \in PktLens, Packet(f, len) PROVE IndInv'
  BY <1>2, PacketInv
<1>3. CASE UNCHANGED vars
  <2>1. UNCHANGED <<start_times, app_reds, queues, last_time, time, burst, arrived, passed, drops, peak>>
    BY <1>3 DEF vars, meterVars, dropVars
  <2>2. TypeOK' /\ Accepted' /\ InBurst'
    BY <2>1 DEF IndInv, TypeOK, Accepted, InBurst
  <2>3. AverageBounded' /\ DroppedForCause' /\ EveryFlowServed'
    BY <2>1 DEF IndInv, AverageBounded, DroppedForCause, EveryFlowServed
  <2> QED BY <2>2, <2>3 DEF IndInv
<1> QED BY <1>1, <1>2, <1>3 DEF Next

(* The invariant holds always. *)
LEMMA QosInvariance == Spec => []IndInv
BY InitInv, NextInv, PTL DEF Spec

(* AverageBounded: with any weights and thresholds that are accepted, and  *)
(* even if 32 bits overflow, the average of a flow and colour never        *)
(* exceeds the longest queue that its packets met, neither by the filter   *)
(* of rte_red_enqueue_nonempty nor by the decay of an empty queue.         *)
THEOREM AverageNeverRunsAway == Spec => []AverageBounded
<1>1. IndInv => AverageBounded
  BY DEF IndInv
<1> QED BY <1>1, QosInvariance, PTL

(* DroppedForCause: qos_dropper_run drops a packet only if some packet of  *)
(* its flow and colour met a queue as long as the lower threshold.         *)
THEOREM DropsHaveCause == Spec => []DroppedForCause
<1>1. IndInv => DroppedForCause
  BY DEF IndInv
<1> QED BY <1>1, QosInvariance, PTL

(* EveryFlowServed: the first packet of a flow in a burst passes, for any  *)
(* number of flows and whatever averages the bursts before have left.      *)
THEOREM FlowsAreServed == Spec => []EveryFlowServed
<1>1. IndInv => EveryFlowServed
  BY DEF IndInv
<1> QED BY <1>1, QosInvariance, PTL

=============================================================================
