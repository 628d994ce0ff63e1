------------------------------- MODULE RteRed -------------------------------
(***************************************************************************)
(* The random early detection of librte_sched, rte_red.h and rte_red.c:    *)
(* the decision whether a packet may join a queue of q packets, from an    *)
(* exponentially weighted average of the lengths seen so far. Averages and *)
(* thresholds are fixed-point numbers with wq_log2 + RTE_RED_SCALING bits. *)
(***************************************************************************)
EXTENDS Integers, Sequences

CONSTANTS RTE_RED_S,   \* time stamps per packet that might have arrived
          RedWord,     \* 2^32, the type of avg and count; the checked thresholds fit
          Rands        \* the values rte_fast_rand can return

ASSUME RedAssumption == RTE_RED_S \in Nat \ {0} /\ RedWord \in Nat \ {0}

RTE_RED_SCALING == 10
RTE_RED_2POW16 == 65536

(* 1 << n for n from 1 on, and the factor of a shift by RTE_RED_SCALING. *)
Pow2 == <<2, 4, 8, 16, 32, 64, 128, 256, 512, 1024, 2048, 4096>>
Scale == Pow2[RTE_RED_SCALING]

(* rte_red_pow2_frac_inv[i] = round(2^10 / 2^(i/16)) *)
rte_red_pow2_frac_inv ==
  <<1024, 981, 939, 899, 861, 825, 790, 756, 724, 693, 664, 636, 609, 583, 558, 535>>

(* rte_red_log2_1_minus_Wq, entry n: round(-2^10 * log2(1 - 2^-n)), at least 1 *)
rte_red_log2_1_minus_Wq == <<1024, 425, 197, 95, 47, 23, 12, 6, 3, 1, 1, 1>>

(* struct rte_red_params, whose fields are 16 bits wide. *)
RedParamSet ==
  LET Uint16 == 0..RTE_RED_2POW16 - 1
  IN [min_th : Uint16, max_th : Uint16, maxp_inv : Uint16, wq_log2 : Uint16]

(* The checks of rte_red_config_init. *)
RedParamsOK(p) ==
  /\ p.max_th <= 1023 /\ p.min_th < p.max_th
  /\ p.wq_log2 \in 1..12 /\ p.maxp_inv \in 1..255

(* Mutant of rte_red_config_init: thresholds without the bits of RTE_RED_SCALING. *)
ConfigUnscaled(p) ==
  [min_th |-> p.min_th * Pow2[p.wq_log2], max_th |-> p.max_th * Pow2[p.wq_log2],
   pa_const |-> 2 * (p.max_th - p.min_th) * p.maxp_inv * Scale,
   wq_log2 |-> p.wq_log2]

rte_red_config_init(p) ==
  [min_th |-> p.min_th * (Pow2[p.wq_log2] * Scale),
   max_th |-> p.max_th * (Pow2[p.wq_log2] * Scale),
   pa_const |-> 2 * (p.max_th - p.min_th) * p.maxp_inv * Scale,
   wq_log2 |-> p.wq_log2]

rte_red_rt_data_init == [avg |-> 0, count |-> 0, q_time |-> 0]

(* The table entry for the fractional part of the exponent. *)
Fraction(n) == rte_red_pow2_frac_inv[((n \div 64) % 16) + 1]

(* __rte_red_calc_qempty_factor. For k = 0 the code shifts 1 by 2^32 - 1,  *)
(* which is undefined; a shift instruction of the target makes it 2^31,    *)
(* and the sixteen bits that are returned are those of the table entry.    *)
QemptyFactor(wq_log2, m) ==
  LET n == m * rte_red_log2_1_minus_Wq[wq_log2]
      k == n \div Scale
  IN IF k >= RTE_RED_SCALING THEN 0
     ELSE IF k = 0 THEN Fraction(n)
     ELSE (Fraction(n) + Pow2[k] \div 2) \div Pow2[k]

(* rte_red_enqueue_empty: the packet passes, the average decays. *)
Decayed(cfg, avg, idle) ==
  LET m == idle \div RTE_RED_S
  IN IF m >= RTE_RED_2POW16 THEN 0
     ELSE (avg \div Scale) * QemptyFactor(cfg.wq_log2, m)

EnqueueEmpty(cfg, red, time) ==
  [red EXCEPT !.count = (red.count + 1) % RedWord,
              !.avg = Decayed(cfg, red.avg, time - red.q_time)]

(* Mutant of Ewma: the old average is not weighted down. *)
EwmaUnweighted(cfg, avg, q) == (avg + q * Scale) % RedWord

Ewma(cfg, avg, q) == ((avg + q * Scale) - (avg \div Pow2[cfg.wq_log2])) % RedWord

(* __rte_red_drop, on the updated average. *)
MarkDrop(cfg, red, rand_val) ==
  LET pa_num == (red.avg - cfg.min_th) \div Pow2[cfg.wq_log2]
      pa_num_count == (red.count * pa_num) % RedWord
  IN \/ cfg.pa_const <= pa_num_count
     \/ rand_val % (cfg.pa_const - pa_num_count) < pa_num

(* A drop by the random number, which draws the next one. *)
DrawsRandom(cfg, red, rand_val) ==
  LET pa_num_count == (red.count * ((red.avg - cfg.min_th) \div Pow2[cfg.wq_log2])) % RedWord
  IN /\ cfg.min_th <= red.avg /\ red.avg < cfg.max_th
     /\ cfg.pa_const > pa_num_count
     /\ MarkDrop(cfg, red, rand_val)

(* rte_red_enqueue_nonempty: the verdict, 0 to enqueue, 1 and 2 to drop. *)
Verdict(cfg, red, rand_val) ==
  IF red.avg < cfg.min_th THEN 0
  ELSE IF red.avg >= cfg.max_th THEN 1
  ELSE IF MarkDrop(cfg, red, rand_val) THEN 2 ELSE 0

(* rte_red_enqueue: what becomes of the run-time data, the random number   *)
(* and the packet.                                                         *)
rte_red_enqueue(cfg, red, q, time, rand_val) ==
  IF q = 0 THEN {[red |-> EnqueueEmpty(cfg, red, time), rand |-> rand_val, ret |-> 0]}
  ELSE LET new == [red EXCEPT !.avg = Ewma(cfg, red.avg, q)]
           ret == Verdict(cfg, new, rand_val)
       IN {[red |-> [new EXCEPT !.count = IF ret = 0 THEN (red.count + 1) % RedWord ELSE 0],
            rand |-> r, ret |-> ret] :
             r \in IF DrawsRandom(cfg, new, rand_val) THEN Rands ELSE {rand_val}}
=============================================================================
