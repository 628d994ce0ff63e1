------------------------------ MODULE RteMeter ------------------------------
(***************************************************************************)
(* The single rate and two rate three colour markers of librte_meter. A    *)
(* meter is a record; checking a packet gives a new record and a colour.   *)
(* Arithmetic on times and tokens is modulo Word, which is 2^64.           *)
(***************************************************************************)
EXTENDS Integers

CONSTANTS Word,       \* 2^64
          PeriodMin,  \* RTE_METER_TB_PERIOD_MIN
          Hz          \* rte_get_tsc_hz

ASSUME MeterAssumption ==
  Word \in Nat \ {0} /\ PeriodMin \in Nat \ {0} /\ Hz \in Nat \ {0}

Green == 0
Yellow == 1
Red == 2
Colors == {Green, Yellow, Red}

Least(a, b) == IF a < b THEN a ELSE b

(* The code divides as doubles: hz / rate >= PeriodMin, and                *)
(* ceil(PeriodMin / (hz / rate)).                                          *)
rte_meter_get_tb_params(rate) ==
  IF Hz >= PeriodMin * rate
  THEN [bytes |-> 1, period |-> Hz \div rate]
  ELSE LET bytes == (PeriodMin * rate + Hz - 1) \div Hz
       IN [bytes |-> bytes, period |-> (Hz * bytes) \div rate]

SrtcmParamsOK(p) == p.cir # 0 /\ (p.cbs # 0 \/ p.ebs # 0)

TrtcmParamsOK(p) ==
  /\ p.cir # 0 /\ p.pir # 0 /\ p.pir >= p.cir
  /\ p.cbs # 0 /\ p.pbs # 0

(* Two buckets and the times they were last filled; a srTCM keeps one time *)
(* (time2 is not used) and fills the second bucket from the first.         *)
rte_meter_srtcm_config(p, tsc) ==
  [time |-> tsc, time2 |-> tsc, tc |-> p.cbs, te |-> p.ebs]

rte_meter_trtcm_config(p, tsc) ==
  [time |-> tsc, time2 |-> tsc, tc |-> p.cbs, te |-> p.pbs]

Periods(time, last, tb) == ((time - last) % Word) \div tb.period

(* Mutant of LastFill: the part of a period that has passed is forgotten. *)
LastFillNow(time, last, tb) == time % Word

(* m->time += n_periods * m->cir_period *)
LastFill(time, last, tb) == (last + Periods(time, last, tb) * tb.period) % Word

(* The tokens that do not fit the committed bucket go to the excess bucket. *)
Overflow(te, extra, ebs) == Least(te + extra, ebs)

(* The bucket update of a srTCM. *)
SrtcmFill(m, p, time) ==
  LET tb == rte_meter_get_tb_params(p.cir)
      tc == (m.tc + Periods(time, m.time, tb) * tb.bytes) % Word
  IN [m EXCEPT !.time = LastFill(time, m.time, tb),
               !.tc = Least(tc, p.cbs),
               !.te = IF tc > p.cbs THEN Overflow(m.te, tc - p.cbs, p.ebs) ELSE m.te]

(* The bucket update of a trTCM. *)
TrtcmFill(m, p, time) ==
  LET c == rte_meter_get_tb_params(p.cir)
      e == rte_meter_get_tb_params(p.pir)
  IN [m EXCEPT
        !.time  = LastFill(time, m.time, c),
        !.time2 = LastFill(time, m.time2, e),
        !.tc = Least((m.tc + Periods(time, m.time, c) * c.bytes) % Word, p.cbs),
        !.te = Least((m.te + Periods(time, m.time2, e) * e.bytes) % Word, p.pbs)]

(* The colour logic on filled buckets; blind mode is colour Green. *)
SrtcmColor(f, len, color) ==
  IF color = Green /\ f.tc >= len THEN Green
  ELSE IF color # Red /\ f.te >= len THEN Yellow ELSE Red

TrtcmColor(f, len, color) ==
  IF color = Red \/ f.te < len THEN Red
  ELSE IF color = Yellow \/ f.tc < len THEN Yellow ELSE Green

SrtcmTake(f, len, color) ==
  [f EXCEPT !.tc = IF color = Green THEN f.tc - len ELSE f.tc,
            !.te = IF color = Yellow THEN f.te - len ELSE f.te]

(* Mutant of TrtcmTake: a green packet is not charged to the peak bucket. *)
TrtcmTakeOne(f, len, color) == SrtcmTake(f, len, color)

TrtcmTake(f, len, color) ==
  [f EXCEPT !.tc = IF color = Green THEN f.tc - len ELSE f.tc,
            !.te = IF color # Red THEN f.te - len ELSE f.te]

(* rte_meter_srtcm_color_blind_check and ..._aware_check *)
rte_meter_srtcm_check(m, p, time, len, color) ==
  LET f == SrtcmFill(m, p, time)
      c == SrtcmColor(f, len, color)
  IN [m |-> SrtcmTake(f, len, c), color |-> c]

rte_meter_srtcm_color_blind_check(m, p, time, len) ==
  rte_meter_srtcm_check(m, p, time, len, Green)

rte_meter_trtcm_check(m, p, time, len, color) ==
  LET f == TrtcmFill(m, p, time)
      c == TrtcmColor(f, len, color)
  IN [m |-> TrtcmTake(f, len, c), color |-> c]
=============================================================================
