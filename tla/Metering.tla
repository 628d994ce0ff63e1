------------------------------ MODULE Metering ------------------------------
(***************************************************************************)
(* One flow through a meter, as qos_meter_init and qos_meter_run use it:   *)
(* the start of the flow's clock is read before the meter is configured,   *)
(* and packets come at times that never go back. The log of the packets,   *)
(* their lengths, times and colours, is what the properties speak of.      *)
(***************************************************************************)
EXTENDS RteMeter, Sequences

CONSTANTS Params,      \* the parameters a flow may be configured with; their kind
                       \* is "srtcm" or "trtcm"
          Starts,      \* readings of the clock
          MeterLeads,  \* cycles from reading start_times[i] to the meter's own reading
          Gaps,        \* cycles between packets
          Lens,        \* lengths of packets
          InColors,    \* colours of the packets; Green is blind mode
          MaxPackets   \* bound on the packets of a behaviour

VARIABLES
  meter,   \* app_flows[i]
  par,     \* its parameters
  start,   \* start_times[i]
  elapsed, \* the time of the last packet, in cycles since start
  log,     \* the packets so far, [t, len, color, in, before]; before is sent at their arrival
  sent     \* how many bytes have been given each colour

meteringVars == <<meter, par, start, elapsed, log, sent>>

ParamsOK(p) == IF p.kind = "srtcm" THEN SrtcmParamsOK(p) ELSE TrtcmParamsOK(p)

(* A bucket of size bytes filled at a rate: neither is the flow silent for *)
(* so long that the clock comes round, nor does a bucket overflow that is  *)
(* filled for a whole turn of the clock, as the first packet may do.       *)
Fits(rate, size) ==
  LET tb == rte_meter_get_tb_params(rate) IN
  /\ \A gap \in Gaps : gap + tb.period <= Word
  /\ size + (Word \div tb.period) * tb.bytes < Word

ASSUME MeteringAssumption ==
  /\ Starts \subseteq Nat /\ MeterLeads \subseteq Nat /\ Gaps \subseteq Nat /\ Lens \subseteq Nat
  /\ InColors \subseteq Colors /\ MaxPackets \in Nat
  /\ \A p \in Params : ParamsOK(p) =>
       /\ p.cir \in Nat /\ p.cbs \in Nat /\ Fits(p.cir, p.cbs)
       /\ p.kind = "srtcm" => p.ebs \in Nat
       /\ p.kind # "srtcm" => p.pir \in Nat /\ p.pbs \in Nat /\ Fits(p.pir, p.pbs)

Config(p, tsc) ==
  IF p.kind = "srtcm" THEN rte_meter_srtcm_config(p, tsc) ELSE rte_meter_trtcm_config(p, tsc)

(* qos_meter_init *)
MeterInit ==
  \E p \in Params, lead \in MeterLeads :
    /\ ParamsOK(p)
    /\ par = p
    /\ start \in Starts
    /\ meter = Config(p, (start + lead) % Word)
    /\ elapsed = 0
    /\ log = << >>
    /\ sent = [c \in Colors |-> 0]

Kind == par.kind

Check(time, len, color) ==
  IF Kind = "srtcm" THEN rte_meter_srtcm_check(meter, par, time, len, color)
                    ELSE rte_meter_trtcm_check(meter, par, time, len, color)

(* qos_meter_run *)
MeterPacket(gap, len, color) ==
  LET t == elapsed + gap
      r == Check((start + t) % Word, len, color)
  IN /\ Len(log) < MaxPackets
     /\ meter' = r.m
     /\ elapsed' = t
     /\ log' = Append(log, [t |-> t, len |-> len, color |-> r.color, in |-> color, before |-> sent])
     /\ sent' = [sent EXCEPT ![r.color] = @ + len]
     /\ UNCHANGED <<par, start>>

MeterNext == \E gap \in Gaps, len \in Lens, color \in InColors : MeterPacket(gap, len, color)

MeterSpec == MeterInit /\ [][MeterNext]_meteringVars

-----------------------------------------------------------------------------
Of(totals, colors) ==
  LET n(c) == IF c \in colors THEN totals[c] ELSE 0 IN n(Green) + n(Yellow) + n(Red)

(* The bytes of some colours in packets i to j - 1, and in packets i to j. *)
BytesBefore(colors, i, j) == Of(log[j].before, colors) - Of(log[i].before, colors)

Bytes(colors, i, j) ==
  BytesBefore(colors, i, j) + IF log[j].color \in colors THEN log[j].len ELSE 0

Committed == rte_meter_get_tb_params(par.cir)
Peak == rte_meter_get_tb_params(IF Kind = "srtcm" THEN par.cir ELSE par.pir)
PeakSize == IF Kind = "srtcm" THEN par.cbs + par.ebs ELSE par.pbs

Earned(tb, i, j) == tb.bytes * ((log[j].t - log[i].t) \div tb.period)

Conforms(colors, size, tb) ==
  \A j \in 1..Len(log) : \A i \in 1..j :
    Bytes(colors, i, j) <= size + Earned(tb, i, j) + tb.bytes

(* In every stretch of traffic the green bytes stay within the committed   *)
(* burst and rate, and green and yellow ones together within what both     *)
(* buckets allow. The first packet, whose time lies before the meter's     *)
(* own, must not count as the passing of nearly 2^64 cycles.               *)
RateLimited ==
  /\ Conforms({Green}, par.cbs, Committed)
  /\ Conforms({Green, Yellow}, PeakSize, Peak)

Exceeds(colors, size, tb, j) ==
  \E i \in 1..j :
    BytesBefore(colors, i, j) + log[j].len > size + Earned(tb, i, j)

(* A packet is only degraded when the flow has in fact exceeded its limits *)
(* in some stretch that ends with it: no token the flow has earned is lost *)
(* to the rounding of periods.                                             *)
DegradedForCause ==
  \A j \in 1..Len(log) :
    LET k == log[j] IN
    /\ k.in = Green /\ (k.color = Yellow \/ (Kind = "srtcm" /\ k.color = Red)) =>
         Exceeds({Green}, par.cbs, Committed, j)
    /\ k.in # Red /\ k.color = Red =>
         IF Kind = "srtcm"
         THEN Exceeds({Yellow}, par.ebs, [bytes |-> 0, period |-> 1], j)
         ELSE Exceeds({Green, Yellow}, par.pbs, Peak, j)
=============================================================================
