-------------------------------- MODULE Qos --------------------------------
(***************************************************************************)
(* lab3: the meter and the dropper of qos.c, driven by the loop of main.c. *)
(* Each packet of a burst is coloured by the meter of its flow and then    *)
(* offered to the dropper, which keeps an average for every flow and       *)
(* colour but one queue length for every flow, cleared when time moves on. *)
(***************************************************************************)
EXTENDS RteMeter, RteRed

CONSTANTS
  Flows,           \* 0..APP_FLOWS_MAX - 1
  SrtcmParams,     \* app_srtcm_params, by flow
  RedParams,       \* app_red_params, by flow and colour
  StartTimes,      \* readings of the time stamp counter at start-up
  Leads,           \* cycles from that reading to the meter's own
  NanoPerSec,      \* NANO_PERSEC
  BurstNanos,      \* main adds this to time after each burst
  MaxBursts,       \* bursts main sends
  MaxBurst,        \* bound on the packets of a burst
  PktLens          \* lengths of packets

ASSUME QosAssumption ==
  /\ StartTimes \subseteq Nat /\ PktLens \subseteq Nat
  /\ NanoPerSec \in Nat \ {0} /\ BurstNanos \in Nat \ {0} /\ MaxBursts \in Nat
  /\ MaxBurst \in Nat
  /\ RedParams \in [Flows -> [Colors -> RedParamSet]]

VARIABLES
  app_flows, start_times,            \* the meters
  app_reds, queues, last_time,       \* the dropper
  rand_val,                          \* rte_red_rand_val
  time, burst,                       \* main: time, packets of this burst so far
  arrived, passed, drops, peak       \* histories, see below

(* arrived, passed: packets of each flow in this burst, offered and passed; *)
(* drops: the flows and colours that lost a packet; peak: the longest queue *)
(* each was compared with.                                                  *)
meterVars == <<app_flows, start_times>>
dropVars == <<app_reds, queues, last_time, rand_val>>
vars == <<meterVars, dropVars, time, burst, arrived, passed, drops, peak>>

FC == Flows \X Colors
Zero == [f \in Flows |-> 0]

(* qos_meter_init, qos_dropper_init and main up to its loop, which is left *)
(* at once when a configuration is refused.                                *)
Init ==
  /\ \A f \in Flows : SrtcmParamsOK(SrtcmParams[f])
  /\ \A fc \in FC : RedParamsOK(RedParams[fc[1]][fc[2]])
  /\ start_times \in [Flows -> StartTimes]
  /\ \E lead \in [Flows -> Leads] : app_flows =
       [f \in Flows |-> rte_meter_srtcm_config(SrtcmParams[f], start_times[f] + lead[f])]
  /\ app_reds = [fc \in FC |-> rte_red_rt_data_init]
  /\ queues = Zero /\ last_time = 0
  /\ rand_val \in Rands
  /\ time = 0 /\ burst = 0
  /\ arrived = Zero /\ passed = Zero /\ drops = {}
  /\ peak = [fc \in FC |-> 0]

(* start_times[flow_id] + (uint64_t)(time / NANO_PERSEC * hz) *)
Cycles(t) == (t * Hz) \div NanoPerSec
ctime(f) == start_times[f] + Cycles(time)

(* Mutant of ClearedQueues: only the queue of this packet's flow is cleared. *)
ClearedQueuesOwn(f) == IF time # last_time THEN [queues EXCEPT ![f] = 0] ELSE queues

(* The queue lengths once qos_dropper_run has noticed that time moved on. *)
ClearedQueues(f) == IF time # last_time THEN Zero ELSE queues

(* One iteration of the inner loop of main: qos_meter_run, qos_dropper_run *)
(* and the counting.                                                       *)
Packet(f, len) ==
  LET m == rte_meter_srtcm_color_blind_check(app_flows[f], SrtcmParams[f], ctime(f), len)
      fc == <<f, m.color>>
      cleared == ClearedQueues(f)
      cfg == rte_red_config_init(RedParams[f][m.color])
  IN /\ burst < MaxBurst
     /\ app_flows' = [app_flows EXCEPT ![f] = m.m]
     /\ last_time' = time
     /\ \E e \in rte_red_enqueue(cfg, app_reds[fc], cleared[f], ctime(f), rand_val) :
          /\ app_reds' = [app_reds EXCEPT ![fc] = e.red]
          /\ rand_val' = e.rand
          /\ queues' = IF e.ret = 0 THEN [cleared EXCEPT ![f] = @ + 1] ELSE cleared
          /\ passed' = IF e.ret = 0 THEN [passed EXCEPT ![f] = @ + 1] ELSE passed
          /\ drops' = IF e.ret = 0 THEN drops ELSE drops \cup {fc}
     /\ arrived' = [arrived EXCEPT ![f] = @ + 1]
     /\ peak' = [peak EXCEPT ![fc] = IF cleared[f] > @ THEN cleared[f] ELSE @]
     /\ burst' = burst + 1
     /\ UNCHANGED <<start_times, time>>

(* The end of a burst: time += 1000000. *)
NextBurst ==
  /\ burst > 0
  /\ time < BurstNanos * (MaxBursts - 1)
  /\ time' = time + BurstNanos
  /\ burst' = 0 /\ arrived' = Zero /\ passed' = Zero
  /\ UNCHANGED <<meterVars, dropVars, drops, peak>>

Next == NextBurst \/ \E f \in Flows, len \in PktLens : Packet(f, len)

Spec == Init /\ [][Next]_vars

-----------------------------------------------------------------------------
(* The average of a flow and colour never exceeds the longest queue it was *)
(* compared with, as if scaled: the average cannot run away, and neither   *)
(* rounding nor the decay of idle queues adds to it.                       *)
AverageBounded ==
  \A fc \in FC :
    LET cfg == rte_red_config_init(RedParams[fc[1]][fc[2]])
    IN app_reds[fc].avg <= peak[fc] * (Pow2[cfg.wq_log2] * Scale)

(* A packet is dropped only when its flow's queue has at some time been as *)
(* long as the lower threshold of its colour: with the thresholds of       *)
(* lab3/qos.c no green packet of flow 0 is lost before 1022 others of the  *)
(* flow have passed in one burst.                                          *)
DroppedForCause ==
  \A fc \in drops : peak[fc] >= RedParams[fc[1]][fc[2]].min_th

(* In every burst every flow that sends anything gets at least its first   *)
(* packet through, whatever the averages left from earlier bursts: the     *)
(* queues are cleared for all flows before the first packet of a burst is  *)
(* judged.                                                                 *)
EveryFlowServed == \A f \in Flows : arrived[f] > 0 => passed[f] > 0
=============================================================================
