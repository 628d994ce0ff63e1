------------------------------- MODULE MCLab3 -------------------------------
(* lab3: a meter alone and the loop of main. They share no variable, and a *)
(* behaviour is one of the two, the other staying as it started.           *)
EXTENDS Metering, Qos

(* Rates below and above a byte in PeriodMin cycles, with and without room *)
(* in each bucket.                                                         *)
MCParams ==
  [kind : {"srtcm"}, cir : {2, 7}, cbs : {0, 4}, ebs : {0, 3}]
    \cup [kind : {"trtcm"}, cir : {2}, pir : {7}, cbs : {2}, pbs : {3, 5}]

(* Two flows. Their thresholds keep the order of app_red_params, scaled to *)
(* bursts of a few packets.                                                *)
MCSrtcmParams == [f \in Flows |-> [cir |-> 2, cbs |-> 4 - 2 * f, ebs |-> 1]]

MCRedParams == [f \in Flows |-> [c \in Colors |->
  [min_th |-> IF c = Green THEN 2 - f ELSE 1, max_th |-> 3 - f, maxp_inv |-> 1, wq_log2 |-> 1]]]

VARIABLE part

MCInit ==
  /\ MeterInit /\ Init
  /\ \/ part = "meter" /\ start_times = [f \in Flows |-> 1] /\ rand_val = 0
     \/ part = "main" /\ par = [kind |-> "srtcm", cir |-> 2, cbs |-> 4, ebs |-> 3]

MCNext ==
  /\ UNCHANGED part
  /\ \/ part = "meter" /\ MeterNext /\ UNCHANGED vars
     \/ part = "main" /\ Next /\ UNCHANGED meteringVars
=============================================================================
