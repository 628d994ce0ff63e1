------------------------------ MODULE RdtTimed -------------------------------
(***************************************************************************)
(* The protocol of rdt/ under the simulated clock of rdt_sim.cc: the event *)
(* chain decides which event comes next.  Every step is a step of Rdt that *)
(* also maintains the chain.                                               *)
(*                                                                         *)
(* The chain holds, in the order in which they will happen, the pending    *)
(* events with the time that remains until each; the clock itself is not   *)
(* kept.                                                                   *)
(***************************************************************************)
EXTENDS Rdt, SequencesExt

CONSTANTS
    pkt_latency,    \* 0.1 s in the code
    TIMEOUT,        \* 0.3 s in the code
    CommandLines    \* the arguments the simulator may be started with

(* arrivals: what msg_arrivalint * 2.0 * myrandom() may be; the others say  *)
(* whether the rate of that name is above zero.                             *)
ASSUME TimeAssumption ==
    /\ pkt_latency \in Nat /\ TIMEOUT \in Nat
    /\ CommandLines \subseteq [arrivals : SUBSET Nat \ {{}}, outoforder : BOOLEAN,
                               loss : BOOLEAN, corrupt : BOOLEAN]

VARIABLES
    chain,      \* sim_core: the pending events
    args        \* the arguments of main

timedVars == <<vars, chain, args>>

Event(type, pkt, delay) == [type |-> type, pkt |-> pkt, delay |-> delay]

UpperEvent(delay) == Event("upper", Garbage, delay)
TimeoutAt(delay) == Event("timeout", Garbage, delay)

-----------------------------------------------------------------------------
(* EventChain.                                                              *)

(* Before the first event that happens later.                               *)
schedule(ch, e) ==
    LET i == SelectInSeq(ch, LAMBDA f : f.delay > e.delay)
    IN  IF i = 0 THEN Append(ch, e) ELSE InsertAt(ch, i, e)

(* Mutant of cancel: a cancelled event stays in the chain.                  *)
cancelNothing(ch) == ch

(* The only event ever cancelled is the sender timer.                       *)
cancel(ch) ==
    LET i == SelectInSeq(ch, LAMBDA f : f.type = "timeout")
    IN  IF i = 0 THEN ch ELSE RemoveAt(ch, i)

(* The chain once its head has been taken off and the clock moved to it.    *)
next_event(ch) ==
    [i \in 1..(Len(ch) - 1) |-> [ch[i + 1] EXCEPT !.delay = @ - Head(ch).delay]]

-----------------------------------------------------------------------------
(* What a step does to the chain.                                           *)

(* Mutant of Timer: a running timer is not restarted.                       *)
TimerKeepsRunning(ch) ==
    CASE ctl = "main" /\ ctl' = "construct" ->
           IF \E i \in DOMAIN ch : ch[i].type = "timeout"
             THEN ch ELSE schedule(ch, TimeoutAt(TIMEOUT))
      [] ~sender_timer' -> cancel(ch)
      [] OTHER -> ch

(* A handler that starts its loops has called Sender_StartTimer; one that   *)
(* leaves no timer has called Sender_StopTimer, or the timer has expired.   *)
Timer(ch) ==
    CASE ctl = "main" /\ ctl' = "construct" -> schedule(cancel(ch), TimeoutAt(TIMEOUT))
      [] ~sender_timer' -> cancel(ch)
      [] OTHER -> ch

Latencies == IF args.outoforder THEN 0..(2 * pkt_latency) ELSE {pkt_latency}

(* The lower layer, with its rates: the event of a packet not lost, or      *)
(* nothing.                                                                 *)
Arrivals(type, link, newLink, pkt) ==
    IF newLink = link
      THEN {<< >>}
      ELSE {<<Event(type, IF newLink = BX!BagAdd(link, pkt) THEN pkt ELSE Garbage, d)>> :
               d \in Latencies}

RatesAllow(link, newLink) ==
    /\ newLink = link => args.loss
    /\ newLink = BX!BagAdd(link, Garbage) => args.corrupt

(* The recurring message event is scheduled when its handler returns.       *)
Recurrences(ch) ==
    IF upper_active' /\ ctl' = "main" /\ \A i \in DOMAIN ch : ch[i].type # "upper"
      THEN {<<UpperEvent(d)>> : d \in args.arrivals}
      ELSE {<< >>}

scheduleAll(ch, es) == IF es = << >> THEN ch ELSE schedule(ch, es[1])

-----------------------------------------------------------------------------
TimedInit == Init /\ chain = <<UpperEvent(0)>> /\ args \in CommandLines

(* The event loop takes the next event.                                     *)
TimedUpperLayer ==
    /\ UNCHANGED args
    /\ chain # << >> /\ Head(chain).type = "upper"
    /\ UpperLayerEvent
    /\ LET ch == Timer(next_event(chain))
       IN  \E es \in Recurrences(ch) : chain' = scheduleAll(ch, es)

TimedAck ==
    /\ UNCHANGED args
    /\ chain # << >> /\ Head(chain).type = "ack"
    /\ AckEvent /\ toSender' = BX!BagRemove(toSender, Head(chain).pkt)
    /\ chain' = Timer(next_event(chain))

TimedTimeout ==
    /\ UNCHANGED args
    /\ chain # << >> /\ Head(chain).type = "timeout"
    /\ TimeoutEvent
    /\ chain' = Timer(next_event(chain))

TimedData ==
    /\ UNCHANGED args
    /\ chain # << >> /\ Head(chain).type = "data"
    /\ DataEvent /\ toReceiver' = BX!BagRemove(toReceiver, Head(chain).pkt)
    /\ IF ctl' = "consume" \/ ~RDT_VerifyChecksum(Head(chain).pkt)
         THEN chain' = next_event(chain)
         ELSE /\ RatesAllow(toSender, toSender')
              /\ \E es \in Arrivals("ack", toSender, toSender', AckPacket(expected - 1)) :
                    chain' = scheduleAll(next_event(chain), es)

TimedConstruct ==
    /\ ctl = "construct"
    /\ SenderStep
    /\ UNCHANGED <<chain, args>>

TimedSend ==
    /\ UNCHANGED args
    /\ ctl = "send"
    /\ SenderStep
    /\ ctl' = "send"
    /\ RatesAllow(toReceiver, toReceiver')
    /\ \E es \in Arrivals("data", toReceiver, toReceiver',
                          windows[next_packet_to_send % MAX_WINDOW_SIZE]) :
          chain' = scheduleAll(chain, es)

TimedReturn ==
    /\ UNCHANGED args
    /\ ctl = "send"
    /\ SenderStep
    /\ ctl' = "main"
    /\ LET ch == Timer(chain)
       IN  \E es \in Recurrences(ch) : chain' = scheduleAll(ch, es)

TimedConsume ==
    /\ UNCHANGED args
    /\ ReceiverStep
    /\ IF ctl' = "consume"
         THEN UNCHANGED chain
         ELSE /\ RatesAllow(toSender, toSender')
              /\ \E es \in Arrivals("ack", toSender, toSender', AckPacket(rpkt.seq)) :
                    chain' = scheduleAll(chain, es)

TimedFinish == chain = << >> /\ Finish /\ UNCHANGED <<chain, args>>

TimedNext ==
    \/ TimedUpperLayer
    \/ TimedAck
    \/ TimedTimeout
    \/ TimedData
    \/ TimedConstruct
    \/ TimedSend
    \/ TimedReturn
    \/ TimedConsume
    \/ TimedFinish
    \/ (Terminated /\ UNCHANGED <<chain, args>>)

TimedSpec == TimedInit /\ [][TimedNext]_timedVars

(* The program keeps running; and since loss_rate and corrupt_rate are      *)
(* below one, a window slot handed to the lower layer again and again is    *)
(* passed on intact again and again, and so are acknowledgements.           *)
IntactSend(slot) ==
    /\ TimedSend
    /\ next_packet_to_send % MAX_WINDOW_SIZE = slot
    /\ toReceiver' = BX!BagAdd(toReceiver, windows[slot])

IntactAck ==
    /\ TimedData \/ TimedConsume
    /\ \E a \in {expected - 1, expected} : toSender' = BX!BagAdd(toSender, AckPacket(a))

FairSpec ==
    /\ TimedSpec
    /\ WF_timedVars(TimedNext)
    /\ \A slot \in 0..(MAX_WINDOW_SIZE - 1) : SF_timedVars(IntactSend(slot))
    /\ SF_timedVars(IntactAck)

-----------------------------------------------------------------------------
EventsOf(type) == {i \in DOMAIN chain : chain[i].type = type}

(* The chain is in the order of time, and its events are exactly what the   *)
(* layers wait for: the packets in flight, and one timer event while        *)
(* sender_timer is set (never a second one left behind by a restart).       *)
ChainAgrees ==
    /\ \A i \in 1..(Len(chain) - 1) : chain[i].delay <= chain[i + 1].delay
    /\ sender_timer => \E i \in DOMAIN chain : EventsOf("timeout") = {i}
    /\ ~sender_timer => EventsOf("timeout") = {}
    /\ \A p \in BagToSet(toReceiver) :
          toReceiver[p] = Cardinality({i \in EventsOf("data") : chain[i].pkt = p})
    /\ \A p \in BagToSet(toSender) :
          toSender[p] = Cardinality({i \in EventsOf("ack") : chain[i].pkt = p})
    /\ \A i \in EventsOf("data") : BagIn(chain[i].pkt, toReceiver)
    /\ \A i \in EventsOf("ack") : BagIn(chain[i].pkt, toSender)

(* On a link that neither loses, corrupts nor reorders, the timer never     *)
(* expires: every packet is handed over by a handler that has just          *)
(* restarted the timer, and its acknowledgement is back before TIMEOUT.     *)
NoSpuriousTimeout ==
    ~args.outoforder /\ ~args.loss /\ ~args.corrupt /\ ctl = "main" /\ chain # << >> =>
      Head(chain).type # "timeout"

(* Every session ends, whatever the links do on the way.                    *)
Termination == <>(ctl = "final")

=============================================================================
