--------------------------------- MODULE Rdt ---------------------------------
(***************************************************************************)
(* The protocol of rdt/: the sender, the receiver and the services of the  *)
(* simulator, driven by the event loop of rdt_sim.cc's main.               *)
(***************************************************************************)
EXTENDS RdtSender, RdtReceiver

CONSTANT MaxBacklog     \* messages the upper layer may leave unprocessed in the buffer

ASSUME BacklogAssumption == MaxBacklog \in Nat \ {0}

vars == <<serviceVars, senderVars, receiverVars>>

Init ==
    /\ ServicesInit
    /\ Sender_Init
    /\ Receiver_Init

-----------------------------------------------------------------------------
(* The cases of the event loop.                                             *)

(* EVENT_SENDER_FROMUPPERLAYER.  The event recurs until sim_time is over;   *)
(* it always is after MaxMsgs messages.                                     *)
UpperLayerEvent ==
    /\ upper_active
    /\ next_message_seq - cur_message_seq < MaxBacklog
    /\ \E size \in MessageSizes :
         /\ generate_msg(size)
         /\ Sender_FromUpperLayer(GeneratedMessage(size))
    /\ upper_active' \in {a \in BOOLEAN : a => Len(sent) + 1 < MaxMsgs}
    /\ UNCHANGED <<toSender, sinkVars, receiverVars>>

(* EVENT_SENDER_FROMLOWERLAYER                                              *)
AckEvent ==
    /\ \E pkt \in BagToSet(toSender) :
         /\ toSender' = BX!BagRemove(toSender, pkt)
         /\ Sender_FromLowerLayer(pkt)
    /\ UNCHANGED <<sourceVars, sinkVars, receiverVars>>

(* EVENT_SENDER_TIMEOUT                                                     *)
TimeoutEvent ==
    /\ sender_timer
    /\ Sender_Timeout
    /\ UNCHANGED <<toSender, sourceVars, sinkVars, receiverVars>>

(* EVENT_RECEIVER_FROMLOWERLAYER                                            *)
DataEvent ==
    /\ \E pkt \in BagToSet(toReceiver) :
         /\ toReceiver' = BX!BagRemove(toReceiver, pkt)
         /\ Receiver_FromLowerLayer(pkt)
    /\ UNCHANGED <<sender_timer, sourceVars, senderVars>>

(* Handlers in the middle of a loop.                                        *)
SenderStep ==
    /\ Sender_ConstructPKT \/ Sender_SendPKT
    /\ UNCHANGED <<toSender, sourceVars, sinkVars, receiverVars>>

ReceiverStep ==
    /\ Receiver_Consume
    /\ UNCHANGED <<toReceiver, sender_timer, sourceVars, senderVars>>

(* No event is left: the session is over.                                   *)
Finish ==
    /\ ctl = "main"
    /\ ~upper_active /\ ~sender_timer
    /\ toReceiver = EmptyBag /\ toSender = EmptyBag
    /\ ctl' = "final"
    /\ UNCHANGED <<linkVars, sender_timer, sourceVars, sinkVars, senderVars, receiverVars>>

Terminated == ctl = "final" /\ UNCHANGED vars

Next ==
    \/ UpperLayerEvent
    \/ AckEvent
    \/ TimeoutEvent
    \/ DataEvent
    \/ SenderStep
    \/ ReceiverStep
    \/ Finish
    \/ Terminated

Spec == Init /\ [][Next]_vars

-----------------------------------------------------------------------------
(* Invariants.                                                              *)

(* Type correctness of every variable of the session.                       *)
TypeOK == ServicesTypeOK /\ SenderTypeOK /\ ReceiverTypeOK

(* Whatever the links lose, corrupt or reorder and whenever the timer       *)
(* expires, Receiver_ToUpperLayer has been given exactly the first messages *)
(* given to Sender_FromUpperLayer, in order, none twice, no byte changed.   *)
DeliveredPrefix ==
    /\ Len(delivered) <= Len(sent)
    /\ \A k \in 1..Len(delivered) : delivered[k] = sent[k]

(* Until it is acknowledged, a packet stays as it was made in its slot of   *)
(* windows: Sender_ConstructPKT reuses no slot that Sender_Timeout may      *)
(* still have to send.                                                      *)
WindowIntact ==
    \A s \in ack_expected..(pkt_seq - 1) :
       windows[s % MAX_WINDOW_SIZE] = made[s + 1].pkt

(* Between events the timer runs exactly while a packet is unacknowledged,  *)
(* and no message waits in the buffer without it: otherwise nothing would   *)
(* ever call Sender_ConstructPKT or resend for it.                          *)
TimerCovers ==
    ctl = "main" =>
      /\ sender_timer <=> ack_expected < pkt_seq
      /\ ~sender_timer => cur_message_seq = next_message_seq

(* The sender never takes for received what the receiver has not consumed,  *)
(* and no acknowledgement in flight claims it.                              *)
AckSound ==
    /\ ack_expected <= expected /\ expected <= pkt_seq
    /\ \A p \in BagToSet(toSender) : p.intact => p.ack < expected

(* The receiver's copies stay inside cur_msg->data: the bytes copied never  *)
(* exceed the size announced by the message information packet, and the     *)
(* message being put together is the next one the sender was given.         *)
InBounds ==
    /\ cursor < cur_msg.size \/ cursor = 0
    /\ cursor > 0 => /\ Len(delivered) < Len(sent)
                     /\ cur_msg.size = sent[Len(delivered) + 1].size
                     /\ \A i \in 0..(cursor - 1) :
                           cur_msg.data[i] = sent[Len(delivered) + 1].data[i]

(* A session that ends prints "Congratulations": verification passed, as    *)
(* many characters delivered as sent, and indeed every message.             *)
Verdict ==
    ctl = "final" =>
      /\ message_verfication_passed
      /\ tot_chars_sent = tot_chars_delivered
      /\ delivered = sent

(* The loop of Sender_ConstructPKT always makes a packet: whatever backlog  *)
(* and acknowledgements came before, the cursor is inside the message it    *)
(* cuts, so neither branch being taken, which would repeat for ever, never  *)
(* happens.                                                                 *)
ConstructProgress == ctl = "construct" /\ MorePackets => Rest > 0

(* What rdt/README.md says of the buffer: it retains every message the      *)
(* sender was given and has not cut up completely.                          *)
BufferRetainsUnprocessed ==
    \A m \in cur_message_seq..(next_message_seq - 1) :
       buffer[m % MAX_BUFFER_SIZE] = WithSizeHeader(sent[m + 1])

-----------------------------------------------------------------------------
(* Properties of steps and behaviours.                                      *)

(* The messages generate_msg can build.                                     *)
Messages ==
    UNION {[size : {n}, data : [0..(n - 1) -> 0..9]] : n \in MessageSizes}

(* The protocol implements the reliable channel.                            *)
Channel == INSTANCE ReliableChannel
             WITH Messages <- Messages, sent <- sent, delivered <- delivered
ChannelSpec == Channel!Spec

=============================================================================
