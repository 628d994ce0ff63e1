------------------------------ MODULE RdtSender ------------------------------
(***************************************************************************)
(* The sender of the protocol, rdt_sender.cc: a ring of buffered messages, *)
(* a sliding window of packets, cumulative acknowledgements, and a timer   *)
(* that resends the whole window.                                          *)
(*                                                                         *)
(* The handlers are called from the event loop, one at a time.  The loops  *)
(* of Sender_ConstructPKT and Sender_SendPKT take one step per iteration;  *)
(* ctl keeps every other handler out until the handler that entered them   *)
(* has returned.                                                           *)
(***************************************************************************)
EXTENDS RdtServices

CONSTANTS
    MAX_BUFFER_SIZE,    \* 1000 in the code
    MAX_WINDOW_SIZE     \* 10 in the code

ASSUME SenderAssumption ==
    /\ MAX_BUFFER_SIZE \in Nat \ {0}
    /\ MAX_WINDOW_SIZE \in Nat \ {0}

VARIABLES
    buffer,
    next_message_seq,
    msg_buffer_num,
    cur_message_seq,
    cursor_sender,
    windows,
    pkt_seq,
    next_packet_to_send,
    ack_expected,
    pkt_window_num,
    ack,            \* local ack of Sender_FromLowerLayer while it runs, else NoAck
    made            \* history: each packet constructed, with its message and offset

bufferVars == <<buffer, next_message_seq, msg_buffer_num, cur_message_seq, cursor_sender>>
windowVars == <<windows, pkt_seq, pkt_window_num, made>>
senderVars == <<bufferVars, windowVars, next_packet_to_send, ack_expected, ack>>

(* Differs from every acknowledgement and from every pkt_seq - 1.          *)
NoAck == -2

Sender_Init ==
    /\ buffer = [i \in 0..(MAX_BUFFER_SIZE - 1) |-> EmptyMessage]
    /\ next_message_seq = 0
    /\ msg_buffer_num = 0
    /\ cur_message_seq = 0
    /\ cursor_sender = 0
    /\ windows = [i \in 0..(MAX_WINDOW_SIZE - 1) |-> Garbage]
    /\ pkt_seq = 0
    /\ next_packet_to_send = 0
    /\ ack_expected = 0
    /\ pkt_window_num = 0
    /\ ack = NoAck
    /\ made = << >>

-----------------------------------------------------------------------------
(* Sender_ConstructPKT.  While its loop runs, the local msg is the slot of  *)
(* cur_message_seq: it is read there before the loop and whenever           *)
(* cur_message_seq moves on to a buffered message.                          *)

CurrentMessage == buffer[cur_message_seq % MAX_BUFFER_SIZE]

Rest == CurrentMessage.size - cursor_sender

(* Mutant of MorePackets: one packet too many.                              *)
MorePacketsOverfull ==
    pkt_window_num <= MAX_WINDOW_SIZE /\ cur_message_seq < next_message_seq

MorePackets ==
    pkt_window_num < MAX_WINDOW_SIZE /\ cur_message_seq < next_message_seq

(* The part of both branches that fills a window slot.                      *)
FillWindow(size) ==
    LET pkt == DataPacket(pkt_seq, size, CurrentMessage.data, cursor_sender)
    IN  /\ windows' = [windows EXCEPT ![pkt_seq % MAX_WINDOW_SIZE] = pkt]
        /\ pkt_seq' = pkt_seq + 1
        /\ pkt_window_num' = pkt_window_num + 1
        /\ made' = Append(made, [pkt |-> pkt, msg |-> cur_message_seq,
                                 off |-> cursor_sender])

ConstructFull ==
    /\ Rest > MAX_PAYLOAD_SIZE
    /\ FillWindow(MAX_PAYLOAD_SIZE)
    /\ cursor_sender' = cursor_sender + MAX_PAYLOAD_SIZE
    /\ UNCHANGED <<msg_buffer_num, cur_message_seq>>

(* Mutant of ConstructLast: the cursor stays where it is.                   *)
ConstructLastKeepsCursor ==
    /\ Rest \in 1..MAX_PAYLOAD_SIZE
    /\ FillWindow(Rest)
    /\ msg_buffer_num' = msg_buffer_num - 1
    /\ cur_message_seq' = cur_message_seq + 1
    /\ UNCHANGED cursor_sender

ConstructLast ==
    /\ Rest \in 1..MAX_PAYLOAD_SIZE
    /\ FillWindow(Rest)
    /\ msg_buffer_num' = msg_buffer_num - 1
    /\ cur_message_seq' = cur_message_seq + 1
    /\ cursor_sender' = 0

(* One iteration.  With Rest <= 0 neither branch is taken and the loop      *)
(* never ends: the model is stuck in this state, a deadlock for TLC.        *)
Sender_ConstructPKT ==
    /\ ctl = "construct"
    /\ \/ /\ MorePackets
          /\ ConstructFull \/ ConstructLast
          /\ UNCHANGED ctl
       \/ /\ ~MorePackets
          /\ ctl' = "send"
          /\ UNCHANGED <<windowVars, msg_buffer_num, cur_message_seq, cursor_sender>>
    /\ UNCHANGED <<buffer, next_message_seq, next_packet_to_send, ack_expected,
                   ack, sender_timer, toReceiver>>

(* One iteration of Sender_SendPKT.                                         *)
SendOne ==
    /\ next_packet_to_send < pkt_seq
    /\ Sender_ToLowerLayer(windows[next_packet_to_send % MAX_WINDOW_SIZE])
    /\ next_packet_to_send' = next_packet_to_send + 1
    /\ UNCHANGED <<ctl, ack, sender_timer>>

(* Mutant of SendReturn: any new acknowledgement stops the timer.           *)
SendReturnStopsEarly ==
    /\ next_packet_to_send >= pkt_seq
    /\ IF ack = ack_expected - 1 THEN Sender_StopTimer ELSE UNCHANGED sender_timer
    /\ ack' = NoAck
    /\ ctl' = "main"
    /\ UNCHANGED <<next_packet_to_send, toReceiver>>

(* The loop ends and the handler runs to its return: only                   *)
(* Sender_FromLowerLayer, which has an ack, goes on with a test.            *)
SendReturn ==
    /\ next_packet_to_send >= pkt_seq
    /\ IF ack = pkt_seq - 1 THEN Sender_StopTimer ELSE UNCHANGED sender_timer
    /\ ack' = NoAck
    /\ ctl' = "main"
    /\ UNCHANGED <<next_packet_to_send, toReceiver>>

Sender_SendPKT ==
    /\ ctl = "send"
    /\ SendOne \/ SendReturn
    /\ UNCHANGED <<bufferVars, windowVars, ack_expected>>

-----------------------------------------------------------------------------
(* The handlers.  The slot of the new message is overwritten whether or not *)
(* its old message has been sent.                                           *)

Sender_FromUpperLayer(msg) ==
    /\ ctl = "main"
    /\ buffer' = [buffer EXCEPT ![next_message_seq % MAX_BUFFER_SIZE] =
                                    WithSizeHeader(msg)]
    /\ next_message_seq' = next_message_seq + 1
    /\ msg_buffer_num' = msg_buffer_num + 1
    /\ IF Sender_isTimerSet
         THEN UNCHANGED <<sender_timer, ctl>>
         ELSE Sender_StartTimer /\ ctl' = "construct"
    /\ UNCHANGED <<cur_message_seq, cursor_sender, windowVars,
                   next_packet_to_send, ack_expected, ack, toReceiver>>

(* Mutant of NewAck: an old acknowledgement is taken for a new one.         *)
NewAckOrOld(a) == a < pkt_seq

(* The acknowledgement of a packet in the window.                           *)
NewAck(a) == ack_expected <= a /\ a < pkt_seq

(* A corrupted packet changes nothing.                                      *)
Sender_FromLowerLayer(pkt) ==
    /\ ctl = "main"
    /\ \/ /\ ~RDT_VerifyChecksum(pkt)
          /\ UNCHANGED <<pkt_window_num, ack_expected, ack, sender_timer, ctl>>
       \/ /\ RDT_VerifyChecksum(pkt)
          /\ NewAck(pkt.ack)
          /\ Sender_StartTimer
          /\ pkt_window_num' = pkt_window_num - (pkt.ack - ack_expected + 1)
          /\ ack_expected' = pkt.ack + 1
          /\ ack' = pkt.ack
          /\ ctl' = "construct"
       \/ /\ RDT_VerifyChecksum(pkt)
          /\ ~NewAck(pkt.ack)
          /\ IF pkt.ack = pkt_seq - 1 THEN Sender_StopTimer ELSE UNCHANGED sender_timer
          /\ UNCHANGED <<pkt_window_num, ack_expected, ack, ctl>>
    /\ UNCHANGED <<bufferVars, windows, pkt_seq, made, next_packet_to_send, toReceiver>>

(* Mutant of Sender_Timeout: only packets never sent are sent.              *)
Sender_TimeoutWithoutGoBack ==
    /\ ctl = "main"
    /\ Sender_StartTimer
    /\ ctl' = "construct"
    /\ UNCHANGED <<bufferVars, windowVars, next_packet_to_send, ack_expected, ack,
                   toReceiver>>

Sender_Timeout ==
    /\ ctl = "main"
    /\ Sender_StartTimer
    /\ next_packet_to_send' = ack_expected
    /\ ctl' = "construct"
    /\ UNCHANGED <<bufferVars, windowVars, ack_expected, ack, toReceiver>>

-----------------------------------------------------------------------------
SenderTypeOK ==
    /\ buffer = [i \in 0..(MAX_BUFFER_SIZE - 1) |-> buffer[i]]
    /\ \A i \in 0..(MAX_BUFFER_SIZE - 1) : IsMessage(buffer[i])
    /\ next_message_seq \in Nat
    /\ msg_buffer_num \in Nat
    /\ cur_message_seq \in Nat
    /\ cursor_sender \in Nat
    /\ windows = [i \in 0..(MAX_WINDOW_SIZE - 1) |-> windows[i]]
    /\ \A i \in 0..(MAX_WINDOW_SIZE - 1) :
          windows[i] = Garbage \/ IsDataPacket(windows[i])
    /\ pkt_seq \in Nat
    /\ next_packet_to_send \in 0..pkt_seq
    /\ ack_expected \in 0..pkt_seq
    /\ pkt_window_num \in 0..MAX_WINDOW_SIZE
    /\ ack \in Int /\ ack >= NoAck
    /\ Len(made) = pkt_seq

=============================================================================
