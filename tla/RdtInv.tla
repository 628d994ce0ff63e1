------------------------------- MODULE RdtInv --------------------------------
(***************************************************************************)
(* An inductive invariant of the protocol of rdt/, from which its safety   *)
(* properties follow.  The messages sent, cut into packets, form one       *)
(* stream; the sender's variables, the receiver's, and everything in       *)
(* flight or in a window are described by positions in that stream.        *)
(***************************************************************************)
EXTENDS Rdt

(* Message m (counted from 0, as the code does) as the sender buffers it.  *)
Sized(m) == WithSizeHeader(sent[m + 1])

(* Packet k as it was made.                                                *)
Pkt(k) == made[k + 1].pkt

(* The bytes a packet takes from offset off of message m, and the message  *)
(* and offset of the packet that follows it.                               *)
Chunk(m, off) ==
    IF Sized(m).size - off > MAX_PAYLOAD_SIZE
      THEN MAX_PAYLOAD_SIZE ELSE Sized(m).size - off

MsgAfter(m, off) == IF Sized(m).size - off > MAX_PAYLOAD_SIZE THEN m ELSE m + 1

OffAfter(m, off) ==
    IF Sized(m).size - off > MAX_PAYLOAD_SIZE THEN off + MAX_PAYLOAD_SIZE ELSE 0

(* Message and offset of packet k; for k = pkt_seq, of the next one.       *)
MsgOf(k) == IF k < pkt_seq THEN made[k + 1].msg ELSE cur_message_seq

OffOf(k) == IF k < pkt_seq THEN made[k + 1].off ELSE cursor_sender

-----------------------------------------------------------------------------
(* The upper layers: message k starts with digit starts[k], and both sides *)
(* count characters alike.                                                 *)
SourceInv ==
    /\ sent \in Seq({sent[k] : k \in DOMAIN sent})
    /\ starts \in Seq(Nat)
    /\ Len(starts) = Len(sent)
    /\ upper_active => Len(sent) < MaxMsgs
    /\ gen_cnt = tot_chars_sent % 10
    /\ \A k \in 1..Len(sent) :
         /\ sent[k].size + starts[k] =
              (IF k = Len(sent) THEN tot_chars_sent ELSE starts[k + 1])
         /\ \A i \in 0..(sent[k].size - 1) : sent[k].data[i] = (starts[k] + i) % 10
    /\ sent # << >> => starts[1] = 0
    /\ sent = << >> => tot_chars_sent = 0

SinkInv ==
    /\ delivered \in Seq({sent[k] : k \in DOMAIN sent})
    /\ DeliveredPrefix
    /\ message_verfication_passed = TRUE
    /\ ver_cnt = tot_chars_delivered % 10
    /\ tot_chars_delivered =
         (IF Len(delivered) = Len(sent) THEN tot_chars_sent
                                        ELSE starts[Len(delivered) + 1])

(* The sender's ring of messages.                                          *)
BufferInv ==
    /\ next_message_seq = Len(sent)
    /\ msg_buffer_num = next_message_seq - cur_message_seq
    /\ cur_message_seq <= next_message_seq
    /\ next_message_seq - cur_message_seq <= MaxBacklog
    /\ \A m \in cur_message_seq..(next_message_seq - 1) :
          buffer[m % MAX_BUFFER_SIZE] = Sized(m)
    /\ cur_message_seq = next_message_seq => cursor_sender = 0
    /\ cur_message_seq < next_message_seq => cursor_sender < Sized(cur_message_seq).size
    /\ cursor_sender = 0 \/ cursor_sender >= MAX_PAYLOAD_SIZE

(* The stream of packets made so far.                                      *)
StreamInv ==
    /\ made \in Seq({made[k] : k \in DOMAIN made})
    /\ Len(made) = pkt_seq
    /\ MsgOf(0) = 0 /\ OffOf(0) = 0
    /\ \A k \in 0..(pkt_seq - 1) :
         /\ MsgOf(k) \in 0..(cur_message_seq)
         /\ MsgOf(k) < next_message_seq
         /\ OffOf(k) \in Nat
         /\ OffOf(k) < Sized(MsgOf(k)).size
         /\ OffOf(k) = 0 \/ OffOf(k) >= MAX_PAYLOAD_SIZE
         /\ Pkt(k) = DataPacket(k, Chunk(MsgOf(k), OffOf(k)),
                                Sized(MsgOf(k)).data, OffOf(k))
         /\ MsgOf(k + 1) = MsgAfter(MsgOf(k), OffOf(k))
         /\ OffOf(k + 1) = OffAfter(MsgOf(k), OffOf(k))

(* The sender's window and timer.                                          *)
WindowInv ==
    /\ pkt_window_num = pkt_seq - ack_expected
    /\ ack_expected <= next_packet_to_send
    /\ WindowIntact

TimerInv ==
    /\ ctl \in {"main", "consume", "final"} =>
         /\ ack = NoAck
         /\ next_packet_to_send = pkt_seq
         /\ sender_timer <=> ack_expected < pkt_seq
         /\ ~sender_timer => cur_message_seq = next_message_seq
    /\ ctl \in {"construct", "send"} =>
         /\ sender_timer = TRUE
         /\ \/ ack = ack_expected - 1
            \/ ack = NoAck /\ (ack_expected < pkt_seq \/ MorePackets)
    /\ ctl = "send" => ~MorePackets

(* The links: every intact packet is one that was made, every intact       *)
(* acknowledgement is of packets consumed.                                 *)
LinkInv ==
    /\ ack_expected <= expected /\ expected <= pkt_seq
    /\ \A p \in BagToSet(toReceiver) :
          p = Garbage \/ (p.seq \in 0..(pkt_seq - 1) /\ p = Pkt(p.seq))
    /\ \A p \in BagToSet(toSender) :
          p = Garbage \/ (p = AckPacket(p.ack) /\ p.ack \in -1..(expected - 1))

(* The receiver: what its window holds, and how far it has come.           *)
ReceiverInv ==
    /\ \A i \in 0..(WINDOWS_SIZE - 1) : valid_checks[i] =>
         /\ window[i].seq \in (expected + 1)..(expected + WINDOWS_SIZE - 1)
         /\ window[i].seq % WINDOWS_SIZE = i
         /\ window[i].seq < pkt_seq
         /\ window[i] = Pkt(window[i].seq)
    /\ ctl = "consume" => expected < pkt_seq /\ rpkt = Pkt(expected)
    /\ Len(delivered) = MsgOf(expected)
    /\ OffOf(expected) = (IF cursor = 0 THEN 0 ELSE cursor + SizeofInt)
    /\ cursor > 0 => /\ cursor < cur_msg.size
                     /\ cur_msg.size = sent[Len(delivered) + 1].size
                     /\ \A i \in 0..(cursor - 1) :
                           cur_msg.data[i] = sent[Len(delivered) + 1].data[i]

FinalInv == ctl = "final" => ~sender_timer

(* The inductive invariant.  Every part is needed: what the receiver       *)
(* delivers follows from what it consumed, that from what is in flight,    *)
(* that from the sender's window, that from the stream, and the stream     *)
(* from the messages the ring retained.                                    *)
IndInv ==
    /\ TypeOK
    /\ SourceInv
    /\ SinkInv
    /\ BufferInv
    /\ StreamInv
    /\ WindowInv
    /\ TimerInv
    /\ LinkInv
    /\ ReceiverInv
    /\ FinalInv

=============================================================================
