----------------------------- MODULE RdtServices -----------------------------
(***************************************************************************)
(* The services rdt_sim.cc offers to the sender and to the receiver: the   *)
(* unreliable link in each direction, the one sender timer, the message    *)
(* generator above the sender and the verifier above the receiver.         *)
(*                                                                         *)
(* Time is abstracted: a packet in flight may arrive at any moment, in any *)
(* order, and the timer may expire at any moment.                          *)
(***************************************************************************)
EXTENDS RdtStruct, Sequences, Bags

BX == INSTANCE BagsExt

CONSTANTS
    MessageSizes,   \* sizes generate_msg may draw
    MaxMsgs,        \* bound: messages generated before sim_time is over
    LinkCap         \* bound: packets in flight in one direction

ASSUME ServicesAssumption ==
    /\ MessageSizes \subseteq Nat \ {0}
    /\ MaxMsgs \in Nat \ {0}
    /\ LinkCap \in Nat \ {0}

VARIABLES
    toReceiver,     \* bag of packets: pending EVENT_RECEIVER_FROMLOWERLAYER
    toSender,       \* bag of packets: pending EVENT_SENDER_FROMLOWERLAYER
    sender_timer,   \* sender_timer # NULL: an EVENT_SENDER_TIMEOUT is pending
    upper_active,   \* the recurring EVENT_SENDER_FROMUPPERLAYER is pending
    ctl,            \* where the single thread is: the event loop or a handler's loop
    gen_cnt,        \* static cnt of generate_msg
    ver_cnt,        \* static cnt of Receiver_ToUpperLayer
    message_verfication_passed,
    tot_chars_sent,
    tot_chars_delivered,
    sent,           \* history: the messages generated, in order
    starts,         \* history: tot_chars_sent before each message of sent
    delivered       \* history: the messages passed to the upper layer, in order

linkVars  == <<toReceiver, toSender>>
sourceVars == <<upper_active, gen_cnt, tot_chars_sent, sent, starts>>
sinkVars == <<ver_cnt, message_verfication_passed, tot_chars_delivered, delivered>>
serviceVars == <<linkVars, sender_timer, ctl, sourceVars, sinkVars>>

ServicesInit ==
    /\ toReceiver = EmptyBag
    /\ toSender = EmptyBag
    /\ sender_timer = FALSE
    /\ upper_active = TRUE
    /\ ctl = "main"
    /\ gen_cnt = 0
    /\ ver_cnt = 0
    /\ message_verfication_passed = TRUE
    /\ tot_chars_sent = 0
    /\ tot_chars_delivered = 0
    /\ sent = << >>
    /\ starts = << >>
    /\ delivered = << >>

-----------------------------------------------------------------------------
(* The lower layer: a packet is lost, corrupted, or passed on.  A link that *)
(* already holds LinkCap packets loses the packet.                          *)

Transmit(link, pkt) ==
    {link} \cup {l \in {BX!BagAdd(link, pkt), BX!BagAdd(link, Garbage)} :
                    BagCardinality(link) < LinkCap}

Sender_ToLowerLayer(pkt) == toReceiver' \in Transmit(toReceiver, pkt)

Receiver_ToLowerLayer(pkt) == toSender' \in Transmit(toSender, pkt)

(* The sender timer.                                                        *)

Sender_StartTimer == sender_timer' = TRUE

Sender_StopTimer == sender_timer' = FALSE

Sender_isTimerSet == sender_timer

-----------------------------------------------------------------------------
(* The upper layers.                                                        *)

(* The message generate_msg builds: the digits go on where the previous     *)
(* message stopped.                                                         *)
GeneratedMessage(size) ==
    [size |-> size, data |-> [i \in 0..(size - 1) |-> (gen_cnt + i) % 10]]

generate_msg(size) ==
    /\ gen_cnt' = (gen_cnt + size) % 10
    /\ tot_chars_sent' = tot_chars_sent + size
    /\ sent' = Append(sent, GeneratedMessage(size))
    /\ starts' = Append(starts, tot_chars_sent)

(* Mutant of Receiver_ToUpperLayer: cnt is not static.                      *)
Receiver_ToUpperLayerFromZero(msg) ==
    /\ message_verfication_passed' =
         (/\ message_verfication_passed
          /\ \A i \in 0..(msg.size - 1) : msg.data[i] = i % 10)
    /\ ver_cnt' = 0
    /\ tot_chars_delivered' = tot_chars_delivered + msg.size
    /\ delivered' = Append(delivered, msg)

(* Every byte is compared with the digit the generator must have used.      *)
Receiver_ToUpperLayer(msg) ==
    /\ message_verfication_passed' =
         (/\ message_verfication_passed
          /\ \A i \in 0..(msg.size - 1) : msg.data[i] = (ver_cnt + i) % 10)
    /\ ver_cnt' = (ver_cnt + msg.size) % 10
    /\ tot_chars_delivered' = tot_chars_delivered + msg.size
    /\ delivered' = Append(delivered, msg)

-----------------------------------------------------------------------------
ServicesTypeOK ==
    /\ \A p \in BagToSet(toReceiver) : p = Garbage \/ IsDataPacket(p)
    /\ \A p \in BagToSet(toSender) : p = Garbage \/ IsAckPacket(p)
    /\ sender_timer \in BOOLEAN
    /\ upper_active \in BOOLEAN
    /\ ctl \in {"main", "construct", "send", "consume", "final"}
    /\ gen_cnt \in 0..9
    /\ ver_cnt \in 0..9
    /\ message_verfication_passed \in BOOLEAN
    /\ tot_chars_sent \in Nat
    /\ tot_chars_delivered \in Nat
    /\ Len(sent) <= MaxMsgs
    /\ \A k \in DOMAIN sent : IsMessage(sent[k]) /\ sent[k].size > 0
    /\ \A k \in DOMAIN delivered : IsMessage(delivered[k])

=============================================================================
