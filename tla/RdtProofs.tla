------------------------------ MODULE RdtProofs ------------------------------
(***************************************************************************)
(* The protocol of rdt/ for windows, buffers, payloads, messages and links *)
(* of every size.  IndInv is an inductive invariant: facts about rings,    *)
(* links, sequences and packets, then one lemma per step of the event      *)
(* loop, then the theorem.  From it the safety properties follow, and that *)
(* the protocol implements the reliable channel.                           *)
(***************************************************************************)
EXTENDS RdtInv, TLAPS

(* A remainder is a slot of a ring of n slots.                             *)
LEMMA ModRange ==
    ASSUME NEW a \in Nat, NEW n \in Nat \ {0}
    PROVE  a % n \in 0..(n - 1)
OBVIOUS

(* Sequence numbers less than n apart have different slots in a ring of n. *)
LEMMA ModDistinct ==
    ASSUME NEW a \in Nat, NEW b \in Nat, NEW n \in Nat \ {0},
           a < b, b - a < n
    PROVE  a % n # b % n
<1>1. a = n * (a \div n) + (a % n) /\ b = n * (b \div n) + (b % n)
  OBVIOUS
<1> DEFINE qa == a \div n
           qb == b \div n
<1>2. qa \in Int /\ qb \in Int
  OBVIOUS
<1>3. SUFFICES ASSUME a % n = b % n PROVE FALSE
  OBVIOUS
<1>4. b - a = n * (qb - qa)
  BY <1>1, <1>2, <1>3
<1>5. CASE qb - qa <= 0
  <2>1. n * (qb - qa) <= 0
    BY <1>2, <1>5
  <2> QED BY <2>1, <1>4
<1>6. CASE qb - qa >= 1
  <2>1. n * (qb - qa) >= n
    BY <1>2, <1>6
  <2> QED BY <2>1, <1>4
<1> QED BY <1>2, <1>5, <1>6

(* The packets on a link once one has been added.                          *)
LEMMA BagAddMembers ==
    ASSUME NEW B, NEW x
    PROVE  BagToSet(BX!BagAdd(B, x)) = BagToSet(B) \cup {x}
BY DEF BagToSet, BX!BagAdd

(* Taking a packet off a link adds none.                                   *)
LEMMA BagRemoveMembers ==
    ASSUME NEW B, NEW x
    PROVE  BagToSet(BX!BagRemove(B, x)) \subseteq BagToSet(B)
BY DEF BagToSet, BX!BagRemove

(* An empty link holds no packet.                                          *)
LEMMA EmptyBagMembers == BagToSet(EmptyBag) = {}
BY DEF BagToSet, EmptyBag, SetToBag

(* After Sender_ToLowerLayer or Receiver_ToLowerLayer a link holds what it *)
(* held, the packet handed over and corrupted packets, and nothing else.   *)
LEMMA TransmitMembers ==
    ASSUME NEW link, NEW pkt, NEW result \in Transmit(link, pkt)
    PROVE  BagToSet(result) \subseteq BagToSet(link) \cup {pkt, Garbage}
BY BagAddMembers DEF Transmit

(* What Append does to the length and the elements of a sequence.          *)
LEMMA AppendFacts ==
    ASSUME NEW S, NEW s \in Seq(S), NEW e
    PROVE  /\ Append(s, e) \in Seq(S \cup {e})
           /\ Len(Append(s, e)) = Len(s) + 1
           /\ Len(s) \in Nat
           /\ \A k \in 1..Len(s) : Append(s, e)[k] = s[k]
           /\ Append(s, e)[Len(s) + 1] = e
OBVIOUS

(* A sequence is a sequence of its own elements.                           *)
LEMMA SeqOfOwnElements ==
    ASSUME NEW S, NEW s \in Seq(S)
    PROVE  s \in Seq({s[k] : k \in DOMAIN s})
OBVIOUS

(* A sequence over a set is one over every larger set.                     *)
LEMMA SeqOfMore ==
    ASSUME NEW S, NEW T, S \subseteq T, NEW s \in Seq(S)
    PROVE  s \in Seq(T)
OBVIOUS

(* Messages of the same size with the same bytes are equal.                *)
LEMMA SameMessage ==
    ASSUME NEW a, NEW b, IsMessage(a), IsMessage(b), a.size = b.size,
           \A i \in 0..(a.size - 1) : a.data[i] = b.data[i]
    PROVE  a = b
<1>1. PICK D, f, g : D = 0..(a.size - 1) /\ f = a.data /\ g = b.data
  OBVIOUS
<1>2. f \in [D -> Int] /\ g \in [D -> Int]
  BY <1>1 DEF IsMessage
<1>3. \A i \in D : f[i] = g[i]
  BY <1>1
<1>4. f = g
  BY <1>2, <1>3
<1>5. a = [size |-> a.size, data |-> a.data] /\ b = [size |-> b.size, data |-> b.data]
  BY DEF IsMessage
<1> QED BY <1>1, <1>4, <1>5

(* Sequences of the same length with the same elements are equal.          *)
LEMMA SameSequence ==
    ASSUME NEW T, NEW s \in Seq(T), NEW t \in Seq(T), Len(s) = Len(t),
           \A k \in 1..Len(s) : s[k] = t[k]
    PROVE  s = t
OBVIOUS

(* A message as Sender_FromUpperLayer buffers it: its size first, then its *)
(* bytes.                                                                  *)
LEMMA SizedFacts ==
    ASSUME NEW m, IsMessage(m), m.size > 0
    PROVE  /\ IsMessage(WithSizeHeader(m))
           /\ WithSizeHeader(m).size = m.size + SizeofInt
           /\ WithSizeHeader(m).data[0] = m.size
           /\ \A i \in 0..(m.size - 1) :
                 WithSizeHeader(m).data[SizeofInt + i] = m.data[i]
<1> DEFINE w == WithSizeHeader(m)
<1>1. w.size = m.size + SizeofInt /\ w.size \in Nat
  BY PayloadAssumption DEF IsMessage, WithSizeHeader
<1>2. w.data = [i \in 0..(m.size + SizeofInt - 1) |->
                  IF i < SizeofInt THEN m.size ELSE m.data[i - SizeofInt]]
  BY DEF WithSizeHeader
<1>3. \A i \in 0..(m.size + SizeofInt - 1) : w.data[i] \in Int
  BY <1>2, PayloadAssumption DEF IsMessage
<1>4. w.data \in [0..(w.size - 1) -> Int]
  BY <1>1, <1>2, <1>3, PayloadAssumption DEF IsMessage
<1>5. w = [size |-> w.size, data |-> w.data]
  BY <1>1, <1>2 DEF WithSizeHeader
<1>6. w.data[0] = m.size
  BY <1>2, PayloadAssumption DEF IsMessage
<1>7. ASSUME NEW i \in 0..(m.size - 1) PROVE w.data[SizeofInt + i] = m.data[i]
  BY <1>2, PayloadAssumption DEF IsMessage
<1> QED BY <1>1, <1>4, <1>5, <1>6, <1>7 DEF IsMessage

(* A packet cut out of a message is well formed.                           *)
LEMMA DataPacketFacts ==
    ASSUME NEW s \in Nat, NEW n \in 1..MAX_PAYLOAD_SIZE, NEW m, IsMessage(m),
           NEW from \in Nat, from + n <= m.size,
           NEW p, p = DataPacket(s, n, m.data, from)
    PROVE  IsDataPacket(p)
<1>1. p.intact = TRUE /\ p.seq = s /\ p.size = n
  BY DEF DataPacket
<1>2. p.payload = [i \in 0..(n - 1) |-> m.data[from + i]]
  BY DEF DataPacket
<1>3. \A i \in 0..(n - 1) : from + i \in 0..(m.size - 1) /\ m.data[from + i] \in Int
  BY DEF IsMessage
<1>4. p.payload \in [0..(n - 1) -> Int]
  BY <1>2, <1>3
<1>5. p = [intact |-> TRUE, seq |-> p.seq, size |-> p.size, payload |-> p.payload]
  BY <1>1, <1>2 DEF DataPacket
<1>6. IsDataPacket(p)
  BY <1>1, <1>4, <1>5, PayloadAssumption DEF IsDataPacket
<1> QED BY <1>6

-----------------------------------------------------------------------------
(* Sender_Init, Receiver_Init and the empty chain satisfy the invariant.   *)
LEMMA InitInv == Init => IndInv
<1> SUFFICES ASSUME Init PROVE IndInv
  OBVIOUS
<1> USE DEF Init, ServicesInit, Sender_Init, Receiver_Init
<1>1. TypeOK
  <2>1. ServicesTypeOK
    <3>1. DOMAIN sent = {} /\ DOMAIN delivered = {} /\ Len(sent) <= MaxMsgs
      BY ServicesAssumption
    <3>2. BagToSet(toReceiver) = {} /\ BagToSet(toSender) = {}
      BY EmptyBagMembers
    <3>3. /\ sender_timer \in BOOLEAN
          /\ upper_active \in BOOLEAN
          /\ message_verfication_passed \in BOOLEAN
      OBVIOUS
    <3>4. /\ ctl \in {"main", "construct", "send", "consume", "final"}
          /\ gen_cnt \in 0..9 /\ ver_cnt \in 0..9
          /\ tot_chars_sent \in Nat /\ tot_chars_delivered \in Nat
      OBVIOUS
    <3> QED BY <3>1, <3>2, <3>3, <3>4, Zenon DEF ServicesTypeOK
  <2>2. IsMessage(EmptyMessage)
    BY DEF IsMessage, EmptyMessage, Uninit
  <2>3. SenderTypeOK
    BY <2>2, SenderAssumption DEF SenderTypeOK, NoAck
  <2>4. ReceiverTypeOK
    BY <2>2, ReceiverAssumption DEF ReceiverTypeOK
  <2> QED BY <2>1, <2>3, <2>4 DEF TypeOK
<1>2. SourceInv
  BY ServicesAssumption DEF SourceInv
<1>3. SinkInv
  BY DEF SinkInv, DeliveredPrefix
<1>4. BufferInv
  BY BacklogAssumption DEF BufferInv
<1>5. StreamInv
  BY DEF StreamInv, MsgOf, OffOf
<1>6. WindowInv
  BY DEF WindowInv, WindowIntact
<1>7. TimerInv
  BY DEF TimerInv
<1>8. LinkInv
  BY EmptyBagMembers DEF LinkInv
<1>9. ReceiverInv
  BY ReceiverAssumption, PayloadAssumption DEF ReceiverInv, MsgOf, OffOf
<1>10. FinalInv
  BY DEF FinalInv
<1> QED BY <1>1, <1>2, <1>3, <1>4, <1>5, <1>6, <1>7, <1>8, <1>9, <1>10 DEF IndInv

-----------------------------------------------------------------------------
(* Consequences of the invariant that the steps below share.               *)

(* Every message of the session, as the sender buffers it.                 *)
LEMMA SizedMessages ==
    ASSUME TypeOK, SourceInv, NEW m \in 0..(Len(sent) - 1)
    PROVE  /\ IsMessage(sent[m + 1])
           /\ sent[m + 1].size \in Nat \ {0}
           /\ IsMessage(Sized(m))
           /\ Sized(m).size = sent[m + 1].size + SizeofInt
           /\ Sized(m).data[0] = sent[m + 1].size
           /\ \A i \in 0..(sent[m + 1].size - 1) :
                 Sized(m).data[SizeofInt + i] = sent[m + 1].data[i]
<1>1. m + 1 \in DOMAIN sent
  BY DEF SourceInv
<1>2. IsMessage(sent[m + 1]) /\ sent[m + 1].size > 0
  BY <1>1 DEF TypeOK, ServicesTypeOK
<1>3. sent[m + 1].size \in Nat \ {0}
  BY <1>2 DEF IsMessage
<1> QED BY <1>2, <1>3, SizedFacts DEF Sized

(* Every packet made so far is well formed and carries its own sequence    *)
(* number.                                                                 *)
LEMMA MadePackets ==
    ASSUME IndInv, NEW k \in 0..(pkt_seq - 1)
    PROVE  /\ IsDataPacket(Pkt(k))
           /\ Pkt(k).intact = TRUE
           /\ Pkt(k).seq = k
           /\ Pkt(k).size = Chunk(MsgOf(k), OffOf(k))
           /\ \A i \in 0..(Pkt(k).size - 1) :
                 Pkt(k).payload[i] = Sized(MsgOf(k)).data[OffOf(k) + i]
<1> DEFINE m == MsgOf(k)
           o == OffOf(k)
<1>1. /\ m \in Nat /\ m < next_message_seq
      /\ o \in Nat /\ o < Sized(m).size
      /\ Pkt(k) = DataPacket(k, Chunk(m, o), Sized(m).data, o)
  BY DEF IndInv, StreamInv, TypeOK, SenderTypeOK
<1>2. m \in 0..(Len(sent) - 1)
  BY <1>1 DEF IndInv, BufferInv, TypeOK, SenderTypeOK
<1>3. IsMessage(Sized(m)) /\ Sized(m).size \in Nat
  BY <1>2, SizedMessages DEF IndInv, IsMessage
<1>4. Chunk(m, o) \in 1..MAX_PAYLOAD_SIZE /\ o + Chunk(m, o) <= Sized(m).size
  BY <1>1, <1>3, PayloadAssumption DEF Chunk
<1>5. k \in Nat
  BY DEF IndInv, TypeOK, SenderTypeOK
<1> DEFINE c == Chunk(m, o)
           M == Sized(m)
           p == Pkt(k)
<1>6. /\ k \in Nat /\ c \in 1..MAX_PAYLOAD_SIZE /\ IsMessage(M) /\ o \in Nat
      /\ o + c <= M.size
      /\ p = DataPacket(k, c, M.data, o)
  BY <1>1, <1>3, <1>4, <1>5
<1>7. /\ IsDataPacket(p)
      /\ p.intact = TRUE
      /\ p.seq = k
      /\ p.size = c
      /\ \A i \in 0..(c - 1) : p.payload[i] = M.data[o + i]
  <2> HIDE DEF m, o, c, M, p
  <2>1. IsDataPacket(p)
    BY <1>6, DataPacketFacts
  <2>2. p.intact = TRUE /\ p.seq = k /\ p.size = c
    BY <1>6 DEF DataPacket
  <2>3. p.payload = [i \in 0..(c - 1) |-> M.data[o + i]]
    BY <1>6 DEF DataPacket
  <2> QED BY <2>1, <2>2, <2>3
<1> QED BY <1>7

(* Steps that make no packet and take no message in.                       *)
LEMMA SameStream ==
    ASSUME IndInv, UNCHANGED <<sourceVars, bufferVars, pkt_seq, made>>
    PROVE  /\ SourceInv'
           /\ BufferInv'
           /\ StreamInv'
           /\ \A k : /\ Pkt(k)' = Pkt(k)
                     /\ MsgOf(k)' = MsgOf(k)
                     /\ OffOf(k)' = OffOf(k)
<1> USE DEF sourceVars, bufferVars
<1>1. SourceInv'
  BY DEF IndInv, SourceInv
<1>2. BufferInv'
  BY DEF IndInv, BufferInv, Sized
<1>3. StreamInv'
  <2>1. StreamInv
    BY DEF IndInv
  <2>2. /\ pkt_seq' = pkt_seq /\ made' = made /\ sent' = sent
        /\ cur_message_seq' = cur_message_seq /\ cursor_sender' = cursor_sender
        /\ next_message_seq' = next_message_seq
    OBVIOUS
  <2>3. ASSUME NEW k \in 0..(pkt_seq' - 1)
        PROVE  /\ (MsgOf(k) \in 0..(cur_message_seq))'
               /\ (MsgOf(k) < next_message_seq)'
               /\ (OffOf(k) \in Nat)'
               /\ (OffOf(k) < Sized(MsgOf(k)).size)'
               /\ (OffOf(k) = 0 \/ OffOf(k) >= MAX_PAYLOAD_SIZE)'
               /\ (Pkt(k) = DataPacket(k, Chunk(MsgOf(k), OffOf(k)),
                                       Sized(MsgOf(k)).data, OffOf(k)))'
               /\ (MsgOf(k + 1) = MsgAfter(MsgOf(k), OffOf(k)))'
               /\ (OffOf(k + 1) = OffAfter(MsgOf(k), OffOf(k)))'
    <3>1. k \in 0..(pkt_seq - 1)
      BY <2>2
    <3> QED BY <2>1, <2>2, <3>1, ZenonT(60) DEF StreamInv, MsgOf, OffOf, Sized, Pkt, Chunk,
               MsgAfter, OffAfter
  <2> QED BY <2>1, <2>2, <2>3 DEF StreamInv, MsgOf, OffOf
<1>4. ASSUME NEW k
      PROVE  Pkt(k)' = Pkt(k) /\ MsgOf(k)' = MsgOf(k) /\ OffOf(k)' = OffOf(k)
  BY DEF Pkt, MsgOf, OffOf
<1> QED BY <1>1, <1>2, <1>3, <1>4

(* Steps of the sender that make no packet and take no message in leave    *)
(* the receiver's part of the invariant alone.                             *)
LEMMA SameReceiver ==
    ASSUME IndInv,
           UNCHANGED <<sourceVars, bufferVars, pkt_seq, made, sinkVars, receiverVars>>,
           ctl # "consume", ctl' # "consume"
    PROVE  SinkInv' /\ ReceiverInv' /\ ReceiverTypeOK'
<1> USE DEF sourceVars, bufferVars, sinkVars, receiverVars
<1>1. SinkInv'
  BY DEF IndInv, SinkInv, DeliveredPrefix
<1>2. ReceiverInv'
  BY DEF IndInv, ReceiverInv, MsgOf, OffOf, Pkt
<1>3. ReceiverTypeOK'
  BY DEF IndInv, TypeOK, ReceiverTypeOK
<1> QED BY <1>1, <1>2, <1>3

-----------------------------------------------------------------------------
(* One lemma per step.                                                     *)

(* Sender_Timeout preserves the invariant.                                 *)
LEMMA TimeoutStep ==
    ASSUME IndInv, TimeoutEvent
    PROVE  IndInv'
<1> USE DEF TimeoutEvent, Sender_Timeout, Sender_StartTimer
<1>1. SourceInv' /\ BufferInv' /\ StreamInv'
  BY SameStream DEF windowVars
<1>2. SinkInv' /\ ReceiverInv' /\ ReceiverTypeOK'
  BY SameReceiver DEF windowVars
<1> USE DEF sourceVars, sinkVars, bufferVars, windowVars, receiverVars
<1>3. TypeOK'
  <2>1. ServicesTypeOK'
    BY DEF IndInv, TypeOK, ServicesTypeOK
  <2>2. SenderTypeOK'
    BY DEF IndInv, TypeOK, SenderTypeOK
  <2> QED BY <1>2, <2>1, <2>2 DEF TypeOK
<1>4. WindowInv'
  <2>1. WindowIntact'
    BY DEF IndInv, WindowInv, WindowIntact
  <2> QED BY <2>1 DEF IndInv, WindowInv, TypeOK, SenderTypeOK
<1>5. TimerInv'
  <2>1. ack = NoAck /\ ack_expected < pkt_seq
    BY DEF IndInv, TimerInv
  <2> QED BY <2>1 DEF TimerInv, MorePackets
<1>6. LinkInv'
  BY DEF IndInv, LinkInv, Pkt
<1>7. FinalInv'
  BY DEF FinalInv
<1> QED BY <1>1, <1>2, <1>3, <1>4, <1>5, <1>6, <1>7 DEF IndInv

(* The end of the event loop preserves the invariant.                      *)
LEMMA FinishStep ==
    ASSUME IndInv, Finish
    PROVE  IndInv'
<1> USE DEF Finish, linkVars, senderVars
<1>1. SourceInv' /\ BufferInv' /\ StreamInv'
  BY SameStream DEF windowVars
<1>2. SinkInv' /\ ReceiverInv' /\ ReceiverTypeOK'
  BY SameReceiver DEF windowVars
<1> USE DEF sourceVars, sinkVars, bufferVars, windowVars, receiverVars
<1>3. TypeOK'
  <2>1. ServicesTypeOK'
    BY DEF IndInv, TypeOK, ServicesTypeOK
  <2>2. SenderTypeOK'
    BY DEF IndInv, TypeOK, SenderTypeOK
  <2> QED BY <1>2, <2>1, <2>2 DEF TypeOK
<1>4. WindowInv'
  BY DEF IndInv, WindowInv, WindowIntact
<1>5. TimerInv'
  BY DEF IndInv, TimerInv
<1>6. LinkInv'
  BY DEF IndInv, LinkInv, Pkt
<1>7. FinalInv'
  BY DEF FinalInv
<1> QED BY <1>1, <1>2, <1>3, <1>4, <1>5, <1>6, <1>7 DEF IndInv

(* Sender_SendPKT, its iterations and its return, preserves the invariant. *)
LEMMA SendStep ==
    ASSUME IndInv, SenderStep, Sender_SendPKT
    PROVE  IndInv'
<1> USE DEF SenderStep, Sender_SendPKT
<1>t. TypeOK
  BY DEF IndInv
<1>c. ctl = "send" /\ ctl' \in {"send", "main"}
  BY DEF SendOne, SendReturn
<1>1. SourceInv' /\ BufferInv' /\ StreamInv'
  BY SameStream DEF windowVars
<1>2. SinkInv' /\ ReceiverInv' /\ ReceiverTypeOK'
  BY <1>c, SameReceiver DEF windowVars
<1> USE DEF sourceVars, sinkVars, bufferVars, windowVars, receiverVars
<1>3. WindowIntact'
  BY DEF IndInv, WindowInv, WindowIntact
<1>4. FinalInv'
  BY <1>c DEF FinalInv
<1>5. CASE SendOne
  <2> USE <1>5 DEF SendOne
  <2>1. next_packet_to_send \in ack_expected..(pkt_seq - 1)
    BY <1>t DEF IndInv, WindowInv, TypeOK, SenderTypeOK
  <2>2. next_packet_to_send \in 0..(pkt_seq - 1)
    BY <2>1, <1>t DEF TypeOK, SenderTypeOK
  <2>3. Sender_ToLowerLayer(Pkt(next_packet_to_send))
    BY <2>1 DEF IndInv, WindowInv, WindowIntact, Pkt
  <2> DEFINE p == Pkt(next_packet_to_send)
  <2>4. IsDataPacket(p) /\ p.seq = next_packet_to_send
    BY <2>2, MadePackets
  <2>5. BagToSet(toReceiver') \subseteq BagToSet(toReceiver) \cup {p, Garbage}
    BY <2>3, TransmitMembers DEF Sender_ToLowerLayer
  <2>6. ServicesTypeOK'
    <3>1. \A q \in BagToSet(toReceiver') : q = Garbage \/ IsDataPacket(q)
      BY <2>4, <2>5, <1>t DEF TypeOK, ServicesTypeOK
    <3> QED BY <3>1, <1>t DEF TypeOK, ServicesTypeOK
  <2>7. SenderTypeOK'
    BY <2>2, <1>t DEF TypeOK, SenderTypeOK
  <2>8. WindowInv'
    BY <1>3, <2>1, <1>t DEF IndInv, WindowInv, TypeOK, SenderTypeOK
  <2>9. LinkInv'
    <3>1. \A q \in BagToSet(toReceiver') :
             q = Garbage \/ (q.seq \in 0..(pkt_seq - 1) /\ q = Pkt(q.seq))
      BY <2>2, <2>4, <2>5 DEF IndInv, LinkInv
    <3> QED BY <3>1 DEF IndInv, LinkInv, Pkt
  <2>10. TimerInv'
    BY DEF IndInv, TimerInv, MorePackets
  <2> QED BY <1>1, <1>2, <1>4, <2>6, <2>7, <2>8, <2>9, <2>10 DEF IndInv, TypeOK
<1>6. CASE SendReturn
  <2> USE <1>6 DEF SendReturn
  <2>1. next_packet_to_send = pkt_seq
    BY <1>t DEF TypeOK, SenderTypeOK
  <2>2. ServicesTypeOK'
    BY <1>t DEF TypeOK, ServicesTypeOK, Sender_StopTimer
  <2>3. SenderTypeOK'
    BY <1>t DEF TypeOK, SenderTypeOK, NoAck
  <2>4. WindowInv'
    BY <1>3 DEF IndInv, WindowInv
  <2>5. LinkInv'
    BY DEF IndInv, LinkInv, Pkt
  <2>6. TimerInv'
    <3>1. sender_timer = TRUE
      BY DEF IndInv, TimerInv
    <3>2. ~MorePackets
      BY DEF IndInv, TimerInv
    <3>3. CASE ack = pkt_seq - 1
      <4>1. ack_expected = pkt_seq
        BY <3>2, <3>3, <1>t DEF IndInv, TimerInv, NoAck, TypeOK, SenderTypeOK
      <4>2. cur_message_seq = next_message_seq
        BY <4>1, <3>2, <1>t, SenderAssumption
           DEF IndInv, WindowInv, BufferInv, MorePackets, TypeOK, SenderTypeOK
      <4>3. sender_timer' = FALSE /\ ~(ack_expected < pkt_seq)
        BY <3>3, <4>1, <1>t DEF Sender_StopTimer, TypeOK, SenderTypeOK
      <4> QED BY <4>2, <4>3, <2>1 DEF TimerInv
    <3>4. CASE ack # pkt_seq - 1
      <4>1. ack_expected < pkt_seq
        BY <3>2, <3>4, <1>t DEF IndInv, TimerInv, TypeOK, SenderTypeOK
      <4> QED BY <4>1, <3>1, <3>4, <2>1 DEF TimerInv
    <3> QED BY <3>3, <3>4
  <2> QED BY <1>1, <1>2, <1>4, <2>2, <2>3, <2>4, <2>5, <2>6 DEF IndInv, TypeOK
<1> QED BY <1>5, <1>6

(* The loop of Sender_ConstructPKT ends.                                   *)
LEMMA ConstructExitStep ==
    ASSUME IndInv, SenderStep, Sender_ConstructPKT, ~MorePackets
    PROVE  IndInv'
<1> USE DEF SenderStep, Sender_ConstructPKT
<1>c. ctl = "construct" /\ ctl' = "send"
  OBVIOUS
<1>u. UNCHANGED <<sourceVars, sinkVars, bufferVars, windowVars, receiverVars,
                  next_packet_to_send, ack_expected, ack, sender_timer,
                  toReceiver, toSender>>
  BY DEF bufferVars
<1>1. SourceInv' /\ BufferInv' /\ StreamInv'
  BY <1>u, SameStream DEF windowVars
<1>2. SinkInv' /\ ReceiverInv' /\ ReceiverTypeOK'
  BY <1>c, <1>u, SameReceiver DEF windowVars
<1> USE <1>u DEF sourceVars, sinkVars, bufferVars, windowVars, receiverVars
<1>3. ServicesTypeOK'
  BY <1>c DEF IndInv, TypeOK, ServicesTypeOK
<1>4. SenderTypeOK'
  BY DEF IndInv, TypeOK, SenderTypeOK
<1>5. WindowInv'
  BY DEF IndInv, WindowInv, WindowIntact
<1>6. TimerInv'
  <2>1. MorePackets' = MorePackets
    BY DEF MorePackets
  <2> QED BY <1>c, <2>1 DEF IndInv, TimerInv
<1>7. LinkInv'
  BY DEF IndInv, LinkInv, Pkt
<1>8. FinalInv'
  BY <1>c DEF FinalInv
<1> QED BY <1>1, <1>2, <1>3, <1>4, <1>5, <1>6, <1>7, <1>8 DEF IndInv, TypeOK

(* An iteration of Sender_ConstructPKT appends one packet to the stream.   *)
LEMMA ConstructFacts ==
    ASSUME IndInv, SenderStep, Sender_ConstructPKT, MorePackets
    PROVE  LET m == cur_message_seq
               o == cursor_sender
               p == DataPacket(pkt_seq, Chunk(m, o), Sized(m).data, o)
           IN  /\ m \in 0..(Len(sent) - 1)
               /\ o \in Nat /\ o < Sized(m).size
               /\ windows' = [windows EXCEPT ![pkt_seq % MAX_WINDOW_SIZE] = p]
               /\ pkt_seq' = pkt_seq + 1
               /\ pkt_window_num' = pkt_window_num + 1
               /\ made' = Append(made, [pkt |-> p, msg |-> m, off |-> o])
               /\ cur_message_seq' = MsgAfter(m, o)
               /\ cursor_sender' = OffAfter(m, o)
               /\ msg_buffer_num' = msg_buffer_num - (MsgAfter(m, o) - m)
               /\ IsDataPacket(p)
<1> DEFINE m == cur_message_seq
           o == cursor_sender
<1>t. SenderTypeOK
  BY DEF IndInv, TypeOK
<1>1. m \in 0..(Len(sent) - 1) /\ m \in cur_message_seq..(next_message_seq - 1)
  BY <1>t DEF IndInv, BufferInv, MorePackets, SenderTypeOK
<1>2. CurrentMessage = Sized(m)
  BY <1>1 DEF IndInv, BufferInv, CurrentMessage
<1>3. o \in Nat /\ o < Sized(m).size
  BY <1>1, <1>t DEF IndInv, BufferInv, SenderTypeOK
<1>4. IsMessage(Sized(m)) /\ Sized(m).size \in Nat
  BY <1>1, SizedMessages DEF IndInv, IsMessage
<1>5. Rest = Sized(m).size - o /\ Rest \in Nat
  BY <1>2, <1>3, <1>4 DEF Rest
<1>6. ConstructFull \/ ConstructLast
  BY DEF Sender_ConstructPKT
<1>7. /\ Chunk(m, o) \in 1..MAX_PAYLOAD_SIZE
      /\ o + Chunk(m, o) <= Sized(m).size
  BY <1>3, <1>4, PayloadAssumption DEF Chunk
<1>8. FillWindow(Chunk(m, o))
  BY <1>5, <1>6, PayloadAssumption DEF ConstructFull, ConstructLast, Chunk
<1>9. /\ cur_message_seq' = MsgAfter(m, o)
      /\ cursor_sender' = OffAfter(m, o)
      /\ msg_buffer_num' = msg_buffer_num - (MsgAfter(m, o) - m)
  BY <1>5, <1>6, <1>t, PayloadAssumption, SMTT(20)
     DEF ConstructFull, ConstructLast, MsgAfter, OffAfter, SenderTypeOK
<1> DEFINE p == DataPacket(pkt_seq, Chunk(m, o), Sized(m).data, o)
<1>10. /\ windows' = [windows EXCEPT ![pkt_seq % MAX_WINDOW_SIZE] = p]
       /\ pkt_seq' = pkt_seq + 1
       /\ pkt_window_num' = pkt_window_num + 1
       /\ made' = Append(made, [pkt |-> p, msg |-> m, off |-> o])
  BY <1>2, <1>8 DEF FillWindow
<1>11. IsDataPacket(p)
  <2> DEFINE c == Chunk(m, o)
             M == Sized(m)
  <2>1. /\ pkt_seq \in Nat /\ c \in 1..MAX_PAYLOAD_SIZE /\ IsMessage(M) /\ o \in Nat
        /\ o + c <= M.size
        /\ p = DataPacket(pkt_seq, c, M.data, o)
    BY <1>3, <1>4, <1>7, <1>t DEF SenderTypeOK
  <2> HIDE DEF c, M, o, p
  <2> QED BY <2>1, DataPacketFacts
<1> QED BY <1>1, <1>3, <1>9, <1>10, <1>11

(* An iteration of Sender_ConstructPKT preserves the invariant.            *)
LEMMA ConstructStep ==
    ASSUME IndInv, SenderStep, Sender_ConstructPKT, MorePackets
    PROVE  IndInv'
<1>0. PICK n, m, o, p, e :
         /\ n = pkt_seq /\ m = cur_message_seq /\ o = cursor_sender
         /\ p = DataPacket(n, Chunk(m, o), Sized(m).data, o)
         /\ e = [pkt |-> p, msg |-> m, off |-> o]
  OBVIOUS
<1>t. TypeOK /\ SenderTypeOK
  BY DEF IndInv, TypeOK
<1>n. /\ pkt_seq = n /\ cur_message_seq = m /\ cursor_sender = o
      /\ n \in Nat /\ m \in Nat /\ o \in Nat /\ next_message_seq \in Nat
      /\ next_message_seq = Len(sent) /\ m < next_message_seq
      /\ ack_expected \in 0..n /\ expected \in Nat /\ expected <= n
  BY <1>0, <1>t DEF SenderTypeOK, IndInv, BufferInv, LinkInv, MorePackets,
     TypeOK, ReceiverTypeOK
<1>f. /\ m \in 0..(Len(sent) - 1)
      /\ o < Sized(m).size
      /\ windows' = [windows EXCEPT ![n % MAX_WINDOW_SIZE] = p]
      /\ pkt_seq' = n + 1
      /\ pkt_window_num' = pkt_window_num + 1
      /\ made' = Append(made, e)
      /\ cur_message_seq' = MsgAfter(m, o)
      /\ cursor_sender' = OffAfter(m, o)
      /\ msg_buffer_num' = msg_buffer_num - (MsgAfter(m, o) - m)
      /\ IsDataPacket(p)
  BY <1>0, ConstructFacts
<1>u. /\ UNCHANGED <<sourceVars, sinkVars, receiverVars, buffer, next_message_seq,
                     next_packet_to_send, ack_expected, ack, sender_timer, toReceiver,
                     toSender, ctl>>
      /\ ctl = "construct"
  BY DEF SenderStep, Sender_ConstructPKT
<1>s. \A j \in 0..(Len(sent) - 1) : IsMessage(Sized(j)) /\ Sized(j).size \in Nat \ {0}
  <2>1. ASSUME NEW j \in 0..(Len(sent) - 1)
        PROVE  IsMessage(Sized(j)) /\ Sized(j).size \in Nat \ {0}
    BY SizedMessages, PayloadAssumption DEF IndInv
  <2> QED BY <2>1
<1>m. /\ Len(made') = n + 1
      /\ \A k \in 1..n : made'[k] = made[k]
      /\ made'[n + 1] = e
      /\ made' \in Seq({made'[k] : k \in DOMAIN made'})
  <2>1. made \in Seq({made[k] : k \in DOMAIN made}) /\ Len(made) = n
    BY <1>n DEF IndInv, StreamInv
  <2>2. made' \in Seq({made[k] : k \in DOMAIN made} \cup {e})
    BY <2>1, <1>f, AppendFacts
  <2>3. made' \in Seq({made'[k] : k \in DOMAIN made'})
    BY <2>2, SeqOfOwnElements
  <2>4. made' = Append(made, e)
    BY <1>f
  <2>5. /\ Len(made') = Len(made) + 1
        /\ \A k \in 1..Len(made) : made'[k] = made[k]
        /\ made'[Len(made) + 1] = e
    BY <2>1, <2>4, AppendFacts
  <2> QED BY <2>1, <2>3, <2>5
<1>k. /\ \A k \in 0..(n - 1) : Pkt(k)' = Pkt(k)
      /\ Pkt(n)' = p
      /\ \A k \in 0..n : MsgOf(k)' = MsgOf(k) /\ OffOf(k)' = OffOf(k)
      /\ MsgOf(n) = m /\ OffOf(n) = o
      /\ MsgOf(n + 1)' = MsgAfter(m, o)
      /\ OffOf(n + 1)' = OffAfter(m, o)
  <2>1. ASSUME NEW k \in 0..(n - 1)
        PROVE  Pkt(k)' = Pkt(k) /\ MsgOf(k)' = MsgOf(k) /\ OffOf(k)' = OffOf(k)
    <3>1. k + 1 \in 1..n /\ k < n /\ k < n + 1
      BY <1>n
    <3>2. made'[k + 1] = made[k + 1]
      BY <3>1, <1>m
    <3> QED BY <3>1, <3>2, <1>f, <1>n DEF Pkt, MsgOf, OffOf
  <2>2. Pkt(n)' = p
    BY <1>0, <1>m DEF Pkt
  <2>3. MsgOf(n) = m /\ OffOf(n) = o
    BY <1>n DEF MsgOf, OffOf
  <2>4. MsgOf(n)' = m /\ OffOf(n)' = o
    BY <1>0, <1>n, <1>m, <1>f DEF MsgOf, OffOf
  <2>5. MsgOf(n + 1)' = MsgAfter(m, o) /\ OffOf(n + 1)' = OffAfter(m, o)
    BY <1>n, <1>f DEF MsgOf, OffOf
  <2>6. \A k \in 0..n : k \in 0..(n - 1) \/ k = n
    BY <1>n
  <2> QED BY <2>1, <2>2, <2>3, <2>4, <2>5, <2>6
<1>a. /\ MsgAfter(m, o) \in {m, m + 1}
      /\ OffAfter(m, o) \in Nat
      /\ MsgAfter(m, o) = m => OffAfter(m, o) < Sized(m).size
      /\ MsgAfter(m, o) = m + 1 => OffAfter(m, o) = 0
      /\ OffAfter(m, o) = 0 \/ OffAfter(m, o) >= MAX_PAYLOAD_SIZE
  <2>1. Sized(m).size \in Nat
    BY <1>s, <1>f
  <2> QED BY <2>1, <1>f, <1>n, PayloadAssumption DEF MsgAfter, OffAfter
<1>w. pkt_window_num < MAX_WINDOW_SIZE /\ pkt_window_num = n - ack_expected
  BY <1>n DEF MorePackets, IndInv, WindowInv
<1>1. SourceInv'
  BY <1>u DEF IndInv, SourceInv, sourceVars
<1>2. SinkInv'
  BY <1>u DEF IndInv, SinkInv, DeliveredPrefix, sourceVars, sinkVars
<1>3. BufferInv'
  <2>1. /\ next_message_seq' = Len(sent')
        /\ cur_message_seq' \in cur_message_seq..next_message_seq
        /\ cur_message_seq' \in Nat
    BY <1>u, <1>n, <1>f, <1>a DEF sourceVars
  <2>2. msg_buffer_num' = next_message_seq' - cur_message_seq'
    BY <1>u, <1>n, <1>f, <1>a DEF IndInv, BufferInv
  <2>3. next_message_seq' - cur_message_seq' <= MaxBacklog
    BY <1>u, <1>n, <2>1, BacklogAssumption DEF IndInv, BufferInv
  <2>4. ASSUME NEW j \in cur_message_seq'..(next_message_seq' - 1)
        PROVE  buffer'[j % MAX_BUFFER_SIZE] = Sized(j)'
    <3>1. j \in cur_message_seq..(next_message_seq - 1)
      BY <2>1, <1>u, <1>n
    <3>2. Sized(j)' = Sized(j)
      BY <1>u DEF Sized, sourceVars
    <3> QED BY <3>1, <3>2, <1>u DEF IndInv, BufferInv
  <2>5. cur_message_seq' = next_message_seq' => cursor_sender' = 0
    BY <1>u, <1>n, <1>f, <1>a
  <2>6. cur_message_seq' < next_message_seq' =>
            cursor_sender' < Sized(cur_message_seq)'.size
    <3>1. SUFFICES ASSUME cur_message_seq' < next_message_seq'
                   PROVE  cursor_sender' < Sized(cur_message_seq)'.size
      OBVIOUS
    <3>2. Sized(cur_message_seq)' = Sized(MsgAfter(m, o))
      BY <1>f, <1>u DEF Sized, sourceVars
    <3>3. CASE MsgAfter(m, o) = m
      BY <3>2, <3>3, <1>a, <1>f
    <3>4. CASE MsgAfter(m, o) = m + 1
      <4>1. m + 1 \in 0..(Len(sent) - 1)
        BY <3>1, <3>4, <1>u, <1>n, <1>f
      <4> QED BY <4>1, <3>2, <3>4, <1>a, <1>f, <1>s
    <3> QED BY <3>3, <3>4, <1>a
  <2>7. cur_message_seq' <= next_message_seq'
    BY <2>1, <1>u, <1>n
  <2>8. cursor_sender' = 0 \/ cursor_sender' >= MAX_PAYLOAD_SIZE
    BY <1>f, <1>a
  <2> QED BY <2>1, <2>2, <2>3, <2>4, <2>5, <2>6, <2>7, <2>8 DEF BufferInv
<1>4. StreamInv'
  <2>1. MsgOf(0)' = 0 /\ OffOf(0)' = 0
    BY <1>k, <1>n DEF IndInv, StreamInv
  <2>2. \A j, q : /\ Sized(j)' = Sized(j)
                  /\ Chunk(j, q)' = Chunk(j, q)
                  /\ MsgAfter(j, q)' = MsgAfter(j, q)
                  /\ OffAfter(j, q)' = OffAfter(j, q)
    BY <1>u DEF Sized, Chunk, MsgAfter, OffAfter, sourceVars
  <2>3. cur_message_seq' \in cur_message_seq..next_message_seq
    BY <1>n, <1>f, <1>a
  <2>4. ASSUME NEW k \in 0..(n - 1)
        PROVE  /\ MsgOf(k)' \in 0..(cur_message_seq')
               /\ MsgOf(k)' < next_message_seq'
               /\ OffOf(k)' \in Nat
               /\ OffOf(k)' < Sized(MsgOf(k)').size
               /\ OffOf(k)' = 0 \/ OffOf(k)' >= MAX_PAYLOAD_SIZE
               /\ Pkt(k)' = DataPacket(k, Chunk(MsgOf(k)', OffOf(k)'),
                                       Sized(MsgOf(k)').data, OffOf(k)')
               /\ MsgOf(k + 1)' = MsgAfter(MsgOf(k)', OffOf(k)')
               /\ OffOf(k + 1)' = OffAfter(MsgOf(k)', OffOf(k)')
    <3>1. k \in 0..n /\ k + 1 \in 0..n
      BY <1>n
    <3>2. /\ MsgOf(k)' = MsgOf(k) /\ OffOf(k)' = OffOf(k) /\ Pkt(k)' = Pkt(k)
          /\ MsgOf(k + 1)' = MsgOf(k + 1) /\ OffOf(k + 1)' = OffOf(k + 1)
      BY <3>1, <1>k
    <3>3. /\ MsgOf(k) \in 0..(cur_message_seq)
          /\ MsgOf(k) < next_message_seq
          /\ OffOf(k) \in Nat
          /\ OffOf(k) < Sized(MsgOf(k)).size
          /\ OffOf(k) = 0 \/ OffOf(k) >= MAX_PAYLOAD_SIZE
          /\ Pkt(k) = DataPacket(k, Chunk(MsgOf(k), OffOf(k)),
                                 Sized(MsgOf(k)).data, OffOf(k))
          /\ MsgOf(k + 1) = MsgAfter(MsgOf(k), OffOf(k))
          /\ OffOf(k + 1) = OffAfter(MsgOf(k), OffOf(k))
      BY <1>n DEF IndInv, StreamInv
    <3>4. MsgOf(k) \in 0..(cur_message_seq') /\ MsgOf(k) < next_message_seq'
      BY <3>3, <2>3, <1>u, <1>n
    <3> QED BY <3>2, <3>3, <3>4
  <2>5. /\ MsgOf(n)' \in 0..(cur_message_seq')
        /\ MsgOf(n)' < next_message_seq'
        /\ OffOf(n)' \in Nat
        /\ OffOf(n)' < Sized(MsgOf(n)').size
        /\ OffOf(n)' = 0 \/ OffOf(n)' >= MAX_PAYLOAD_SIZE
        /\ Pkt(n)' = DataPacket(n, Chunk(MsgOf(n)', OffOf(n)'),
                                      Sized(MsgOf(n)').data, OffOf(n)')
        /\ MsgOf(n + 1)' = MsgAfter(MsgOf(n)', OffOf(n)')
        /\ OffOf(n + 1)' = OffAfter(MsgOf(n)', OffOf(n)')
    <3>1. MsgOf(n)' = m /\ OffOf(n)' = o
      BY <1>k, <1>n
    <3>2. o = 0 \/ o >= MAX_PAYLOAD_SIZE
      BY <1>n DEF IndInv, BufferInv
    <3>3. m \in 0..(cur_message_seq') /\ m < next_message_seq'
      BY <1>n, <1>u, <1>f, <1>a
    <3> QED BY <3>1, <3>2, <3>3, <1>0, <1>k, <1>f, <1>n
  <2>6. \A k \in 0..(pkt_seq' - 1) : k \in 0..(n - 1) \/ k = n
    BY <1>f, <1>n
  <2> QED BY <2>1, <2>2, <2>4, <2>5, <2>6, <1>m, <1>f DEF StreamInv
<1>5. SenderTypeOK'
  <2>1. n % MAX_WINDOW_SIZE \in 0..(MAX_WINDOW_SIZE - 1)
    BY <1>n, ModRange, SenderAssumption
  <2>2. windows' = [i \in 0..(MAX_WINDOW_SIZE - 1) |-> windows'[i]]
        /\ \A i \in 0..(MAX_WINDOW_SIZE - 1) :
              windows'[i] = Garbage \/ IsDataPacket(windows'[i])
    BY <2>1, <1>f, <1>t DEF SenderTypeOK
  <2>3. /\ pkt_seq' \in Nat /\ Len(made') = pkt_seq'
        /\ next_packet_to_send' \in 0..pkt_seq' /\ ack_expected' \in 0..pkt_seq'
        /\ pkt_window_num' \in 0..MAX_WINDOW_SIZE
    <3>1. next_packet_to_send \in 0..n
      BY <1>n, <1>t DEF SenderTypeOK
    <3>2. pkt_seq' = n + 1 /\ Len(made') = n + 1
      BY <1>f, <1>m
    <3>3. next_packet_to_send' = next_packet_to_send /\ ack_expected' = ack_expected
      BY <1>u
    <3>4. pkt_window_num' \in 0..MAX_WINDOW_SIZE
      <4>1. pkt_window_num' = pkt_window_num + 1
        BY <1>f
      <4>2. pkt_window_num < MAX_WINDOW_SIZE /\ pkt_window_num \in 0..MAX_WINDOW_SIZE
        BY <1>w, <1>t DEF SenderTypeOK
      <4> QED BY <4>1, <4>2, SenderAssumption
    <3>5. n \in Nat /\ ack_expected \in 0..n
      BY <1>n
    <3> QED BY <3>1, <3>2, <3>3, <3>4, <3>5
  <2>4. /\ cur_message_seq' \in Nat /\ cursor_sender' \in Nat /\ msg_buffer_num' \in Nat
    BY <1>3, <1>f, <1>n, <1>a, <1>u DEF BufferInv
  <2> QED BY <2>2, <2>3, <2>4, <1>t, <1>u DEF SenderTypeOK
<1>6. WindowInv'
  <2>1. WindowIntact'
    <3>1. SUFFICES ASSUME NEW s \in ack_expected..n
                   PROVE  windows'[s % MAX_WINDOW_SIZE] = made'[s + 1].pkt
      <4>1. ack_expected'..(pkt_seq' - 1) = ack_expected..n
        BY <1>u, <1>f, <1>n
      <4> QED BY <4>1 DEF WindowIntact
    <3>2. n % MAX_WINDOW_SIZE \in 0..(MAX_WINDOW_SIZE - 1)
          /\ s % MAX_WINDOW_SIZE \in 0..(MAX_WINDOW_SIZE - 1)
      <4>1. s \in Nat /\ n \in Nat
        BY <1>n
      <4> QED BY <4>1, ModRange, SenderAssumption
    <3>3. CASE s = n
      <4>1. windows = [i \in 0..(MAX_WINDOW_SIZE - 1) |-> windows[i]]
        BY <1>t DEF SenderTypeOK
      <4>2. windows' = [windows EXCEPT ![n % MAX_WINDOW_SIZE] = p]
        BY <1>f
      <4>3. windows'[n % MAX_WINDOW_SIZE] = p
        BY <3>2, <4>1, <4>2
      <4>4. made'[n + 1] = e /\ e.pkt = p
        BY <1>0, <1>m
      <4> QED BY <3>3, <4>3, <4>4
    <3>4. CASE s # n
      <4>1. s \in Nat /\ s < n /\ n - s < MAX_WINDOW_SIZE
        BY <3>4, <1>n, <1>w, SenderAssumption
      <4>2. s % MAX_WINDOW_SIZE # n % MAX_WINDOW_SIZE
        BY <4>1, <1>n, ModDistinct, SenderAssumption
      <4>3. windows'[s % MAX_WINDOW_SIZE] = windows[s % MAX_WINDOW_SIZE]
        BY <3>2, <4>2, <1>f, <1>t DEF SenderTypeOK
      <4>4. windows[s % MAX_WINDOW_SIZE] = made[s + 1].pkt
        <5>1. WindowIntact
          BY DEF IndInv, WindowInv
        <5>2. s \in ack_expected..(pkt_seq - 1)
          BY <4>1, <1>n
        <5> QED BY <5>1, <5>2 DEF WindowIntact
      <4>5. made'[s + 1] = made[s + 1]
        <5>1. s + 1 \in 1..n
          BY <4>1, <1>n
        <5> QED BY <5>1, <1>m
      <4> QED BY <4>3, <4>4, <4>5
    <3> QED BY <3>3, <3>4
  <2> QED BY <2>1, <1>u, <1>f, <1>n, <1>w DEF IndInv, WindowInv
<1>7. TimerInv'
  <2>1. ack_expected' < pkt_seq'
    BY <1>u, <1>f, <1>n
  <2>2. sender_timer = TRUE /\ (ack = ack_expected - 1 \/ ack = NoAck)
    BY <1>u DEF IndInv, TimerInv
  <2> QED BY <2>1, <2>2, <1>u DEF TimerInv
<1>8. LinkInv'
  <2>1. \A q \in BagToSet(toReceiver) :
          q = Garbage \/ (q.seq \in 0..(pkt_seq' - 1) /\ q = Pkt(q.seq)')
    BY <1>k, <1>f, <1>n DEF IndInv, LinkInv
  <2>2. /\ ack_expected' <= expected' /\ expected' <= pkt_seq'
    BY <1>u, <1>f, <1>n DEF IndInv, LinkInv, receiverVars
  <2> QED BY <2>1, <2>2, <1>u DEF IndInv, LinkInv, receiverVars
<1>9. ReceiverInv'
  <2>1. PICK x : x = expected /\ x \in 0..n /\ x = expected'
    BY <1>n, <1>u DEF receiverVars
  <2>2. MsgOf(x)' = MsgOf(x) /\ OffOf(x)' = OffOf(x)
    BY <2>1, <1>k
  <2>3. ASSUME NEW i \in 0..(WINDOWS_SIZE - 1), valid_checks[i], NEW q, q = window[i]
        PROVE  q.seq < pkt_seq' /\ q = Pkt(q.seq)'
    <3>1. /\ q.seq \in (expected + 1)..(expected + WINDOWS_SIZE - 1)
          /\ q.seq < n /\ q = Pkt(q.seq)
      BY <2>3, <1>n DEF IndInv, ReceiverInv
    <3>2. q.seq \in 0..(n - 1)
      BY <3>1, <1>n, ReceiverAssumption
    <3> QED BY <3>1, <3>2, <1>k, <1>f, <1>n
  <2>4. /\ Len(delivered)' = MsgOf(expected)'
        /\ OffOf(expected)' = (IF cursor' = 0 THEN 0 ELSE cursor' + SizeofInt)
    BY <2>1, <2>2, <1>u DEF IndInv, ReceiverInv, receiverVars, sinkVars
  <2>5. ASSUME NEW i \in 0..(WINDOWS_SIZE - 1), valid_checks'[i]
        PROVE  /\ window'[i].seq \in (expected' + 1)..(expected' + WINDOWS_SIZE - 1)
               /\ window'[i].seq % WINDOWS_SIZE = i
               /\ window'[i].seq < pkt_seq'
               /\ window'[i] = Pkt(window[i].seq)'
    BY <2>3, <2>5, <1>u DEF IndInv, ReceiverInv, receiverVars
  <2> QED BY <2>4, <2>5, <1>u DEF IndInv, ReceiverInv, receiverVars, sinkVars, sourceVars
<1>10. ServicesTypeOK' /\ ReceiverTypeOK' /\ FinalInv'
  BY <1>u, <1>t DEF TypeOK, ServicesTypeOK, ReceiverTypeOK, FinalInv,
     sourceVars, sinkVars, receiverVars
<1> QED
  BY <1>1, <1>2, <1>3, <1>4, <1>5, <1>6, <1>7, <1>8, <1>9, <1>10 DEF IndInv, TypeOK

(* Sender_FromLowerLayer preserves the invariant: an acknowledgement that  *)
(* passes the test is of packets the receiver has consumed.                *)
LEMMA AckStep ==
    ASSUME IndInv, AckEvent
    PROVE  IndInv'
<1> USE DEF NewAck
<1>0. PICK pkt \in BagToSet(toSender) :
         toSender' = BX!BagRemove(toSender, pkt) /\ Sender_FromLowerLayer(pkt)
  BY DEF AckEvent
<1>t. TypeOK
  BY DEF IndInv
<1>n. /\ pkt_seq \in Nat /\ ack_expected \in 0..pkt_seq /\ expected \in Nat
      /\ pkt_window_num \in 0..MAX_WINDOW_SIZE
      /\ ack_expected <= expected /\ expected <= pkt_seq
      /\ pkt_window_num = pkt_seq - ack_expected
      /\ next_packet_to_send = pkt_seq /\ ack = NoAck
  BY <1>t, <1>0 DEF TypeOK, SenderTypeOK, ReceiverTypeOK, IndInv, LinkInv, WindowInv,
     TimerInv, Sender_FromLowerLayer
<1>u. UNCHANGED <<sourceVars, sinkVars, receiverVars, bufferVars, windows, pkt_seq, made,
                  next_packet_to_send, toReceiver>>
  BY <1>0 DEF AckEvent, Sender_FromLowerLayer
<1>c. ctl = "main" /\ ctl' \in {"main", "construct"}
  BY <1>0 DEF Sender_FromLowerLayer
<1>p. pkt.intact => pkt.ack \in -1..(expected - 1)
  BY DEF IndInv, LinkInv, Garbage
<1>b. BagToSet(toSender') \subseteq BagToSet(toSender)
  BY <1>0, BagRemoveMembers
<1>1. SourceInv' /\ BufferInv' /\ StreamInv'
  BY <1>u, SameStream
<1>2. SinkInv' /\ ReceiverInv' /\ ReceiverTypeOK'
  BY <1>c, <1>u, SameReceiver
<1> USE <1>u DEF sourceVars, sinkVars, bufferVars, receiverVars
<1>3. FinalInv'
  BY <1>c DEF FinalInv
<1>4. ServicesTypeOK'
  <2>1. sender_timer' \in BOOLEAN
    BY <1>0, <1>t DEF Sender_FromLowerLayer, Sender_StartTimer, Sender_StopTimer,
       TypeOK, ServicesTypeOK
  <2> QED BY <2>1, <1>b, <1>c, <1>t DEF TypeOK, ServicesTypeOK
<1>5. ASSUME ack_expected' \in ack_expected..expected,
             pkt_window_num' = pkt_seq - ack_expected',
             ack' = NoAck \/ ack' = ack_expected' - 1
      PROVE  SenderTypeOK' /\ WindowInv' /\ LinkInv'
  <2>1. /\ ack_expected' \in 0..pkt_seq
        /\ pkt_window_num' \in 0..MAX_WINDOW_SIZE
        /\ ack' \in Int /\ ack' >= NoAck
    <3>1. ack_expected' \in Int /\ ack_expected <= ack_expected' /\ ack_expected' <= pkt_seq
      BY <1>5, <1>n
    <3>2. pkt_seq - ack_expected' \in 0..MAX_WINDOW_SIZE
      <4>1. \A p \in Nat, a, b \in Int, w \in Nat :
               a <= b /\ b <= p /\ p - a \in 0..w => p - b \in 0..w
        OBVIOUS
      <4>2. pkt_seq - ack_expected \in 0..MAX_WINDOW_SIZE
        BY <1>n
      <4>3. pkt_seq \in Nat /\ ack_expected \in Int
        BY <1>n
      <4> QED BY <3>1, <4>1, <4>2, <4>3, SenderAssumption, Zenon
    <3>3. ack' \in Int /\ ack' >= NoAck
      BY <3>1, <1>5, <1>n DEF NoAck
    <3>4. ack_expected' \in 0..pkt_seq
      BY <3>1, <1>n
    <3> QED BY <3>2, <3>3, <3>4, <1>5
  <2>2. SenderTypeOK'
    BY <2>1, <1>t DEF TypeOK, SenderTypeOK
  <2>3. WindowIntact'
    <3>1. ack_expected'..(pkt_seq' - 1) \subseteq ack_expected..(pkt_seq - 1)
      BY <1>5, <1>n
    <3> QED BY <3>1 DEF IndInv, WindowInv, WindowIntact
  <2>4. WindowInv'
    BY <2>1, <2>3, <1>5, <1>n DEF WindowInv
  <2>5. LinkInv'
    <3>1. ack_expected' <= expected'
      BY <1>5, <1>n
    <3> QED BY <3>1, <1>b DEF IndInv, LinkInv, Pkt
  <2> QED BY <2>2, <2>4, <2>5
<1>6. CASE UNCHANGED <<pkt_window_num, ack_expected, ack, sender_timer, ctl>>
  <2>1. SenderTypeOK' /\ WindowInv' /\ LinkInv'
    BY <1>5, <1>6, <1>n
  <2>2. TimerInv'
    BY <1>6, <1>c DEF IndInv, TimerInv
  <2> QED BY <1>1, <1>2, <1>3, <1>4, <2>1, <2>2 DEF IndInv, TypeOK
<1>7. CASE /\ pkt.intact
           /\ ack_expected <= pkt.ack /\ pkt.ack < pkt_seq
           /\ Sender_StartTimer
           /\ pkt_window_num' = pkt_window_num - (pkt.ack - ack_expected + 1)
           /\ ack_expected' = pkt.ack + 1
           /\ ack' = pkt.ack
           /\ ctl' = "construct"
  <2>1. SenderTypeOK' /\ WindowInv' /\ LinkInv'
    BY <1>5, <1>7, <1>n, <1>p
  <2>2. ack' = ack_expected' - 1
    BY <1>7, <1>p, <1>n
  <2>3. TimerInv'
    BY <1>7, <2>2 DEF TimerInv, Sender_StartTimer
  <2> QED BY <1>1, <1>2, <1>3, <1>4, <2>1, <2>3 DEF IndInv, TypeOK
<1>8. CASE /\ pkt.intact
           /\ ~(ack_expected <= pkt.ack /\ pkt.ack < pkt_seq)
           /\ IF pkt.ack = pkt_seq - 1 THEN Sender_StopTimer ELSE UNCHANGED sender_timer
           /\ UNCHANGED <<pkt_window_num, ack_expected, ack, ctl>>
  <2>1. SenderTypeOK' /\ WindowInv' /\ LinkInv'
    BY <1>5, <1>8, <1>n
  <2>2. CASE pkt.ack = pkt_seq - 1
    <3>1. ack_expected = pkt_seq /\ ~(ack_expected < pkt_seq)
      BY <1>8, <1>p, <1>n, <2>2
    <3>2. sender_timer' = FALSE
      BY <1>8, <2>2 DEF Sender_StopTimer
    <3>3. ~sender_timer /\ cur_message_seq = next_message_seq
      BY <3>1, <1>c DEF IndInv, TimerInv
    <3>4. TimerInv'
      BY <3>1, <3>2, <3>3, <1>8, <1>c, <1>n DEF TimerInv
    <3> QED BY <1>1, <1>2, <1>3, <1>4, <2>1, <3>4 DEF IndInv, TypeOK
  <2>3. CASE pkt.ack # pkt_seq - 1
    BY <1>6, <1>8, <2>3
  <2> QED BY <2>2, <2>3
<1> QED BY <1>0, <1>6, <1>7, <1>8 DEF Sender_FromLowerLayer, RDT_VerifyChecksum

(* What the receiver knows of a packet that passes its checksum.           *)
LEMMA IntactPacket ==
    ASSUME IndInv, NEW pkt \in BagToSet(toReceiver), pkt.intact
    PROVE  /\ pkt.seq \in 0..(pkt_seq - 1)
           /\ pkt = Pkt(pkt.seq)
           /\ IsDataPacket(pkt)
<1>1. pkt # Garbage
  BY DEF Garbage
<1>2. pkt.seq \in 0..(pkt_seq - 1) /\ pkt = Pkt(pkt.seq)
  BY <1>1 DEF IndInv, LinkInv
<1>3. IsDataPacket(pkt)
  BY <1>1 DEF IndInv, TypeOK, ServicesTypeOK
<1> QED BY <1>2, <1>3

(* Receiver_FromLowerLayer up to its loop preserves the invariant.         *)
LEMMA DataStep ==
    ASSUME IndInv, DataEvent
    PROVE  IndInv'
<1>0. PICK pkt \in BagToSet(toReceiver) :
         toReceiver' = BX!BagRemove(toReceiver, pkt) /\ Receiver_FromLowerLayer(pkt)
  BY DEF DataEvent
<1>t. TypeOK
  BY DEF IndInv
<1>n. /\ pkt_seq \in Nat /\ expected \in Nat /\ expected <= pkt_seq
  BY <1>t DEF TypeOK, SenderTypeOK, ReceiverTypeOK, IndInv, LinkInv
<1>u. UNCHANGED <<sourceVars, sinkVars, bufferVars, windowVars, next_packet_to_send,
                  ack_expected, ack, sender_timer, cur_msg, cursor, expected>>
  BY <1>0 DEF DataEvent, Receiver_FromLowerLayer, senderVars
<1>c. ctl = "main" /\ ctl' \in {"main", "consume"}
  BY <1>0 DEF Receiver_FromLowerLayer, StoreAhead, AckOutOfWindow
<1>r. BagToSet(toReceiver') \subseteq BagToSet(toReceiver)
  BY <1>0, BagRemoveMembers
<1>s. BagToSet(toSender') \subseteq BagToSet(toSender) \cup {AckPacket(expected - 1), Garbage}
  <2>1. toSender' = toSender \/ toSender' \in Transmit(toSender, AckPacket(expected - 1))
    BY <1>0 DEF Receiver_FromLowerLayer, StoreAhead, AckOutOfWindow, Receiver_Ack,
       Receiver_ToLowerLayer
  <2> QED BY <2>1, TransmitMembers
<1>1. SourceInv' /\ BufferInv' /\ StreamInv'
  BY <1>u, SameStream DEF windowVars
<1> USE <1>u DEF sourceVars, sinkVars, bufferVars, windowVars
<1>2. SinkInv'
  BY DEF IndInv, SinkInv, DeliveredPrefix
<1>3. WindowInv' /\ FinalInv'
  BY <1>c DEF IndInv, WindowInv, WindowIntact, FinalInv
<1>4. SenderTypeOK'
  BY <1>t DEF TypeOK, SenderTypeOK
<1>5. TimerInv'
  BY <1>c DEF IndInv, TimerInv
<1>6. /\ IsAckPacket(AckPacket(expected - 1))
      /\ AckPacket(expected - 1).ack = expected - 1
      /\ expected - 1 \in -1..(expected - 1)
  BY <1>n DEF AckPacket, IsAckPacket
<1>7. ServicesTypeOK'
  <2>1. \A q \in BagToSet(toSender') : q = Garbage \/ IsAckPacket(q)
    BY <1>s, <1>6, <1>t DEF TypeOK, ServicesTypeOK
  <2> QED BY <2>1, <1>r, <1>c, <1>t DEF TypeOK, ServicesTypeOK
<1>8. LinkInv'
  <2>1. \A q \in BagToSet(toSender') :
          q = Garbage \/ (q = AckPacket(q.ack) /\ q.ack \in -1..(expected - 1))
    BY <1>s, <1>6 DEF IndInv, LinkInv
  <2> QED BY <2>1, <1>r DEF IndInv, LinkInv, Pkt
<1>9. ReceiverTypeOK' /\ ReceiverInv'
  <2>1. CASE UNCHANGED <<window, valid_checks, rpkt>> /\ ctl' = "main"
    BY <2>1, <1>t DEF IndInv, TypeOK, ReceiverTypeOK, ReceiverInv, MsgOf, OffOf, Pkt
  <2>2. CASE /\ pkt.intact /\ pkt.seq = expected /\ rpkt' = pkt
             /\ UNCHANGED <<window, valid_checks>>
    <3>1. /\ expected < pkt_seq /\ pkt = Pkt(expected) /\ IsDataPacket(pkt)
      BY <2>2, <1>n, IntactPacket
    <3>2. ReceiverTypeOK'
      BY <2>2, <3>1, <1>t DEF TypeOK, ReceiverTypeOK
    <3>3. ReceiverInv'
      BY <2>2, <3>1 DEF IndInv, ReceiverInv, MsgOf, OffOf, Pkt
    <3> QED BY <3>2, <3>3
  <2>3. CASE /\ pkt.intact
             /\ expected < pkt.seq /\ pkt.seq < expected + WINDOWS_SIZE
             /\ window' = [window EXCEPT ![pkt.seq % WINDOWS_SIZE] = pkt]
             /\ valid_checks' = [valid_checks EXCEPT ![pkt.seq % WINDOWS_SIZE] = TRUE]
             /\ UNCHANGED <<rpkt, ctl>>
    <3>1. PICK x : x = pkt.seq % WINDOWS_SIZE /\ x \in 0..(WINDOWS_SIZE - 1)
      <4>1. pkt.seq \in Nat
        BY <2>3, <1>n, IntactPacket
      <4> QED BY <4>1, ModRange, ReceiverAssumption
    <3>2. /\ pkt.seq \in (expected + 1)..(expected + WINDOWS_SIZE - 1)
          /\ pkt.seq < pkt_seq /\ pkt = Pkt(pkt.seq) /\ IsDataPacket(pkt)
      BY <2>3, <1>n, IntactPacket, ReceiverAssumption
    <3>3. /\ window' = [window EXCEPT ![x] = pkt]
          /\ valid_checks' = [valid_checks EXCEPT ![x] = TRUE]
      BY <2>3, <3>1
    <3>4. ReceiverTypeOK'
      BY <2>3, <3>1, <3>2, <3>3, <1>t DEF TypeOK, ReceiverTypeOK
    <3>5. ASSUME NEW i \in 0..(WINDOWS_SIZE - 1), valid_checks'[i], NEW q, q = window'[i]
          PROVE  /\ q.seq \in (expected + 1)..(expected + WINDOWS_SIZE - 1)
                 /\ q.seq % WINDOWS_SIZE = i
                 /\ q.seq < pkt_seq
                 /\ q = Pkt(q.seq)
      <4>1. CASE i = x
        <5>1. q = pkt
          BY <3>3, <3>5, <4>1, <1>t DEF TypeOK, ReceiverTypeOK
        <5> QED BY <5>1, <4>1, <3>1, <3>2
      <4>2. CASE i # x
        <5>1. valid_checks[i] /\ q = window[i]
          BY <3>1, <3>3, <3>5, <4>2, <1>t DEF TypeOK, ReceiverTypeOK
        <5> QED BY <5>1 DEF IndInv, ReceiverInv
      <4> QED BY <4>1, <4>2
    <3>6. \A q : Pkt(q)' = Pkt(q)
      BY DEF Pkt
    <3>7. ASSUME NEW i \in 0..(WINDOWS_SIZE - 1), valid_checks'[i]
          PROVE  /\ window'[i].seq \in (expected' + 1)..(expected' + WINDOWS_SIZE - 1)
                 /\ window'[i].seq % WINDOWS_SIZE = i
                 /\ window'[i].seq < pkt_seq'
                 /\ window'[i] = Pkt(window[i].seq)'
      BY <3>5, <3>6, <3>7
    <3> QED BY <3>4, <3>7, <2>3, <1>c DEF IndInv, ReceiverInv, MsgOf, OffOf
  <2> QED BY <1>0, <1>c, <2>1, <2>2, <2>3
         DEF Receiver_FromLowerLayer, StoreAhead, AckOutOfWindow, RDT_VerifyChecksum
<1> QED BY <1>1, <1>2, <1>3, <1>4, <1>5, <1>7, <1>8, <1>9 DEF IndInv, TypeOK

(* The receiver never gets past the messages the sender was given.         *)
LEMMA ReceiverPosition ==
    ASSUME IndInv
    PROVE  /\ Len(delivered) \in Nat /\ Len(sent) \in Nat
           /\ Len(delivered) <= Len(sent)
           /\ cursor > 0 => Len(delivered) < Len(sent)
           /\ expected < pkt_seq => Len(delivered) < Len(sent)
<1>1. Len(delivered) \in Nat /\ Len(sent) \in Nat /\ Len(delivered) <= Len(sent)
  BY DEF IndInv, SinkInv, SourceInv, DeliveredPrefix
<1>2. /\ expected \in 0..pkt_seq /\ pkt_seq \in Nat /\ cursor \in Nat
      /\ cur_message_seq \in Nat /\ cursor_sender \in Nat
      /\ Len(delivered) = MsgOf(expected)
      /\ OffOf(expected) = (IF cursor = 0 THEN 0 ELSE cursor + SizeofInt)
      /\ next_message_seq = Len(sent) /\ cur_message_seq <= next_message_seq
      /\ cur_message_seq = next_message_seq => cursor_sender = 0
  BY DEF IndInv, LinkInv, TypeOK, SenderTypeOK, ReceiverTypeOK, ReceiverInv, BufferInv
<1>3. CASE expected < pkt_seq
  <2>1. expected \in 0..(pkt_seq - 1)
    BY <1>2, <1>3
  <2>2. MsgOf(expected) < next_message_seq
    BY <2>1 DEF IndInv, StreamInv
  <2> QED BY <1>1, <1>2, <2>2
<1>4. CASE ~(expected < pkt_seq)
  <2>1. MsgOf(expected) = cur_message_seq /\ OffOf(expected) = cursor_sender
    BY <1>4 DEF MsgOf, OffOf
  <2> QED BY <1>1, <1>2, <1>4, <2>1, PayloadAssumption
<1> QED BY <1>3, <1>4

(* A new message preserves the invariant, since the slot it overwrites     *)
(* holds no unprocessed message: this is where the bound on the backlog is *)
(* used.                                                                   *)
LEMMA UpperLayerStep ==
    ASSUME IndInv, UpperLayerEvent, MaxBacklog <= MAX_BUFFER_SIZE
    PROVE  IndInv'
<1>0. PICK size, msg :
         /\ size \in MessageSizes
         /\ msg = GeneratedMessage(size)
         /\ generate_msg(size)
         /\ Sender_FromUpperLayer(msg)
  BY DEF UpperLayerEvent
<1>t. TypeOK /\ SenderTypeOK
  BY DEF IndInv, TypeOK
<1>z. PICK z, tot : z = Len(sent) /\ z \in Nat /\ tot = tot_chars_sent /\ tot \in Nat
  BY ReceiverPosition, <1>t DEF TypeOK, ServicesTypeOK
<1>n. /\ next_message_seq = z /\ cur_message_seq \in 0..z
      /\ z - cur_message_seq < MaxBacklog
      /\ gen_cnt = tot % 10
      /\ msg_buffer_num = z - cur_message_seq
      /\ ctl = "main" /\ ctl' \in {"main", "construct"}
      /\ z + 1 <= MaxMsgs
  <2>1. Len(sent) < MaxMsgs
    BY DEF UpperLayerEvent, IndInv, SourceInv
  <2>2. ctl = "main" /\ ctl' \in {"main", "construct"}
    BY <1>0 DEF Sender_FromUpperLayer
  <2> QED BY <1>z, <1>t, <2>1, <2>2, ServicesAssumption
         DEF IndInv, BufferInv, SourceInv, SenderTypeOK, UpperLayerEvent
<1>u. UNCHANGED <<sinkVars, receiverVars, cur_message_seq, cursor_sender, windowVars,
                  next_packet_to_send, ack_expected, ack, toReceiver, toSender>>
  BY <1>0 DEF UpperLayerEvent, Sender_FromUpperLayer
<1>a. upper_active' \in BOOLEAN /\ (upper_active' => z + 1 < MaxMsgs)
  BY <1>z DEF UpperLayerEvent
<1>m. /\ size \in Nat \ {0} /\ msg.size = size
      /\ msg = [size |-> msg.size, data |-> msg.data]
      /\ msg.data \in [0..(size - 1) -> Int]
      /\ \A i \in 0..(size - 1) : msg.data[i] = (tot + i) % 10
  <2>1. size \in Nat \ {0}
    BY <1>0, ServicesAssumption
  <2>2. msg.size = size /\ msg = [size |-> msg.size, data |-> msg.data]
    BY <1>0 DEF GeneratedMessage
  <2>3. msg.data = [i \in 0..(size - 1) |-> (gen_cnt + i) % 10]
    BY <1>0 DEF GeneratedMessage
  <2>4. \A i \in 0..(size - 1) : (gen_cnt + i) % 10 \in Int /\ (gen_cnt + i) % 10 = (tot + i) % 10
    BY <1>n, <1>z, <2>1
  <2> QED BY <2>1, <2>2, <2>3, <2>4
<1>w. IsMessage(msg) /\ msg.size > 0 /\ IsMessage(WithSizeHeader(msg))
      /\ WithSizeHeader(msg).size = size + SizeofInt
  <2>1. IsMessage(msg) /\ msg.size > 0
    BY <1>m DEF IsMessage
  <2> QED BY <2>1, <1>m, SizedFacts
<1>s. /\ Len(sent') = z + 1 /\ Len(starts') = z + 1
      /\ \A k \in 1..z : sent'[k] = sent[k] /\ starts'[k] = starts[k]
      /\ sent'[z + 1] = msg /\ starts'[z + 1] = tot
      /\ sent' \in Seq({sent'[k] : k \in DOMAIN sent'})
      /\ starts' \in Seq(Nat)
      /\ DOMAIN sent' = 1..(z + 1)
  <2>1. /\ sent \in Seq({sent[k] : k \in DOMAIN sent})
        /\ starts \in Seq(Nat) /\ Len(starts) = z /\ Len(sent) = z
    BY <1>z DEF IndInv, SourceInv
  <2>2. sent' = Append(sent, msg) /\ starts' = Append(starts, tot)
    BY <1>0, <1>z DEF generate_msg
  <2>3. sent' \in Seq({sent[k] : k \in DOMAIN sent} \cup {msg})
    BY <2>1, <2>2, AppendFacts
  <2>4. sent' \in Seq({sent'[k] : k \in DOMAIN sent'})
    BY <2>3, SeqOfOwnElements
  <2>5. /\ Len(sent') = z + 1 /\ \A k \in 1..z : sent'[k] = sent[k]
        /\ sent'[z + 1] = msg
    BY <2>1, <2>2, AppendFacts
  <2>6. /\ Len(starts') = z + 1 /\ \A k \in 1..z : starts'[k] = starts[k]
        /\ starts'[z + 1] = tot /\ starts' \in Seq(Nat)
    BY <2>1, <2>2, <1>z
  <2>7. DOMAIN sent' = 1..(z + 1)
    BY <2>4, <2>5
  <2> QED BY <2>4, <2>5, <2>6, <2>7
<1>d. /\ \A j \in 0..(z - 1) : Sized(j)' = Sized(j)
      /\ Sized(z)' = WithSizeHeader(msg)
  <2>1. ASSUME NEW j \in 0..(z - 1) PROVE Sized(j)' = Sized(j)
    <3>1. j + 1 \in 1..z
      BY <1>z
    <3> QED BY <3>1, <1>s DEF Sized
  <2>2. Sized(z)' = WithSizeHeader(msg)
    BY <1>s DEF Sized
  <2> QED BY <2>1, <2>2
<1>c. gen_cnt' = (tot + size) % 10 /\ tot_chars_sent' = tot + size
  BY <1>0, <1>z, <1>n, <1>m DEF generate_msg
<1>1. SourceInv'
  <2>1. ASSUME NEW k \in 1..(z + 1)
        PROVE  /\ sent'[k].size + starts'[k] =
                     (IF k = z + 1 THEN tot_chars_sent' ELSE starts'[k + 1])
               /\ \A i \in 0..(sent'[k].size - 1) :
                     sent'[k].data[i] = (starts'[k] + i) % 10
    <3>1. CASE k = z + 1
      <4>1. sent'[k] = msg /\ starts'[k] = tot
        BY <3>1, <1>s
      <4> QED BY <4>1, <3>1, <1>c, <1>m, <1>z
    <3>2. CASE k # z + 1
      <4>1. k \in 1..z
        BY <3>2, <1>z
      <4>2. /\ sent[k].size + starts[k] = (IF k = z THEN tot ELSE starts[k + 1])
            /\ \A i \in 0..(sent[k].size - 1) : sent[k].data[i] = (starts[k] + i) % 10
        BY <4>1, <1>z DEF IndInv, SourceInv
      <4>3. starts'[k + 1] = (IF k = z THEN tot ELSE starts[k + 1])
        <5>1. CASE k = z
          BY <5>1, <1>s
        <5>2. CASE k # z
          <6>1. k + 1 \in 1..z
            BY <4>1, <5>2, <1>z
          <6> QED BY <6>1, <5>2, <1>s
        <5> QED BY <5>1, <5>2
      <4>4. sent'[k] = sent[k] /\ starts'[k] = starts[k]
        BY <4>1, <1>s
      <4> QED BY <3>2, <4>2, <4>3, <4>4
    <3> QED BY <3>1, <3>2
  <2>2. sent' # << >>
    BY <1>s, <1>z
  <2>3. starts'[1] = 0
    <3>1. CASE z = 0
      BY <3>1, <1>s, <1>z DEF IndInv, SourceInv
    <3>2. CASE z # 0
      <4>1. 1 \in 1..z /\ sent # << >>
        BY <3>2, <1>z
      <4> QED BY <4>1, <1>s DEF IndInv, SourceInv
    <3> QED BY <3>1, <3>2
  <2> QED BY <2>1, <2>2, <2>3, <1>s, <1>c, <1>a DEF SourceInv
<1> USE <1>u DEF sinkVars, receiverVars, windowVars
<1>2. SinkInv'
  <2>1. \A k \in 1..Len(delivered) : delivered[k] = sent'[k]
    BY <1>s, <1>z, ReceiverPosition DEF IndInv, SinkInv, DeliveredPrefix
  <2>2. {sent[k] : k \in DOMAIN sent} \subseteq {sent'[k] : k \in DOMAIN sent'}
    <3>1. DOMAIN sent = 1..z
      BY <1>z DEF IndInv, SourceInv
    <3>2. \A k \in 1..z : k \in 1..(z + 1)
      BY <1>z
    <3> QED BY <3>1, <3>2, <1>s
  <2>3. delivered \in Seq({sent'[k] : k \in DOMAIN sent'})
    BY <2>2, SeqOfMore DEF IndInv, SinkInv
  <2>4. Len(delivered) \in 0..z
    BY <1>z, ReceiverPosition
  <2>5. tot_chars_delivered = starts'[Len(delivered) + 1]
    <3>1. CASE Len(delivered) = z
      BY <3>1, <1>s, <1>z DEF IndInv, SinkInv
    <3>2. CASE Len(delivered) # z
      <4>1. Len(delivered) + 1 \in 1..z
        BY <2>4, <3>2, <1>z
      <4> QED BY <4>1, <3>2, <1>s, <1>z DEF IndInv, SinkInv
    <3> QED BY <3>1, <3>2
  <2>6. Len(delivered') <= Len(sent') /\ Len(delivered') # Len(sent')
    BY <2>4, <1>s, <1>z
  <2> QED BY <2>1, <2>3, <2>5, <2>6 DEF IndInv, SinkInv, DeliveredPrefix
<1>3. BufferInv' /\ SenderTypeOK'
  <2>1. PICK x : x = z % MAX_BUFFER_SIZE /\ x \in 0..(MAX_BUFFER_SIZE - 1)
    BY <1>z, ModRange, SenderAssumption
  <2>2. /\ buffer' = [buffer EXCEPT ![x] = WithSizeHeader(msg)]
        /\ next_message_seq' = z + 1 /\ msg_buffer_num' = z + 1 - cur_message_seq
    BY <2>1, <1>0, <1>n, <1>z DEF Sender_FromUpperLayer
  <2>3. ASSUME NEW j \in cur_message_seq..z
        PROVE  buffer'[j % MAX_BUFFER_SIZE] = Sized(j)'
    <3>1. j \in Nat /\ j % MAX_BUFFER_SIZE \in 0..(MAX_BUFFER_SIZE - 1)
      <4>1. j \in Nat
        BY <1>n
      <4> QED BY <4>1, ModRange, SenderAssumption
    <3>2. CASE j = z
      BY <3>2, <2>1, <2>2, <1>d, <1>t DEF SenderTypeOK
    <3>3. CASE j # z
      <4>1. j < z /\ z - j < MAX_BUFFER_SIZE /\ j \in 0..(z - 1)
            /\ j \in cur_message_seq..(next_message_seq - 1)
        BY <3>1, <3>3, <1>n, <1>z, BacklogAssumption, SenderAssumption
      <4>2. j % MAX_BUFFER_SIZE # x
        BY <4>1, <3>1, <2>1, <1>z, ModDistinct, SenderAssumption
      <4>3. buffer'[j % MAX_BUFFER_SIZE] = buffer[j % MAX_BUFFER_SIZE]
        BY <4>2, <3>1, <2>1, <2>2, <1>t DEF SenderTypeOK
      <4>4. buffer[j % MAX_BUFFER_SIZE] = Sized(j)
        BY <4>1 DEF IndInv, BufferInv
      <4> QED BY <4>1, <4>3, <4>4, <1>d
    <3> QED BY <3>2, <3>3
  <2>4. cur_message_seq'..(next_message_seq' - 1) = cur_message_seq..z
    BY <2>2, <1>z
  <2>5. cursor_sender < Sized(cur_message_seq)'.size
    <3>1. PICK c : c = cur_message_seq /\ c = cur_message_seq' /\ c \in 0..z
      BY <1>n
    <3>2. CASE c = z
      BY <3>1, <3>2, <1>d, <1>n, <1>m, <1>w, PayloadAssumption DEF IndInv, BufferInv
    <3>3. CASE c # z
      <4>1. c \in 0..(z - 1) /\ cur_message_seq < next_message_seq
        BY <3>1, <3>3, <1>n, <1>z
      <4>2. Sized(c)' = Sized(c)
        BY <4>1, <1>d
      <4> QED BY <3>1, <4>1, <4>2 DEF IndInv, BufferInv
    <3> QED BY <3>2, <3>3
  <2>6. next_message_seq' - cur_message_seq' <= MaxBacklog
        /\ cur_message_seq' < next_message_seq'
    BY <2>2, <1>n, <1>z, BacklogAssumption
  <2>7. BufferInv'
    <3>1. \A j \in cur_message_seq'..(next_message_seq' - 1) :
             buffer'[j % MAX_BUFFER_SIZE] = Sized(j)'
      BY <2>3, <2>4
    <3>2. next_message_seq' = Len(sent')
          /\ msg_buffer_num' = next_message_seq' - cur_message_seq'
          /\ cur_message_seq' <= next_message_seq'
          /\ cur_message_seq' # next_message_seq'
      BY <2>2, <1>s, <1>n, <1>z
    <3>3. cursor_sender' = 0 \/ cursor_sender' >= MAX_PAYLOAD_SIZE
      BY DEF IndInv, BufferInv
    <3> QED BY <3>1, <3>2, <3>3, <2>5, <2>6 DEF BufferInv
  <2>8. SenderTypeOK'
    <3>1. /\ buffer' = [i \in 0..(MAX_BUFFER_SIZE - 1) |-> buffer'[i]]
          /\ \A i \in 0..(MAX_BUFFER_SIZE - 1) : IsMessage(buffer'[i])
      BY <2>1, <2>2, <1>w, <1>t DEF SenderTypeOK
    <3>2. next_message_seq' \in Nat /\ msg_buffer_num' \in Nat
      BY <2>2, <1>n, <1>z
    <3> QED BY <3>1, <3>2, <1>t DEF SenderTypeOK
  <2> QED BY <2>7, <2>8
<1>k. \A k : Pkt(k)' = Pkt(k) /\ MsgOf(k)' = MsgOf(k) /\ OffOf(k)' = OffOf(k)
  BY DEF Pkt, MsgOf, OffOf
<1>4. StreamInv'
  <2>1. ASSUME NEW k \in 0..(pkt_seq - 1), NEW j, j = MsgOf(k), NEW q, q = OffOf(k)
        PROVE  /\ j \in 0..cur_message_seq
               /\ j < next_message_seq'
               /\ q \in Nat
               /\ q < Sized(j)'.size
               /\ q = 0 \/ q >= MAX_PAYLOAD_SIZE
               /\ Pkt(k) = DataPacket(k, Chunk(j, q)', Sized(j)'.data, q)
               /\ MsgOf(k + 1) = MsgAfter(j, q)'
               /\ OffOf(k + 1) = OffAfter(j, q)'
    <3>1. /\ j \in 0..cur_message_seq
          /\ j < next_message_seq
          /\ q \in Nat
          /\ q < Sized(j).size
          /\ q = 0 \/ q >= MAX_PAYLOAD_SIZE
          /\ Pkt(k) = DataPacket(k, Chunk(j, q), Sized(j).data, q)
          /\ MsgOf(k + 1) = MsgAfter(j, q)
          /\ OffOf(k + 1) = OffAfter(j, q)
      BY <2>1 DEF IndInv, StreamInv
    <3>2. j \in 0..(z - 1) /\ j < next_message_seq'
      BY <3>1, <1>n, <1>z, <1>0 DEF Sender_FromUpperLayer
    <3>3. Sized(j)' = Sized(j)
      BY <3>2, <1>d
    <3>4. Chunk(j, q)' = Chunk(j, q) /\ MsgAfter(j, q)' = MsgAfter(j, q)
          /\ OffAfter(j, q)' = OffAfter(j, q)
      BY <3>3 DEF Chunk, MsgAfter, OffAfter
    <3> QED BY <3>1, <3>2, <3>3, <3>4
  <2>2. ASSUME NEW k \in 0..(pkt_seq' - 1)
        PROVE  /\ MsgOf(k)' \in 0..(cur_message_seq')
               /\ MsgOf(k)' < next_message_seq'
               /\ OffOf(k)' \in Nat
               /\ OffOf(k)' < Sized(MsgOf(k))'.size
               /\ OffOf(k)' = 0 \/ OffOf(k)' >= MAX_PAYLOAD_SIZE
               /\ Pkt(k)' = DataPacket(k, Chunk(MsgOf(k), OffOf(k))',
                                       Sized(MsgOf(k))'.data, OffOf(k)')
               /\ MsgOf(k + 1)' = MsgAfter(MsgOf(k), OffOf(k))'
               /\ OffOf(k + 1)' = OffAfter(MsgOf(k), OffOf(k))'
    <3>1. PICK j, q : j = MsgOf(k) /\ q = OffOf(k) /\ j = MsgOf(k)' /\ q = OffOf(k)'
      BY <1>k
    <3> QED BY <2>1, <3>1, <1>k
  <2> QED BY <2>2, <1>k DEF IndInv, StreamInv
<1>5. WindowInv'
  BY DEF IndInv, WindowInv, WindowIntact
<1>6. ServicesTypeOK'
  <2>1. sender_timer' \in BOOLEAN
    BY <1>0, <1>t DEF Sender_FromUpperLayer, Sender_StartTimer, TypeOK, ServicesTypeOK
  <2>2. gen_cnt' \in 0..9 /\ tot_chars_sent' \in Nat
    <3>1. tot + size \in Nat
      BY <1>z, <1>m
    <3>2. (tot + size) % 10 \in 0..9
      BY <3>1
    <3> QED BY <3>1, <3>2, <1>c
  <2>3. \A k \in DOMAIN sent' : IsMessage(sent'[k]) /\ sent'[k].size > 0
    <3>1. \A k \in 1..z : IsMessage(sent[k]) /\ sent[k].size > 0
      BY <1>t, <1>z DEF TypeOK, ServicesTypeOK, IndInv, SourceInv
    <3>2. \A k \in 1..(z + 1) : k \in 1..z \/ k = z + 1
      BY <1>z
    <3> QED BY <3>1, <3>2, <1>s, <1>w
  <2>4. Len(sent') <= MaxMsgs
    BY <1>s, <1>n
  <2> QED BY <2>1, <2>2, <2>3, <2>4, <1>a, <1>n, <1>t DEF TypeOK, ServicesTypeOK
<1>7. TimerInv' /\ FinalInv'
  <2>1. /\ ack = NoAck /\ next_packet_to_send = pkt_seq
        /\ sender_timer <=> ack_expected < pkt_seq
        /\ ~sender_timer => cur_message_seq = next_message_seq
    BY <1>n DEF IndInv, TimerInv
  <2>2. CASE sender_timer
    <3>1. sender_timer' = sender_timer /\ ctl' = "main"
      BY <2>2, <1>0, <1>n DEF Sender_FromUpperLayer, Sender_isTimerSet
    <3> QED BY <2>1, <2>2, <3>1 DEF TimerInv, FinalInv
  <2>3. CASE ~sender_timer
    <3>1. sender_timer' = TRUE /\ ctl' = "construct"
      BY <2>3, <1>0 DEF Sender_FromUpperLayer, Sender_isTimerSet, Sender_StartTimer
    <3>2. MorePackets'
      <4>1. ~(ack_expected < pkt_seq)
        BY <2>1, <2>3
      <4>2. pkt_window_num = 0
        BY <4>1, <1>t DEF IndInv, WindowInv, SenderTypeOK
      <4>3. cur_message_seq' < next_message_seq'
        BY <1>n, <1>z, <1>0 DEF Sender_FromUpperLayer
      <4> QED BY <4>2, <4>3, SenderAssumption DEF MorePackets
    <3> QED BY <2>1, <3>1, <3>2 DEF TimerInv, FinalInv
  <2> QED BY <2>2, <2>3
<1>8. LinkInv'
  BY DEF IndInv, LinkInv, Pkt
<1>9. ReceiverInv' /\ ReceiverTypeOK'
  <2>1. cursor > 0 => sent'[Len(delivered) + 1] = sent[Len(delivered) + 1]
    <3>1. SUFFICES ASSUME cursor > 0 PROVE Len(delivered) + 1 \in 1..z
      BY <1>s
    <3> QED BY <3>1, <1>z, ReceiverPosition
  <2>2. ReceiverTypeOK'
    BY <1>t DEF TypeOK, ReceiverTypeOK
  <2>3. ReceiverInv'
    BY <2>1, <1>n DEF IndInv, ReceiverInv, MsgOf, OffOf, Pkt
  <2> QED BY <2>2, <2>3
<1> QED BY <1>1, <1>2, <1>3, <1>4, <1>5, <1>6, <1>7, <1>8, <1>9 DEF IndInv, TypeOK

(* The packet consumed continues message d where the receiver stopped: the *)
(* bytes put together so far are the first bytes of that message.          *)
LEMMA CopyFacts ==
    ASSUME IndInv, ReceiverStep, NEW d, d = Len(delivered), NEW k, k = CursorAfterCopy,
           NEW C, C = CopiedMessage, NEW off, off = OffOf(expected)
    PROVE  /\ d \in 0..(Len(sent) - 1) /\ MsgOf(expected) = d
           /\ IsMessage(C) /\ C.size = sent[d + 1].size
           /\ k \in 1..C.size
           /\ \A i \in 0..(k - 1) : C.data[i] = sent[d + 1].data[i]
           /\ k = C.size => MsgAfter(d, off) = d + 1 /\ OffAfter(d, off) = 0
           /\ k # C.size => MsgAfter(d, off) = d /\ OffAfter(d, off) = k + SizeofInt
<1>t. ctl = "consume" /\ TypeOK
  BY DEF ReceiverStep, Receiver_Consume, IndInv
<1>x. /\ expected \in 0..(pkt_seq - 1) /\ rpkt = Pkt(expected)
      /\ MsgOf(expected) = d
      /\ off = (IF cursor = 0 THEN 0 ELSE cursor + SizeofInt)
      /\ cursor \in Nat /\ IsMessage(cur_msg)
  BY <1>t DEF IndInv, ReceiverInv, TypeOK, ReceiverTypeOK, SenderTypeOK
<1>d. d \in 0..(Len(sent) - 1)
  BY <1>x, ReceiverPosition, <1>t DEF TypeOK, SenderTypeOK
<1>s. PICK S, M, s, r, n, c : /\ S = sent[d + 1] /\ M = Sized(d) /\ s = S.size
                             /\ r = rpkt /\ n = r.size /\ c = cursor
  OBVIOUS
<1>m. /\ IsMessage(S) /\ s \in Nat \ {0}
      /\ IsMessage(M) /\ M.size = s + SizeofInt
      /\ M.data[0] = s
      /\ \A i \in 0..(s - 1) : M.data[SizeofInt + i] = S.data[i]
  BY <1>s, <1>d, SizedMessages DEF IndInv
<1>o. off \in Nat /\ off < M.size
  <2>1. OffOf(expected) \in Nat /\ OffOf(expected) < Sized(MsgOf(expected)).size
    BY <1>x DEF IndInv, StreamInv
  <2> QED BY <2>1, <1>x, <1>s
<1>p. /\ IsDataPacket(r) /\ n = Chunk(d, off)
      /\ \A i \in 0..(n - 1) : r.payload[i] = M.data[off + i]
  <2>1. PICK x : x = expected /\ x \in 0..(pkt_seq - 1)
    BY <1>x
  <2>2. /\ IsDataPacket(Pkt(x)) /\ Pkt(x).size = Chunk(MsgOf(x), OffOf(x))
        /\ \A i \in 0..(Pkt(x).size - 1) :
              Pkt(x).payload[i] = Sized(MsgOf(x)).data[OffOf(x) + i]
    BY <2>1, MadePackets
  <2>3. Pkt(x) = r /\ MsgOf(x) = d /\ OffOf(x) = off /\ Sized(MsgOf(x)) = M
    BY <2>1, <1>x, <1>s
  <2> QED BY <2>2, <2>3, <1>s
<1>n. /\ n \in 1..MAX_PAYLOAD_SIZE
      /\ M.size - off > MAX_PAYLOAD_SIZE => n = MAX_PAYLOAD_SIZE
      /\ ~(M.size - off > MAX_PAYLOAD_SIZE) => n = M.size - off
      /\ MAX_PAYLOAD_SIZE \in Nat /\ SizeofInt \in Nat \ {0} /\ MAX_PAYLOAD_SIZE > SizeofInt
  BY <1>p, <1>s, <1>o, <1>m, PayloadAssumption DEF Chunk
<1>k. k = off + n - SizeofInt /\ k \in 1..s
  <2>0. s \in Nat \ {0} /\ M.size = s + SizeofInt /\ n <= M.size - off
    BY <1>m, <1>n, <1>o
  <2>1. CASE c = 0
    <3>1. off = 0 /\ k = n - SizeofInt
      BY <2>1, <1>x, <1>s DEF CursorAfterCopy
    <3>2. n > SizeofInt
      BY <3>1, <2>0, <1>n
    <3> QED BY <3>1, <3>2, <2>0, <1>n
  <2>2. CASE c # 0
    <3>1. off = c + SizeofInt /\ k = c + n /\ c \in Nat
      BY <2>2, <1>x, <1>s DEF CursorAfterCopy
    <3> QED BY <3>1, <2>0, <1>n
  <2> QED BY <2>1, <2>2
<1>1. IsMessage(C) /\ C.size = s /\ \A i \in 0..(k - 1) : C.data[i] = S.data[i]
  <2>1. CASE c = 0
    <3>1. off = 0 /\ k = n - SizeofInt
      BY <2>1, <1>x, <1>s, <1>k, <1>n
    <3>2. r.payload[0] = s
      <4>1. 0 \in 0..(n - 1) /\ off + 0 = 0
        BY <3>1, <1>n
      <4> QED BY <4>1, <1>p, <1>m
    <3>3. C = [size |-> s, data |-> [i \in 0..(s - 1) |->
                 IF i < n - SizeofInt THEN r.payload[SizeofInt + i] ELSE Uninit]]
      BY <2>1, <3>2, <1>s DEF CopiedMessage
    <3>4. ASSUME NEW i \in 0..(s - 1), i < n - SizeofInt
          PROVE  r.payload[SizeofInt + i] = S.data[i]
      <4>1. SizeofInt + i \in 0..(n - 1) /\ off + (SizeofInt + i) = SizeofInt + i
        BY <3>1, <3>4, <1>n, <1>m
      <4> QED BY <4>1, <1>p, <1>m
    <3>5. C.size = s /\ C = [size |-> C.size, data |-> C.data]
          /\ C.data = [i \in 0..(s - 1) |->
                 IF i < n - SizeofInt THEN r.payload[SizeofInt + i] ELSE Uninit]
      BY <3>3
    <3>6. ASSUME NEW i \in 0..(s - 1) PROVE C.data[i] \in Int
      <4>1. S.data[i] \in Int
        BY <1>m, <1>s DEF IsMessage
      <4>2. CASE i < n - SizeofInt
        BY <4>1, <4>2, <3>4, <3>5
      <4>3. CASE ~(i < n - SizeofInt)
        BY <4>3, <3>5 DEF Uninit
      <4> QED BY <4>2, <4>3
    <3>7. \A i \in 0..(k - 1) : i \in 0..(s - 1) /\ i < n - SizeofInt
      BY <3>1, <1>k, <1>n, <1>m
    <3> QED BY <3>4, <3>5, <3>6, <3>7, <1>m DEF IsMessage
  <2>2. CASE c # 0
    <3>1. off = c + SizeofInt /\ k = c + n /\ c \in Nat
      BY <2>2, <1>x, <1>s, <1>k, <1>n
    <3>2. /\ cur_msg.size = s
          /\ \A i \in 0..(c - 1) : cur_msg.data[i] = S.data[i]
      BY <2>2, <3>1, <1>s DEF IndInv, ReceiverInv
    <3>3. /\ C.size = s /\ C = [size |-> C.size, data |-> C.data]
          /\ C.data = [i \in 0..(s - 1) |->
                 IF c <= i /\ i < c + n THEN r.payload[i - c] ELSE cur_msg.data[i]]
      BY <2>2, <3>2, <1>s, <1>x DEF CopiedMessage, IsMessage
    <3>4. ASSUME NEW i \in 0..(s - 1), c <= i, i < c + n
          PROVE  r.payload[i - c] = S.data[i]
      <4>1. i - c \in 0..(n - 1) /\ off + (i - c) = SizeofInt + i
        BY <3>1, <3>4, <1>n, <1>m
      <4> QED BY <4>1, <1>p, <1>m
    <3>5. \A i \in 0..(s - 1) : cur_msg.data[i] \in Int /\ S.data[i] \in Int
      BY <3>2, <1>x, <1>m, <1>s DEF IsMessage
    <3>6. \A i \in 0..(s - 1) : C.data[i] \in Int
      BY <3>3, <3>4, <3>5
    <3>7. ASSUME NEW i \in 0..(k - 1)
          PROVE  i \in 0..(s - 1) /\ (i \in 0..(c - 1) \/ (c <= i /\ i < c + n))
      <4>1. k \in Nat /\ s \in Nat /\ k <= s /\ n \in Nat
        BY <1>k, <1>m, <1>n
      <4> QED BY <4>1, <3>1
    <3>8. ASSUME NEW i \in 0..(k - 1) PROVE C.data[i] = S.data[i]
      <4>1. CASE i \in 0..(c - 1)
        BY <4>1, <3>1, <3>2, <3>3, <3>7
      <4>2. CASE c <= i /\ i < c + n
        BY <4>2, <3>3, <3>4, <3>7
      <4> QED BY <4>1, <4>2, <3>7
    <3> QED BY <3>3, <3>6, <3>8, <1>m DEF IsMessage
  <2> QED BY <2>1, <2>2
<1>2. /\ k = s => MsgAfter(d, off) = d + 1 /\ OffAfter(d, off) = 0
      /\ k # s => MsgAfter(d, off) = d /\ OffAfter(d, off) = k + SizeofInt
  <2>1. k = s <=> ~(M.size - off > MAX_PAYLOAD_SIZE)
    BY <1>k, <1>n, <1>m, <1>o
  <2> QED BY <2>1, <1>s, <1>k, <1>n, <1>m, <1>o, SMTT(20) DEF MsgAfter, OffAfter
<1> QED BY <1>1, <1>2, <1>d, <1>x, <1>k, <1>s

(* An iteration of the loop of Receiver_FromLowerLayer preserves the       *)
(* invariant.                                                              *)
LEMMA ConsumeStep ==
    ASSUME IndInv, ReceiverStep
    PROVE  IndInv'
<1>0. PICK x, d, k, C, off, z :
         /\ x = expected /\ d = Len(delivered) /\ k = CursorAfterCopy
         /\ C = CopiedMessage /\ off = OffOf(expected) /\ z = Len(sent)
  OBVIOUS
<1>t. TypeOK /\ ctl = "consume"
  BY DEF IndInv, ReceiverStep, Receiver_Consume
<1>c. /\ d \in 0..(z - 1) /\ MsgOf(x) = d /\ OffOf(x) = off
      /\ IsMessage(C) /\ C.size = sent[d + 1].size
      /\ k \in 1..C.size
      /\ \A i \in 0..(k - 1) : C.data[i] = sent[d + 1].data[i]
      /\ k = C.size => MsgAfter(d, off) = d + 1 /\ OffAfter(d, off) = 0
      /\ k # C.size => MsgAfter(d, off) = d /\ OffAfter(d, off) = k + SizeofInt
  BY <1>0, CopyFacts
<1>n. /\ x \in Nat /\ x < pkt_seq /\ pkt_seq \in Nat /\ z \in Nat /\ expected = x
      /\ ack_expected \in Nat /\ ack_expected <= x /\ rpkt.seq = x
      /\ C.size \in Nat \ {0}
  <2>1. x \in Nat /\ x < pkt_seq /\ pkt_seq \in Nat /\ rpkt = Pkt(x) /\ ack_expected \in Nat
        /\ ack_expected <= x
    BY <1>0, <1>t DEF IndInv, ReceiverInv, LinkInv, TypeOK, ReceiverTypeOK, SenderTypeOK
  <2>2. x \in 0..(pkt_seq - 1)
    BY <2>1
  <2>3. rpkt.seq = x
    BY <2>1, <2>2, MadePackets
  <2> QED BY <2>1, <2>3, <1>0, <1>c, ReceiverPosition DEF IsMessage
<1>u. UNCHANGED <<toReceiver, sender_timer, sourceVars, senderVars, window>>
  BY DEF ReceiverStep, Receiver_Consume
<1>e. expected' = x + 1 /\ cur_msg' = C /\ ctl' \in {"consume", "main"}
  BY <1>0, <1>t DEF ReceiverStep, Receiver_Consume
<1>1. SourceInv' /\ BufferInv' /\ StreamInv'
  BY <1>u, SameStream DEF senderVars, windowVars
<1>q. \A j : Pkt(j)' = Pkt(j) /\ MsgOf(j)' = MsgOf(j) /\ OffOf(j)' = OffOf(j)
  BY <1>u, SameStream DEF senderVars, windowVars
<1>a. MsgOf(x + 1) = MsgAfter(d, off) /\ OffOf(x + 1) = OffAfter(d, off)
  <2>1. x \in 0..(pkt_seq - 1)
    BY <1>n
  <2> QED BY <2>1, <1>c DEF IndInv, StreamInv
<1> USE <1>u DEF sourceVars, senderVars, bufferVars, windowVars
<1>2. WindowInv'
  BY DEF IndInv, WindowInv, WindowIntact
<1>3. SenderTypeOK'
  BY <1>t DEF TypeOK, SenderTypeOK
<1>4. TimerInv' /\ FinalInv'
  BY <1>t, <1>e DEF IndInv, TimerInv, FinalInv
<1>s. BagToSet(toSender') \subseteq BagToSet(toSender) \cup {AckPacket(x), Garbage}
  <2>1. toSender' = toSender \/ toSender' \in Transmit(toSender, AckPacket(x))
    BY <1>n DEF ReceiverStep, Receiver_Consume, Receiver_Ack, Receiver_ToLowerLayer
  <2> QED BY <2>1, TransmitMembers
<1>5. IsAckPacket(AckPacket(x)) /\ AckPacket(x).ack = x
  BY <1>n DEF AckPacket, IsAckPacket
<1>6. LinkInv'
  <2>1. ASSUME NEW p \in BagToSet(toSender'), p # Garbage
        PROVE  p = AckPacket(p.ack) /\ p.ack \in -1..x
    <3>1. CASE p = AckPacket(x)
      BY <3>1, <1>5, <1>n
    <3>2. CASE p \in BagToSet(toSender)
      <4>1. p = AckPacket(p.ack) /\ p.ack \in -1..(x - 1)
        BY <2>1, <3>2, <1>n DEF IndInv, LinkInv
      <4> QED BY <4>1, <1>n
    <3> QED BY <2>1, <3>1, <3>2, <1>s
  <2>2. ack_expected' <= expected' /\ expected' <= pkt_seq' /\ expected' - 1 = x
    BY <1>n, <1>e
  <2> QED BY <2>1, <2>2 DEF IndInv, LinkInv, Pkt
<1>7. \A i \in 0..(C.size - 1) : k = C.size => C.data[i] = sent[d + 1].data[i]
  BY <1>c, <1>n
<1>8. k = C.size => C = sent[d + 1]
  <2>1. SUFFICES ASSUME k = C.size PROVE C = sent[d + 1]
    OBVIOUS
  <2>2. IsMessage(sent[d + 1])
    BY <1>0, <1>c, SizedMessages DEF IndInv
  <2>3. \A i \in 0..(C.size - 1) : C.data[i] = sent[d + 1].data[i]
    BY <2>1, <1>7
  <2>4. IsMessage(C) /\ C.size = sent[d + 1].size
    BY <1>c
  <2> QED BY <2>2, <2>3, <2>4, SameMessage
<1>9. /\ k = C.size => Receiver_ToUpperLayer(C) /\ cursor' = 0
      /\ k # C.size => UNCHANGED sinkVars /\ cursor' = k
  BY <1>0 DEF ReceiverStep, Receiver_Consume
<1>10. /\ d + 1 \in 1..z /\ sent[d + 1].size = C.size
       /\ sent[d + 1].size + starts[d + 1] =
            (IF d + 1 = z THEN tot_chars_sent ELSE starts[d + 2])
       /\ \A i \in 0..(C.size - 1) : sent[d + 1].data[i] = (starts[d + 1] + i) % 10
       /\ starts[d + 1] \in Nat
       /\ tot_chars_delivered = starts[d + 1]
       /\ ver_cnt = tot_chars_delivered % 10
  <2>1. d + 1 \in 1..z /\ d + 1 + 1 = d + 2 /\ d # z
    BY <1>c, <1>n
  <2>2. starts[d + 1] \in Nat
    BY <2>1, <1>0, SMTT(20) DEF IndInv, SourceInv
  <2>3. tot_chars_delivered = starts[d + 1] /\ ver_cnt = tot_chars_delivered % 10
    BY <2>1, <1>0 DEF IndInv, SinkInv
  <2> QED BY <2>1, <2>2, <2>3, <1>0, <1>c DEF IndInv, SourceInv
<1>11. SinkInv' /\ Len(delivered') = (IF k = C.size THEN d + 1 ELSE d)
  <2>1. CASE k = C.size
    <3>1. PICK S : S = {sent[j] : j \in DOMAIN sent}
      OBVIOUS
    <3>2. delivered \in Seq(S) /\ C \in S
      <4>1. d + 1 \in DOMAIN sent
        BY <1>0, <1>10 DEF IndInv, SourceInv
      <4> QED BY <2>1, <3>1, <4>1, <1>8 DEF IndInv, SinkInv
    <3>3. delivered' = Append(delivered, C)
      BY <2>1, <1>9 DEF Receiver_ToUpperLayer
    <3>4. /\ delivered' \in Seq(S) /\ Len(delivered') = d + 1
          /\ \A j \in 1..d : delivered'[j] = delivered[j]
          /\ delivered'[d + 1] = C
      BY <3>2, <3>3, <1>0
    <3>5. DeliveredPrefix'
      <4>1. \A j \in 1..(d + 1) : j \in 1..d \/ j = d + 1
        BY <1>c, <1>n
      <4>2. \A j \in 1..d : delivered[j] = sent[j]
        BY <1>0 DEF IndInv, SinkInv, DeliveredPrefix
      <4>3. d + 1 <= Len(sent)
        BY <1>0, <1>10, <1>n
      <4> QED BY <2>1, <3>4, <4>1, <4>2, <4>3, <1>8 DEF DeliveredPrefix
    <3>6. message_verfication_passed' = TRUE
      <4>1. ASSUME NEW i \in 0..(C.size - 1) PROVE C.data[i] = (ver_cnt + i) % 10
        <5>1. (ver_cnt + i) % 10 = (starts[d + 1] + i) % 10
          BY <1>10
        <5> QED BY <5>1, <2>1, <1>8, <1>10
      <4>2. message_verfication_passed = TRUE
        BY DEF IndInv, SinkInv
      <4> QED BY <4>1, <4>2, <2>1, <1>9 DEF Receiver_ToUpperLayer
    <3>7. tot_chars_delivered' = (IF d + 1 = z THEN tot_chars_sent ELSE starts[d + 2])
      <4>1. tot_chars_delivered' = tot_chars_delivered + C.size
        BY <2>1, <1>9 DEF Receiver_ToUpperLayer
      <4> QED BY <4>1, <1>10, <1>n
    <3>8. ver_cnt' = tot_chars_delivered' % 10
      <4>1. ver_cnt' = (ver_cnt + C.size) % 10
            /\ tot_chars_delivered' = tot_chars_delivered + C.size
        BY <2>1, <1>9 DEF Receiver_ToUpperLayer
      <4>2. ver_cnt = tot_chars_delivered % 10 /\ tot_chars_delivered \in Nat
            /\ C.size \in Nat
        BY <1>10, <1>n
      <4> QED BY <4>1, <4>2
    <3>9. d + 1 + 1 = d + 2
      BY <1>c, <1>n
    <3> QED BY <2>1, <3>1, <3>4, <3>5, <3>6, <3>7, <3>8, <3>9, <1>0 DEF SinkInv
  <2>2. CASE k # C.size
    BY <2>2, <1>0, <1>9 DEF IndInv, SinkInv, DeliveredPrefix, sinkVars
  <2> QED BY <2>1, <2>2
<1>12. ServicesTypeOK'
  <2>1. \A p \in BagToSet(toSender') : p = Garbage \/ IsAckPacket(p)
    BY <1>s, <1>5, <1>t DEF TypeOK, ServicesTypeOK
  <2>2. /\ message_verfication_passed' \in BOOLEAN
        /\ tot_chars_delivered' \in Nat /\ ver_cnt' \in 0..9
        /\ \A j \in DOMAIN delivered' : IsMessage(delivered'[j])
    <3>1. CASE k = C.size
      <4>1. message_verfication_passed' = TRUE
        BY <1>11 DEF SinkInv
      <4>2. tot_chars_delivered' \in Nat
        BY <3>1, <1>9, <1>n, <1>t DEF Receiver_ToUpperLayer, TypeOK, ServicesTypeOK
      <4>3. ver_cnt' \in 0..9
        <5>1. ver_cnt' = tot_chars_delivered' % 10
          BY <1>11 DEF SinkInv
        <5>2. \A t \in Nat : t % 10 \in 0..9
          OBVIOUS
        <5> QED BY <4>2, <5>1, <5>2
      <4>4. ASSUME NEW j \in DOMAIN delivered' PROVE IsMessage(delivered'[j])
        <5>1. j \in 1..Len(delivered') /\ delivered'[j] = sent[j] /\ j \in 1..Len(sent)
          BY <1>11 DEF SinkInv, DeliveredPrefix
        <5>2. j \in DOMAIN sent
          BY <5>1 DEF IndInv, SourceInv
        <5> QED BY <5>1, <5>2, <1>t DEF TypeOK, ServicesTypeOK
      <4> QED BY <4>1, <4>2, <4>3, <4>4
    <3>2. CASE k # C.size
      BY <3>2, <1>9, <1>t DEF sinkVars, TypeOK, ServicesTypeOK
    <3> QED BY <3>1, <3>2
  <2> QED BY <2>1, <2>2, <1>e, <1>t DEF TypeOK, ServicesTypeOK
<1>13. PICK y : y = (x + 1) % WINDOWS_SIZE /\ y \in 0..(WINDOWS_SIZE - 1)
  <2>1. x + 1 \in Nat
    BY <1>n
  <2> QED BY <2>1, ModRange, ReceiverAssumption
<1>14. \/ /\ valid_checks[y] /\ rpkt' = window[y]
          /\ valid_checks' = [valid_checks EXCEPT ![y] = FALSE] /\ ctl' = "consume"
       \/ ~valid_checks[y] /\ rpkt' = Garbage /\ ctl' = "main" /\ valid_checks' = valid_checks
  BY <1>0, <1>13, <1>t DEF ReceiverStep, Receiver_Consume
<1>15. ASSUME NEW i \in 0..(WINDOWS_SIZE - 1), valid_checks[i], NEW p, p = window[i]
       PROVE  /\ p.seq \in (x + 1)..(x + WINDOWS_SIZE - 1)
              /\ p.seq % WINDOWS_SIZE = i /\ p.seq < pkt_seq /\ p = Pkt(p.seq)
              /\ i = y <=> p.seq = x + 1
  <2>1. /\ p.seq \in (x + 1)..(x + WINDOWS_SIZE - 1)
        /\ p.seq % WINDOWS_SIZE = i /\ p.seq < pkt_seq /\ p = Pkt(p.seq)
    BY <1>15, <1>n DEF IndInv, ReceiverInv
  <2>2. CASE p.seq = x + 1
    BY <2>1, <2>2, <1>13
  <2>3. CASE p.seq # x + 1
    <3>1. x + 1 \in Nat /\ p.seq \in Nat /\ x + 1 < p.seq /\ p.seq - (x + 1) < WINDOWS_SIZE
      BY <2>1, <2>3, <1>n, ReceiverAssumption
    <3>2. (x + 1) % WINDOWS_SIZE # p.seq % WINDOWS_SIZE
      BY <3>1, ModDistinct, ReceiverAssumption
    <3> QED BY <2>1, <2>3, <3>2, <1>13
  <2> QED BY <2>1, <2>2, <2>3
<1>16. ReceiverTypeOK'
  <2>1. cursor' \in Nat /\ expected' \in Nat
    BY <1>9, <1>e, <1>n, <1>c
  <2>2. rpkt' = Garbage \/ IsDataPacket(rpkt')
    BY <1>13, <1>14, <1>t DEF TypeOK, ReceiverTypeOK
  <2>3. valid_checks' \in [0..(WINDOWS_SIZE - 1) -> BOOLEAN]
    BY <1>13, <1>14, <1>t DEF TypeOK, ReceiverTypeOK
  <2> QED BY <2>1, <2>2, <2>3, <1>c, <1>e, <1>t DEF TypeOK, ReceiverTypeOK
<1>17. ReceiverInv'
  <2>1. ASSUME NEW i \in 0..(WINDOWS_SIZE - 1), valid_checks'[i], NEW p, p = window[i]
        PROVE  /\ p.seq \in (x + 1 + 1)..(x + 1 + WINDOWS_SIZE - 1)
               /\ p.seq % WINDOWS_SIZE = i /\ p.seq < pkt_seq /\ p = Pkt(p.seq)
    <3>1. valid_checks[i] /\ i # y
      BY <2>1, <1>13, <1>14, <1>t DEF TypeOK, ReceiverTypeOK
    <3>2. /\ p.seq \in (x + 1)..(x + WINDOWS_SIZE - 1) /\ p.seq # x + 1
          /\ p.seq % WINDOWS_SIZE = i /\ p.seq < pkt_seq /\ p = Pkt(p.seq)
      BY <2>1, <3>1, <1>15
    <3>3. p.seq \in (x + 1 + 1)..(x + 1 + WINDOWS_SIZE - 1)
      BY <3>2, <1>n, ReceiverAssumption
    <3> QED BY <3>2, <3>3
  <2>2. ASSUME NEW i \in 0..(WINDOWS_SIZE - 1), valid_checks'[i]
        PROVE  /\ window'[i].seq \in (expected' + 1)..(expected' + WINDOWS_SIZE - 1)
               /\ window'[i].seq % WINDOWS_SIZE = i
               /\ window'[i].seq < pkt_seq'
               /\ window'[i] = Pkt(window[i].seq)'
    <3>1. PICK p : p = window[i] /\ p = window'[i]
      OBVIOUS
    <3>2. Pkt(window[i].seq)' = Pkt(p.seq)
      BY <3>1, <1>q DEF Pkt
    <3> QED BY <2>1, <2>2, <3>1, <3>2, <1>e
  <2>3. ctl' = "consume" => expected' < pkt_seq' /\ rpkt' = Pkt(expected)'
    <3>1. SUFFICES ASSUME ctl' = "consume" PROVE expected' < pkt_seq /\ rpkt' = Pkt(expected)'
      OBVIOUS
    <3>2. valid_checks[y] /\ rpkt' = window[y]
      BY <3>1, <1>14
    <3>3. PICK p : p = window[y]
      OBVIOUS
    <3>4. p.seq = x + 1 /\ p.seq < pkt_seq /\ p = Pkt(p.seq)
      BY <3>2, <3>3, <1>13, <1>15
    <3>5. Pkt(expected)' = Pkt(x + 1)
      BY <1>e DEF Pkt
    <3> QED BY <3>2, <3>3, <3>4, <3>5, <1>e
  <2>4. MsgOf(expected)' = MsgOf(x + 1) /\ OffOf(expected)' = OffOf(x + 1)
    BY <1>e DEF MsgOf, OffOf
  <2>5. Len(delivered') = MsgOf(expected)'
    BY <2>4, <1>a, <1>c, <1>11
  <2>6. OffOf(expected)' = (IF cursor' = 0 THEN 0 ELSE cursor' + SizeofInt)
    BY <2>4, <1>a, <1>c, <1>9, <1>n
  <2>7. cursor' > 0 =>
          /\ cursor' < cur_msg'.size
          /\ cur_msg'.size = sent'[Len(delivered') + 1].size
          /\ \A i \in 0..(cursor' - 1) :
                cur_msg'.data[i] = sent'[Len(delivered') + 1].data[i]
    <3>1. SUFFICES ASSUME cursor' > 0, k # C.size
                   PROVE  /\ k < C.size
                          /\ C.size = sent[d + 1].size
                          /\ \A i \in 0..(k - 1) : C.data[i] = sent[d + 1].data[i]
      BY <1>9, <1>11, <1>e
    <3> QED BY <3>1, <1>c, <1>n
  <2> QED BY <2>2, <2>3, <2>5, <2>6, <2>7 DEF ReceiverInv
<1> QED BY <1>1, <1>2, <1>3, <1>4, <1>6, <1>11, <1>12, <1>16, <1>17 DEF IndInv, TypeOK

-----------------------------------------------------------------------------
(* So does a step that changes nothing.                                    *)
LEMMA StutterStep ==
    ASSUME IndInv, UNCHANGED vars
    PROVE  IndInv'
<1>u. UNCHANGED <<sourceVars, sinkVars, bufferVars, windowVars, receiverVars, linkVars,
                  next_packet_to_send, ack_expected, ack, sender_timer, ctl>>
  BY DEF vars, serviceVars, senderVars
<1>1. SourceInv' /\ BufferInv' /\ StreamInv'
  BY <1>u, SameStream DEF windowVars
<1> USE <1>u DEF sourceVars, sinkVars, bufferVars, windowVars, receiverVars, linkVars
<1>2. SinkInv' /\ WindowInv' /\ FinalInv'
  BY DEF IndInv, SinkInv, DeliveredPrefix, WindowInv, WindowIntact, FinalInv
<1>3. ReceiverInv' /\ LinkInv'
  BY DEF IndInv, ReceiverInv, LinkInv, MsgOf, OffOf, Pkt
<1>4. TimerInv'
  BY DEF IndInv, TimerInv, MorePackets
<1>5. ServicesTypeOK'
  BY DEF IndInv, TypeOK, ServicesTypeOK
<1>6. SenderTypeOK' /\ ReceiverTypeOK'
  BY DEF IndInv, TypeOK, SenderTypeOK, ReceiverTypeOK
<1> QED BY <1>1, <1>2, <1>3, <1>4, <1>5, <1>6 DEF IndInv, TypeOK

(* The invariant is inductive when the upper layer leaves at most as many  *)
(* messages unprocessed as the buffer has slots.                           *)
THEOREM Invariance ==
    ASSUME MaxBacklog <= MAX_BUFFER_SIZE
    PROVE  Spec => []IndInv
<1>1. Init => IndInv
  BY InitInv
<1>2. IndInv /\ [Next]_vars => IndInv'
  <2> SUFFICES ASSUME IndInv, [Next]_vars PROVE IndInv'
    OBVIOUS
  <2>1. CASE UpperLayerEvent
    BY <2>1, UpperLayerStep
  <2>2. CASE AckEvent
    BY <2>2, AckStep
  <2>3. CASE TimeoutEvent
    BY <2>3, TimeoutStep
  <2>4. CASE DataEvent
    BY <2>4, DataStep
  <2>5. CASE SenderStep
    <3>1. CASE Sender_ConstructPKT
      BY <2>5, <3>1, ConstructStep, ConstructExitStep
    <3>2. CASE Sender_SendPKT
      BY <2>5, <3>2, SendStep
    <3> QED BY <2>5, <3>1, <3>2 DEF SenderStep
  <2>6. CASE ReceiverStep
    BY <2>6, ConsumeStep
  <2>7. CASE Finish
    BY <2>7, FinishStep
  <2>8. CASE UNCHANGED vars
    BY <2>8, StutterStep
  <2> QED BY <2>1, <2>2, <2>3, <2>4, <2>5, <2>6, <2>7, <2>8 DEF Next, Terminated
<1> QED BY <1>1, <1>2, PTL DEF Spec

-----------------------------------------------------------------------------
(* What follows from the invariant.  Every theorem has the hypothesis      *)
(* MaxBacklog <= MAX_BUFFER_SIZE: the code overwrites the oldest message   *)
(* of a full buffer, and without it neither delivery nor the progress of   *)
(* Sender_ConstructPKT holds.                                              *)

(* No step gives any variable of the session a value it may not have.      *)
THEOREM TypeCorrect ==
    ASSUME MaxBacklog <= MAX_BUFFER_SIZE
    PROVE  Spec => []TypeOK
<1>1. IndInv => TypeOK
  BY DEF IndInv
<1> QED BY <1>1, Invariance, PTL

(* The receiver's upper layer is given the messages the sender was given:  *)
(* in order, once each, unchanged, under loss, corruption, reordering and  *)
(* timeouts at any moment.                                                 *)
THEOREM InOrderDelivery ==
    ASSUME MaxBacklog <= MAX_BUFFER_SIZE
    PROVE  Spec => []DeliveredPrefix
<1>1. IndInv => DeliveredPrefix
  BY DEF IndInv, SinkInv
<1> QED BY <1>1, Invariance, PTL

(* No unacknowledged packet is overwritten in windows.                     *)
THEOREM WindowSafe ==
    ASSUME MaxBacklog <= MAX_BUFFER_SIZE
    PROVE  Spec => []WindowIntact
<1>1. IndInv => WindowIntact
  BY DEF IndInv, WindowInv
<1> QED BY <1>1, Invariance, PTL

(* Between events the sender's timer runs exactly while a packet is        *)
(* unacknowledged, and no buffered message is forgotten without it.        *)
THEOREM TimerSafe ==
    ASSUME MaxBacklog <= MAX_BUFFER_SIZE
    PROVE  Spec => []TimerCovers
<1>1. IndInv => TimerCovers
  BY DEF IndInv, TimerInv, TimerCovers
<1> QED BY <1>1, Invariance, PTL

(* No acknowledgement, in flight or taken by the sender, is of a packet    *)
(* the receiver has not consumed.                                          *)
THEOREM AcksSafe ==
    ASSUME MaxBacklog <= MAX_BUFFER_SIZE
    PROVE  Spec => []AckSound
<1>1. ASSUME IndInv PROVE AckSound
  <2>1. ASSUME NEW p \in BagToSet(toSender), p.intact PROVE p.ack < expected
    <3>1. p # Garbage
      BY <2>1 DEF Garbage
    <3>2. p.ack \in -1..(expected - 1)
      BY <1>1, <3>1 DEF IndInv, LinkInv
    <3>3. expected \in Nat
      BY <1>1 DEF IndInv, TypeOK, ReceiverTypeOK
    <3> QED BY <3>2, <3>3
  <2>2. ack_expected <= expected /\ expected <= pkt_seq
    BY <1>1 DEF IndInv, LinkInv
  <2> QED BY <2>1, <2>2 DEF AckSound
<1> QED BY <1>1, Invariance, PTL

(* The receiver never copies past the end of the message it is putting     *)
(* together, and what it has copied is the beginning of the next message.  *)
THEOREM CopiesInBounds ==
    ASSUME MaxBacklog <= MAX_BUFFER_SIZE
    PROVE  Spec => []InBounds
<1>1. ASSUME IndInv PROVE InBounds
  <2>1. cursor \in Nat
    BY <1>1 DEF IndInv, TypeOK, ReceiverTypeOK
  <2>2. cursor > 0 => Len(delivered) < Len(sent)
    BY <1>1, ReceiverPosition DEF IndInv, ReceiverInv, TypeOK, ReceiverTypeOK
  <2> QED BY <1>1, <2>1, <2>2 DEF IndInv, ReceiverInv, InBounds
<1> QED BY <1>1, Invariance, PTL

(* The loop of Sender_ConstructPKT never runs without making a packet.     *)
THEOREM ConstructAdvances ==
    ASSUME MaxBacklog <= MAX_BUFFER_SIZE
    PROVE  Spec => []ConstructProgress
<1>1. ASSUME IndInv PROVE ConstructProgress
  <2> SUFFICES ASSUME MorePackets PROVE Rest > 0
    BY DEF ConstructProgress
  <2>1. cur_message_seq < next_message_seq /\ cur_message_seq \in Nat /\ next_message_seq \in Nat
    BY <1>1 DEF MorePackets, IndInv, TypeOK, SenderTypeOK
  <2>2. CurrentMessage = Sized(cur_message_seq)
    BY <1>1, <2>1 DEF IndInv, BufferInv, CurrentMessage
  <2>3. cursor_sender < Sized(cur_message_seq).size /\ cursor_sender \in Nat
    BY <1>1, <2>1 DEF IndInv, BufferInv, TypeOK, SenderTypeOK
  <2>4. Sized(cur_message_seq).size \in Nat
    <3>1. cur_message_seq \in 0..(Len(sent) - 1)
      BY <1>1, <2>1 DEF IndInv, BufferInv
    <3>2. IsMessage(Sized(cur_message_seq))
      BY <1>1, <3>1, SizedMessages DEF IndInv
    <3> QED BY <3>2 DEF IsMessage
  <2> QED BY <2>2, <2>3, <2>4 DEF Rest
<1> QED BY <1>1, Invariance, PTL

(* A session that ends has delivered every message and reports success.    *)
THEOREM SessionVerdict ==
    ASSUME MaxBacklog <= MAX_BUFFER_SIZE
    PROVE  Spec => []Verdict
<1>1. ASSUME IndInv PROVE Verdict
  <2> SUFFICES ASSUME ctl = "final"
               PROVE  /\ message_verfication_passed
                      /\ tot_chars_sent = tot_chars_delivered
                      /\ delivered = sent
    BY DEF Verdict
  <2>1. ~sender_timer
    BY <1>1 DEF IndInv, FinalInv
  <2>2. ~(ack_expected < pkt_seq) /\ cur_message_seq = next_message_seq
    BY <1>1, <2>1 DEF IndInv, TimerInv
  <2>3. expected = pkt_seq
    BY <1>1, <2>2 DEF IndInv, LinkInv, TypeOK, SenderTypeOK, ReceiverTypeOK
  <2>4. MsgOf(expected) = cur_message_seq
    BY <1>1, <2>3 DEF MsgOf, IndInv, TypeOK, SenderTypeOK
  <2>5. Len(delivered) = Len(sent)
    BY <1>1, <2>2, <2>4 DEF IndInv, ReceiverInv, BufferInv
  <2>6. delivered = sent
    <3>1. \A k \in 1..Len(delivered) : delivered[k] = sent[k]
      BY <1>1 DEF IndInv, SinkInv, DeliveredPrefix
    <3>2. /\ delivered \in Seq({sent[k] : k \in DOMAIN sent})
          /\ sent \in Seq({sent[k] : k \in DOMAIN sent})
      BY <1>1 DEF IndInv, SinkInv, SourceInv
    <3> QED BY <2>5, <3>1, <3>2, SameSequence
  <2>7. tot_chars_sent = tot_chars_delivered
    BY <1>1, <2>5 DEF IndInv, SinkInv
  <2>8. message_verfication_passed
    BY <1>1 DEF IndInv, SinkInv
  <2> QED BY <2>6, <2>7, <2>8
<1> QED BY <1>1, Invariance, PTL

-----------------------------------------------------------------------------
(* A message generate_msg builds is one the channel knows.                 *)
LEMMA GeneratedIsMessage ==
    ASSUME TypeOK, NEW size \in MessageSizes
    PROVE  GeneratedMessage(size) \in Messages
<1> DEFINE g == GeneratedMessage(size)
<1>1. size \in Nat /\ gen_cnt \in Nat
  BY ServicesAssumption DEF TypeOK, ServicesTypeOK
<1>2. \A i \in 0..(size - 1) : (gen_cnt + i) % 10 \in 0..9
  BY <1>1
<1>3. [i \in 0..(size - 1) |-> (gen_cnt + i) % 10] \in [0..(size - 1) -> 0..9]
  BY <1>2
<1>4. g \in [size : {size}, data : [0..(size - 1) -> 0..9]]
  BY <1>3 DEF GeneratedMessage
<1> QED BY <1>4 DEF Messages

(* A message event is a Send of the channel.                               *)
LEMMA UpperLayerSends ==
    ASSUME IndInv, UpperLayerEvent
    PROVE  Channel!Send
<1>1. PICK size \in MessageSizes : generate_msg(size)
  BY DEF UpperLayerEvent
<1>2. sent' = Append(sent, GeneratedMessage(size))
  BY <1>1 DEF generate_msg
<1>3. GeneratedMessage(size) \in Messages
  BY GeneratedIsMessage DEF IndInv
<1>4. Len(sent') = Len(sent) + 1
  BY <1>2, AppendFacts DEF IndInv, SourceInv
<1>5. UNCHANGED delivered
  BY DEF UpperLayerEvent, sinkVars
<1> QED BY <1>2, <1>3, <1>4, <1>5 DEF Channel!Send

(* A packet consumed is a Deliver of the channel, if it completes a        *)
(* message, and otherwise nothing.                                         *)
LEMMA ConsumeDelivers ==
    ASSUME IndInv, IndInv', ReceiverStep
    PROVE  Channel!Deliver \/ UNCHANGED <<sent, delivered>>
<1>1. UNCHANGED sent
  BY DEF ReceiverStep, sourceVars
<1>2. CASE UNCHANGED sinkVars
  BY <1>1, <1>2 DEF sinkVars
<1>3. CASE Receiver_ToUpperLayer(CopiedMessage)
  <2>1. delivered' = Append(delivered, CopiedMessage)
    BY <1>3 DEF Receiver_ToUpperLayer
  <2>2. /\ Len(delivered') = Len(delivered) + 1
        /\ Len(delivered) \in Nat
        /\ delivered'[Len(delivered) + 1] = CopiedMessage
    BY <2>1, AppendFacts DEF IndInv, SinkInv
  <2>3. /\ Len(delivered') <= Len(sent)
        /\ \A k \in 1..Len(delivered') : delivered'[k] = sent[k]
    BY <1>1 DEF IndInv, SinkInv, DeliveredPrefix
  <2>4. CopiedMessage = sent[Len(delivered) + 1]
    BY <2>2, <2>3
  <2>5. Len(sent) \in Nat
    BY DEF IndInv, SourceInv
  <2>6. Len(delivered) < Len(sent)
    BY <2>2, <2>3, <2>5
  <2> QED BY <1>1, <2>1, <2>4, <2>6 DEF Channel!Deliver
<1> QED BY <1>2, <1>3 DEF ReceiverStep, Receiver_Consume

(* The protocol implements the reliable channel: sender, receiver, links   *)
(* and timer together do nothing the upper layers can see but accept a     *)
(* message or deliver the next one.                                        *)
THEOREM Refinement ==
    ASSUME MaxBacklog <= MAX_BUFFER_SIZE
    PROVE  Spec => ChannelSpec
<1>1. Init => Channel!Init
  BY DEF Init, ServicesInit, Channel!Init
<1>2. IndInv /\ IndInv' /\ [Next]_vars => [Channel!Next]_(Channel!vars)
  <2> SUFFICES ASSUME IndInv, IndInv', [Next]_vars
               PROVE  Channel!Next \/ UNCHANGED <<sent, delivered>>
    BY DEF Channel!vars
  <2>1. CASE UpperLayerEvent
    BY <2>1, UpperLayerSends DEF Channel!Next
  <2>2. CASE AckEvent
    BY <2>2 DEF AckEvent, sourceVars, sinkVars
  <2>3. CASE TimeoutEvent
    BY <2>3 DEF TimeoutEvent, sourceVars, sinkVars
  <2>4. CASE DataEvent
    BY <2>4 DEF DataEvent, Receiver_FromLowerLayer, sourceVars, sinkVars
  <2>5. CASE SenderStep
    BY <2>5 DEF SenderStep, sourceVars, sinkVars
  <2>6. CASE ReceiverStep
    BY <2>6, ConsumeDelivers DEF Channel!Next
  <2>7. CASE Finish
    BY <2>7 DEF Finish, sourceVars, sinkVars
  <2>8. CASE UNCHANGED vars
    BY <2>8 DEF vars, serviceVars, sourceVars, sinkVars
  <2> QED BY <2>1, <2>2, <2>3, <2>4, <2>5, <2>6, <2>7, <2>8 DEF Next, Terminated
<1> QED BY <1>1, <1>2, Invariance, PTL DEF Spec, ChannelSpec, Channel!Spec
=============================================================================
