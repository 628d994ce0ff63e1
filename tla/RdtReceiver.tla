----------------------------- MODULE RdtReceiver -----------------------------
(***************************************************************************)
(* The receiver of the protocol, rdt_receiver.cc: packets ahead of the     *)
(* expected one wait in a window, packets in sequence are put together     *)
(* into messages, and every intact packet is answered by a cumulative      *)
(* acknowledgement.                                                        *)
(***************************************************************************)
EXTENDS RdtServices

CONSTANT WINDOWS_SIZE   \* 10 in the code

ASSUME ReceiverAssumption == WINDOWS_SIZE \in Nat \ {0}

VARIABLES
    cur_msg,
    cursor,
    expected,
    window,
    valid_checks,
    rpkt            \* local pkt of Receiver_FromLowerLayer while its loop runs

receiverVars == <<cur_msg, cursor, expected, window, valid_checks, rpkt>>

Receiver_Init ==
    /\ cur_msg = EmptyMessage
    /\ cursor = 0
    /\ expected = 0
    /\ window = [i \in 0..(WINDOWS_SIZE - 1) |-> Garbage]
    /\ valid_checks = [i \in 0..(WINDOWS_SIZE - 1) |-> FALSE]
    /\ rpkt = Garbage

Receiver_Ack(a) == Receiver_ToLowerLayer(AckPacket(a))

-----------------------------------------------------------------------------
(* Up to the loop: drop a corrupted packet, keep one that is ahead, answer  *)
(* any other that is not the expected one.                                  *)

(* Mutant of StoreAhead: packets consumed before are stored as well.        *)
StoreAnyOther(pkt) ==
    /\ pkt.seq # expected /\ pkt.seq < expected + WINDOWS_SIZE
    /\ LET slot == pkt.seq % WINDOWS_SIZE
       IN  IF valid_checks[slot]
             THEN UNCHANGED <<window, valid_checks>>
             ELSE /\ window' = [window EXCEPT ![slot] = pkt]
                  /\ valid_checks' = [valid_checks EXCEPT ![slot] = TRUE]
    /\ Receiver_Ack(expected - 1)
    /\ UNCHANGED <<ctl, rpkt>>

StoreAhead(pkt) ==
    /\ expected < pkt.seq /\ pkt.seq < expected + WINDOWS_SIZE
    /\ LET slot == pkt.seq % WINDOWS_SIZE
       IN  IF valid_checks[slot]
             THEN UNCHANGED <<window, valid_checks>>
             ELSE /\ window' = [window EXCEPT ![slot] = pkt]
                  /\ valid_checks' = [valid_checks EXCEPT ![slot] = TRUE]
    /\ Receiver_Ack(expected - 1)
    /\ UNCHANGED <<ctl, rpkt>>

(* Mutant of AckOutOfWindow: acknowledges the packet it waits for.          *)
AckOutOfWindowAhead(pkt) ==
    /\ pkt.seq < expected \/ pkt.seq >= expected + WINDOWS_SIZE
    /\ Receiver_Ack(expected)
    /\ UNCHANGED <<ctl, rpkt, window, valid_checks>>

AckOutOfWindow(pkt) ==
    /\ pkt.seq < expected \/ pkt.seq >= expected + WINDOWS_SIZE
    /\ Receiver_Ack(expected - 1)
    /\ UNCHANGED <<ctl, rpkt, window, valid_checks>>

Receiver_FromLowerLayer(pkt) ==
    /\ ctl = "main"
    /\ \/ /\ ~RDT_VerifyChecksum(pkt)
          /\ UNCHANGED <<ctl, rpkt, window, valid_checks, toSender>>
       \/ RDT_VerifyChecksum(pkt) /\ StoreAhead(pkt)
       \/ RDT_VerifyChecksum(pkt) /\ AckOutOfWindow(pkt)
       \/ /\ RDT_VerifyChecksum(pkt)
          /\ pkt.seq = expected
          /\ rpkt' = pkt
          /\ ctl' = "consume"
          /\ UNCHANGED <<window, valid_checks, toSender>>
    /\ UNCHANGED <<cur_msg, cursor, expected, sinkVars>>

-----------------------------------------------------------------------------
(* The loop, one step per iteration.                                        *)

(* cur_msg after the payload of rpkt has been copied to it: the first       *)
(* packet of a message tells its size and allocates it.  memcpy is modelled *)
(* inside the allocated bytes; InBounds says it stays there.                *)
CopiedMessage ==
    IF cursor = 0
      THEN LET size == rpkt.payload[0]
           IN  [size |-> size,
                data |-> [i \in 0..(size - 1) |->
                            IF i < rpkt.size - SizeofInt
                              THEN rpkt.payload[SizeofInt + i] ELSE Uninit]]
      ELSE [cur_msg EXCEPT !.data =
              [i \in 0..(cur_msg.size - 1) |->
                 IF cursor <= i /\ i < cursor + rpkt.size
                   THEN rpkt.payload[i - cursor] ELSE cur_msg.data[i]]]

(* Mutant of CursorAfterCopy: the size header counts as a part of the data. *)
CursorCountsHeader == cursor + rpkt.size

CursorAfterCopy ==
    IF cursor = 0 THEN rpkt.size - SizeofInt ELSE cursor + rpkt.size

(* Mutant of Receiver_Consume: a packet taken from the window stays valid.  *)
Receiver_ConsumeKeepsValid ==
    /\ ctl = "consume"
    /\ expected' = expected + 1
    /\ cur_msg' = CopiedMessage
    /\ IF CopiedMessage.size = CursorAfterCopy
         THEN Receiver_ToUpperLayer(CopiedMessage) /\ cursor' = 0
         ELSE UNCHANGED sinkVars /\ cursor' = CursorAfterCopy
    /\ LET slot == (expected + 1) % WINDOWS_SIZE
       IN  \/ /\ valid_checks[slot]
              /\ rpkt' = window[slot]
              /\ UNCHANGED <<ctl, toSender>>
           \/ /\ ~valid_checks[slot]
              /\ Receiver_Ack(rpkt.seq)
              /\ rpkt' = Garbage
              /\ ctl' = "main"
    /\ UNCHANGED <<window, valid_checks>>

Receiver_Consume ==
    /\ ctl = "consume"
    /\ expected' = expected + 1
    /\ cur_msg' = CopiedMessage
    /\ IF CopiedMessage.size = CursorAfterCopy
         THEN Receiver_ToUpperLayer(CopiedMessage) /\ cursor' = 0
         ELSE UNCHANGED sinkVars /\ cursor' = CursorAfterCopy
    /\ LET slot == (expected + 1) % WINDOWS_SIZE
       IN  \/ /\ valid_checks[slot]
              /\ rpkt' = window[slot]
              /\ valid_checks' = [valid_checks EXCEPT ![slot] = FALSE]
              /\ UNCHANGED <<ctl, toSender>>
           \/ /\ ~valid_checks[slot]
              /\ Receiver_Ack(rpkt.seq)
              /\ rpkt' = Garbage
              /\ ctl' = "main"
              /\ UNCHANGED valid_checks
    /\ UNCHANGED window

-----------------------------------------------------------------------------
ReceiverTypeOK ==
    /\ IsMessage(cur_msg)
    /\ cursor \in Nat
    /\ expected \in Nat
    /\ window = [i \in 0..(WINDOWS_SIZE - 1) |-> window[i]]
    /\ \A i \in 0..(WINDOWS_SIZE - 1) : window[i] = Garbage \/ IsDataPacket(window[i])
    /\ valid_checks \in [0..(WINDOWS_SIZE - 1) -> BOOLEAN]
    /\ rpkt = Garbage \/ IsDataPacket(rpkt)

=============================================================================
