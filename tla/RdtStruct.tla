------------------------------ MODULE RdtStruct ------------------------------
(***************************************************************************)
(* Messages and packets of the reliable data transport lab (rdt/).         *)
(*                                                                         *)
(* A C buffer of n bytes is a function on 0..n-1.  The sizeof(int) bytes   *)
(* that memcpy fills from an int hold that int in every cell: an int is    *)
(* always written and read back as a whole.  A packet is a record of its   *)
(* header fields and payload; whatever fails the CRC is Garbage.           *)
(***************************************************************************)
EXTENDS Integers

CONSTANTS
    MAX_PAYLOAD_SIZE,   \* RDT_PKTSIZE - HEADER_SIZE, 119 in the code
    SizeofInt           \* sizeof(int), 4 in the code

(* A message information packet carries the size header and at least one   *)
(* byte of the message; the code has 119 > 4.                              *)
ASSUME PayloadAssumption ==
    /\ SizeofInt \in Nat \ {0}
    /\ MAX_PAYLOAD_SIZE \in Nat
    /\ MAX_PAYLOAD_SIZE > SizeofInt

(* The content of a byte nobody has written since malloc.                  *)
Uninit == -1

(* struct message: a size and that many bytes.                             *)
IsMessage(m) ==
    /\ m = [size |-> m.size, data |-> m.data]
    /\ m.size \in Nat
    /\ m.data \in [0..(m.size - 1) -> Int]

(* A slot of the sender's buffer after memset(buffer, 0, ...).             *)
EmptyMessage == [size |-> 0, data |-> [i \in 0..-1 |-> Uninit]]

(* What the sender buffers for a message: its size, then its bytes.        *)
WithSizeHeader(msg) ==
    [size |-> msg.size + SizeofInt,
     data |-> [i \in 0..(msg.size + SizeofInt - 1) |->
                 IF i < SizeofInt THEN msg.size ELSE msg.data[i - SizeofInt]]]

(* A data packet with payload data[from .. from + size - 1].               *)
DataPacket(seq, size, data, from) ==
    [intact |-> TRUE, seq |-> seq, size |-> size,
     payload |-> [i \in 0..(size - 1) |-> data[from + i]]]

AckPacket(a) == [intact |-> TRUE, ack |-> a]

(* A corrupted packet, or the bytes of a packet nobody has filled in.      *)
Garbage == [intact |-> FALSE]

RDT_VerifyChecksum(pkt) == pkt.intact

IsDataPacket(p) ==
    /\ p = [intact |-> TRUE, seq |-> p.seq, size |-> p.size, payload |-> p.payload]
    /\ p.seq \in Nat
    /\ p.size \in 1..MAX_PAYLOAD_SIZE
    /\ p.payload \in [0..(p.size - 1) -> Int]

IsAckPacket(p) ==
    /\ p = [intact |-> TRUE, ack |-> p.ack]
    /\ p.ack \in Int
    /\ p.ack >= -1

=============================================================================
