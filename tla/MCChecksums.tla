---------------------------- MODULE MCChecksums ----------------------------
(* The checksums of rdt and of lab2. They share no variable: a behaviour   *)
(* is a packet of one of the two.                                          *)
EXTENDS RdtCheck, UdpPacket

(* One byte of every value, so that every entry of the table is used, and  *)
(* the start of a packet, which the network can change so that it still    *)
(* verifies: 109 191 78 183, 27 2 0 0 1 18 may arrive as                   *)
(* 118 181 68 173, 36 2 246 246 1 8.                                       *)
MCPackets == {<<b>> : b \in 0..255} \cup {<<27, 2, 0, 0, 1, 18>>}

(* The ends of the range, a single bit, and no change. *)
MCDeltas == {-10, 0, 1, 9}

(* The addresses of send_pkt. *)
LabSource == {IPv4(10, 115, 0, 24)}
LabDestination == {IPv4(10, 222, 0, 21)}

(* What fits a buffer of RTE_MBUF_DEFAULT_BUF_SIZE behind the three headers. *)
Payloads == 0..2006

MCInit == CheckInit /\ HeaderInit /\ (datasize = 0 \/ data = <<0>>)

MCNext ==
  \/ datasize = 0 /\ ip = << >> /\ CheckNext /\ UNCHANGED headerVars
  \/ at = "made" /\ HeaderNext /\ UNCHANGED checkVars
=============================================================================
