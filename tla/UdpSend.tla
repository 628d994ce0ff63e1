------------------------------ MODULE UdpSend ------------------------------
(***************************************************************************)
(* lab2: send_pkt builds one packet, gives it to the driver of port 0 with *)
(* rte_eth_tx_burst and frees it. A driver that took the packet keeps it   *)
(* on its transmit ring and frees it once it is sent.                      *)
(***************************************************************************)
EXTENDS Mbuf

CONSTANTS App, Nic  \* the two threads: the program and the driver

VARIABLES at,   \* where send_pkt is
          pkt   \* udp_pkt

sendVars == <<vars, at, pkt>>

UdpInit == Init /\ at = "construct" /\ pkt = NULL

(* construct_pkt; there is a buffer, the pool has NUM_MBUFS for each port. *)
construct_pkt ==
  /\ at = "construct" /\ at' = "burst"
  /\ \E m \in Mbufs : Alloc(App, m) /\ pkt' = m

(* rte_eth_tx_burst returns 1, or 0 when the transmit ring has no room. *)
rte_eth_tx_burst ==
  /\ at = "burst" /\ at' = "free"
  /\ Send(App, Nic, pkt) \/ UNCHANGED vars
  /\ UNCHANGED pkt

(* rte_pktmbuf_free(udp_pkt), whatever nb_tx is. *)
FreeSent ==
  /\ at = "free" /\ at' = "done"
  /\ At(App, "idle")
  /\ refs' = [refs EXCEPT ![App][pkt] = 0]
  /\ call' = [call EXCEPT ![App] = FreeCall(pkt)]
  /\ UNCHANGED <<pool, refcnt, next, nb_segs, direct, lost, pkt>>

(* The driver frees the packets it has sent. *)
TxDone ==
  /\ \E p \in Mbufs : Free(Nic, p)
  /\ UNCHANGED <<at, pkt>>

Running == \E t \in Threads : Update(t) /\ UNCHANGED <<at, pkt>>

UdpNext == construct_pkt \/ rte_eth_tx_burst \/ FreeSent \/ TxDone \/ Running

UdpSpec == UdpInit /\ [][UdpNext]_sendVars

(* rte_ethdev.h:2758: "It is the responsibility of the rte_eth_tx_burst()  *)
(* function to transparently free the memory buffers of packets previously *)
(* sent": the packet is not in the pool while it waits to be sent.         *)
DriverFrees == \A p \in Mbufs : refs[Nic][p] > 0 => p \notin pool
=============================================================================
