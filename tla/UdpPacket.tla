----------------------------- MODULE UdpPacket -----------------------------
(***************************************************************************)
(* lab2: the IPv4 and UDP headers construct_pkt writes, for a program on a *)
(* little-endian host. A header is the sequence of its 16-bit words as the *)
(* host reads them; an address is the pair of its halves.                  *)
(***************************************************************************)
EXTENDS Integers, Sequences, FiniteSetsExt

CONSTANTS
  Sources, Destinations,  \* addresses
  Sizes                   \* numbers of bytes of data

ASSUME UdpPacketAssumption ==
  /\ Sources \subseteq (0..65535) \X (0..65535)
  /\ Destinations \subseteq (0..65535) \X (0..65535)
  /\ Sizes \subseteq 0..65507

VARIABLES src, dst, datasize,  \* arguments of construct_pkt
          ip, udp              \* the headers, << >> until they are written

headerVars == <<src, dst, datasize, ip, udp>>

(* rte_cpu_to_be_16 *)
Swap(w) == (w % 256) * 256 + (w \div 256)

IPv4(a, b, c, d) == <<a * 256 + b, c * 256 + d>>

SumOf(words) == ReduceSet(LAMBDA i, s : words[i] + s, DOMAIN words, 0)

(* Mutant of Reduce: the carries are cut off, not added. *)
ReduceCuts(s) == s % 65536

(* The 32-bit sum is reduced to 16 bits. *)
Reduce(s) == ((s \div 65536) + (s % 65536)) % 65536

Checksum(words) ==
  LET c == 65535 - Reduce(SumOf(words)) IN IF c = 0 THEN 65535 ELSE c

(* version_ihl and type_of_service; total_length; packet_id; the fragment  *)
(* offset; time_to_live and next_proto_id; the checksum; the addresses.    *)
initialize_ipv4_header(s, d, data_len) ==
  LET pkt_len == (data_len + 20) % 65536
      hdr == <<69, Swap(pkt_len), 0, 0, 64 + 17 * 256, 0,
               Swap(s[1]), Swap(s[2]), Swap(d[1]), Swap(d[2])>>
  IN [hdr EXCEPT ![6] = Checksum(hdr)]

HeaderInit ==
  /\ src \in Sources /\ dst \in Destinations /\ datasize \in Sizes
  /\ ip = << >> /\ udp = << >>

(* Ports, the length and no checksum. *)
construct_pkt ==
  /\ ip = << >>
  /\ ip' = initialize_ipv4_header(src, dst, (datasize + 8) % 65536)
  /\ udp' = <<Swap(15), Swap(15), (datasize + 8) % 65536, 0>>
  /\ UNCHANGED <<src, dst, datasize>>

HeaderNext == construct_pkt

HeaderSpec == HeaderInit /\ [][HeaderNext]_headerVars

-----------------------------------------------------------------------------
(* One's complement sum: carries are added until none is left. *)
FullSum(words) == LET s == SumOf(words) IN IF s = 0 THEN 0 ELSE ((s - 1) % 65535) + 1

(* main.c:149: "Compute IP header checksum". What a receiver checks: the   *)
(* one's complement sum of the whole header, checksum included, is all     *)
(* ones.                                                                   *)
HeaderVerifies == ip # << >> => FullSum(ip) = 65535
=============================================================================
