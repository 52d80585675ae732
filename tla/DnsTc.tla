-------------------------------- MODULE DnsTc --------------------------------
(***************************************************************************)
(* What the classifier dns_tc makes of one frame                           *)
(* (cilium-mini-ebpf/src/main.rs): the walk through the headers, each      *)
(* bounds-checked by ptr_at, the filters, and the copy of the payload.     *)
(* Every outcome lets the packet pass (TC_ACT_OK); what differs is whether *)
(* an event is captured.                                                   *)
(***************************************************************************)
EXTENDS CiliumMiniCommon

DNS_PORT == 53
IPV4_MIN_HDR_LEN == 20
IPV4_MAX_HDR_LEN == 60

\* network_types (external)
EthHdr_LEN  == 14
Ipv4Hdr_LEN == 20
Ipv6Hdr_LEN == 40
UdpHdr_LEN  == 8

\* A frame as the classifier sees it: len bytes between data and data_end,
\* and the header fields it looks at.  ihl() is in bytes; a type or protocol
\* number that network_types does not know is among "other".
Ihl == {4 * w : w \in 0 .. 15}
Port == 0 .. 65535
Frame == [len : Nat, ether : {"ipv4", "ipv6", "other"}, ihl : Ihl,
          proto : {"udp", "other"}, src_port : Port]

\* ptr_at::<T> is Ok, for a T of the given size.
ptr_at(f, offset, size) == offset + size <= f.len

\* get_ipv4_header_len is Ok.
Ipv4HeaderLenOk(f) == f.ihl >= IPV4_MIN_HDR_LEN /\ f.ihl <= IPV4_MAX_HDR_LEN

\* try_dns_tc comes to call parse_udp, at offset udp_offset.
ReachesUdp(f) ==
  /\ ptr_at(f, 0, EthHdr_LEN)
  /\ \/ /\ f.ether = "ipv4"
        /\ ptr_at(f, EthHdr_LEN, Ipv4Hdr_LEN)
        /\ Ipv4HeaderLenOk(f)
     \/ /\ f.ether = "ipv6"
        /\ ptr_at(f, EthHdr_LEN, Ipv6Hdr_LEN)
  /\ f.proto = "udp"

udp_offset(f) == EthHdr_LEN + (IF f.ether = "ipv4" THEN f.ihl ELSE Ipv6Hdr_LEN)

payload_offset(f) == udp_offset(f) + UdpHdr_LEN

\* data_end.saturating_sub(data_start + payload_offset)
available_len(f) ==
  IF f.len >= payload_offset(f) THEN f.len - payload_offset(f) ELSE 0

\* parse_udp comes to reserve a record.
Captured(f) ==
  /\ ReachesUdp(f)
  /\ ptr_at(f, udp_offset(f), UdpHdr_LEN)
  /\ f.src_port = DNS_PORT
  /\ available_len(f) # 0

\* Faulty variant: the length of the payload is taken before the copy.
copied_len_Available(f) == available_len(f)

\* How often the copy loop goes round: it breaks at the first byte that lies
\* past data_end.
copied_len(f) ==
  CHOOSE n \in 0 .. MAX_DNS_PAYLOAD_SIZE :
    /\ n = MAX_DNS_PAYLOAD_SIZE \/ ~ptr_at(f, payload_offset(f) + n, 1)
    /\ \A i \in 0 .. n - 1 : ptr_at(f, payload_offset(f) + i, 1)
=============================================================================
