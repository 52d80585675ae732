----------------------------- MODULE MCEventRing -----------------------------
(***************************************************************************)
(* A small instance of EventRing.                                          *)
(***************************************************************************)
EXTENDS EventRing

CONSTANTS c1, c2
MCCPUs == {c1, c2}

Udp(ether, ihl, len) ==
  [len |-> len, ether |-> ether, ihl |-> ihl, proto |-> "udp", src_port |-> DNS_PORT]

\* Payloads at both ends of the range, one byte and more than fits, and
\* frames that no event is captured of, each for another reason.
Small == Udp("ipv4", 24, 14 + 24 + 8 + 1)
Large == Udp("ipv6", 0, 14 + 40 + 8 + 513)
Passing ==
  {Udp("ipv4", 20, 14 + 20 + 8),
   Udp("ipv4", 16, 100),
   Udp("ipv6", 0, 14 + 40 + 7),
   [Small EXCEPT !.src_port = 80],
   [Large EXCEPT !.proto = "other"],
   [Small EXCEPT !.ether = "other"]}

MCFrames == {Small, Large} \cup Passing
=============================================================================
