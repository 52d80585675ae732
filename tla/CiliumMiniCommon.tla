--------------------------- MODULE CiliumMiniCommon ---------------------------
(***************************************************************************)
(* What the kernel program and the daemon share                            *)
(* (cilium-mini-common/src/lib.rs).                                        *)
(***************************************************************************)
EXTENDS Integers, Sequences

Byte == 0 .. 255

AF_INET  == 2
AF_INET6 == 10
MAX_DNS_PAYLOAD_SIZE == 512

\* Faulty variant: the address goes to the end of the sixteen bytes.
from_ipv4_Last(addr) ==
  [bytes |-> [i \in 1 .. 16 |-> IF i > 12 THEN addr[i - 12] ELSE 0],
   family |-> AF_INET]

\* RawIpAddr, the key type of ALLOWED_IP_MAP: sixteen bytes and the family
\* that tells how to read them.  An IPv4 address takes the first four, the
\* others are zero.
from_ipv4(addr) ==
  [bytes |-> [i \in 1 .. 16 |-> IF i <= 4 THEN addr[i] ELSE 0],
   family |-> AF_INET]

from_ipv6(addr) ==
  [bytes |-> [i \in 1 .. 16 |-> addr[i]], family |-> AF_INET6]

\* What RawDnsEvent carries as far as the daemon can tell: the families of
\* its two addresses, the first payload_len bytes of the payload array, and
\* a stamp for the fields copied through unchanged (ports, timestamp).
RawDnsEvent == [src_family : Nat, dst_family : Nat, stamp : Nat,
                payload : Seq(Byte)]

\* RawDnsEvent::default()
DefaultEvent == [src_family |-> 0, dst_family |-> 0, stamp |-> 0,
                 payload |-> << >>]
=============================================================================
