----------------------------- MODULE FqdnPolicy -----------------------------
(***************************************************************************)
(* The FQDN policy engine (cilium-mini-rs/src/policy.rs): the observer the *)
(* parser task calls with every response it parsed, and the kernel hash    *)
(* map ALLOWED_IP_MAP it fills.                                            *)
(***************************************************************************)
EXTENDS CiliumMiniCommon, FiniteSets

CONSTANTS
  AllowedDomains,  \* allowed_domains, names as sequences of bytes
  MapCapacity      \* max_entries of ALLOWED_IP_MAP, 1024 in the program

ASSUME MapCapacityAssumption == MapCapacity \in Nat \ {0}

VARIABLES
  allowed_ip_map,  \* the keys of ALLOWED_IP_MAP; every value is 0
  verdict          \* what the last call of update came to: none, skipped,
                   \* no family, admitted or map full

policyVars == <<allowed_ip_map, verdict>>

\* Faulty variant: the domain is matched from its end.
Allowed_Suffix(r) ==
  \E d \in AllowedDomains : \E n \in 1 .. Len(r.domain_name) :
    SubSeq(r.domain_name, n, Len(r.domain_name)) = d

Allowed(r) == r.domain_name \in AllowedDomains
HasFamily(r) == r.ip_family \in {AF_INET, AF_INET6}
ChunkLen(f) == IF f = AF_INET THEN 4 ELSE 16

\* resolved_ip_raw.chunks_exact(n).next().unwrap()
first_chunk(r) == SubSeq(r.resolved_ip_raw, 1, ChunkLen(r.ip_family))

ip_addr(r) == IF r.ip_family = AF_INET THEN from_ipv4(first_chunk(r))
                                       ELSE from_ipv6(first_chunk(r))

\* bpf_map_update_elem: a new key needs a free entry.
HasRoom(key) == key \in allowed_ip_map \/ Cardinality(allowed_ip_map) < MapCapacity

-----------------------------------------------------------------------------
(* update, one action per way out.                                         *)

Skip(r) ==
  /\ ~Allowed(r)
  /\ verdict' = "skipped"
  /\ UNCHANGED allowed_ip_map

NoFamily(r) ==
  /\ Allowed(r) /\ ~HasFamily(r)
  /\ verdict' = "no family"
  /\ UNCHANGED allowed_ip_map

Admit(r) ==
  /\ Allowed(r) /\ HasFamily(r) /\ HasRoom(ip_addr(r))
  /\ allowed_ip_map' = allowed_ip_map \cup {ip_addr(r)}
  /\ verdict' = "admitted"

MapFull(r) ==
  /\ Allowed(r) /\ HasFamily(r) /\ ~HasRoom(ip_addr(r))
  /\ verdict' = "map full"
  /\ UNCHANGED allowed_ip_map

Update(r) == Skip(r) \/ NoFamily(r) \/ Admit(r) \/ MapFull(r)

PolicyInit == allowed_ip_map = {} /\ verdict = "none"
=============================================================================
