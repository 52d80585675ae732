----------------------------- MODULE ParserTask -----------------------------
(***************************************************************************)
(* The parser task with its observer (spawn_dns_parser in                  *)
(* cilium-mini-rs/src/topology.rs): the DNS parser and the policy engine   *)
(* composed.  The task calls update on the response it has just parsed and *)
(* then hands the response over, without an await between the two, so both *)
(* are one step here; the map has no other writer.                         *)
(***************************************************************************)
EXTENDS DnsParser, FqdnPolicy

taskVars == <<pc, event, slot, base, offset, total, left, name, rtype, rdlength,
              allowed_ip_map, verdict>>

\* Faulty variant: the observer is called after the swap, on what came back.
Handover_Late == Deliver /\ Update(slot')

\* An error of the observer is logged and the response is handed over all
\* the same.
Handover == pc = "ok" /\ Update(slot) /\ Deliver

TaskInit == Init /\ PolicyInit

TaskNext ==
  \/ /\ RecvAny \/ ParseStep \/ Discard
     /\ UNCHANGED policyVars
  \/ Handover

TaskSpec == TaskInit /\ [][TaskNext]_taskVars

-----------------------------------------------------------------------------

\* The unwrap in update never panics: a response for an allowed domain that
\* names a family comes with at least one whole chunk of it.
UnwrapSafe ==
  pc = "ok" /\ Allowed(slot) /\ HasFamily(slot) =>
    Len(slot.resolved_ip_raw) >= ChunkLen(slot.ip_family)

\* The address in a key is made of bytes of the packet at hand, and nothing
\* else is in the key.
FromPacket(k) ==
  \A i \in 1 .. 16 :
    IF i <= ChunkLen(k.family)
    THEN \E j \in 1 .. Len(event.payload) : k.bytes[i] = event.payload[j]
    ELSE k.bytes[i] = 0

\* An address once admitted stays admitted, and no byte of an address that is
\* admitted is left over from a packet parsed before into the same slot or
\* from a recycled slot of the channel.
AdmittedFromPacket ==
  [][/\ allowed_ip_map \subseteq allowed_ip_map'
     /\ \A k \in allowed_ip_map' \ allowed_ip_map : FromPacket(k)]_taskVars
=============================================================================
