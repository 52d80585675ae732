---------------------------- MODULE AnswerPolicy ----------------------------
(***************************************************************************)
(* What the parser task owes a well-formed response: which addresses of    *)
(* the messages of DnsMessages it admits to ALLOWED_IP_MAP.                *)
(***************************************************************************)
EXTENDS ParserTask, DnsMessages

\* The map key of an address answer, and those of a message.
KeyOf(a) == IF a.type = TypeA THEN from_ipv4(a.rdata) ELSE from_ipv6(a.rdata)
KeysOf(m) == {KeyOf(m.answers[i]) : i \in AddressAt(m)}

\* The step hands over the response m, which is for an allowed domain.
HandsOver(m) == pc = "ok" /\ pc' = "recv" /\ Allowed(slot) /\ Parsing(m)

MapIsFull == Cardinality(allowed_ip_map) = MapCapacity

\* A key that is admitted while a response is at hand in which the record loop
\* keeps its footing is an address answered in that very response, to a
\* question for an allowed domain.  Neither what other packets, whatever they
\* were, left in the reused slot, nor a domain that resembles an allowed one,
\* nor the way answers are cut into chunks puts another key into the map.
AdmittedWasAnswered ==
  [][\A k \in allowed_ip_map' \ allowed_ip_map : \A m \in Messages :
       (Parsing(m) /\ Aligned(m)) =>
         Text(m) \in AllowedDomains /\ k \in KeysOf(m)]_taskVars

\* When a response for an allowed domain is handed over in which the record
\* loop keeps its footing and whose first answer is an address, that address
\* is admitted unless the map is full.
FirstAddressAdmitted ==
  [][\A m \in Messages : (HandsOver(m) /\ Aligned(m) /\ 1 \in AddressAt(m)) =>
       KeyOf(m.answers[1]) \in allowed_ip_map' \/ MapIsFull]_taskVars

\* docs/fqdn_policy_plan.md: the observer "inserts every IP into
\* ALLOWED_IP_MAP".  Stated for responses all of whose answers are addresses.
EveryAddressAdmitted ==
  [][\A m \in Messages :
       (HandsOver(m) /\ AddressAt(m) = 1 .. Len(m.answers)) =>
         KeysOf(m) \subseteq allowed_ip_map' \/ MapIsFull]_taskVars

\* policy.rs: "Ip family should be already parsed, so this is a bug".
FamilyAlreadyParsed == verdict # "no family"
=============================================================================
