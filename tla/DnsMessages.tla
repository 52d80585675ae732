----------------------------- MODULE DnsMessages -----------------------------
(***************************************************************************)
(* What the DNS parser owes a well-formed response: the parser of          *)
(* DnsParser against the reference encoding of DnsWire.  Messages are the  *)
(* responses among the raw events that the properties speak about; other   *)
(* raw events may be anything.                                             *)
(***************************************************************************)
EXTENDS DnsParser, DnsWire

CONSTANT Messages

\* Labels as RFC 1035 has them, and records whose data fits their type.
IsName(labels) ==
  /\ labels \in Seq(Seq(Byte))
  /\ \A i \in 1 .. Len(labels) : Len(labels[i]) \in 1 .. MaxLabelLen

IsRecord(a) ==
  /\ IsName(a.owner)
  /\ a.type \in Word16
  /\ a.rdata \in Seq(Byte) /\ Len(a.rdata) \in Word16
  /\ FamilyOf(a.type) # 0 => Len(a.rdata) = AddrLen(FamilyOf(a.type))

\* The name may be as long as parse_qname allows, which does not count the
\* root label.
WellFormed(m) ==
  /\ IsName(m.qname)
  /\ \A i \in 1 .. Len(m.qname) : IsAscii(m.qname[i])
  /\ Len(EncodeName(m.qname)) <= MaxDomainLen + 1
  /\ m.answers \in Seq([owner : Seq(Seq(Byte)), type : Nat, rdata : Seq(Byte)])
  /\ Len(m.answers) \in Word16
  /\ \A i \in 1 .. Len(m.answers) : IsRecord(m.answers[i])
  /\ m.opt \in BOOLEAN

ASSUME MessagesAssumption == \A m \in Messages : WellFormed(m)

Wire == [m \in Messages |-> Encode(m)]

\* The event at hand is the well-formed message m between two known hosts.
Parsing(m) ==
  /\ event.payload = Wire[m]
  /\ KnownFamily(event.src_family) /\ KnownFamily(event.dst_family)

OwnerLen(a) == Len(EncodeOwner(a.owner))

\* The record loop steps over the owner of the first answer, then always over
\* the owner of the second: it assigns the length of the name to the offset,
\* and so reads the first record again.  It keeps its footing when the two
\* owners are equally long, as they are when both are pointers; otherwise it
\* goes on somewhere inside a record, and what it finds there is not an answer.
Aligned(m) ==
  Len(m.answers) >= 2 => OwnerLen(m.answers[1]) = OwnerLen(m.answers[2])

-----------------------------------------------------------------------------

\* The name and the plain fields of a parsed response are those of its own
\* packet, whatever the reused slot held before: reset_slot and the copies
\* of parse_dns_into leave nothing of an earlier packet behind.
QuestionExact ==
  pc = "ok" => \A m \in Messages :
    Parsing(m) => /\ slot.domain_name = Text(m)
                  /\ slot.stamp = event.stamp

\* A well-formed response with at most one answer is decoded exactly: its
\* address and family if it is an A or AAAA record, nothing otherwise.
\* Such a response is refused only when nothing at all follows its question.
SingleAnswerExact ==
  pc \in {"ok", "err"} => \A m \in Messages :
    (Parsing(m) /\ Len(m.answers) <= 1) =>
      IF m.answers = << >> /\ ~m.opt
      THEN pc = "err"
      ELSE /\ pc = "ok"
           /\ slot.resolved_ip_raw = AddressBytes(m)
           /\ slot.ip_family = LastFamily(m)

\* docs/userspace_architecture.md: the parser "Decodes Answer section
\* resource records, [...] extracting resolved IPv4 and IPv6 addresses while
\* skipping CNAME records": every address of a parsed response is in the
\* slot.
EveryAnswerDecoded ==
  pc = "ok" => \A m \in Messages :
    Parsing(m) => slot.resolved_ip_raw = AddressBytes(m)
=============================================================================
