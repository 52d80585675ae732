------------------------------ MODULE DnsParser ------------------------------
(***************************************************************************)
(* The DNS wire parser (cilium-mini-rs/src/parser.rs): parse_dns_into and  *)
(* the loops it is made of (parse_qname, parse_rdata, skip_name), as the   *)
(* parser task runs them on one raw event after another.                   *)
(*                                                                         *)
(* Payloads are sequences of real bytes and every size is the one of the   *)
(* code.  Control is one program point per place where the code tests a    *)
(* bound or reads the payload, so that a read and the test that makes it   *)
(* safe are different steps:                                               *)
(*                                                                         *)
(*   recv -> qname <-> label -> copy                                       *)
(*              label -> answer <-> name <-> byte -> record -> fixed       *)
(*              fixed -> rdata -> answer -> ok                             *)
(*                                                                         *)
(* and any of them -> err.  Offsets are 0-based, as in the code.           *)
(***************************************************************************)
EXTENDS CiliumMiniCommon

CONSTANT RawEvents  \* the raw events the ring buffer reader may hand over

HdrLen           == 12    \* DnsHdr::LEN
RR_FIXED_HDR_LEN == 10    \* TYPE, CLASS, TTL, RDLENGTH
COMPRESSION_MASK == 192   \* 0xC0: both top bits set means b >= 192
MaxLabelLen      == 63
MaxDomainLen     == 255
Dot              == 46    \* '.'

\* The classifier copies at most MAX_DNS_PAYLOAD_SIZE bytes into an event.
ASSUME RawEventsAssumption ==
  \A e \in RawEvents : /\ e \in RawDnsEvent
                       /\ Len(e.payload) <= MAX_DNS_PAYLOAD_SIZE

\* DnsResponse without its renderings of addresses as text.
DnsResponse == [stamp : Nat, domain_name : Seq(Byte),
                resolved_ip_raw : Seq(Byte), ip_family : Nat]

\* What reset_slot leaves behind, which is also DnsResponse::default().
BlankSlot == [stamp |-> 0, domain_name |-> << >>,
              resolved_ip_raw |-> << >>, ip_family |-> 0]

VARIABLES
  pc,        \* program point, see above
  event,     \* raw_event: the event being parsed
  slot,      \* local_dns_response, reused from event to event
  base,      \* where the slice being parsed starts in the DNS payload
  offset,    \* offset of parse_qname or of parse_rdata in that slice
  total,     \* total_domain_len of parse_qname
  left,      \* answers parse_rdata has still to visit
  name,      \* offset of skip_name, in the slice that starts at offset
  rtype,     \* TYPE of the record at hand
  rdlength   \* RDLENGTH of the record at hand

vars == <<pc, event, slot, base, offset, total, left, name, rtype, rdlength>>

Points == {"recv", "qname", "label", "copy", "answer", "name", "byte",
           "record", "fixed", "rdata", "ok", "err"}

\* The slice under the parser's hands: payload.len() and payload[i].
SliceLen == Len(event.payload) - base
ByteAt(i) == event.payload[base + i + 1]
Word(i) == 256 * ByteAt(i) + ByteAt(i + 1)     \* u16::from_be_bytes

\* &payload[offset..], the slice parse_rdata gives skip_name.
NameSliceLen == SliceLen - offset
NameByteAt(i) == ByteAt(offset + i)

-----------------------------------------------------------------------------
(* The prologue of parse_dns_into.                                         *)

KnownFamily(f) == f \in {AF_INET, AF_INET6}

\* Faulty variant: the family is not cleared.
reset_slot_KeepsFamily(s) == [BlankSlot EXCEPT !.ip_family = s.ip_family]

reset_slot(s) == BlankSlot

\* A new event: the slot is cleared, both addresses are rendered, the plain
\* fields are copied, and the payload must hold at least a DNS header.
Recv(e) ==
  LET families == KnownFamily(e.src_family) /\ KnownFamily(e.dst_family)
  IN  /\ pc = "recv"
      /\ event' = e
      /\ slot' = IF families THEN [reset_slot(slot) EXCEPT !.stamp = e.stamp]
                             ELSE reset_slot(slot)
      /\ pc' = IF families /\ Len(e.payload) >= HdrLen THEN "qname" ELSE "err"
      /\ base' = HdrLen
      /\ UNCHANGED <<offset, total, left, name, rtype, rdlength>>

-----------------------------------------------------------------------------
(* parse_qname: one pass of its loop is qname, label, copy.                *)

QnameHead ==
  /\ pc = "qname"
  /\ pc' = IF offset < SliceLen THEN "label" ELSE "err"
  /\ UNCHANGED <<event, slot, base, offset, total, left, name, rtype, rdlength>>

LabelLen == ByteAt(offset)
LabelEnd == offset + 1 + LabelLen

\* A label longer than 63 or one that the payload cuts short is an error.
LabelFits == LabelLen <= MaxLabelLen /\ LabelEnd <= SliceLen

QnameLabel ==
  /\ pc = "label"
  /\ LabelLen # 0
  /\ pc' = IF LabelFits THEN "copy" ELSE "err"
  /\ UNCHANGED <<event, slot, base, offset, total, left, name, rtype, rdlength>>

label_bytes == SubSeq(event.payload, base + offset + 2, base + LabelEnd)
IsAscii(bytes) == \A i \in 1 .. Len(bytes) : bytes[i] < 128

\* Faulty variant: the limit is tested before the label is counted.
DomainFits_Late(len) == len - LabelLen - 1 <= MaxDomainLen

DomainFits(len) == len <= MaxDomainLen

\* Faulty variant: no separator between labels.
PushLabel_NoDot(out, label) == out \o label

\* out.push('.') between labels, then out.push_str(label).
PushLabel(out, label) ==
  (IF out = << >> THEN out ELSE Append(out, Dot)) \o label

QnameCopy ==
  /\ pc = "copy"
  /\ total' = total + LabelLen + 1
  /\ IF DomainFits(total') /\ IsAscii(label_bytes)
     THEN /\ slot' = [slot EXCEPT !.domain_name = PushLabel(@, label_bytes)]
          /\ offset' = LabelEnd
          /\ pc' = "qname"
     ELSE /\ pc' = "err"
          /\ UNCHANGED <<slot, offset>>
  /\ UNCHANGED <<event, base, left, name, rtype, rdlength>>

\* The root label ends the name.  parse_dns_into steps over QTYPE and QCLASS
\* and gives the rest to parse_rdata, which refuses an empty slice; the
\* answer count is the fourth word of the header.
RdataOffset == HdrLen + (offset + 1) + 4
AnswerCount == 256 * event.payload[7] + event.payload[8]

QnameEnd ==
  /\ pc = "label"
  /\ LabelLen = 0
  /\ left' = AnswerCount
  /\ IF RdataOffset < Len(event.payload)
     THEN /\ pc' = "answer"
          /\ base' = RdataOffset
          /\ offset' = 0
     ELSE /\ pc' = "err"
          /\ UNCHANGED <<base, offset>>
  /\ UNCHANGED <<event, slot, total, name, rtype, rdlength>>

-----------------------------------------------------------------------------
(* parse_rdata: one pass of its loop is answer, skip_name, record, fixed,  *)
(* rdata.                                                                  *)

AnswersDone ==
  /\ pc = "answer"
  /\ left = 0
  /\ pc' = "ok"
  /\ UNCHANGED <<event, slot, base, offset, total, left, name, rtype, rdlength>>

\* Faulty variant: 0..=anscount.
AnswerHead_OneMore ==
  /\ pc = "answer"
  /\ left >= 0
  /\ name' = 0
  /\ pc' = IF offset < SliceLen THEN "name" ELSE "err"
  /\ UNCHANGED <<event, slot, base, offset, total, left, rtype, rdlength>>

AnswerHead ==
  /\ pc = "answer"
  /\ left > 0
  /\ name' = 0
  /\ pc' = IF offset < SliceLen THEN "name" ELSE "err"
  /\ UNCHANGED <<event, slot, base, offset, total, left, rtype, rdlength>>

\* skip_name, the test of its loop.
NameHead ==
  /\ pc = "name"
  /\ pc' = IF name < NameSliceLen THEN "byte" ELSE "err"
  /\ UNCHANGED <<event, slot, base, offset, total, left, name, rtype, rdlength>>

IsPointer(b) == b >= COMPRESSION_MASK

\* What parse_rdata does with the length skip_name returns: the code assigns
\* it to offset, it does not add it.
AfterName(skipped) == skipped

\* skip_name, a compression pointer or the root label ends the name.
NameEnd ==
  LET b == NameByteAt(name)
      skipped == name + (IF IsPointer(b) THEN 2 ELSE 1)
  IN  /\ pc = "byte"
      /\ IsPointer(b) \/ b = 0
      /\ IF skipped <= NameSliceLen
         THEN pc' = "record" /\ offset' = AfterName(skipped)
         ELSE pc' = "err" /\ UNCHANGED offset
      /\ UNCHANGED <<event, slot, base, total, left, name, rtype, rdlength>>

\* Faulty variant: the loop does not advance.
NextName_Stuck(n, len) == n

\* skip_name, a plain label is stepped over; other top bits are an error.
NextName(n, len) == n + 1 + len

NameLabel ==
  LET b == NameByteAt(name)
  IN  /\ pc = "byte"
      /\ ~IsPointer(b) /\ b # 0
      /\ IF b <= MaxLabelLen /\ NextName(name, b) <= NameSliceLen
         THEN pc' = "name" /\ name' = NextName(name, b)
         ELSE pc' = "err" /\ UNCHANGED name
      /\ UNCHANGED <<event, slot, base, offset, total, left, rtype, rdlength>>

\* Faulty variant: off by one.
FixedHdrFits_OffByOne == offset + RR_FIXED_HDR_LEN <= SliceLen + 1

FixedHdrFits == offset + RR_FIXED_HDR_LEN <= SliceLen

RecordHead ==
  /\ pc = "record"
  /\ pc' = IF FixedHdrFits THEN "fixed" ELSE "err"
  /\ UNCHANGED <<event, slot, base, offset, total, left, name, rtype, rdlength>>

RdataFits(start, len) == start + len <= SliceLen

RecordFixed ==
  /\ pc = "fixed"
  /\ rtype' = Word(offset)
  /\ rdlength' = Word(offset + 8)
  /\ offset' = offset + RR_FIXED_HDR_LEN
  /\ pc' = IF RdataFits(offset', rdlength') THEN "rdata" ELSE "err"
  /\ UNCHANGED <<event, slot, base, total, left, name>>

TypeA     == 1
TypeCNAME == 5
TypeAAAA  == 28

\* Faulty variant: AAAA records are taken for an unsupported type.
FamilyOf_OnlyA(t) == IF t = TypeA THEN AF_INET ELSE 0

\* The address family of a record type, 0 for CNAME and for any other type.
FamilyOf(t) == CASE t = TypeA    -> AF_INET
                 [] t = TypeAAAA -> AF_INET6
                 [] OTHER        -> 0

AddrLen(f) == IF f = AF_INET THEN 4 ELSE 16

rdata == SubSeq(event.payload, base + offset + 1, base + offset + rdlength)

\* A record that is not an address is stepped over.
RecordSkip ==
  /\ pc = "rdata"
  /\ FamilyOf(rtype) = 0
  /\ offset' = offset + rdlength
  /\ left' = left - 1
  /\ pc' = "answer"
  /\ UNCHANGED <<event, slot, base, total, name, rtype, rdlength>>

\* An address is added to the raw bytes and its family becomes the slot's.
RecordAddress ==
  LET f == FamilyOf(rtype)
  IN  /\ pc = "rdata"
      /\ f # 0
      /\ IF rdlength = AddrLen(f)
         THEN /\ slot' = [slot EXCEPT !.resolved_ip_raw = @ \o rdata,
                                      !.ip_family = f]
              /\ offset' = offset + rdlength
              /\ left' = left - 1
              /\ pc' = "answer"
         ELSE /\ pc' = "err"
              /\ UNCHANGED <<slot, offset, left>>
      /\ UNCHANGED <<event, base, total, name, rtype, rdlength>>

ParseStep ==
  \/ QnameHead \/ QnameLabel \/ QnameCopy \/ QnameEnd
  \/ AnswersDone \/ AnswerHead \/ NameHead \/ NameEnd \/ NameLabel
  \/ RecordHead \/ RecordFixed \/ RecordSkip \/ RecordAddress

-----------------------------------------------------------------------------
(* The task around the parser.                                             *)

\* The reference to the raw event is dropped and with it every local of the
\* parser; the slot lives on.
DropLocals ==
  /\ pc' = "recv"
  /\ event' = DefaultEvent
  /\ base' = 0 /\ offset' = 0 /\ total' = 0 /\ left' = 0 /\ name' = 0
  /\ rtype' = 0 /\ rdlength' = 0

\* A packet that does not parse is logged; the half filled slot stays.
Discard ==
  /\ pc = "err"
  /\ DropLocals
  /\ UNCHANGED slot

\* A parsed packet is swapped into a free slot of the next channel, whose
\* recycled contents come back, or stays where it is when there is none.
Deliver ==
  /\ pc = "ok"
  /\ DropLocals
  /\ slot' \in {slot, BlankSlot}

Init ==
  /\ pc = "recv"
  /\ event = DefaultEvent
  /\ slot = BlankSlot
  /\ base = 0 /\ offset = 0 /\ total = 0 /\ left = 0 /\ name = 0
  /\ rtype = 0 /\ rdlength = 0

\* raw_dns_rx.recv_ref().await yields some event.
RecvAny == pc = "recv" /\ \E e \in RawEvents : Recv(e)

Next == RecvAny \/ ParseStep \/ Discard \/ Deliver

Spec == Init /\ [][Next]_vars

\* The parser has no await between taking an event and finishing it, so once
\* it holds one it runs on.  Nothing obliges another event to arrive.
FairSpec == Spec /\ WF_vars(ParseStep) /\ WF_vars(Discard \/ Deliver)

-----------------------------------------------------------------------------
(* Properties.                                                             *)

\* Type correctness: every local of the parser is in range; in particular no
\* pass of the record loop takes the usize arithmetic or the answer count
\* below zero.
TypeOK ==
  /\ pc \in Points
  /\ event \in RawDnsEvent
  /\ slot \in DnsResponse
  /\ base \in Nat /\ offset \in Nat /\ total \in Nat /\ left \in Nat
  /\ name \in Nat /\ rtype \in Nat /\ rdlength \in Nat

\* No payload, however truncated or corrupt, makes the parser index outside
\* the slice it was given: every payload[i] and payload[a..b] of
\* parse_qname, parse_rdata and skip_name is in bounds when it is evaluated,
\* so the parser task cannot panic there.
IndexSafe ==
  /\ pc = "label"  => offset < SliceLen /\ HdrLen <= Len(event.payload)
  /\ pc = "copy"   => LabelEnd <= SliceLen
  /\ pc = "name"   => offset <= SliceLen
  /\ pc = "byte"   => offset + name < SliceLen
  /\ pc = "fixed"  => offset + 9 < SliceLen
  /\ pc = "rdata"  => offset + rdlength <= SliceLen

\* The family the parser reports is always backed by that many raw bytes.
\* FqdnPolicyEngine::update unwraps the first chunk of that size, without a
\* test of its own.
FamilyBacked ==
  /\ slot.ip_family \in {0, AF_INET, AF_INET6}
  /\ slot.ip_family # 0 => Len(slot.resolved_ip_raw) >= AddrLen(slot.ip_family)
  /\ slot.ip_family = 0 => slot.resolved_ip_raw = << >>

\* The accepted name obeys the limits the parser sets itself: 255 bytes of
\* label and length bytes, hence at most 254 characters of text.
DomainBounded == Len(slot.domain_name) <= MaxDomainLen - 1

\* Whatever the payload, the parse ends: both name loops advance on every
\* pass and the record loop is bounded by the answer count.
ParseEnds == pc = "qname" ~> pc \in {"ok", "err"}
=============================================================================
