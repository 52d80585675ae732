--------------------------- MODULE DnsParserProofs ---------------------------
(***************************************************************************)
(* Proofs about the DNS parser, for every set of raw events: that it is    *)
(* type correct, that it never indexes outside its payload, that the       *)
(* family it reports is backed by raw bytes, and that the names it accepts *)
(* are bounded.                                                            *)
(***************************************************************************)
EXTENDS DnsParser, SequenceTheorems, TLAPS

InQname  == pc \in {"qname", "label", "copy"}
InRdata  == pc \in {"answer", "name", "byte", "record", "fixed", "rdata"}
InRecord == pc \in {"name", "byte", "record", "fixed", "rdata"}

\* Where the offsets stand at every program point.  This is what makes
\* IndexSafe inductive.
Bounds ==
  /\ pc = "recv" => offset = 0 /\ total = 0
  /\ InQname \/ InRdata => HdrLen <= Len(event.payload)
  /\ InQname => base = HdrLen
  /\ InRdata => base < Len(event.payload)
  /\ InQname \/ InRdata => offset <= SliceLen
  /\ InRecord => left > 0
  /\ pc = "name" => offset + name <= SliceLen
  /\ pc = "copy" => offset < SliceLen /\ LabelLen # 0 /\ LabelLen <= MaxLabelLen
  /\ IndexSafe

\* While a name is read, total is one more than the length of its text.
NameLength ==
  /\ InQname => total <= MaxDomainLen
  /\ InQname => Len(slot.domain_name) = IF total = 0 THEN 0 ELSE total - 1
  /\ InQname => total # 1
  /\ DomainBounded

\* The inductive invariant.
Inv == TypeOK /\ Bounds /\ FamilyBacked /\ NameLength

-----------------------------------------------------------------------------

\* A payload byte that is in the slice is a byte: payload[i] for i below
\* payload.len().
LEMMA ByteInSlice ==
  ASSUME TypeOK, NEW i \in Nat, i < SliceLen
  PROVE  ByteAt(i) \in Byte /\ ByteAt(i) \in Nat
<1>1. ByteAt(i) \in Byte
  BY DEF TypeOK, RawDnsEvent, SliceLen, ByteAt
<1>2. \A b \in Byte : b \in Nat
  BY DEF Byte
<1>. QED  BY <1>1, <1>2

\* Two bytes, most significant first, make a natural number.
LEMMA WordOfBytes ==
  ASSUME NEW hi \in Byte, NEW lo \in Byte
  PROVE  256 * hi + lo \in Nat
BY DEF Byte

\* A 16 bit read in the slice is a natural number.
LEMMA WordInSlice ==
  ASSUME TypeOK, NEW i \in Nat, i + 1 < SliceLen
  PROVE  Word(i) \in Nat
<1>1. ByteAt(i) \in Byte /\ ByteAt(i + 1) \in Byte
  BY ByteInSlice DEF SliceLen, TypeOK, RawDnsEvent
<1>. QED  BY <1>1, WordOfBytes DEF Word

\* A label that fits is a sequence of LabelLen bytes.
LEMMA LabelBytes ==
  ASSUME TypeOK, LabelLen \in Nat, LabelEnd <= SliceLen
  PROVE  label_bytes \in Seq(Byte) /\ Len(label_bytes) = LabelLen
<1>. DEFINE m == base + offset + 2
            n == base + LabelEnd
            p == event.payload
<1>1. m \in Int /\ n \in Int /\ n = m + LabelLen - 1 /\ n <= Len(p) /\ m >= 1
  BY DEF TypeOK, RawDnsEvent, SliceLen, LabelEnd
<1>2. \A i \in m .. n : p[i] \in Byte
  BY <1>1 DEF TypeOK, RawDnsEvent
<1>. HIDE DEF m, n, p
<1>3. /\ SubSeq(p, m, n) \in Seq(Byte)
      /\ Len(SubSeq(p, m, n)) = IF m <= n THEN n - m + 1 ELSE 0
  BY <1>1, <1>2, SubSeqProperties
<1>4. Len(SubSeq(p, m, n)) = LabelLen
  BY <1>1, <1>3
<1>. QED  BY <1>3, <1>4 DEF m, n, p, label_bytes

\* Record data that fits is a sequence of rdlength bytes.
LEMMA RdataBytes ==
  ASSUME TypeOK, offset + rdlength <= SliceLen
  PROVE  rdata \in Seq(Byte) /\ Len(rdata) = rdlength
<1>. DEFINE m == base + offset + 1
            n == base + offset + rdlength
            p == event.payload
<1>1. m \in Int /\ n \in Int /\ n = m + rdlength - 1 /\ n <= Len(p) /\ m >= 1
      /\ rdlength \in Nat
  BY DEF TypeOK, RawDnsEvent, SliceLen
<1>2. \A i \in m .. n : p[i] \in Byte
  BY <1>1 DEF TypeOK, RawDnsEvent
<1>. HIDE DEF m, n, p
<1>3. /\ SubSeq(p, m, n) \in Seq(Byte)
      /\ Len(SubSeq(p, m, n)) = IF m <= n THEN n - m + 1 ELSE 0
  BY <1>1, <1>2, SubSeqProperties
<1>4. Len(SubSeq(p, m, n)) = rdlength
  BY <1>1, <1>3
<1>. QED  BY <1>3, <1>4 DEF m, n, p, rdata

\* Pushing a label keeps the text a sequence of bytes and adds the label and,
\* after another label, a dot.
LEMMA PushLabelLength ==
  ASSUME NEW out \in Seq(Byte), NEW label \in Seq(Byte)
  PROVE  /\ PushLabel(out, label) \in Seq(Byte)
         /\ Len(PushLabel(out, label)) =
              Len(label) + IF Len(out) = 0 THEN 0 ELSE Len(out) + 1
<1>1. CASE out = << >>
  <2>1. PushLabel(out, label) = out \o label  BY <1>1 DEF PushLabel
  <2>. QED  BY <1>1, <2>1, ConcatProperties
<1>2. CASE out # << >>
  <2>1. PushLabel(out, label) = Append(out, Dot) \o label
    BY <1>2 DEF PushLabel
  <2>2. Append(out, Dot) \in Seq(Byte) /\ Len(Append(out, Dot)) = Len(out) + 1
    BY DEF Dot, Byte
  <2>3. Len(out) # 0  BY <1>2, EmptySeq
  <2>. QED  BY <2>1, <2>2, <2>3, ConcatProperties
<1>. QED  BY <1>1, <1>2

-----------------------------------------------------------------------------
(* TypeOK.                                                                 *)

\* A cleared slot is a response.
LEMMA BlankSlotType == BlankSlot \in DnsResponse
BY DEF BlankSlot, DnsResponse

LEMMA InitTypeOK == Init => TypeOK
BY DEF Init, TypeOK, Points, DefaultEvent, BlankSlot, RawDnsEvent, DnsResponse, Byte

LEMMA NextTypeOK == TypeOK /\ Bounds /\ [Next]_vars => TypeOK'
<1>. SUFFICES ASSUME TypeOK, Bounds, [Next]_vars  PROVE TypeOK'
  OBVIOUS
<1>. USE DEF TypeOK, Points
<1>1. ASSUME NEW e \in RawEvents, Recv(e)  PROVE TypeOK'
  <2>1. e \in RawDnsEvent  BY RawEventsAssumption
  <2>2. e.stamp \in Nat  BY <2>1 DEF RawDnsEvent
  <2>3. [BlankSlot EXCEPT !.stamp = e.stamp] \in DnsResponse
    BY <2>2, BlankSlotType DEF DnsResponse
  <2>4. slot' \in DnsResponse
    BY <1>1, <2>3, BlankSlotType DEF Recv, reset_slot
  <2>. QED  BY <1>1, <2>1, <2>4 DEF Recv, HdrLen
<1>2. CASE QnameHead  BY <1>2 DEF QnameHead
<1>3. CASE QnameLabel  BY <1>3 DEF QnameLabel
<1>4. CASE QnameCopy
  <2>1. LabelLen \in Nat
    BY <1>4, ByteInSlice DEF QnameCopy, LabelLen, Bounds
  <2>2. label_bytes \in Seq(Byte)
    BY <1>4, <2>1, LabelBytes DEF QnameCopy, Bounds, IndexSafe
  <2>3. PushLabel(slot.domain_name, label_bytes) \in Seq(Byte)
    BY <2>2, PushLabelLength DEF DnsResponse
  <2>4. slot' \in DnsResponse
    BY <1>4, <2>3 DEF QnameCopy, DnsResponse
  <2>5. total' \in Nat /\ LabelEnd \in Nat
    BY <1>4, <2>1 DEF QnameCopy, LabelEnd
  <2>. QED  BY <1>4, <2>4, <2>5 DEF QnameCopy
<1>5. CASE QnameEnd
  <2>1. event.payload[7] \in Byte /\ event.payload[8] \in Byte
    BY <1>5 DEF QnameEnd, Bounds, IndexSafe, HdrLen, RawDnsEvent
  <2>2. AnswerCount \in Nat  BY <2>1, WordOfBytes DEF AnswerCount
  <2>. QED  BY <1>5, <2>2 DEF QnameEnd, RdataOffset, HdrLen
<1>6. CASE AnswersDone  BY <1>6 DEF AnswersDone
<1>7. CASE AnswerHead  BY <1>7 DEF AnswerHead
<1>8. CASE NameHead  BY <1>8 DEF NameHead
<1>9. CASE NameEnd  BY <1>9 DEF NameEnd, AfterName
<1>10. CASE NameLabel
  <2>1. NameByteAt(name) \in Nat
    BY <1>10, ByteInSlice DEF NameLabel, NameByteAt, Bounds, IndexSafe
  <2>. QED  BY <1>10, <2>1 DEF NameLabel, NextName
<1>11. CASE RecordHead  BY <1>11 DEF RecordHead
<1>12. CASE RecordFixed
  <2>1. Word(offset) \in Nat /\ Word(offset + 8) \in Nat
    BY <1>12, WordInSlice DEF RecordFixed, Bounds, IndexSafe, SliceLen, RawDnsEvent
  <2>. QED  BY <1>12, <2>1 DEF RecordFixed, RR_FIXED_HDR_LEN
<1>13. CASE RecordSkip
  <2>1. left > 0  BY <1>13 DEF RecordSkip, Bounds, InRecord
  <2>. QED  BY <1>13, <2>1 DEF RecordSkip
<1>14. CASE RecordAddress
  <2>1. left > 0  BY <1>14 DEF RecordAddress, Bounds, InRecord
  <2>2. rdata \in Seq(Byte)
    BY <1>14, RdataBytes DEF RecordAddress, Bounds, IndexSafe
  <2>3. slot.resolved_ip_raw \o rdata \in Seq(Byte)
    BY <2>2, ConcatProperties DEF DnsResponse
  <2>4. FamilyOf(rtype) \in Nat  BY DEF FamilyOf, AF_INET, AF_INET6
  <2>5. slot' \in DnsResponse
    BY <1>14, <2>3, <2>4 DEF RecordAddress, DnsResponse
  <2>. QED  BY <1>14, <2>1, <2>5 DEF RecordAddress
<1>15. CASE Discard
  BY <1>15 DEF Discard, DropLocals, DefaultEvent, RawDnsEvent
<1>16. CASE Deliver
  <2>2. slot' \in DnsResponse  BY <1>16, BlankSlotType DEF Deliver
  <2>. QED
    BY <1>16, <2>2 DEF Deliver, DropLocals, DefaultEvent, RawDnsEvent
<1>17. CASE UNCHANGED vars  BY <1>17 DEF vars
<1>. QED
  BY <1>1, <1>2, <1>3, <1>4, <1>5, <1>6, <1>7, <1>8, <1>9, <1>10, <1>11,
     <1>12, <1>13, <1>14, <1>15, <1>16, <1>17 DEF Next, RecvAny, ParseStep

-----------------------------------------------------------------------------
(* Bounds, and with it IndexSafe.                                          *)

LEMMA InitBounds == Init => Bounds
BY DEF Init, Bounds, InQname, InRdata, InRecord, IndexSafe

LEMMA NextBounds == TypeOK /\ Bounds /\ [Next]_vars => Bounds'
<1>. SUFFICES ASSUME TypeOK, Bounds, [Next]_vars  PROVE Bounds'
  OBVIOUS
<1>0. Len(event.payload) \in Nat  BY DEF TypeOK, RawDnsEvent
<1>. USE <1>0 DEF Bounds, InQname, InRdata, InRecord, IndexSafe, SliceLen
<1>1. ASSUME NEW e \in RawEvents, Recv(e)  PROVE Bounds'
  <2>1. Len(e.payload) \in Nat  BY RawEventsAssumption DEF RawDnsEvent
  <2>. QED  BY <1>1, <2>1 DEF Recv, HdrLen
<1>2. CASE QnameHead  BY <1>2 DEF QnameHead
<1>3. CASE QnameLabel
  BY <1>3 DEF QnameLabel, LabelFits, LabelEnd, LabelLen, ByteAt
<1>4. CASE QnameCopy
  <2>1. LabelLen \in Nat
    BY <1>4, ByteInSlice DEF QnameCopy, LabelLen, TypeOK
  <2>. QED  BY <1>4, <2>1 DEF QnameCopy, LabelEnd, TypeOK
<1>5. CASE QnameEnd
  BY <1>5 DEF QnameEnd, RdataOffset, HdrLen, TypeOK
<1>6. CASE AnswersDone  BY <1>6 DEF AnswersDone
<1>7. CASE AnswerHead  BY <1>7 DEF AnswerHead, TypeOK
<1>8. CASE NameHead  BY <1>8 DEF NameHead, NameSliceLen, TypeOK
<1>9. CASE NameEnd  BY <1>9 DEF NameEnd, NameSliceLen, AfterName, TypeOK
<1>10. CASE NameLabel
  <2>1. NameByteAt(name) \in Nat
    BY <1>10, ByteInSlice DEF NameLabel, NameByteAt, TypeOK
  <2>2. UNCHANGED <<event, base, offset, total, left, rdlength>>
    BY <1>10 DEF NameLabel
  <2>3. pc = "byte" /\ left > 0 /\ base < Len(event.payload)
        /\ HdrLen <= Len(event.payload) /\ offset <= SliceLen
    BY <1>10 DEF NameLabel
  <2>4. CASE pc' = "err"
    BY <2>4
  <2>5. CASE pc' = "name" /\ name' = name + 1 + NameByteAt(name)
             /\ name' <= SliceLen - offset
    <3>1. name' \in Nat /\ SliceLen \in Int /\ offset \in Nat
      BY <2>1, <2>5 DEF TypeOK, SliceLen, RawDnsEvent
    <3>2. offset + name' <= SliceLen
      BY <2>5, <3>1
    <3>3. SliceLen' = SliceLen
      BY <2>2 DEF SliceLen
    <3>. QED  BY <2>2, <2>3, <2>5, <3>2, <3>3
  <2>. QED  BY <1>10, <2>4, <2>5 DEF NameLabel, NextName, NameSliceLen
<1>11. CASE RecordHead
  BY <1>11 DEF RecordHead, FixedHdrFits, RR_FIXED_HDR_LEN, TypeOK
<1>12. CASE RecordFixed
  <2>1. Word(offset + 8) \in Nat
    BY <1>12, WordInSlice DEF RecordFixed, TypeOK
  <2>. QED  BY <1>12, <2>1 DEF RecordFixed, RdataFits, RR_FIXED_HDR_LEN, TypeOK
<1>13. CASE RecordSkip  BY <1>13 DEF RecordSkip, TypeOK
<1>14. CASE RecordAddress  BY <1>14 DEF RecordAddress, TypeOK
<1>15. CASE Discard  BY <1>15 DEF Discard, DropLocals
<1>16. CASE Deliver  BY <1>16 DEF Deliver, DropLocals
<1>17. CASE UNCHANGED vars
  BY <1>17 DEF vars, LabelEnd, LabelLen, ByteAt
<1>. QED
  BY <1>1, <1>2, <1>3, <1>4, <1>5, <1>6, <1>7, <1>8, <1>9, <1>10, <1>11,
     <1>12, <1>13, <1>14, <1>15, <1>16, <1>17 DEF Next, RecvAny, ParseStep

-----------------------------------------------------------------------------
(* FamilyBacked: only RecordAddress adds to the raw bytes.                 *)

\* Steps that keep the slot, and steps that clear it, keep the family backed.
LEMMA FamilyFrame ==
  ASSUME FamilyBacked,
         \/ slot' = slot
         \/ /\ slot'.ip_family = slot.ip_family
            /\ slot'.resolved_ip_raw = slot.resolved_ip_raw
         \/ slot'.ip_family = 0 /\ slot'.resolved_ip_raw = << >>
  PROVE  FamilyBacked'
BY DEF FamilyBacked, AF_INET, AF_INET6

LEMMA InitFamily == Init => FamilyBacked
BY DEF Init, FamilyBacked, BlankSlot

LEMMA NextFamily == TypeOK /\ Bounds /\ FamilyBacked /\ [Next]_vars => FamilyBacked'
<1>. SUFFICES ASSUME TypeOK, Bounds, FamilyBacked, [Next]_vars
              PROVE  FamilyBacked'
  OBVIOUS
<1>1. ASSUME NEW e \in RawEvents, Recv(e)  PROVE FamilyBacked'
  BY <1>1, FamilyFrame DEF Recv, reset_slot, BlankSlot
<1>2. CASE QnameCopy
  <2>1. slot \in DnsResponse  BY DEF TypeOK
  <2>. QED  BY <1>2, <2>1, FamilyFrame DEF QnameCopy, DnsResponse
<1>3. CASE RecordAddress
  <2>1. CASE rdlength = AddrLen(FamilyOf(rtype))
    <3>1. rdata \in Seq(Byte) /\ Len(rdata) = rdlength
      BY <1>3, RdataBytes DEF RecordAddress, Bounds, IndexSafe
    <3>2. slot \in DnsResponse /\ slot.resolved_ip_raw \in Seq(Byte)
      BY DEF TypeOK, DnsResponse
    <3>3. Len(slot.resolved_ip_raw \o rdata) = Len(slot.resolved_ip_raw) + rdlength
      BY <3>1, <3>2, ConcatProperties
    <3>4. /\ slot'.ip_family = FamilyOf(rtype)
          /\ slot'.resolved_ip_raw = slot.resolved_ip_raw \o rdata
      BY <1>3, <2>1, <3>2 DEF RecordAddress, DnsResponse
    <3>5. FamilyOf(rtype) \in {AF_INET, AF_INET6}
      BY <1>3 DEF RecordAddress, FamilyOf
    <3>6. Len(slot'.resolved_ip_raw) >= AddrLen(slot'.ip_family)
      <4>1. Len(slot.resolved_ip_raw) \in Nat /\ rdlength \in Nat
        BY <3>2 DEF TypeOK
      <4>2. Len(slot'.resolved_ip_raw) >= rdlength
        BY <3>3, <3>4, <4>1
      <4>. QED  BY <2>1, <3>4, <4>2
    <3>. QED  BY <3>4, <3>5, <3>6 DEF FamilyBacked, AF_INET, AF_INET6
  <2>2. CASE rdlength # AddrLen(FamilyOf(rtype))
    BY <1>3, <2>2, FamilyFrame DEF RecordAddress
  <2>. QED  BY <2>1, <2>2
<1>4. CASE Deliver
  BY <1>4, FamilyFrame DEF Deliver, BlankSlot
<1>5. CASE \/ QnameHead \/ QnameLabel \/ QnameEnd \/ AnswersDone \/ AnswerHead
           \/ NameHead \/ NameEnd \/ NameLabel \/ RecordHead \/ RecordFixed
           \/ RecordSkip \/ Discard \/ UNCHANGED vars
  <2>1. slot' = slot
    BY <1>5 DEF QnameHead, QnameLabel, QnameEnd, AnswersDone, AnswerHead,
         NameHead, NameEnd, NameLabel, RecordHead, RecordFixed, RecordSkip,
         Discard, vars
  <2>. QED  BY <2>1, FamilyFrame
<1>. QED  BY <1>1, <1>2, <1>3, <1>4, <1>5 DEF Next, RecvAny, ParseStep

-----------------------------------------------------------------------------
(* NameLength: only QnameCopy adds to the name.                            *)

LEMMA InitNameLength == Init => NameLength
BY DEF Init, NameLength, DomainBounded, InQname, BlankSlot, MaxDomainLen

LEMMA NextNameLength == TypeOK /\ Bounds /\ NameLength /\ [Next]_vars => NameLength'
<1>. SUFFICES ASSUME TypeOK, Bounds, NameLength, [Next]_vars
              PROVE  NameLength'
  OBVIOUS
<1>. USE DEF NameLength, DomainBounded, InQname, MaxDomainLen
<1>1. ASSUME NEW e \in RawEvents, Recv(e)  PROVE NameLength'
  <2>1. slot'.domain_name = << >>
    BY <1>1 DEF Recv, reset_slot, BlankSlot
  <2>. QED  BY <1>1, <2>1 DEF Recv, Bounds
<1>2. CASE QnameCopy
  <2>1. CASE DomainFits(total') /\ IsAscii(label_bytes)
    <3>1. LabelLen \in Nat /\ LabelLen # 0
      BY <1>2, ByteInSlice DEF QnameCopy, LabelLen, Bounds, TypeOK
    <3>2. label_bytes \in Seq(Byte) /\ Len(label_bytes) = LabelLen
      BY <1>2, <3>1, LabelBytes DEF QnameCopy, Bounds, IndexSafe
    <3>3. slot \in DnsResponse /\ slot.domain_name \in Seq(Byte)
      BY DEF TypeOK, DnsResponse
    <3>4. slot'.domain_name = PushLabel(slot.domain_name, label_bytes)
      BY <1>2, <2>1, <3>3 DEF QnameCopy, DnsResponse
    <3>5. Len(slot'.domain_name) =
            LabelLen + IF Len(slot.domain_name) = 0 THEN 0
                       ELSE Len(slot.domain_name) + 1
      BY <3>2, <3>3, <3>4, PushLabelLength
    <3>6. total' = total + LabelLen + 1 /\ total' <= 255 /\ total \in Nat
      BY <1>2, <2>1 DEF QnameCopy, DomainFits, TypeOK
    <3>7. Len(slot.domain_name) = IF total = 0 THEN 0 ELSE total - 1
      BY <1>2 DEF QnameCopy
    <3>8. total # 1
      \* one byte of total alone would be a label of length 0
      BY <1>2 DEF QnameCopy, TypeOK
    <3>9. Len(slot'.domain_name) = total' - 1
      BY <3>1, <3>5, <3>6, <3>7, <3>8
    <3>. QED  BY <1>2, <3>1, <3>6, <3>9 DEF QnameCopy
  <2>2. CASE ~(DomainFits(total') /\ IsAscii(label_bytes))
    BY <1>2, <2>2 DEF QnameCopy
  <2>. QED  BY <2>1, <2>2
<1>3. CASE RecordAddress
  <2>1. slot \in DnsResponse  BY DEF TypeOK
  <2>2. slot'.domain_name = slot.domain_name
    BY <1>3, <2>1 DEF RecordAddress, DnsResponse
  <2>. QED  BY <1>3, <2>2 DEF RecordAddress
<1>4. CASE Deliver
  BY <1>4 DEF Deliver, DropLocals, BlankSlot
<1>5. CASE QnameHead \/ QnameLabel \/ QnameEnd
  BY <1>5 DEF QnameHead, QnameLabel, QnameEnd
<1>6. CASE \/ AnswersDone \/ AnswerHead \/ NameHead \/ NameEnd \/ NameLabel
           \/ RecordHead \/ RecordFixed \/ RecordSkip \/ Discard
  BY <1>6 DEF AnswersDone, AnswerHead, NameHead, NameEnd, NameLabel,
       RecordHead, RecordFixed, RecordSkip, Discard, DropLocals
<1>7. CASE UNCHANGED vars  BY <1>7 DEF vars
<1>. QED  BY <1>1, <1>2, <1>3, <1>4, <1>5, <1>6, <1>7 DEF Next, RecvAny, ParseStep

-----------------------------------------------------------------------------
(* The theorems.                                                           *)

LEMMA Inductive == Spec => []Inv
<1>1. Init => Inv
  BY InitTypeOK, InitBounds, InitFamily, InitNameLength DEF Inv
<1>2. Inv /\ [Next]_vars => Inv'
  BY NextTypeOK, NextBounds, NextFamily, NextNameLength DEF Inv
<1>. QED  BY <1>1, <1>2, PTL DEF Spec

\* The parser is type correct whatever events it is given.
THEOREM TypeCorrect == Spec => []TypeOK
<1>1. Inv => TypeOK  BY DEF Inv
<1>. QED  BY <1>1, Inductive, PTL

\* No payload makes parse_qname, parse_rdata or skip_name index outside the
\* slice it was given.
THEOREM NeverOutOfBounds == Spec => []IndexSafe
<1>1. Inv => IndexSafe  BY DEF Inv, Bounds
<1>. QED  BY <1>1, Inductive, PTL

\* The address family parse_dns_into reports has at least one whole address
\* of that family behind it, which FqdnPolicyEngine::update relies on.
THEOREM FamilyAlwaysBacked == Spec => []FamilyBacked
<1>1. Inv => FamilyBacked  BY DEF Inv
<1>. QED  BY <1>1, Inductive, PTL

\* The domain name parse_qname builds never exceeds 254 characters.
THEOREM DomainAlwaysBounded == Spec => []DomainBounded
<1>1. Inv => DomainBounded  BY DEF Inv, NameLength
<1>. QED  BY <1>1, Inductive, PTL
=============================================================================
