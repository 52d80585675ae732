-------------------------- MODULE DnsMessageProofs --------------------------
(***************************************************************************)
(* Proofs that the DNS parser decodes well-formed responses, for every set *)
(* of messages and whatever other raw events come between them: where the  *)
(* parser stands in the bytes that DnsWireProofs locates.                  *)
(***************************************************************************)
EXTENDS DnsParserProofs, DnsWireProofs

(* How parse_qname walks the question.                                     *)

\* The message at hand and the facts about it that every step needs.
LEMMA AtHand ==
  ASSUME NEW m \in Messages, Parsing(m)
  PROVE  /\ WellFormed(m) /\ IsName(m.qname) /\ Len(m.qname) \in Nat
         /\ event.payload = Encode(m)
<1>1. WellFormed(m) /\ event.payload = Encode(m)
  BY MessagesAssumption DEF Parsing, Wire
<1>. QED  BY <1>1 DEF WellFormed, IsName

\* At the start of label k + 1, the parser sees that label, or the root.
LEMMA LabelHere ==
  ASSUME NEW m \in Messages, Parsing(m), base = HdrLen,
         NEW k \in 0 .. Len(m.qname), offset = NameCuts(m.qname)[k]
  PROVE  LET at == NameCuts(m.qname)
             n == Len(m.qname)
         IN  /\ offset < SliceLen
             /\ k = n => LabelLen = 0
             /\ k # n => /\ LabelLen = Len(m.qname[k+1]) /\ LabelEnd = at[k+1]
                         /\ LabelEnd <= SliceLen
                         /\ label_bytes = m.qname[k+1]
<1>. DEFINE at == NameCuts(m.qname)
            n == Len(m.qname)
            w == EncodeName(m.qname)
            p == Encode(m)
<1>1. WellFormed(m) /\ IsName(m.qname) /\ n \in Nat /\ event.payload = p
  BY AtHand
<1>2. /\ p \in Seq(Byte) /\ Len(p) >= 12 + Len(w) /\ Len(w) \in Nat /\ Len(p) \in Nat
      /\ \A i \in 1 .. Len(w) : p[12 + i] = w[i]
  <2>. DEFINE a == FlattenSeq(AnswerStrings(m))
  <2>1. /\ p \in Seq(Byte) /\ a \in Seq(Byte)
        /\ Len(p) = AnswersStart(m) + Len(a) + (IF m.opt THEN Len(OptRecord) ELSE 0)
        /\ \A i \in 1 .. Len(w) : p[12 + i] = w[i]
    BY <1>1, MessageOnWire DEF HdrLen
  <2>2. w \in Seq(Byte)
    BY <1>1, NameOnWire
  <2>3. Len(w) \in Nat /\ Len(a) \in Nat /\ Len(OptRecord) \in Nat /\ Len(p) \in Nat
    BY <2>1, <2>2, OptOnWire
  <2>4. AnswersStart(m) = 12 + Len(w) + 4
    BY DEF AnswersStart, HdrLen
  <2>. HIDE DEF a, p, w
  <2>5. Len(p) >= 12 + Len(w)
    <3>1. CASE m.opt
      BY <2>1, <2>3, <2>4, <3>1
    <3>2. CASE ~m.opt
      BY <2>1, <2>3, <2>4, <3>2
    <3>. QED  BY <3>1, <3>2
  <2>. QED  BY <2>1, <2>3, <2>5
<1>3. /\ LabelCuts(m.qname, at) /\ at[k] <= at[n] /\ Len(w) = at[n] + 1 /\ w[at[n] + 1] = 0
  BY <1>1, NameOnWire
<1>4. at[k] \in Nat /\ at[n] \in Nat
  <2>1. n \in 0 .. n
    BY <1>1
  <2>. QED  BY <2>1, <1>3 DEF LabelCuts
<1>. HIDE DEF p, w, n
<1>5. ByteAt(offset) = w[at[k] + 1]
  <2>1. base + offset + 1 = 12 + (at[k] + 1) /\ at[k] + 1 \in 1 .. Len(w)
    BY <1>3, <1>4 DEF HdrLen
  <2>. QED  BY <2>1, <1>1, <1>2 DEF ByteAt
<1>6. offset < SliceLen /\ SliceLen = Len(p) - 12
  BY <1>1, <1>2, <1>3, <1>4 DEF SliceLen, HdrLen
<1>7. ASSUME k = n PROVE LabelLen = 0
  BY <1>3, <1>5, <1>7 DEF LabelLen
<1>8. ASSUME k # n
      PROVE  /\ LabelLen = Len(m.qname[k+1]) /\ LabelEnd = at[k+1]
             /\ LabelEnd <= SliceLen
             /\ label_bytes = m.qname[k+1]
  <2>. DEFINE l == m.qname[k+1]
  <2>1. k \in 0 .. n - 1
    BY <1>1, <1>8 DEF n
  <2>2. /\ at[k+1] = at[k] + 1 + Len(l) /\ at[k+1] \in Nat /\ at[k+1] <= at[n]
        /\ l \in Seq(Byte) /\ Len(l) \in Nat /\ Len(l) >= 1
    BY <2>1, <1>1, CutsGrow DEF n
  <2>3. w[at[k] + 1] = Len(l) /\ \A i \in 1 .. Len(l) : w[at[k] + 1 + i] = l[i]
    BY <2>1, <1>1, NameOnWire DEF w, n
  <2>. HIDE DEF l, at
  <2>4. LabelLen = Len(l) /\ LabelEnd = at[k+1]
    BY <2>2, <2>3, <1>5 DEF LabelLen, LabelEnd, at
  <2>5. LabelEnd <= SliceLen
    <3>. DEFINE y == at[k+1]
                z == at[n]
                big == Len(p)
                len == Len(w)
    <3>1. /\ y \in Nat /\ z \in Nat /\ y <= z /\ len = z + 1 /\ big >= 12 + len
          /\ len \in Nat /\ big \in Nat
      BY <2>2, <1>2, <1>3, <1>4
    <3>2. LabelEnd = y /\ SliceLen = big - 12
      BY <2>4, <1>6
    <3>. HIDE DEF y, z, big, len
    <3>. QED  BY <3>1, <3>2
  <2>6. label_bytes = l
    <3>. DEFINE x == at[k]
                y == at[k+1]
                len == Len(l)
                lo == 12 + x + 2
                hi == 12 + y
    <3>0. /\ x \in Nat /\ y \in Nat /\ len \in Nat /\ len >= 1 /\ y = x + 1 + len
          /\ y <= Len(w) /\ Len(w) \in Nat /\ Len(p) \in Nat /\ Len(p) >= 12 + Len(w)
      BY <2>2, <1>2, <1>3, <1>4
    <3>1. label_bytes = SubSeq(p, lo, hi)
      BY <2>4, <1>1 DEF label_bytes, HdrLen, at
    <3>2. lo \in Int /\ hi \in Int /\ lo >= 1 /\ hi <= Len(p) /\ hi - lo + 1 = Len(l)
      <4>. HIDE DEF x, y
      <4>1. hi - lo + 1 = len
        BY <3>0
      <4>. QED  BY <3>0, <4>1
    <3>3. \A i \in lo .. hi : p[i] \in Byte
      BY <3>2, <1>2
    <3>4. /\ label_bytes \in Seq(Byte)
          /\ Len(label_bytes) = IF lo <= hi THEN hi - lo + 1 ELSE 0
          /\ \A i \in 1 .. hi - lo + 1 : label_bytes[i] = p[lo + i - 1]
      <4>. HIDE DEF lo, hi
      <4>. QED  BY <3>1, <3>2, <3>3, SubSeqProperties
    <3>5. Len(label_bytes) = Len(l)
      <4>. HIDE DEF lo, hi
      <4>1. lo <= hi
        BY <3>2, <2>2
      <4>. QED  BY <4>1, <3>2, <3>4
    <3>6. ASSUME NEW i \in 1 .. Len(l) PROVE label_bytes[i] = l[i]
      <4>1. lo + i - 1 = 12 + (at[k] + 1 + i) /\ at[k] + 1 + i \in 1 .. Len(w)
        <5>. HIDE DEF x, y, len
        <5>1. i \in Nat /\ i >= 1 /\ i <= len
          BY <3>0 DEF len
        <5>2. lo + i - 1 = 12 + (x + 1 + i) /\ x + 1 + i \in 1 .. Len(w)
          BY <3>0, <5>1
        <5>. QED  BY <5>2 DEF x
      <4>2. label_bytes[i] = p[lo + i - 1]
        BY <3>2, <3>4
      <4>. QED  BY <4>1, <4>2, <2>3, <1>2
    <3>. QED  BY <3>4, <3>5, <3>6, <2>2, SeqEqual
  <2>. QED  BY <2>4, <2>5, <2>6 DEF l
<1>. QED  BY <1>6, <1>7, <1>8 DEF n

\* parse_qname stands at the start of a label or of the root, with the text
\* of the labels before it.
AtLabel(m) ==
  \E k \in 0 .. Len(m.qname) :
    /\ offset = NameCuts(m.qname)[k]
    /\ total = offset
    /\ slot.domain_name = TextUpTo(m.qname, k)
    /\ pc = "copy" => k # Len(m.qname)

\* The inductive invariant behind QuestionExact.
QuestionInv(m) ==
  Parsing(m) =>
    /\ pc # "recv" => slot.stamp = event.stamp
    /\ InQname => AtLabel(m)
    /\ InRdata \/ pc = "ok" => slot.domain_name = Text(m)
    /\ InRdata => base = AnswersStart(m)

\* A step that leaves the question alone.
LEMMA QuestionFrame ==
  ASSUME NEW m, QuestionInv(m), InQname, UNCHANGED <<event, slot, offset, total>>,
         InQname' \/ pc' = "err", pc' # "copy"
  PROVE  QuestionInv(m)'
BY DEF QuestionInv, AtLabel, Parsing, InQname, InRdata

LEMMA QuestionStep ==
  ASSUME NEW m \in Messages, Inv, QuestionInv(m), [Next]_vars
  PROVE  QuestionInv(m)'
<1>. DEFINE at == NameCuts(m.qname)
            n == Len(m.qname)
<1>. USE DEF InQname, InRdata
<1>0. TypeOK /\ Bounds /\ slot \in DnsResponse
  BY DEF Inv, TypeOK
<1>1. ASSUME NEW e \in RawEvents, Recv(e)  PROVE QuestionInv(m)'
  <2>. SUFFICES ASSUME Parsing(m)' PROVE QuestionInv(m)'
    BY DEF QuestionInv
  <2>1. /\ event' = e /\ KnownFamily(e.src_family) /\ KnownFamily(e.dst_family)
        /\ slot' = [BlankSlot EXCEPT !.stamp = e.stamp]
        /\ pc' \in {"qname", "err"} /\ offset' = 0 /\ total' = 0
    BY <1>1, <1>0 DEF Recv, reset_slot, Parsing, Bounds
  <2>2. slot'.stamp = event'.stamp /\ slot'.domain_name = << >>
    BY <2>1 DEF BlankSlot
  <2>3. IsName(m.qname) /\ n \in Nat
    <3>1. IsName(m.qname)
      BY MessagesAssumption DEF WellFormed
    <3>. QED  BY <3>1 DEF IsName
  <2>4. at[0] = 0
    BY <2>3, NameOnWire DEF LabelCuts
  <2>5. TextUpTo(m.qname, 0) = << >>
    <3>1. 0 \in 0 .. n
      BY <2>3
    <3>2. TextUpTo(m.qname, 0) \in Seq(Byte) /\ Len(TextUpTo(m.qname, 0)) = 0
      BY <3>1, <2>3, <2>4, TextUpToType
    <3>. QED  BY <3>2, EmptySeq
  <2>6. AtLabel(m)'
    <3>1. 0 \in 0 .. n
      BY <2>3
    <3>. QED  BY <3>1, <2>1, <2>2, <2>4, <2>5 DEF AtLabel
  <2>. QED  BY <2>1, <2>2, <2>6 DEF QuestionInv
<1>2. CASE QnameHead
  BY <1>2, QuestionFrame DEF QnameHead
<1>3. CASE QnameLabel
  <2>. SUFFICES ASSUME Parsing(m)' PROVE QuestionInv(m)'
    BY DEF QuestionInv
  <2>1. pc = "label" /\ UNCHANGED <<event, slot, offset, total>> /\ pc' \in {"copy", "err"}
        /\ LabelLen # 0
    BY <1>3 DEF QnameLabel
  <2>2. Parsing(m) /\ base = HdrLen
    BY <2>1, <1>0 DEF Parsing, Bounds
  <2>3. PICK k \in 0 .. n : offset = at[k] /\ total = offset
                            /\ slot.domain_name = TextUpTo(m.qname, k)
    BY <2>1, <2>2 DEF QuestionInv, AtLabel
  <2>4. k # n
    BY <2>1, <2>2, <2>3, LabelHere
  <2>5. AtLabel(m)'
    BY <2>1, <2>3, <2>4 DEF AtLabel
  <2>. QED  BY <2>1, <2>2, <2>5 DEF QuestionInv
<1>4. CASE QnameCopy
  <2>. SUFFICES ASSUME Parsing(m)' PROVE QuestionInv(m)'
    BY DEF QuestionInv
  <2>1. pc = "copy" /\ UNCHANGED event
    BY <1>4 DEF QnameCopy
  <2>2. Parsing(m) /\ base = HdrLen
    BY <2>1, <1>0 DEF Parsing, Bounds
  <2>3. PICK k \in 0 .. n : /\ offset = at[k] /\ total = offset /\ k # n
                            /\ slot.domain_name = TextUpTo(m.qname, k)
    BY <2>1, <2>2 DEF QuestionInv, AtLabel
  <2>4. IsName(m.qname) /\ n \in Nat /\ k \in 0 .. n - 1 /\ k + 1 \in 0 .. n
    BY <2>2, <2>3, AtHand
  <2>5. /\ LabelLen = Len(m.qname[k+1]) /\ LabelEnd = at[k+1]
        /\ label_bytes = m.qname[k+1]
    BY <2>2, <2>3, LabelHere
  <2>6. at[k+1] = at[k] + 1 + Len(m.qname[k+1]) /\ at[k] \in Nat /\ Len(m.qname[k+1]) \in Nat
    BY <2>4, CutsGrow
  <2>7. CASE DomainFits(total') /\ IsAscii(label_bytes)
    <3>1. /\ total' = total + LabelLen + 1 /\ offset' = LabelEnd /\ pc' = "qname"
          /\ slot' = [slot EXCEPT !.domain_name = PushLabel(@, label_bytes)]
      BY <1>4, <2>7 DEF QnameCopy
    <3>2. slot'.stamp = slot.stamp
          /\ slot'.domain_name = PushLabel(TextUpTo(m.qname, k), m.qname[k+1])
      BY <1>0, <2>3, <2>5, <3>1 DEF DnsResponse
    <3>3. slot'.domain_name = TextUpTo(m.qname, k + 1)
      BY <2>4, <3>2, PushNext
    <3>4. offset' = at[k+1] /\ total' = offset'
      BY <2>3, <2>5, <2>6, <3>1
    <3>5. AtLabel(m)'
      BY <2>4, <3>1, <3>3, <3>4 DEF AtLabel
    <3>. QED  BY <2>1, <2>2, <3>1, <3>2, <3>5 DEF QuestionInv
  <2>8. CASE ~(DomainFits(total') /\ IsAscii(label_bytes))
    <3>1. pc' = "err" /\ UNCHANGED slot
      BY <1>4, <2>8 DEF QnameCopy
    <3>. QED  BY <2>1, <2>2, <3>1 DEF QuestionInv
  <2>. QED  BY <2>7, <2>8
<1>5. CASE QnameEnd
  <2>. SUFFICES ASSUME Parsing(m)' PROVE QuestionInv(m)'
    BY DEF QuestionInv
  <2>1. /\ pc = "label" /\ LabelLen = 0 /\ UNCHANGED <<event, slot>>
        /\ \/ pc' = "err"
           \/ pc' = "answer" /\ base' = RdataOffset
    BY <1>5 DEF QnameEnd
  <2>2. Parsing(m) /\ base = HdrLen
    BY <2>1, <1>0 DEF Parsing, Bounds
  <2>3. PICK k \in 0 .. n : offset = at[k] /\ slot.domain_name = TextUpTo(m.qname, k)
    BY <2>1, <2>2 DEF QuestionInv, AtLabel
  <2>4. WellFormed(m) /\ IsName(m.qname) /\ n \in Nat
    BY <2>2, AtHand
  <2>5. k = n
    <3>1. CASE k # n
      <4>1. LabelLen = Len(m.qname[k+1])
        BY <2>2, <2>3, <3>1, LabelHere
      <4>2. k \in 0 .. n - 1
        BY <2>4, <3>1
      <4>3. 1 <= Len(m.qname[k+1]) /\ Len(m.qname[k+1]) \in Nat
        BY <2>4, <4>2, CutsGrow
      <4>. QED  BY <2>1, <4>1, <4>3
    <3>. QED  BY <3>1
  <2>6. slot.domain_name = Text(m)
    <3>1. Len(Dotted(m.qname)) = at[n]
      BY <2>4, NameAsText
    <3>2. Text(m) = SubSeq(Dotted(m.qname), 2, at[n])
      BY <2>4, <3>1, TextIsDotted
    <3>. QED  BY <2>3, <2>5, <3>2 DEF TextUpTo
  <2>7. RdataOffset = AnswersStart(m)
    <3>1. Len(EncodeName(m.qname)) = at[n] + 1
      BY <2>4, NameOnWire
    <3>. QED  BY <2>3, <2>5, <3>1 DEF RdataOffset, AnswersStart
  <2>. QED  BY <2>1, <2>2, <2>6, <2>7 DEF QuestionInv
<1>6. CASE RecordAddress
  <2>1. slot'.domain_name = slot.domain_name /\ slot'.stamp = slot.stamp
    BY <1>0, <1>6 DEF RecordAddress, DnsResponse
  <2>2. pc = "rdata" /\ pc' \in {"answer", "err"} /\ UNCHANGED <<event, base>>
    BY <1>6 DEF RecordAddress
  <2>. QED  BY <2>1, <2>2 DEF QuestionInv, Parsing
<1>7. CASE \/ AnswersDone \/ AnswerHead \/ NameHead \/ NameEnd \/ NameLabel
           \/ RecordHead \/ RecordFixed \/ RecordSkip
  <2>1. /\ InRdata /\ UNCHANGED <<event, slot, base>>
        /\ InRdata' \/ pc' \in {"ok", "err"}
    BY <1>7 DEF AnswersDone, AnswerHead, NameHead, NameEnd, NameLabel,
                RecordHead, RecordFixed, RecordSkip
  <2>. QED  BY <2>1 DEF QuestionInv, Parsing
<1>8. CASE Discard \/ Deliver
  BY <1>8 DEF Discard, Deliver, DropLocals, QuestionInv
<1>9. CASE UNCHANGED vars
  BY <1>9 DEF vars, QuestionInv, Parsing, AtLabel
<1>. QED
  BY <1>1, <1>2, <1>3, <1>4, <1>5, <1>6, <1>7, <1>8, <1>9 DEF Next, RecvAny, ParseStep

LEMMA QuestionAlways == Spec => [](\A m \in Messages : QuestionInv(m))
<1>. DEFINE QI == \A m \in Messages : QuestionInv(m)
<1>1. Init => QI
  BY DEF Init, QuestionInv, InQname, InRdata
<1>2. Inv /\ QI /\ [Next]_vars => QI'
  BY QuestionStep
<1>. QED  BY <1>1, <1>2, Inductive, PTL DEF Spec

\* For every set of messages and of other raw events, a parsed message gives
\* its own question and time stamp.
THEOREM QuestionAlwaysExact == Spec => []QuestionExact
<1>1. (\A m \in Messages : QuestionInv(m)) => QuestionExact
  BY DEF QuestionInv, QuestionExact
<1>. QED  BY <1>1, QuestionAlways, PTL

-----------------------------------------------------------------------------
(* How parse_rdata walks the answers.                                      *)

\* Which answer's owner is under the parser's hands, and where it lies.
Before(m) == left = Len(m.answers)
Owner(m) == IF Before(m) THEN First(m).owner ELSE m.answers[2].owner
OwnerAt(m) == IF Before(m) THEN 0 ELSE RecordLen(First(m))

\* skip_name stands at a pointer, at the start of a label or at the root.
AtOwner(m) ==
  /\ offset = OwnerAt(m)
  /\ IF Owner(m) = << >> THEN name = 0
     ELSE \E k \in 0 .. Len(Owner(m)) : name = NameCuts(Owner(m))[k]

\* What the slot holds of the answers: nothing, or the first address as often
\* as the loop has run.
Blank == slot.resolved_ip_raw = << >> /\ slot.ip_family = 0
Taken(m) ==
  IF Before(m) \/ FamilyOf(First(m).type) = 0 THEN Blank
  ELSE /\ slot.ip_family = FamilyOf(First(m).type)
       /\ Len(slot.resolved_ip_raw) >= Len(First(m).rdata)
       /\ \A i \in 1 .. Len(First(m).rdata) :
            slot.resolved_ip_raw[i] = First(m).rdata[i]
       /\ left + 1 = Len(m.answers) => slot.resolved_ip_raw = First(m).rdata

\* The inductive invariant behind SingleAnswerExact.
AnswerInv(m) ==
  Parsing(m) /\ Aligned(m) =>
    /\ pc = "err" => m.answers = << >> /\ ~m.opt
    /\ InQname => Blank
    /\ InRdata \/ pc = "ok" => left <= Len(m.answers) /\ Taken(m)
    /\ pc = "ok" => left = 0 /\ ~(m.answers = << >> /\ ~m.opt)
    /\ pc = "answer" => offset = OwnerAt(m)
    /\ pc \in {"name", "byte"} => AtOwner(m)
    /\ pc \in {"record", "fixed"} => offset = OwnerLen(First(m))
    /\ pc = "rdata" => /\ offset = OwnerLen(First(m)) + 10
                       /\ rtype = First(m).type
                       /\ rdlength = Len(First(m).rdata)

\* At the length of the first owner the parser sees the rest of the first
\* record.
LEMMA RecordHere ==
  ASSUME NEW m \in Messages, Parsing(m), base = AnswersStart(m), 1 <= Len(m.answers)
  PROVE  LET o == OwnerLen(First(m))
             len == Len(First(m).rdata)
         IN  /\ o + 10 + len <= SliceLen
             /\ Word(o) = First(m).type /\ Word(o + 8) = len
             /\ offset = o + 10 /\ rdlength = len => rdata = First(m).rdata
<1>. DEFINE a == First(m)
            o == OwnerLen(a)
            bytes == a.rdata
            len == Len(bytes)
            p == Encode(m)
            r == AnswersStart(m)
            w == EncodeAnswer(a)
<1>1. WellFormed(m) /\ event.payload = p
  BY AtHand
<1>2. IsRecord(a) /\ o \in Nat /\ len \in Nat /\ bytes \in Seq(Byte) /\ RecordLen(a) = o + 10 + len
  BY <1>1, FirstIsRecord
<1>3. /\ r \in Nat /\ r + RecordLen(a) <= Len(p)
      /\ \A i \in 1 .. RecordLen(a) : p[r + i] = w[i]
  <2>1. 1 \in {1, 2}
    OBVIOUS
  <2>2. r \in Nat /\ r + 0 = r
    BY <1>1, MessageLength
  <2>. QED  BY <2>1, <2>2, <1>1, AnswerOnWire DEF First
<1>4. /\ 256 * w[o + 1] + w[o + 2] = a.type /\ 256 * w[o + 9] + w[o + 10] = len
      /\ \A i \in 1 .. len : w[o + 10 + i] = bytes[i]
  BY <1>2, RecordOnWire DEF OwnerLen
<1>5. p \in Seq(Byte) /\ Len(p) \in Nat
  BY <1>1, MessageOnWire, MessageLength
<1>. HIDE DEF a, o, bytes, len, p, r, w
<1>6. SliceLen = Len(p) - r
  BY <1>1 DEF SliceLen, r
<1>7. o + 10 + len <= SliceLen
  BY <1>2, <1>3, <1>5, <1>6
<1>8. ASSUME NEW i \in 0 .. o + 9 PROVE ByteAt(i) = w[i + 1]
  <2>1. base + i + 1 = r + (i + 1) /\ i + 1 \in 1 .. RecordLen(a)
    BY <1>2, <1>3 DEF r
  <2>. QED  BY <2>1, <1>1, <1>3 DEF ByteAt
<1>9. Word(o) = a.type /\ Word(o + 8) = len
  <2>1. /\ o \in 0 .. o + 9 /\ o + 1 \in 0 .. o + 9 /\ o + 8 \in 0 .. o + 9
        /\ o + 8 + 1 \in 0 .. o + 9
        /\ o + 1 + 1 = o + 2 /\ o + 8 + 1 = o + 9 /\ o + 8 + 1 + 1 = o + 10
    BY <1>2
  <2>2. /\ ByteAt(o) = w[o + 1] /\ ByteAt(o + 1) = w[o + 2]
        /\ ByteAt(o + 8) = w[o + 9] /\ ByteAt(o + 8 + 1) = w[o + 10]
    BY <2>1, <1>8
  <2>. QED  BY <2>2, <1>4 DEF Word
<1>10. ASSUME offset = o + 10, rdlength = len PROVE rdata = bytes
  <2>. DEFINE lo == r + (o + 10) + 1
              hi == r + (o + 10) + len
  <2>1. rdata = SubSeq(p, lo, hi)
    BY <1>1, <1>10 DEF rdata, r
  <2>2. lo \in Int /\ hi \in Int /\ lo >= 1 /\ hi <= Len(p) /\ hi - lo + 1 = len
    BY <1>2, <1>3, <1>5
  <2>3. \A i \in lo .. hi : p[i] \in Byte
    BY <2>2, <1>5
  <2>4. /\ rdata \in Seq(Byte) /\ Len(rdata) = IF lo <= hi THEN hi - lo + 1 ELSE 0
        /\ \A i \in 1 .. hi - lo + 1 : rdata[i] = p[lo + i - 1]
    <3>. HIDE DEF lo, hi
    <3>. QED  BY <2>1, <2>2, <2>3, SubSeqProperties
  <2>5. Len(rdata) = Len(bytes)
    BY <2>2, <2>4, <1>2 DEF len
  <2>6. ASSUME NEW i \in 1 .. len PROVE rdata[i] = bytes[i]
    <3>1. lo + i - 1 = r + (o + 10 + i) /\ o + 10 + i \in 1 .. RecordLen(a)
      <4>1. o + 10 + i \in 1 .. o + 10 + len
        BY <1>2
      <4>2. lo + i - 1 = r + (o + 10 + i)
        BY <1>2, <1>3
      <4>. QED  BY <4>1, <4>2, <1>2
    <3>2. rdata[i] = p[lo + i - 1]
      <4>1. i \in 1 .. hi - lo + 1
        BY <2>2
      <4>. HIDE DEF lo, hi
      <4>. QED  BY <4>1, <2>4
    <3>. QED  BY <3>1, <3>2, <1>3, <1>4
  <2>. QED  BY <2>4, <2>5, <2>6, <1>2, SeqEqual DEF len
<1>. QED  BY <1>7, <1>9, <1>10 DEF a, o, bytes, len

\* At the place of an owner skip_name sees that owner.
LEMMA OwnerHere ==
  ASSUME NEW m \in Messages, Parsing(m), Aligned(m), base = AnswersStart(m),
         left \in Nat, left > 0, left <= Len(m.answers), offset = OwnerAt(m)
  PROVE  LET o == OwnerLen(First(m))
         IN  /\ IsName(Owner(m)) /\ Len(EncodeOwner(Owner(m))) = o
             /\ o \in Nat /\ offset \in Nat /\ SliceLen \in Int
             /\ offset + o < SliceLen
             /\ \A i \in 0 .. o - 1 : NameByteAt(i) = EncodeOwner(Owner(m))[i + 1]
<1>. DEFINE k == IF Before(m) THEN 1 ELSE 2
            a == m.answers[k]
            o == OwnerLen(a)
            p == Encode(m)
            r == AnswersStart(m)
            w == EncodeAnswer(a)
            skip == IF k = 1 THEN 0 ELSE RecordLen(m.answers[1])
<1>1. WellFormed(m) /\ event.payload = p /\ Len(m.answers) \in Nat
  <2>1. WellFormed(m) /\ event.payload = p
    BY AtHand
  <2>. QED  BY <2>1 DEF WellFormed
<1>2. k \in {1, 2} /\ k <= Len(m.answers)
  BY <1>1 DEF Before
<1>3. a.owner = Owner(m) /\ skip = offset /\ IsRecord(a)
  <2>1. a.owner = Owner(m) /\ skip = offset
    BY DEF Owner, OwnerAt, First
  <2>2. k \in 1 .. Len(m.answers)
    BY <1>1, <1>2
  <2>. HIDE DEF k
  <2>3. IsRecord(a)
    BY <2>2, <1>1 DEF WellFormed
  <2>. QED  BY <2>1, <2>3
<1>4. o = OwnerLen(First(m))
  BY <1>1, <1>2 DEF Aligned, First
<1>. HIDE DEF k
<1>5. /\ r + skip + RecordLen(a) <= Len(p) /\ r + skip \in Nat
      /\ \A i \in 1 .. RecordLen(a) : p[r + skip + i] = w[i]
  BY <1>1, <1>2, AnswerOnWire
<1>6. o \in Nat /\ Len(a.rdata) \in Nat /\ RecordLen(a) = o + 10 + Len(a.rdata)
  BY <1>3, Lengths DEF RecordLen
<1>7. \A i \in 1 .. o : w[i] = EncodeOwner(a.owner)[i]
  BY <1>3, RecordOnWire DEF OwnerLen
<1>8. r \in Nat /\ Len(p) \in Nat
  BY <1>1, MessageLength
<1>9. skip \in Nat
  BY <1>1, FirstIsRecord DEF First, k, Before
<1>. HIDE DEF skip
<1>10. SliceLen = Len(p) - r /\ offset = skip /\ base = r
  BY <1>1, <1>3 DEF SliceLen
<1>. DEFINE size == RecordLen(a)
            whole == Len(p)
            len == Len(a.rdata)
<1>a. /\ r + skip + size <= whole /\ size = o + 10 + len
      /\ r \in Nat /\ skip \in Nat /\ whole \in Nat /\ o \in Nat /\ len \in Nat
  BY <1>5, <1>6, <1>8, <1>9
<1>b. SliceLen = whole - r
  BY <1>10
<1>. HIDE DEF o, w, p, r, a, size, whole, len
<1>11. offset + o < SliceLen /\ SliceLen \in Int /\ offset \in Nat
  BY <1>a, <1>b, <1>10
<1>12. ASSUME NEW i \in 0 .. o - 1 PROVE NameByteAt(i) = EncodeOwner(a.owner)[i + 1]
  <2>1. /\ base + (offset + i) + 1 = r + skip + (i + 1)
        /\ i + 1 \in 1 .. size /\ i + 1 \in 1 .. o
    BY <1>a, <1>10
  <2>2. p[r + skip + (i + 1)] = w[i + 1]
    BY <2>1, <1>5 DEF size
  <2>3. NameByteAt(i) = p[base + (offset + i) + 1]
    BY <1>1 DEF NameByteAt, ByteAt
  <2>. QED  BY <2>1, <2>2, <2>3, <1>7
<1>13. IsName(a.owner) /\ Len(EncodeOwner(a.owner)) = o
  BY <1>3 DEF IsRecord, OwnerLen, o
<1>. QED  BY <1>3, <1>4, <1>6, <1>11, <1>12, <1>13 DEF a

\* One pass of skip_name over the owner at hand: it finds the end where the
\* first owner would end, or steps to the next label.
LEMMA SkipHere ==
  ASSUME NEW m \in Messages, Parsing(m), Aligned(m), base = AnswersStart(m),
         left \in Nat, left > 0, left <= Len(m.answers), AtOwner(m)
  PROVE  LET b == NameByteAt(name)
             o == OwnerLen(First(m))
         IN  /\ name < NameSliceLen
             /\ IsPointer(b) \/ b = 0 =>
                  name + (IF IsPointer(b) THEN 2 ELSE 1) = o /\ o <= NameSliceLen
             /\ ~IsPointer(b) /\ b # 0 =>
                  /\ b <= MaxLabelLen /\ NextName(name, b) <= NameSliceLen
                  /\ Owner(m) # << >>
                  /\ \E k \in 0 .. Len(Owner(m)) : NextName(name, b) = NameCuts(Owner(m))[k]
<1>. DEFINE own == Owner(m)
            b == NameByteAt(name)
            o == OwnerLen(First(m))
            at == NameCuts(own)
            n == Len(own)
            w == EncodeOwner(own)
<1>1. /\ IsName(own) /\ Len(w) = o /\ o \in Nat /\ offset \in Nat /\ SliceLen \in Int
      /\ offset + o < SliceLen /\ \A i \in 0 .. o - 1 : NameByteAt(i) = w[i + 1]
  BY OwnerHere DEF AtOwner
<1>2. o < NameSliceLen /\ NameSliceLen \in Int
  <2>. HIDE DEF o
  <2>. QED  BY <1>1 DEF NameSliceLen
<1>3. CASE own = << >>
  <2>1. w = <<192, 12>> /\ o = 2 /\ name = 0
    <3>1. w = <<192, 12>> /\ name = 0
      BY <1>3 DEF EncodeOwner, Pointer, AtOwner
    <3>. QED  BY <3>1, <1>1
  <2>2. b = 192
    <3>1. 0 \in 0 .. o - 1 /\ 0 + 1 = 1
      BY <2>1
    <3>2. NameByteAt(0) = w[0 + 1]
      BY <3>1, <1>1
    <3>. QED  BY <2>1, <3>1, <3>2
  <2>. HIDE DEF b, o
  <2>3. IsPointer(b) /\ name + 2 = o /\ name < NameSliceLen /\ o <= NameSliceLen
    BY <2>1, <2>2, <1>2 DEF IsPointer, COMPRESSION_MASK
  <2>. QED  BY <2>3 DEF b, o
<1>4. CASE own # << >>
  <2>1. PICK k \in 0 .. n : name = at[k]
    BY <1>4 DEF AtOwner
  <2>. DEFINE x == at[k]
              y == at[n]
  <2>2. n \in Nat /\ w = EncodeName(own)
    BY <1>1, <1>4 DEF IsName, EncodeOwner
  <2>3. /\ LabelCuts(own, at) /\ x <= y /\ o = y + 1 /\ w[y + 1] = 0
    <3>1. /\ LabelCuts(own, at) /\ at[k] <= at[n]
          /\ Len(EncodeName(own)) = at[n] + 1 /\ EncodeName(own)[at[n] + 1] = 0
      BY <1>1, NameOnWire
    <3>. QED  BY <3>1, <2>2, <1>1
  <2>4. x \in Nat /\ y \in Nat
    <3>1. n \in 0 .. n
      BY <2>2
    <3>. QED  BY <3>1, <2>3 DEF LabelCuts
  <2>5. b = w[x + 1]
    <3>. HIDE DEF x, y, o
    <3>1. x \in 0 .. o - 1
      BY <2>3, <2>4
    <3>2. NameByteAt(x) = w[x + 1]
      BY <3>1, <1>1
    <3>. QED  BY <3>2, <2>1 DEF x
  <2>6. name < NameSliceLen
    <3>. HIDE DEF x, y, o
    <3>. QED  BY <2>1, <2>3, <2>4, <1>2 DEF x
  <2>7. CASE k = n
    <3>1. b = 0 /\ ~IsPointer(b)
      <4>1. b = 0
        BY <2>3, <2>5, <2>7
      <4>. QED  BY <4>1 DEF IsPointer, COMPRESSION_MASK
    <3>2. name + 1 = o
      BY <2>1, <2>3, <2>7
    <3>. HIDE DEF b, o
    <3>. QED  BY <3>1, <3>2, <2>6, <1>1, <1>2 DEF b, o
  <2>8. CASE k # n
    <3>. DEFINE z == at[k+1]
                len == Len(own[k+1])
    <3>1. k \in 0 .. n - 1 /\ k + 1 \in 0 .. n
      BY <2>2, <2>8
    <3>2. z = x + 1 + len /\ z \in Nat /\ z <= y /\ len \in Nat /\ 1 <= len /\ len <= MaxLabelLen
      BY <3>1, <1>1, CutsGrow
    <3>3. b = len
      <4>1. EncodeName(own)[at[k] + 1] = Len(own[k+1])
        BY <3>1, <1>1, NameOnWire
      <4>. QED  BY <4>1, <2>2, <2>5
    <3>4. NextName(name, b) = z
      <4>. HIDE DEF x, z, len, b
      <4>. QED  BY <2>1, <2>4, <3>2, <3>3 DEF NextName, x
    <3>5. ~IsPointer(b) /\ b # 0 /\ b <= MaxLabelLen /\ z <= NameSliceLen
      <4>. HIDE DEF x, y, z, len, b, o
      <4>. QED  BY <1>2, <2>3, <2>4, <3>2, <3>3 DEF IsPointer, COMPRESSION_MASK, MaxLabelLen
    <3>6. \E j \in 0 .. n : NextName(name, b) = at[j]
      BY <3>1, <3>4
    <3>7. NextName(name, b) <= NameSliceLen
      BY <3>4, <3>5
    <3>. HIDE DEF b, own, at, n
    <3>8. /\ name < NameSliceLen
          /\ IsPointer(b) \/ b = 0 => FALSE
          /\ b <= MaxLabelLen /\ NextName(name, b) <= NameSliceLen /\ own # << >>
          /\ \E j \in 0 .. n : NextName(name, b) = at[j]
      BY <3>5, <3>6, <3>7, <2>6, <1>4
    <3>. QED  BY <3>8 DEF b, own, at, n
  <2>. QED  BY <2>7, <2>8
<1>. QED  BY <1>3, <1>4

\* A step over the answers that leaves the slot and the count alone leaves
\* what was taken.
LEMMA TakenFrame ==
  ASSUME NEW m, Taken(m), UNCHANGED <<slot, left>>
  PROVE  Taken(m)'
BY DEF Taken, Before, Blank

\* parse_qname and the prologue: a message gets past all their tests.
LEMMA AnswerQname ==
  ASSUME NEW m \in Messages, Inv, QuestionInv(m), AnswerInv(m), Parsing(m)', Aligned(m),
         QnameHead \/ QnameLabel \/ QnameCopy \/ QnameEnd
            \/ (\E e \in RawEvents : Recv(e))
  PROVE  AnswerInv(m)'
<1>. DEFINE at == NameCuts(m.qname)
            n == Len(m.qname)
            count == Len(m.answers)
<1>. USE DEF InQname, InRdata
<1>0. TypeOK /\ Bounds /\ slot \in DnsResponse /\ left \in Nat
  BY DEF Inv, TypeOK
<1>w. /\ WellFormed(m) /\ IsName(m.qname) /\ n \in Nat /\ count \in Nat
  <2>1. WellFormed(m)
    BY MessagesAssumption
  <2>. QED  BY <2>1 DEF WellFormed, IsName
<1>1. ASSUME NEW e \in RawEvents, Recv(e)  PROVE AnswerInv(m)'
  <2>1. event' = e /\ e.payload = Encode(m) /\ KnownFamily(e.src_family) /\ KnownFamily(e.dst_family)
    BY <1>1 DEF Recv, Parsing, Wire
  <2>2. Len(e.payload) >= HdrLen
    BY <2>1, <1>w, MessageLength DEF HdrLen
  <2>3. pc' = "qname" /\ slot' = [BlankSlot EXCEPT !.stamp = e.stamp]
    BY <1>1, <2>1, <2>2 DEF Recv, reset_slot
  <2>4. Blank'
    BY <2>3 DEF Blank, BlankSlot
  <2>. QED  BY <2>3, <2>4 DEF AnswerInv
<1>2. CASE QnameHead
  <2>1. pc = "qname" /\ UNCHANGED <<event, slot, offset>>
    BY <1>2 DEF QnameHead
  <2>2. Parsing(m) /\ base = HdrLen
    BY <2>1, <1>0 DEF Parsing, Bounds
  <2>3. PICK k \in 0 .. n : offset = at[k]
    BY <2>1, <2>2 DEF QuestionInv, AtLabel
  <2>4. offset < SliceLen
    BY <2>2, <2>3, LabelHere
  <2>5. pc' = "label"
    BY <1>2, <2>4 DEF QnameHead
  <2>. QED  BY <2>1, <2>2, <2>5 DEF AnswerInv, Blank
<1>3. CASE QnameLabel
  <2>1. pc = "label" /\ UNCHANGED <<event, slot, offset>> /\ LabelLen # 0
    BY <1>3 DEF QnameLabel
  <2>2. Parsing(m) /\ base = HdrLen
    BY <2>1, <1>0 DEF Parsing, Bounds
  <2>3. PICK k \in 0 .. n : offset = at[k]
    BY <2>1, <2>2 DEF QuestionInv, AtLabel
  <2>4. k # n
    BY <2>1, <2>2, <2>3, LabelHere
  <2>5. LabelLen = Len(m.qname[k+1]) /\ LabelEnd <= SliceLen
    BY <2>2, <2>3, <2>4, LabelHere
  <2>6. Len(m.qname[k+1]) <= MaxLabelLen
    <3>1. k \in 0 .. n - 1
      BY <2>4, <1>w
    <3>. QED  BY <3>1, <1>w, CutsGrow
  <2>7. pc' = "copy"
    BY <1>3, <2>5, <2>6 DEF QnameLabel, LabelFits
  <2>. QED  BY <2>1, <2>2, <2>7 DEF AnswerInv, Blank
<1>4. CASE QnameCopy
  <2>1. pc = "copy" /\ UNCHANGED event
    BY <1>4 DEF QnameCopy
  <2>2. Parsing(m) /\ base = HdrLen
    BY <2>1, <1>0 DEF Parsing, Bounds
  <2>3. PICK k \in 0 .. n : offset = at[k] /\ total = offset /\ k # n
    BY <2>1, <2>2 DEF QuestionInv, AtLabel
  <2>4. k \in 0 .. n - 1 /\ k + 1 \in 1 .. n
    BY <2>3, <1>w
  <2>5. LabelLen = Len(m.qname[k+1]) /\ label_bytes = m.qname[k+1]
    BY <2>2, <2>3, LabelHere
  <2>6. IsAscii(label_bytes)
    BY <2>4, <2>5, <1>w DEF WellFormed
  <2>7. DomainFits(total')
    <3>. DEFINE x == at[k]
                y == at[k+1]
                z == at[n]
                l == Len(m.qname[k+1])
    <3>1. y = x + 1 + l /\ x \in Nat /\ y \in Nat /\ y <= z /\ z \in Nat /\ l \in Nat
      BY <2>4, <1>w, CutsGrow
    <3>2. z + 1 <= MaxDomainLen + 1
      <4>1. Len(EncodeName(m.qname)) = at[n] + 1
        BY <1>w, NameOnWire
      <4>. QED  BY <4>1, <1>w DEF WellFormed
    <3>3. total' = x + l + 1
      BY <1>4, <2>3, <2>5 DEF QnameCopy
    <3>. HIDE DEF x, y, z, l
    <3>. QED  BY <3>1, <3>2, <3>3 DEF DomainFits, MaxDomainLen
  <2>8. pc' = "qname" /\ slot' = [slot EXCEPT !.domain_name = PushLabel(@, label_bytes)]
    BY <1>4, <2>6, <2>7 DEF QnameCopy
  <2>9. Blank'
    BY <2>1, <2>2, <2>8, <1>0 DEF AnswerInv, Blank, DnsResponse
  <2>. QED  BY <2>8, <2>9 DEF AnswerInv
<1>5. CASE QnameEnd
  <2>1. pc = "label" /\ LabelLen = 0 /\ UNCHANGED <<event, slot>> /\ left' = AnswerCount
    BY <1>5 DEF QnameEnd
  <2>2. Parsing(m) /\ base = HdrLen /\ event.payload = Encode(m)
    <3>1. Parsing(m) /\ base = HdrLen
      BY <2>1, <1>0 DEF Parsing, Bounds
    <3>. QED  BY <3>1, AtHand
  <2>3. PICK k \in 0 .. n : offset = at[k]
    BY <2>1, <2>2 DEF QuestionInv, AtLabel
  <2>4. k = n
    <3>1. CASE k # n
      <4>1. LabelLen = Len(m.qname[k+1])
        BY <2>2, <2>3, <3>1, LabelHere
      <4>2. k \in 0 .. n - 1
        BY <1>w, <3>1
      <4>3. 1 <= Len(m.qname[k+1]) /\ Len(m.qname[k+1]) \in Nat
        BY <1>w, <4>2, CutsGrow
      <4>. QED  BY <2>1, <4>1, <4>3
    <3>. QED  BY <3>1
  <2>5. RdataOffset = AnswersStart(m)
    <3>1. Len(EncodeName(m.qname)) = at[n] + 1
      BY <1>w, NameOnWire
    <3>. QED  BY <2>3, <2>4, <3>1 DEF RdataOffset, AnswersStart
  <2>6. left' = count
    BY <2>1, <2>2, <1>w, MessageOnWire DEF AnswerCount
  <2>7. Blank'
    BY <2>1, <2>2 DEF AnswerInv, Blank
  <2>8. Taken(m)'
    BY <2>6, <2>7 DEF Taken, Before
  <2>9. CASE RdataOffset < Len(event.payload)
    <3>1. pc' = "answer" /\ offset' = 0
      BY <1>5, <2>9 DEF QnameEnd
    <3>2. offset' = OwnerAt(m)'
      BY <3>1, <2>6 DEF OwnerAt, Before
    <3>. QED  BY <3>1, <3>2, <2>6, <2>8, <1>w DEF AnswerInv
  <2>10. CASE ~(RdataOffset < Len(event.payload))
    <3>1. pc' = "err"
      BY <1>5, <2>10 DEF QnameEnd
    <3>2. AnswersStart(m) = Len(Encode(m))
      BY <2>2, <2>5, <2>10, <1>w, MessageLength
    <3>3. m.answers = << >> /\ ~m.opt
      BY <3>2, <1>w, MessageLength
    <3>. QED  BY <3>1, <3>3 DEF AnswerInv
  <2>. QED  BY <2>9, <2>10
<1>. QED  BY <1>1, <1>2, <1>3, <1>4, <1>5

\* What the invariants say in the record loop.
LEMMA InAnswers ==
  ASSUME NEW m \in Messages, Inv, QuestionInv(m), AnswerInv(m), Parsing(m)', Aligned(m),
         InRdata, UNCHANGED event
  PROVE  LET a == First(m)
             o == OwnerLen(a)
             len == Len(a.rdata)
         IN  /\ Parsing(m) /\ base = AnswersStart(m) /\ base < Len(event.payload)
             /\ left \in Nat /\ Len(m.answers) \in Nat
             /\ left <= Len(m.answers) /\ Taken(m)
             /\ left > 0 => /\ 1 <= Len(m.answers) /\ IsRecord(a) /\ o \in Nat /\ len \in Nat
                            /\ RecordLen(a) \in Nat /\ RecordLen(a) = o + 10 + len
                            /\ a.rdata \in Seq(Byte)
<1>. USE DEF InRdata
<1>1. Parsing(m)
  BY DEF Parsing
<1>2. base = AnswersStart(m) /\ left <= Len(m.answers) /\ Taken(m)
  BY <1>1 DEF QuestionInv, AnswerInv
<1>3. left \in Nat /\ base < Len(event.payload)
  BY DEF Inv, TypeOK, Bounds
<1>4. WellFormed(m)
  BY MessagesAssumption
<1>5. Len(m.answers) \in Nat
  BY <1>4 DEF WellFormed
<1>6. left > 0 => 1 <= Len(m.answers)
  BY <1>2, <1>3, <1>5
<1>. QED  BY <1>1, <1>2, <1>3, <1>4, <1>5, <1>6, FirstIsRecord

\* From the head of the record loop to the end of skip_name.
LEMMA AnswerName ==
  ASSUME NEW m \in Messages, Inv, QuestionInv(m), AnswerInv(m), Parsing(m)', Aligned(m),
         AnswersDone \/ AnswerHead \/ NameHead \/ NameEnd \/ NameLabel
  PROVE  AnswerInv(m)'
<1>. DEFINE o == OwnerLen(First(m))
<1>. USE DEF InQname, InRdata
<1>a. InRdata /\ UNCHANGED <<event, base, slot, left>>
  BY DEF AnswersDone, AnswerHead, NameHead, NameEnd, NameLabel
<1>0. /\ Parsing(m) /\ base = AnswersStart(m) /\ base < Len(event.payload)
      /\ left \in Nat /\ left <= Len(m.answers) /\ Taken(m)
  BY <1>a, InAnswers
<1>t. Taken(m)' /\ left' <= Len(m.answers)
  BY <1>a, <1>0, TakenFrame
<1>6. CASE AnswersDone
  <2>1. pc = "answer" /\ left = 0 /\ pc' = "ok" /\ UNCHANGED <<event, base, slot, left>>
    BY <1>6 DEF AnswersDone
  <2>2. ~(m.answers = << >> /\ ~m.opt)
    <3>1. Parsing(m) /\ base = AnswersStart(m) /\ base < Len(event.payload)
      BY <1>0
    <3>2. event.payload = Encode(m)
      BY <3>1, AtHand
    <3>. QED  BY <3>1, <3>2, MessagesAssumption, MessageLength
  <2>. QED  BY <2>1, <2>2, <1>t DEF AnswerInv
<1>7. CASE AnswerHead
  <2>1. pc = "answer" /\ left > 0 /\ name' = 0 /\ UNCHANGED <<event, base, slot, left, offset>>
    BY <1>7 DEF AnswerHead
  <2>2. offset = OwnerAt(m)
    BY <2>1, <1>0 DEF AnswerInv
  <2>3. /\ IsName(Owner(m)) /\ o \in Nat /\ offset \in Nat /\ SliceLen \in Int
        /\ offset + o < SliceLen
    BY <2>1, <2>2, <1>0, OwnerHere
  <2>4. pc' = "name"
    <3>. HIDE DEF o
    <3>1. offset < SliceLen
      BY <2>3
    <3>. QED  BY <1>7, <3>1 DEF AnswerHead
  <2>5. AtOwner(m)'
    <3>1. Len(Owner(m)) \in Nat /\ NameCuts(Owner(m))[0] = 0
      BY <2>3, NameOnWire DEF IsName, LabelCuts
    <3>2. Owner(m)' = Owner(m) /\ OwnerAt(m)' = OwnerAt(m)
      BY <2>1 DEF Owner, OwnerAt, Before
    <3>3. \E k \in 0 .. Len(Owner(m)) : name' = NameCuts(Owner(m))[k]
      <4>1. 0 \in 0 .. Len(Owner(m))
        BY <3>1
      <4>. QED  BY <4>1, <3>1, <2>1
    <3>. QED  BY <3>2, <3>3, <2>1, <2>2 DEF AtOwner
  <2>. QED  BY <2>1, <2>4, <2>5, <1>t DEF AnswerInv
<1>b. ASSUME pc \in {"name", "byte"}
      PROVE  LET b == NameByteAt(name)
             IN  /\ name < NameSliceLen
                 /\ IsPointer(b) \/ b = 0 =>
                      name + (IF IsPointer(b) THEN 2 ELSE 1) = o /\ o <= NameSliceLen
                 /\ ~IsPointer(b) /\ b # 0 =>
                      /\ b <= MaxLabelLen /\ NextName(name, b) <= NameSliceLen
                      /\ Owner(m) # << >>
                      /\ \E k \in 0 .. Len(Owner(m)) : NextName(name, b) = NameCuts(Owner(m))[k]
  <2>1. AtOwner(m) /\ left > 0
    BY <1>0, <1>b DEF AnswerInv, Inv, Bounds, InRecord
  <2>. QED  BY <2>1, <1>0, SkipHere
<1>8. CASE NameHead
  <2>1. pc = "name" /\ UNCHANGED <<event, base, slot, left, offset, name>>
    BY <1>8 DEF NameHead
  <2>2. pc' = "byte"
    BY <2>1, <1>8, <1>b DEF NameHead
  <2>3. AtOwner(m)'
    <3>1. AtOwner(m)
      BY <2>1, <1>0 DEF AnswerInv
    <3>. QED  BY <3>1, <2>1 DEF AtOwner, Owner, OwnerAt, Before
  <2>. QED  BY <2>1, <2>2, <2>3, <1>t DEF AnswerInv
<1>9. CASE NameEnd
  <2>. DEFINE b == NameByteAt(name)
              skipped == name + (IF IsPointer(b) THEN 2 ELSE 1)
  <2>1. /\ pc = "byte" /\ UNCHANGED <<event, base, slot, left>>
        /\ IsPointer(b) \/ b = 0
        /\ IF skipped <= NameSliceLen THEN pc' = "record" /\ offset' = skipped
                                      ELSE pc' = "err" /\ UNCHANGED offset
    BY <1>9 DEF NameEnd, AfterName
  <2>2. skipped = o /\ o <= NameSliceLen
    BY <2>1, <1>b
  <2>3. pc' = "record" /\ offset' = o
    BY <2>1, <2>2
  <2>. QED  BY <2>1, <2>3, <1>t DEF AnswerInv, First
<1>10. CASE NameLabel
  <2>. DEFINE b == NameByteAt(name)
  <2>1. /\ pc = "byte" /\ UNCHANGED <<event, base, slot, left, offset>>
        /\ ~IsPointer(b) /\ b # 0
        /\ IF b <= MaxLabelLen /\ NextName(name, b) <= NameSliceLen
           THEN pc' = "name" /\ name' = NextName(name, b)
           ELSE pc' = "err" /\ UNCHANGED name
    BY <1>10 DEF NameLabel
  <2>2. /\ b <= MaxLabelLen /\ NextName(name, b) <= NameSliceLen /\ Owner(m) # << >>
        /\ \E k \in 0 .. Len(Owner(m)) : NextName(name, b) = NameCuts(Owner(m))[k]
    BY <2>1, <1>b
  <2>. HIDE DEF b
  <2>3. pc' = "name" /\ name' = NextName(name, b)
    BY <2>1, <2>2
  <2>4. AtOwner(m)'
    <3>1. AtOwner(m)
      BY <2>1, <1>0 DEF AnswerInv
    <3>2. Owner(m)' = Owner(m) /\ OwnerAt(m)' = OwnerAt(m)
      BY <2>1 DEF Owner, OwnerAt, Before
    <3>. QED  BY <3>1, <3>2, <2>1, <2>2, <2>3 DEF AtOwner
  <2>. QED  BY <2>1, <2>3, <2>4, <1>t DEF AnswerInv
<1>. QED  BY <1>6, <1>7, <1>8, <1>9, <1>10

\* From the fixed part of a record to the next pass.
LEMMA AnswerRecord ==
  ASSUME NEW m \in Messages, Inv, QuestionInv(m), AnswerInv(m), Parsing(m)', Aligned(m),
         RecordHead \/ RecordFixed \/ RecordSkip \/ RecordAddress
  PROVE  AnswerInv(m)'
<1>. DEFINE a == First(m)
            o == OwnerLen(a)
            len == Len(a.rdata)
            count == Len(m.answers)
<1>. USE DEF InQname, InRdata
<1>a. pc \in {"record", "fixed", "rdata"} /\ UNCHANGED <<event, base>>
  BY DEF RecordHead, RecordFixed, RecordSkip, RecordAddress
<1>0. /\ Parsing(m) /\ base = AnswersStart(m) /\ left \in Nat /\ count \in Nat
      /\ left <= count /\ Taken(m) /\ left > 0
  <2>1. left > 0
    BY <1>a DEF Inv, Bounds, InRecord
  <2>. QED  BY <2>1, <1>a, InAnswers
<1>b. /\ 1 <= count /\ IsRecord(a) /\ o \in Nat /\ len \in Nat
      /\ RecordLen(a) = o + 10 + len /\ a.rdata \in Seq(Byte)
  BY <1>0, <1>a, InAnswers
<1>c. /\ o + 10 + len <= SliceLen
      /\ Word(o) = a.type /\ Word(o + 8) = len
      /\ offset = o + 10 /\ rdlength = len => rdata = a.rdata
  BY <1>0, <1>b, RecordHere
<1>s. SliceLen \in Int
  <2>1. event.payload = Encode(m) /\ WellFormed(m)
    BY <1>0, AtHand
  <2>. QED  BY <2>1, <1>0, MessageLength DEF SliceLen
<1>11. CASE RecordHead
  <2>1. pc = "record" /\ UNCHANGED <<event, base, slot, left, offset>>
    BY <1>11 DEF RecordHead
  <2>2. offset = o
    BY <2>1, <1>0 DEF AnswerInv
  <2>3. FixedHdrFits
    <3>1. o \in Nat /\ len \in Nat /\ o + 10 + len <= SliceLen /\ SliceLen \in Int
      BY <1>b, <1>c, <1>s
    <3>. HIDE DEF o, len
    <3>. QED  BY <3>1, <2>2 DEF FixedHdrFits, RR_FIXED_HDR_LEN
  <2>4. pc' = "fixed"
    BY <2>3, <1>11 DEF RecordHead
  <2>. QED  BY <2>1, <2>2, <2>4, <1>0, TakenFrame DEF AnswerInv, First
<1>12. CASE RecordFixed
  <2>1. /\ pc = "fixed" /\ UNCHANGED <<event, base, slot, left>>
        /\ rtype' = Word(offset) /\ rdlength' = Word(offset + 8) /\ offset' = offset + 10
        /\ pc' = IF offset' + rdlength' <= SliceLen THEN "rdata" ELSE "err"
    BY <1>12 DEF RecordFixed, RR_FIXED_HDR_LEN, RdataFits
  <2>2. offset = o
    BY <2>1, <1>0 DEF AnswerInv
  <2>3. Word(o) = a.type /\ Word(o + 8) = len /\ o + 10 + len <= SliceLen
    BY <1>c
  <2>4. pc' = "rdata" /\ offset' = o + 10 /\ rtype' = a.type /\ rdlength' = len
    BY <2>1, <2>2, <2>3
  <2>. QED  BY <2>1, <2>4, <1>0, TakenFrame DEF AnswerInv, First
<1>d. ASSUME pc = "rdata", left' = left - 1,
             offset' = offset + rdlength, pc' = "answer", Taken(m)'
      PROVE  AnswerInv(m)'
  <2>1. /\ offset = o + 10 /\ rdlength = len /\ left > 0 /\ left <= count
        /\ RecordLen(a) = o + 10 + len
    BY <1>0, <1>b, <1>d DEF AnswerInv
  <2>2. left' <= count /\ ~Before(m)'
    BY <2>1, <1>0, <1>d DEF Before
  <2>3. offset' = OwnerAt(m)'
    BY <2>1, <2>2, <1>d DEF OwnerAt, First
  <2>. QED  BY <2>2, <2>3, <1>d DEF AnswerInv
<1>13. CASE RecordSkip
  <2>1. /\ pc = "rdata" /\ FamilyOf(rtype) = 0 /\ offset' = offset + rdlength
        /\ left' = left - 1 /\ pc' = "answer" /\ UNCHANGED <<event, base, slot>>
    BY <1>13 DEF RecordSkip
  <2>2. FamilyOf(a.type) = 0
    BY <2>1, <1>0 DEF AnswerInv
  <2>3. Taken(m)'
    BY <2>1, <2>2, <1>0 DEF Taken, First, Blank
  <2>. QED  BY <2>1, <2>3, <1>d
<1>14. CASE RecordAddress
  <2>. DEFINE f == FamilyOf(a.type)
              raw == slot.resolved_ip_raw
              bytes == a.rdata
  <2>1. pc = "rdata" /\ FamilyOf(rtype) # 0 /\ UNCHANGED <<event, base>>
    BY <1>14 DEF RecordAddress
  <2>2. /\ rtype = a.type /\ offset = o + 10 /\ rdlength = len /\ Taken(m) /\ left > 0
        /\ IsRecord(a) /\ bytes \in Seq(Byte) /\ len \in Nat /\ left <= count
        /\ rdata = bytes
    BY <2>1, <1>0, <1>b, <1>c DEF AnswerInv
  <2>3. f # 0 /\ rdlength = AddrLen(f)
    BY <2>1, <2>2 DEF IsRecord
  <2>4. /\ slot' = [slot EXCEPT !.resolved_ip_raw = @ \o rdata, !.ip_family = f]
        /\ offset' = offset + rdlength /\ left' = left - 1 /\ pc' = "answer"
    BY <1>14, <2>2, <2>3 DEF RecordAddress
  <2>5. slot'.resolved_ip_raw = raw \o bytes /\ slot'.ip_family = f /\ raw \in Seq(Byte)
    BY <2>2, <2>4 DEF Inv, TypeOK, DnsResponse
  <2>6. ~Before(m)'
    BY <2>2, <2>4, <1>0 DEF Before
  <2>7. /\ Len(slot'.resolved_ip_raw) >= len
        /\ \A i \in 1 .. len : slot'.resolved_ip_raw[i] = bytes[i]
        /\ left' + 1 = count => slot'.resolved_ip_raw = bytes
    <3>. HIDE DEF raw, bytes
    <3>1. CASE Before(m)
      <4>1. raw = << >>
        BY <2>2, <3>1 DEF Taken, Blank, raw
      <4>2. slot'.resolved_ip_raw = bytes
        BY <4>1, <2>2, <2>5
      <4>. QED  BY <4>2, <2>2 DEF bytes
    <3>2. CASE ~Before(m)
      <4>1. Len(raw) >= len /\ \A i \in 1 .. len : raw[i] = bytes[i]
        BY <2>2, <2>3, <3>2 DEF Taken, raw, bytes
      <4>2. left' + 1 # count
        BY <2>2, <2>4, <3>2, <1>0 DEF Before
      <4>3. /\ Len(raw \o bytes) = Len(raw) + Len(bytes)
            /\ \A i \in 1 .. Len(raw) : (raw \o bytes)[i] = raw[i]
        BY <2>2, <2>5, ConcatAt
      <4>4. Len(raw) \in Nat /\ len = Len(bytes)
        BY <2>5 DEF bytes
      <4>. HIDE DEF len
      <4>5. Len(raw \o bytes) >= len /\ \A i \in 1 .. len : i \in 1 .. Len(raw)
        BY <2>2, <4>1, <4>3, <4>4
      <4>. QED  BY <2>5, <4>1, <4>2, <4>3, <4>5
    <3>. QED  BY <3>1, <3>2
  <2>8. Taken(m)'
    BY <2>3, <2>5, <2>6, <2>7 DEF Taken, First
  <2>. QED  BY <2>1, <2>4, <2>8, <1>d
<1>. QED  BY <1>11, <1>12, <1>13, <1>14

LEMMA AnswerStep ==
  ASSUME NEW m \in Messages, Inv, QuestionInv(m), AnswerInv(m), [Next]_vars
  PROVE  AnswerInv(m)'
<1>. SUFFICES ASSUME Parsing(m)', Aligned(m) PROVE AnswerInv(m)'
  BY DEF AnswerInv, Aligned
<1>1. CASE Discard \/ Deliver
  BY <1>1 DEF Discard, Deliver, DropLocals, AnswerInv, InQname, InRdata
<1>2. CASE UNCHANGED vars
  BY <1>2 DEF vars, AnswerInv, Parsing, AtOwner, Owner, OwnerAt, Before, Taken, Blank, First,
              InQname, InRdata
<1>3. CASE RecvAny \/ ParseStep
  BY <1>3, AnswerQname, AnswerName, AnswerRecord DEF RecvAny, ParseStep
<1>. QED  BY <1>1, <1>2, <1>3 DEF Next

LEMMA AnswersAlways == Spec => [](\A m \in Messages : AnswerInv(m))
<1>. DEFINE QI == \A m \in Messages : QuestionInv(m)
            AI == \A m \in Messages : AnswerInv(m)
<1>1. Init => AI
  BY DEF Init, AnswerInv, InQname, InRdata
<1>2. Inv /\ QI /\ AI /\ [Next]_vars => AI'
  BY AnswerStep
<1>. QED  BY <1>1, <1>2, Inductive, QuestionAlways, PTL DEF Spec

\* For every set of messages and of other raw events, a response with at most
\* one answer is decoded exactly, and refused only when nothing at all
\* follows its question.
THEOREM SingleAnswerAlwaysExact == Spec => []SingleAnswerExact
<1>1. ASSUME NEW m \in Messages, AnswerInv(m), pc \in {"ok", "err"}, Parsing(m),
             Len(m.answers) <= 1, left \in Nat
      PROVE  IF m.answers = << >> /\ ~m.opt
             THEN pc = "err"
             ELSE /\ pc = "ok"
                  /\ slot.resolved_ip_raw = AddressBytes(m)
                  /\ slot.ip_family = LastFamily(m)
  <2>0. WellFormed(m)
    BY <1>1, MessagesAssumption
  <2>1. /\ WellFormed(m) /\ Len(m.answers) \in Nat
        /\ m.answers = << >> <=> Len(m.answers) = 0
    BY <2>0, EmptySeq DEF WellFormed
  <2>2. Aligned(m)
    BY <1>1, <2>1 DEF Aligned
  <2>3. CASE pc = "err"
    BY <1>1, <2>2, <2>3 DEF AnswerInv
  <2>4. CASE pc = "ok"
    <3>1. Taken(m) /\ left = 0 /\ ~(m.answers = << >> /\ ~m.opt)
      BY <1>1, <2>2, <2>4 DEF AnswerInv
    <3>2. Before(m) <=> m.answers = << >>
      BY <3>1, <2>1 DEF Before
    <3>3. m.answers # << >> => left + 1 = Len(m.answers)
      <4>. DEFINE k == Len(m.answers)
      <4>1. k \in Nat /\ k <= 1 /\ (m.answers # << >> => k # 0)
        BY <1>1, <2>1
      <4>. HIDE DEF k
      <4>2. m.answers # << >> => 0 + 1 = k
        BY <4>1
      <4>. QED  BY <3>1, <4>2 DEF k
    <3>4. slot.resolved_ip_raw = AddressBytes(m) /\ slot.ip_family = LastFamily(m)
      BY <3>1, <3>2, <3>3, <2>1, <1>1, OneAnswer DEF Taken, Blank
    <3>. QED  BY <3>1, <3>4, <2>4
  <2>. QED  BY <1>1, <2>3, <2>4
<1>2. Inv /\ (\A m \in Messages : AnswerInv(m)) => SingleAnswerExact
  <2>1. Inv => left \in Nat
    BY DEF Inv, TypeOK
  <2>. QED  BY <1>1, <2>1 DEF SingleAnswerExact
<1>. QED  BY <1>2, AnswersAlways, Inductive, PTL
=============================================================================
