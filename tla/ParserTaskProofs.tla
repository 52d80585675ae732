-------------------------- MODULE ParserTaskProofs --------------------------
(***************************************************************************)
(* Proofs about the parser task, for every set of raw events, every set of *)
(* allowed domains and every map capacity.  The task does to the parser's  *)
(* variables only what the parser does, so what is proved of the parser    *)
(* holds in the task.                                                      *)
(***************************************************************************)
EXTENDS AnswerPolicy, DnsMessageProofs, FiniteSetTheorems

\* The parser task is a parser: seen through the parser's variables, every
\* step of spawn_dns_parser is a step of parse_dns_into or none at all.
THEOREM TaskIsParser == TaskSpec => Spec
<1>1. TaskInit => Init
  BY DEF TaskInit
<1>2. [TaskNext]_taskVars => [Next]_vars
  BY DEF TaskNext, Handover, Next, taskVars, vars
<1>. QED  BY <1>1, <1>2, PTL DEF TaskSpec, Spec

\* FqdnPolicyEngine::update never panics in its unwrap.
THEOREM UpdateNeverPanics == TaskSpec => []UnwrapSafe
<1>1. FamilyBacked => UnwrapSafe
  BY DEF FamilyBacked, UnwrapSafe, HasFamily, AddrLen, ChunkLen, AF_INET, AF_INET6
<1>. QED  BY <1>1, TaskIsParser, FamilyAlwaysBacked, PTL

\* The raw bytes in the slot come from the packet being parsed.
InPacket(b) == \E j \in 1 .. Len(event.payload) : b = event.payload[j]

RawFromPacket ==
  pc # "recv" => \A i \in 1 .. Len(slot.resolved_ip_raw) : InPacket(slot.resolved_ip_raw[i])

LEMMA RdataFromPacket ==
  ASSUME TypeOK, offset + rdlength <= SliceLen
  PROVE  \A i \in 1 .. rdlength : InPacket(rdata[i])
<1>. DEFINE m == base + offset + 1
            n == base + offset + rdlength
            p == event.payload
<1>1. /\ base \in Nat /\ offset \in Nat /\ rdlength \in Nat /\ Len(p) \in Nat
      /\ base + offset + rdlength <= Len(p)
  BY DEF TypeOK, RawDnsEvent, SliceLen
<1>2. p \in Seq(Byte) /\ DOMAIN p = 1 .. Len(p)
  BY DEF TypeOK, RawDnsEvent
<1>3. m \in Int /\ n \in Int /\ m >= 1 /\ n <= Len(p) /\ n - m + 1 = rdlength
  BY <1>1
<1>4. \A i \in m .. n : p[i] \in Byte
  BY <1>1, <1>2, <1>3
<1>5. rdata = SubSeq(p, m, n)
  BY DEF rdata
<1>. HIDE DEF m, n
<1>6. \A i \in 1 .. n - m + 1 : SubSeq(p, m, n)[i] = p[m + i - 1]
  BY <1>3, <1>4, SubSeqProperties
<1>7. ASSUME NEW i \in 1 .. rdlength PROVE InPacket(rdata[i])
  <2>1. m + i - 1 \in 1 .. Len(p)
    BY <1>1, <1>3
  <2>2. rdata[i] = p[m + i - 1]
    BY <1>3, <1>5, <1>6
  <2>. QED  BY <2>1, <2>2 DEF InPacket
<1>. QED  BY <1>7

LEMMA RawStep == TypeOK /\ Bounds /\ RawFromPacket /\ [Next]_vars => RawFromPacket'
<1>. SUFFICES ASSUME TypeOK, Bounds, RawFromPacket, [Next]_vars
              PROVE  RawFromPacket'
  OBVIOUS
<1>1. ASSUME NEW e \in RawEvents, Recv(e)  PROVE RawFromPacket'
  <2>1. slot'.resolved_ip_raw = << >>
    BY <1>1 DEF Recv, reset_slot, BlankSlot
  <2>. QED  BY <2>1 DEF RawFromPacket
<1>2. CASE /\ pc # "recv" /\ UNCHANGED event
           /\ slot'.resolved_ip_raw = slot.resolved_ip_raw
  BY <1>2 DEF RawFromPacket, InPacket
<1>3. CASE QnameHead \/ QnameLabel \/ QnameEnd \/ AnswersDone \/ AnswerHead \/ NameHead
             \/ NameEnd \/ NameLabel \/ RecordHead \/ RecordFixed \/ RecordSkip
  <2>1. pc # "recv" /\ UNCHANGED <<event, slot>>
    BY <1>3 DEF QnameHead, QnameLabel, QnameEnd, AnswersDone, AnswerHead, NameHead,
                NameEnd, NameLabel, RecordHead, RecordFixed, RecordSkip
  <2>. QED  BY <2>1, <1>2
<1>4. CASE QnameCopy
  <2>1. pc # "recv" /\ UNCHANGED event
    BY <1>4 DEF QnameCopy
  <2>2. slot'.resolved_ip_raw = slot.resolved_ip_raw
    BY <1>4 DEF QnameCopy, TypeOK, DnsResponse
  <2>. QED  BY <2>1, <2>2, <1>2
<1>5. CASE RecordAddress
  <2>. DEFINE r == slot.resolved_ip_raw
  <2>1. pc = "rdata" /\ UNCHANGED event
    BY <1>5 DEF RecordAddress
  <2>2. offset + rdlength <= SliceLen
    BY <2>1 DEF Bounds, IndexSafe
  <2>3. r \in Seq(Byte) /\ Len(r) \in Nat
    BY DEF TypeOK, DnsResponse
  <2>4. rdata \in Seq(Byte) /\ Len(rdata) = rdlength /\ rdlength \in Nat
    BY <2>2, RdataBytes DEF TypeOK
  <2>5. \A i \in 1 .. Len(r) : InPacket(r[i])
    BY <2>1 DEF RawFromPacket
  <2>6. \A i \in 1 .. rdlength : InPacket(rdata[i])
    BY <2>2, RdataFromPacket
  <2>7. slot'.resolved_ip_raw = r \/ slot'.resolved_ip_raw = r \o rdata
    BY <1>5 DEF RecordAddress, TypeOK, DnsResponse
  <2>. HIDE DEF r
  <2>8. /\ Len(r \o rdata) = Len(r) + Len(rdata)
        /\ \A i \in 1 .. Len(r) + Len(rdata) :
             (r \o rdata)[i] = IF i <= Len(r) THEN r[i] ELSE rdata[i - Len(r)]
    BY <2>3, <2>4, ConcatProperties
  <2>9. ASSUME NEW i \in 1 .. Len(r \o rdata) PROVE InPacket((r \o rdata)[i])
    <3>1. CASE i <= Len(r)
      BY <3>1, <2>3, <2>4, <2>5, <2>8
    <3>2. CASE ~(i <= Len(r))
      <4>1. i - Len(r) \in 1 .. rdlength
        BY <3>2, <2>3, <2>4, <2>8
      <4>2. (r \o rdata)[i] = rdata[i - Len(r)]
        BY <3>2, <2>3, <2>4, <2>8
      <4>. QED  BY <4>1, <4>2, <2>6
    <3>. QED  BY <3>1, <3>2
  <2>. DEFINE new == slot'.resolved_ip_raw
  <2>10. \A i \in 1 .. Len(new) : InPacket(new[i])
    <3>1. CASE new = r
      BY <3>1, <2>5
    <3>2. CASE new = r \o rdata
      BY <3>2, <2>9
    <3>. QED  BY <3>1, <3>2, <2>7
  <2>. QED  BY <2>1, <2>10 DEF RawFromPacket, InPacket
<1>6. CASE Discard \/ Deliver
  BY <1>6 DEF Discard, Deliver, DropLocals, RawFromPacket
<1>7. CASE UNCHANGED vars
  BY <1>7 DEF vars, RawFromPacket, InPacket
<1>. QED  BY <1>1, <1>3, <1>4, <1>5, <1>6, <1>7 DEF Next, RecvAny, ParseStep

LEMMA AlwaysFromPacket == Spec => []RawFromPacket
<1>1. Init => RawFromPacket
  BY DEF Init, RawFromPacket
<1>2. Inv => TypeOK /\ Bounds
  BY DEF Inv
<1>. QED  BY <1>1, <1>2, RawStep, Inductive, PTL DEF Spec

\* What FqdnPolicyEngine::update makes of a slot is a key from the packet.
LEMMA KeyFromPacket ==
  ASSUME TypeOK, RawFromPacket, UnwrapSafe, pc = "ok", Allowed(slot), HasFamily(slot)
  PROVE  FromPacket(ip_addr(slot))
<1>. DEFINE r == slot.resolved_ip_raw
            f == slot.ip_family
            k == ip_addr(slot)
<1>1. r \in Seq(Byte) /\ Len(r) \in Nat /\ f \in {AF_INET, AF_INET6}
  BY DEF TypeOK, DnsResponse, HasFamily
<1>2. Len(r) >= ChunkLen(f)
  BY DEF UnwrapSafe
<1>3. \A i \in 1 .. ChunkLen(f) : InPacket(r[i])
  BY <1>1, <1>2 DEF RawFromPacket, ChunkLen
<1>4. \A i \in 1 .. ChunkLen(f) : first_chunk(slot)[i] = r[i]
  <2>1. 1 \in Int /\ ChunkLen(f) \in Int /\ ChunkLen(f) - 1 + 1 = ChunkLen(f)
    BY DEF ChunkLen
  <2>2. \A i \in 1 .. ChunkLen(f) : r[i] \in Byte /\ 1 + i - 1 = i
    BY <1>1, <1>2, <2>1
  <2>3. \A i \in 1 .. ChunkLen(f) - 1 + 1 : SubSeq(r, 1, ChunkLen(f))[i] = r[1 + i - 1]
    BY <2>1, <2>2, SubSeqProperties
  <2>. QED  BY <2>1, <2>2, <2>3 DEF first_chunk
<1>5. k.family = f
  BY <1>1 DEF ip_addr, from_ipv4, from_ipv6, HasFamily, AF_INET, AF_INET6
<1>6. ASSUME NEW i \in 1 .. 16
      PROVE  k.bytes[i] = IF i <= ChunkLen(f) THEN first_chunk(slot)[i] ELSE 0
  BY <1>1 DEF ip_addr, from_ipv4, from_ipv6, ChunkLen, AF_INET, AF_INET6
<1>. HIDE DEF k, r, f
<1>7. ASSUME NEW i \in 1 .. 16, i <= ChunkLen(f) PROVE InPacket(k.bytes[i])
  <2>1. i \in 1 .. ChunkLen(f)
    BY <1>7 DEF ChunkLen
  <2>. QED  BY <2>1, <1>3, <1>4, <1>6, <1>7
<1>8. FromPacket(k)
  BY <1>5, <1>6, <1>7 DEF FromPacket, InPacket
<1>. QED  BY <1>8 DEF k

\* Admitted addresses stay, and each is made of bytes of the packet whose
\* response admitted it, for every packet, domain list and map capacity.
THEOREM NothingStaleAdmitted == TaskSpec => AdmittedFromPacket
<1>. DEFINE Fresh == /\ allowed_ip_map \subseteq allowed_ip_map'
                     /\ \A k \in allowed_ip_map' \ allowed_ip_map : FromPacket(k)
<1>1. ASSUME TypeOK, RawFromPacket, UnwrapSafe, [TaskNext]_taskVars
      PROVE  [Fresh]_taskVars
  <2>1. CASE UNCHANGED allowed_ip_map
    BY <2>1
  <2>2. CASE pc = "ok" /\ Admit(slot)
    <3>1. FromPacket(ip_addr(slot))
      BY <1>1, <2>2, KeyFromPacket DEF Admit
    <3>. QED  BY <2>2, <3>1 DEF Admit
  <2>. QED  BY <1>1, <2>1, <2>2 DEF TaskNext, Handover, Update, Skip, NoFamily, MapFull,
                                    taskVars, policyVars
<1>2. TypeOK /\ RawFromPacket /\ UnwrapSafe /\ [TaskNext]_taskVars => [Fresh]_taskVars
  BY <1>1
<1>. QED  BY <1>2, TaskIsParser, TypeCorrect, AlwaysFromPacket, UpdateNeverPanics, PTL
          DEF TaskSpec, AdmittedFromPacket

-----------------------------------------------------------------------------
(* Which addresses of well-formed responses are admitted.                  *)

\* The map never holds more than ALLOWED_IP_MAP has room for.
MapBounded ==
  IsFiniteSet(allowed_ip_map) /\ Cardinality(allowed_ip_map) <= MapCapacity

LEMMA AlwaysMapBounded == TaskSpec => []MapBounded
<1>1. TaskInit => MapBounded
  BY FS_EmptySet, MapCapacityAssumption DEF TaskInit, PolicyInit, MapBounded
<1>2. MapBounded /\ [TaskNext]_taskVars => MapBounded'
  <2>. SUFFICES ASSUME MapBounded, [TaskNext]_taskVars PROVE MapBounded'
    OBVIOUS
  <2>1. CASE UNCHANGED allowed_ip_map
    BY <2>1 DEF MapBounded
  <2>2. CASE Admit(slot)
    <3>. DEFINE k == ip_addr(slot)
    <3>1. allowed_ip_map' = allowed_ip_map \cup {k} /\ HasRoom(k)
      BY <2>2 DEF Admit
    <3>2. /\ IsFiniteSet(allowed_ip_map \cup {k})
          /\ Cardinality(allowed_ip_map \cup {k}) =
               IF k \in allowed_ip_map THEN Cardinality(allowed_ip_map)
                                       ELSE Cardinality(allowed_ip_map) + 1
      BY FS_AddElement DEF MapBounded
    <3>3. Cardinality(allowed_ip_map) \in Nat
      BY FS_CardinalityType DEF MapBounded
    <3>. HIDE DEF k
    <3>. QED  BY <3>1, <3>2, <3>3, MapCapacityAssumption DEF MapBounded, HasRoom
  <2>. QED  BY <2>1, <2>2 DEF TaskNext, Handover, Update, Skip, NoFamily, MapFull,
                              taskVars, policyVars
<1>. QED  BY <1>1, <1>2, PTL DEF TaskSpec

\* What update makes of a parsed response: the key of its first answer.
LEMMA FirstKey ==
  ASSUME NEW m \in Messages, TypeOK, AnswerInv(m), Parsing(m), Aligned(m), pc = "ok"
  PROVE  /\ HasFamily(slot) <=> 1 \in AddressAt(m)
         /\ 1 \in AddressAt(m) => ip_addr(slot) = KeyOf(m.answers[1])
<1>. DEFINE a == First(m)
            f == FamilyOf(a.type)
            raw == slot.resolved_ip_raw
            bytes == a.rdata
            n == Len(bytes)
<1>1. WellFormed(m)
  BY MessagesAssumption
<1>2. /\ Len(m.answers) \in Nat /\ (1 \in 1 .. Len(m.answers) <=> Len(m.answers) # 0)
  <2>1. Len(m.answers) \in Nat
    BY <1>1 DEF WellFormed
  <2>. QED  BY <2>1
<1>3. Taken(m) /\ left = 0 /\ raw \in Seq(Byte)
  BY DEF AnswerInv, TypeOK, DnsResponse
<1>4. Before(m) <=> Len(m.answers) = 0
  BY <1>3 DEF Before
<1>5. CarriesAddress(a) <=> f # 0
  BY DEF CarriesAddress, FamilyOf, TypeA, TypeAAAA, AF_INET, AF_INET6
<1>6. 1 \in AddressAt(m) <=> ~Before(m) /\ f # 0
  BY <1>2, <1>4, <1>5 DEF AddressAt, First
<1>7. CASE 1 \notin AddressAt(m)
  <2>1. slot.ip_family = 0
    BY <1>3, <1>6, <1>7 DEF Taken, Blank
  <2>. QED  BY <2>1, <1>7 DEF HasFamily, AF_INET, AF_INET6
<1>8. CASE 1 \in AddressAt(m)
  <2>1. /\ slot.ip_family = f /\ Len(raw) >= n /\ \A i \in 1 .. n : raw[i] = bytes[i]
    BY <1>3, <1>6, <1>8 DEF Taken
  <2>2. f \in {AF_INET, AF_INET6} /\ (f = AF_INET <=> a.type = TypeA)
    BY <1>6, <1>8 DEF FamilyOf, TypeA, TypeAAAA, AF_INET, AF_INET6
  <2>3. bytes \in Seq(Byte) /\ n = AddrLen(f)
    BY <1>1, <1>2, <1>4, <1>6, <1>8 DEF WellFormed, IsRecord, First
  <2>4. ChunkLen(f) = n /\ n \in Nat /\ n >= 1
    BY <2>2, <2>3 DEF ChunkLen, AddrLen, AF_INET, AF_INET6
  <2>. DEFINE c == SubSeq(raw, 1, n)
  <2>5. first_chunk(slot) = c
    BY <2>1, <2>4 DEF first_chunk
  <2>. HIDE DEF n
  <2>6. c = bytes
    <3>1. Len(raw) \in Nat /\ 1 \in Int /\ n \in Int /\ n - 1 + 1 = n /\ 1 <= n
      BY <1>3, <2>4
    <3>2. \A i \in 1 .. n : raw[i] \in Byte /\ 1 + i - 1 = i
      BY <3>1, <1>3, <2>1, <2>4
    <3>. HIDE DEF raw, bytes
    <3>3. /\ c \in Seq(Byte) /\ Len(c) = IF 1 <= n THEN n - 1 + 1 ELSE 0
          /\ \A i \in 1 .. n - 1 + 1 : c[i] = raw[1 + i - 1]
      BY <3>1, <3>2, SubSeqProperties
    <3>4. Len(c) = n /\ \A i \in 1 .. n : c[i] = bytes[i]
      BY <3>1, <3>2, <3>3, <2>1
    <3>. HIDE DEF c
    <3>. QED  BY <3>3, <3>4, <2>3, SeqEqual DEF n
  <2>7. ip_addr(slot) = KeyOf(a)
    BY <2>1, <2>2, <2>5, <2>6 DEF ip_addr, KeyOf
  <2>. QED  BY <2>1, <2>2, <2>7, <1>8 DEF HasFamily, First
<1>. QED  BY <1>7, <1>8

\* Whatever else arrives, and whatever the domains and the capacity are, the
\* first address of a response for an allowed domain in which the record loop
\* keeps its footing is admitted unless the map is full.
THEOREM FirstAddressAlwaysAdmitted == TaskSpec => FirstAddressAdmitted
<1>. DEFINE AI == \A m \in Messages : AnswerInv(m)
            First1 == \A m \in Messages : (HandsOver(m) /\ Aligned(m) /\ 1 \in AddressAt(m)) =>
                        KeyOf(m.answers[1]) \in allowed_ip_map' \/ MapIsFull
<1>1. TypeOK /\ AI /\ MapBounded /\ [TaskNext]_taskVars => [First1]_taskVars
  <2>. SUFFICES ASSUME TypeOK, AI, MapBounded, TaskNext,
                       NEW m \in Messages, HandsOver(m), Aligned(m), 1 \in AddressAt(m)
                PROVE  KeyOf(m.answers[1]) \in allowed_ip_map' \/ MapIsFull
    OBVIOUS
  <2>1. pc = "ok" /\ pc' = "recv" /\ Allowed(slot) /\ Parsing(m)
    BY DEF HandsOver
  <2>2. HasFamily(slot) /\ ip_addr(slot) = KeyOf(m.answers[1])
    BY <2>1, FirstKey
  <2>3. Update(slot)
    BY <2>1 DEF TaskNext, Handover, RecvAny, ParseStep, Discard, QnameHead, QnameLabel,
                QnameCopy, QnameEnd, AnswersDone, AnswerHead, NameHead, NameEnd, NameLabel,
                RecordHead, RecordFixed, RecordSkip, RecordAddress
  <2>4. CASE Admit(slot)
    BY <2>2, <2>4 DEF Admit
  <2>5. CASE MapFull(slot)
    <3>1. ~(Cardinality(allowed_ip_map) < MapCapacity) /\ Cardinality(allowed_ip_map) <= MapCapacity
      BY <2>5 DEF MapFull, HasRoom, MapBounded
    <3>2. Cardinality(allowed_ip_map) \in Nat
      BY FS_CardinalityType DEF MapBounded
    <3>. QED  BY <3>1, <3>2, MapCapacityAssumption DEF MapIsFull
  <2>. QED  BY <2>1, <2>2, <2>3, <2>4, <2>5 DEF Update, Skip, NoFamily
<1>. QED  BY <1>1, TaskIsParser, TypeCorrect, AnswersAlways, AlwaysMapBounded, PTL
          DEF TaskSpec, FirstAddressAdmitted

\* Whatever else arrives, and whatever was parsed into the slot before, a
\* response in which the record loop keeps its footing admits no key but one
\* of its own addresses, and none unless its question is for an allowed domain.
THEOREM OnlyAnsweredAdmitted == TaskSpec => AdmittedWasAnswered
<1>. DEFINE QI == \A m \in Messages : QuestionInv(m)
            AI == \A m \in Messages : AnswerInv(m)
            Answered == \A k \in allowed_ip_map' \ allowed_ip_map : \A m \in Messages :
                          (Parsing(m) /\ Aligned(m)) =>
                            Text(m) \in AllowedDomains /\ k \in KeysOf(m)
<1>1. TypeOK /\ QI /\ AI /\ [TaskNext]_taskVars => [Answered]_taskVars
  <2>. SUFFICES ASSUME TypeOK, QI, AI, TaskNext,
                       NEW k \in allowed_ip_map' \ allowed_ip_map,
                       NEW m \in Messages, Parsing(m), Aligned(m)
                PROVE  Text(m) \in AllowedDomains /\ k \in KeysOf(m)
    OBVIOUS
  <2>1. pc = "ok" /\ Admit(slot)
    BY DEF TaskNext, Handover, Update, Skip, NoFamily, MapFull, policyVars
  <2>2. Allowed(slot) /\ HasFamily(slot) /\ k = ip_addr(slot)
    BY <2>1 DEF Admit
  <2>3. slot.domain_name = Text(m)
    BY <2>1 DEF QuestionInv
  <2>4. 1 \in AddressAt(m) /\ k = KeyOf(m.answers[1])
    BY <2>1, <2>2, FirstKey
  <2>. QED  BY <2>2, <2>3, <2>4 DEF Allowed, KeysOf
<1>. QED  BY <1>1, TaskIsParser, TypeCorrect, QuestionAlways, AnswersAlways, PTL
          DEF TaskSpec, AdmittedWasAnswered
=============================================================================
