------------------------------- MODULE DnsWire -------------------------------
(***************************************************************************)
(* What a DNS response looks like on the wire (RFC 1035), written from the *)
(* layouts in the comments of cilium-mini-rs/src/parser.rs and independent *)
(* of how the parser walks them.  A message is abstract: the labels of its *)
(* question, its answers, and whether an OPT record follows.  Encode gives *)
(* its bytes, Text and Addresses what a reader should find in them.        *)
(***************************************************************************)
EXTENDS CiliumMiniCommon, SequencesExt

Rr(owner, type, bytes) == [owner |-> owner, type |-> type, rdata |-> bytes]
Msg(qname, answers, opt) == [qname |-> qname, answers |-> answers, opt |-> opt]

\* Two bytes, most significant first, and the numbers they can stand for.
Word16 == {256 * hi + lo : hi \in Byte, lo \in Byte}
U16(n) == <<n \div 256, n % 256>>

\* Labels with their length bytes and the root label.
EncodeName(labels) ==
  FlattenSeq([i \in 1 .. Len(labels) |-> <<Len(labels[i])>> \o labels[i]])
    \o <<0>>

\* The owner of an answer is the compression pointer to the question that
\* servers send (no labels), or labels spelled out.
Pointer == <<192, 12>>
EncodeOwner(owner) == IF owner = << >> THEN Pointer ELSE EncodeName(owner)

EncodeAnswer(a) ==
  EncodeOwner(a.owner) \o U16(a.type) \o U16(1) \o <<0, 0, 1, 44>>
    \o U16(Len(a.rdata)) \o a.rdata

\* The EDNS pseudo record most resolvers add to a response.
OptRecord == <<0>> \o U16(41) \o <<4, 208>> \o <<0, 0, 0, 0>> \o U16(0)

\* An identifier and the flags of a response, then the four counts.
EncodeHeader(m) ==
  <<18, 52, 129, 128>> \o U16(1) \o U16(Len(m.answers)) \o U16(0)
    \o U16(IF m.opt THEN 1 ELSE 0)

Encode(m) ==
  EncodeHeader(m) \o EncodeName(m.qname) \o U16(1) \o U16(1)
    \o FlattenSeq([i \in 1 .. Len(m.answers) |-> EncodeAnswer(m.answers[i])])
    \o (IF m.opt THEN OptRecord ELSE << >>)

\* The dotted text of the question.
Text(m) ==
  LET dotted == FlattenSeq([i \in 1 .. Len(m.qname) |-> <<46>> \o m.qname[i]])
  IN  IF m.qname = << >> THEN << >> ELSE Tail(dotted)

\* The answers that carry an address: A is 1, AAAA is 28.
CarriesAddress(a) == a.type \in {1, 28}
AddressAt(m) == {i \in 1 .. Len(m.answers) : CarriesAddress(m.answers[i])}

\* Their addresses one after the other, and the family of the last of them.
AddressBytes(m) ==
  FlattenSeq([i \in 1 .. Len(m.answers) |->
                IF i \in AddressAt(m) THEN m.answers[i].rdata ELSE << >>])
LastFamily(m) ==
  IF AddressAt(m) = {} THEN 0
  ELSE IF m.answers[Max(AddressAt(m))].type = 1 THEN 2 ELSE 10
=============================================================================
