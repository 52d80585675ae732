----------------------------- MODULE MCDnsParser -----------------------------
(***************************************************************************)
(* Inputs for the DNS parser: well-formed responses with up to two         *)
(* answers, all their truncations, and single byte corruptions of them.    *)
(***************************************************************************)
EXTENDS DnsMessages

Ip1 == <<10, 0, 0, 1>>
Ip2 == <<10, 0, 0, 2>>
Ip6 == [i \in 1 .. 16 |-> IF i = 1 THEN 253 ELSE i]

LabelA  == <<97>>
LabelBC == <<98, 99>>
Qnames  == {<< >>, <<LabelA>>, <<LabelBC, LabelA>>}

AnswerKinds == {Rr(<< >>, TypeA, Ip1), Rr(<< >>, TypeA, Ip2),
                Rr(<< >>, TypeAAAA, Ip6), Rr(<< >>, TypeCNAME, <<192, 12>>),
                Rr(<<LabelA>>, TypeA, Ip2), Rr(<<LabelA>>, 16, <<1, 33>>)}

\* Every question with every list of at most two answers.
MCMessages == {Msg(q, a, o) : q \in Qnames, a \in BoundedSeq(AnswerKinds, 2),
                              o \in BOOLEAN}

RawEvent(sf, df, bytes) == [src_family |-> sf, dst_family |-> df,
                            stamp |-> Len(bytes), payload |-> bytes]

Truncations(bytes) == {SubSeq(bytes, 1, n) : n \in 0 .. Len(bytes)}

\* The high byte of the answer count stays 0: it multiplies the passes of the
\* record loop by 256 and adds no new kind of pass.
Corruptions(bytes) == {[bytes EXCEPT ![i] = b] : i \in (1 .. Len(bytes)) \ {7},
                                                 b \in {0, 1, 5, 28, 64, 200}}

\* The messages that are also truncated and corrupted.
Fragile == {Msg(<<LabelBC, LabelA>>, <<Rr(<< >>, TypeA, Ip1)>>, FALSE),
            Msg(<<LabelA>>, <<Rr(<<LabelA>>, TypeAAAA, Ip6)>>, TRUE),
            Msg(<<LabelA>>, <<Rr(<< >>, TypeCNAME, <<192, 12>>),
                              Rr(<< >>, TypeA, Ip1)>>, FALSE)}

\* A name of wire length 256, one of 255 and one of 257.
Long(n) == [i \in 1 .. n |-> 97]
LongNames == {<<Long(63), Long(63), Long(63), Long(n)>> : n \in {61, 62, 63}}

MCLongEvents ==
  {RawEvent(AF_INET, AF_INET, Encode(Msg(q, <<Rr(<< >>, TypeA, Ip1)>>, FALSE)))
     : q \in LongNames \cup {<<Long(64)>>, <<LabelA>>}}

MCRawEvents ==
  {RawEvent(AF_INET, AF_INET, Encode(m)) : m \in MCMessages}
    \cup {RawEvent(AF_INET6, AF_INET6, bytes) :
            bytes \in UNION {Truncations(Encode(m)) \cup Corruptions(Encode(m))
                               : m \in Fragile}}
    \cup {RawEvent(AF_INET, 0, Encode(m)) : m \in Fragile}
    \cup MCLongEvents

-----------------------------------------------------------------------------

\* docs/userspace_architecture.md: the parser is "enforcing RFC 1035 limits
\* on label length and domain length": an accepted name takes at most 255
\* bytes on the wire, its root label included.
QnameWithinRfc1035 ==
  (pc = "label" /\ LabelLen = 0) => offset + 1 <= MaxDomainLen
=============================================================================
