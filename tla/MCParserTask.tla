---------------------------- MODULE MCParserTask ----------------------------
(***************************************************************************)
(* Inputs for the parser task: responses for an allowed domain and for     *)
(* another one, whose addresses differ, with up to two answers each, and   *)
(* packets that are cut off in the middle of their answers.                *)
(***************************************************************************)
EXTENDS AnswerPolicy

MCAllowedDomain == <<97>>
MCAllowedDomains == {MCAllowedDomain}

Ip(n)  == <<10, 0, 0, n>>
Ip6(n) == [i \in 1 .. 16 |-> IF i = 1 THEN 253 ELSE n]

Cname(owner) == Rr(owner, TypeCNAME, <<192, 12>>)

\* A record of a type that the parser does not know, without data.  Before an
\* answer with a longer owner it is one that the parser gets through although
\* the record loop loses its footing.
TypeNULL == 10
Empty == Rr(<< >>, TypeNULL, << >>)

\* Answers with an owner given as a pointer or spelled out.
AllowedAnswers ==
  UNION {{Rr(o, TypeA, Ip(1)), Rr(o, TypeA, Ip(2)), Rr(o, TypeAAAA, Ip6(1)),
          Cname(o)} : o \in {<< >>, <<<<97>>>>}} \cup {Empty}
OtherAnswers == {Rr(<< >>, TypeA, Ip(3)), Rr(<< >>, TypeAAAA, Ip6(2)), Cname(<< >>)}

MCMessages ==
  {Msg(<<MCAllowedDomain>>, a, o) : a \in BoundedSeq(AllowedAnswers, 2), o \in BOOLEAN}
    \cup {Msg(<<<<98>>, <<97>>>>, a, TRUE) : a \in BoundedSeq(OtherAnswers, 2)}

\* A response whose second address is missing its last byte, and one for
\* another domain that ends in its first address.
CutOff ==
  {Front(Encode(Msg(<<MCAllowedDomain>>,
                    <<Rr(<< >>, TypeA, Ip(1)), Rr(<< >>, TypeAAAA, Ip6(2))>>, FALSE))),
   Front(Encode(Msg(<<<<98>>>>, <<Rr(<< >>, TypeA, Ip(3))>>, FALSE)))}

MCRawEvents == {[src_family |-> AF_INET, dst_family |-> AF_INET6, stamp |-> 1,
                 payload |-> p] : p \in {Encode(m) : m \in MCMessages} \cup CutOff}
=============================================================================
