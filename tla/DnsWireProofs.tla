--------------------------- MODULE DnsWireProofs ----------------------------
(***************************************************************************)
(* What the reference encoding of a DNS response puts where, for names and *)
(* lists of answers of any length.                                         *)
(*                                                                         *)
(* The encoding concatenates lists, so this is an induction. SetInduction  *)
(* is the principle, stated for a set so that it can be cited; Flattened   *)
(* is the only fact proved with it that the rest uses.                     *)
(***************************************************************************)
EXTENDS DnsMessages, SequenceTheorems, WellFoundedInduction, TLAPS

\* A non-empty set of natural numbers has a least element.
LEMMA LeastNat ==
  ASSUME NEW T \in SUBSET Nat, T # {}
  PROVE  \E x \in T : \A y \in T : x <= y
<1>. DEFINE R == OpToRel(<, Nat)
<1>1. IsWellFoundedOn(R, Nat)
  BY NatLessThanWellFounded
<1>2. \A x, y \in Nat : <<x, y>> \in R <=> x < y
  BY DEF OpToRel
<1>. HIDE DEF R
<1>3. PICK x \in T : \A y \in T : ~(<<y, x>> \in R)
  BY <1>1, WFMin
<1>4. ASSUME NEW y \in T PROVE x <= y
  <2>1. x \in Nat /\ y \in Nat
    OBVIOUS
  <2>2. ~(y < x)
    BY <1>2, <1>3, <2>1
  <2>. QED  BY <2>1, <2>2
<1>. QED  BY <1>3, <1>4

\* Induction on the natural numbers.
LEMMA SetInduction ==
  ASSUME NEW S, 0 \in S, \A n \in Nat : n \in S => n + 1 \in S
  PROVE  Nat \subseteq S
<1>. DEFINE T == {n \in Nat : n \notin S}
<1>. SUFFICES ASSUME T # {} PROVE FALSE
  OBVIOUS
<1>1. PICK x \in T : \A y \in T : x <= y
  BY LeastNat
<1>2. x # 0 /\ x - 1 \in Nat
  BY <1>1
<1>3. x - 1 \in S
  BY <1>1, <1>2
<1>. QED  BY <1>1, <1>2, <1>3

-----------------------------------------------------------------------------
(* Flattening a list of byte strings.                                      *)

Strings == Seq(Seq(Byte))

\* at[k] is where string k + 1 starts: the strings before it are that long.
Cuts(ss, at) ==
  /\ at \in [0 .. Len(ss) -> Nat]
  /\ at[0] = 0
  /\ \A k \in 0 .. Len(ss) - 1 : at[k+1] = at[k] + Len(ss[k+1])

\* f[i] is the concatenation of the first i strings.
Partial(f, ss, n) ==
  \A i \in 1 .. n : f[i] = IF i = 1 THEN ss[1] ELSE f[i-1] \o ss[i]

LEMMA StringAt ==
  ASSUME NEW ss \in Strings, NEW k \in 1 .. Len(ss)
  PROVE  ss[k] \in Seq(Byte) /\ Len(ss[k]) \in Nat
BY DEF Strings

LEMMA PartialNext ==
  ASSUME NEW ss, NEW f, NEW n \in Nat, Partial(f, ss, n)
  PROVE  /\ n # 0 => f[1] = ss[1]
         /\ \A k \in 1 .. n : k + 1 <= n => f[k+1] = f[k] \o ss[k+1]
<1>1. ASSUME n # 0 PROVE f[1] = ss[1]
  <2>1. 1 \in 1 .. n
    BY <1>1
  <2>. QED  BY <2>1 DEF Partial
<1>2. ASSUME NEW k \in 1 .. n, NEW j \in 1 .. n, j = k + 1 PROVE f[j] = f[k] \o ss[j]
  <2>1. j # 1 /\ j - 1 = k
    BY <1>2
  <2>2. f[j] = f[j-1] \o ss[j]
    BY <2>1 DEF Partial
  <2>. QED  BY <2>1, <2>2
<1>3. ASSUME NEW k \in 1 .. n, k + 1 <= n PROVE f[k+1] = f[k] \o ss[k+1]
  <2>1. k + 1 \in 1 .. n
    BY <1>3
  <2>. QED  BY <2>1, <1>2
<1>. QED  BY <1>1, <1>3

LEMMA PartialExists ==
  ASSUME NEW ss \in Strings
  PROVE  \E f \in [1 .. Len(ss) -> Seq(Byte)] : Partial(f, ss, Len(ss))
<1>. USE DEF Strings
<1>. DEFINE Ok(f, n) == f \in [1 .. n -> Seq(Byte)] /\ Partial(f, ss, n)
            G == {n \in Nat : n <= Len(ss) => \E f : Ok(f, n)}
<1>1. 0 \in G
  <2>1. Ok(<< >>, 0)
    BY DEF Partial
  <2>. QED  BY <2>1
<1>2. ASSUME NEW n \in Nat, n \in G PROVE n + 1 \in G
  <2>. HIDE DEF Ok
  <2>. SUFFICES ASSUME n + 1 <= Len(ss) PROVE \E f : Ok(f, n + 1)
    OBVIOUS
  <2>1. \E f : Ok(f, n)
    BY <1>2, LenProperties
  <2>2. PICK f : Ok(f, n)
    BY <2>1
  <2>. DEFINE x == IF n + 1 = 1 THEN ss[1] ELSE f[n] \o ss[n+1]
              g == [i \in 1 .. n + 1 |-> IF i <= n THEN f[i] ELSE x]
  <2>3. f \in [1 .. n -> Seq(Byte)] /\ Partial(f, ss, n)
    BY <2>2 DEF Ok
  <2>4. x \in Seq(Byte)
    <3>1. n + 1 \in 1 .. Len(ss) /\ ss[n+1] \in Seq(Byte)
      OBVIOUS
    <3>2. n # 0 => f[n] \in Seq(Byte)
      BY <2>3
    <3>. QED  BY <3>1, <3>2, ConcatProperties
  <2>5. g \in [1 .. n + 1 -> Seq(Byte)]
    <3>. HIDE DEF x
    <3>. QED  BY <2>3, <2>4
  <2>6. ASSUME NEW i \in 1 .. n + 1
        PROVE  g[i] = IF i = 1 THEN ss[1] ELSE g[i-1] \o ss[i]
    <3>1. CASE i <= n
      <4>1. i \in 1 .. n /\ g[i] = f[i] /\ (i # 1 => g[i-1] = f[i-1])
        BY <3>1
      <4>. HIDE DEF g
      <4>. QED  BY <4>1, <2>3 DEF Partial
    <3>2. CASE i = n + 1
      <4>1. g[i] = x /\ (i # 1 => g[i-1] = f[n])
        BY <3>2
      <4>. HIDE DEF g
      <4>. QED  BY <4>1, <3>2
    <3>. QED  BY <3>1, <3>2
  <2>. HIDE DEF g
  <2>7. Ok(g, n + 1)
    BY <2>5, <2>6 DEF Ok, Partial
  <2>. QED  BY <2>7
<1>. HIDE DEF G
<1>3. Len(ss) \in G
  BY <1>1, <1>2, SetInduction, LenProperties
<1>. QED  BY <1>3 DEF G

LEMMA CutsExist ==
  ASSUME NEW ss \in Strings
  PROVE  \E at : Cuts(ss, at)
<1>. USE DEF Strings
<1>1. PICK f \in [1 .. Len(ss) -> Seq(Byte)] : Partial(f, ss, Len(ss))
  BY PartialExists
<1>. DEFINE at == [k \in 0 .. Len(ss) |-> IF k = 0 THEN 0 ELSE Len(f[k])]
<1>2. at \in [0 .. Len(ss) -> Nat] /\ at[0] = 0
  BY LenProperties
<1>3. ASSUME NEW k \in 0 .. Len(ss) - 1 PROVE at[k+1] = at[k] + Len(ss[k+1])
  <2>1. k + 1 \in 1 .. Len(ss) /\ k + 1 \in 0 .. Len(ss) /\ k \in 0 .. Len(ss)
        /\ k + 1 # 0 /\ (k # 0 => k \in 1 .. Len(ss)) /\ k + 1 - 1 = k /\ Len(ss) \in Nat
    OBVIOUS
  <2>2. ss[k+1] \in Seq(Byte) /\ f[k+1] \in Seq(Byte) /\ (k # 0 => f[k] \in Seq(Byte))
    BY <2>1, StringAt
  <2>3. f[k+1] = IF k = 0 THEN ss[1] ELSE f[k] \o ss[k+1]
    <3>1. CASE k = 0
      <4>1. k + 1 = 1 /\ Len(ss) # 0
        BY <3>1, <2>1
      <4>2. f[1] = ss[1]
        BY <4>1, <1>1, <2>1, PartialNext
      <4>. QED  BY <4>1, <4>2, <3>1
    <3>2. CASE k # 0
      <4>1. k \in 1 .. Len(ss) /\ k + 1 <= Len(ss)
        BY <3>2, <2>1
      <4>. QED  BY <4>1, <3>2, <1>1, <2>1, PartialNext
    <3>. QED  BY <3>1, <3>2
  <2>4. Len(f[k+1]) = IF k = 0 THEN Len(ss[1]) ELSE Len(f[k]) + Len(ss[k+1])
    BY <2>2, <2>3, ConcatProperties
  <2>5. at[k+1] = Len(f[k+1]) /\ at[k] = IF k = 0 THEN 0 ELSE Len(f[k])
    BY <2>1
  <2>. HIDE DEF at
  <2>6. CASE k = 0
    BY <2>2, <2>4, <2>5, <2>6, LenProperties
  <2>7. CASE k # 0
    BY <2>4, <2>5, <2>7
  <2>. QED  BY <2>6, <2>7
<1>. HIDE DEF at
<1>4. Cuts(ss, at)
  BY <1>2, <1>3 DEF Cuts
<1>. QED  BY <1>4

\* FlattenSeq is the last of the partial concatenations.
LEMMA FlattenIsPartial ==
  ASSUME NEW ss \in Strings, ss # << >>
  PROVE  \E f : Partial(f, ss, Len(ss)) /\ FlattenSeq(ss) = f[Len(ss)]
<1>. USE DEF Strings
<1>. DEFINE Fl(f) == f = [i \in 1 .. Len(ss) |->
                            IF i = 1 THEN ss[i] ELSE f[i-1] \o ss[i]]
            fl == CHOOSE f : Fl(f)
<1>1. PICK g \in [1 .. Len(ss) -> Seq(Byte)] : Partial(g, ss, Len(ss))
  BY PartialExists
<1>2. Fl(g)
  BY <1>1 DEF Partial
<1>3. FlattenSeq(ss) = fl[Len(ss)]
  <2>1. Len(ss) # 0
    BY EmptySeq
  <2>. QED  BY <2>1 DEF FlattenSeq
<1>4. Fl(fl)
  <2>. HIDE DEF Fl
  <2>. QED  BY <1>2
<1>. HIDE DEF fl
<1>5. Partial(fl, ss, Len(ss))
  BY <1>4 DEF Partial
<1>. QED  BY <1>3, <1>5

\* What lies where in a flattened list.
LEMMA Flattened ==
  ASSUME NEW ss \in Strings, NEW at, Cuts(ss, at)
  PROVE  /\ FlattenSeq(ss) \in Seq(Byte)
         /\ Len(FlattenSeq(ss)) = at[Len(ss)]
         /\ \A k \in 0 .. Len(ss) : at[k] <= at[Len(ss)]
         /\ \A k \in 0 .. Len(ss) - 1 : \A i \in 1 .. Len(ss[k+1]) :
              FlattenSeq(ss)[at[k] + i] = ss[k+1][i]
<1>0. Len(ss) \in Nat
  BY DEF Strings
<1>1. CASE ss = << >>
  BY <1>1 DEF Strings, FlattenSeq, Cuts
<1>2. CASE ss # << >>
  <2>1. PICK f : Partial(f, ss, Len(ss)) /\ FlattenSeq(ss) = f[Len(ss)]
    BY <1>2, FlattenIsPartial
  <2>. DEFINE Laid(n) ==
         /\ f[n] \in Seq(Byte) /\ Len(f[n]) = at[n]
         /\ \A k \in 0 .. n : at[k] <= at[n]
         /\ \A k \in 0 .. n - 1 : \A i \in 1 .. Len(ss[k+1]) :
              f[n][at[k] + i] = ss[k+1][i]
       G == {n \in Nat : n \in 1 .. Len(ss) => Laid(n)}
  <2>2. 0 \in G
    OBVIOUS
  <2>3. ASSUME NEW n \in Nat, n \in G PROVE n + 1 \in G
    <3>. HIDE DEF Laid
    <3>. SUFFICES ASSUME n + 1 \in 1 .. Len(ss) PROVE Laid(n + 1)
      OBVIOUS
    <3>1. ss[n+1] \in Seq(Byte) /\ Len(ss[n+1]) \in Nat
      BY StringAt
    <3>2. n \in 0 .. Len(ss) - 1 /\ n \in 0 .. Len(ss) /\ n + 1 \in 0 .. Len(ss)
          /\ n + 1 - 1 = n
      BY <1>0
    <3>3. at[n+1] = at[n] + Len(ss[n+1]) /\ at[n] \in Nat /\ at[n+1] \in Nat /\ at[0] = 0
      BY <3>2 DEF Cuts
    <3>4. CASE n = 0
      <4>1. f[1] = ss[1]
        BY <3>4, <2>1 DEF Partial
      <4>. QED  BY <3>1, <3>3, <3>4, <4>1 DEF Laid
    <3>5. CASE n # 0
      <4>1. f[n+1] = f[n] \o ss[n+1]
        <5>1. n \in 1 .. Len(ss) /\ n + 1 <= Len(ss)
          BY <3>2, <3>5, <1>0
        <5>. QED  BY <5>1, <2>1, <1>0, PartialNext
      <4>2. Laid(n)
        BY <3>2, <3>5, <2>3, <1>0
      <4>3. f[n] \in Seq(Byte) /\ Len(f[n]) = at[n]
        BY <4>2 DEF Laid
      <4>4. /\ f[n+1] \in Seq(Byte) /\ Len(f[n+1]) = at[n] + Len(ss[n+1])
            /\ \A i \in 1 .. at[n] + Len(ss[n+1]) :
                 f[n+1][i] = IF i <= at[n] THEN f[n][i] ELSE ss[n+1][i - at[n]]
        <5>. DEFINE u == f[n]
                    v == ss[n+1]
        <5>1. u \in Seq(Byte) /\ v \in Seq(Byte) /\ f[n+1] = u \o v /\ Len(u) = at[n]
          BY <4>1, <4>3, <3>1
        <5>. HIDE DEF u, v
        <5>2. /\ u \o v \in Seq(Byte) /\ Len(u \o v) = Len(u) + Len(v)
              /\ \A i \in 1 .. Len(u) + Len(v) :
                   (u \o v)[i] = IF i <= Len(u) THEN u[i] ELSE v[i - Len(u)]
          BY <5>1, ConcatProperties
        <5>3. /\ f[n+1] \in Seq(Byte) /\ Len(f[n+1]) = at[n] + Len(v)
              /\ \A i \in 1 .. at[n] + Len(v) :
                   f[n+1][i] = IF i <= at[n] THEN u[i] ELSE v[i - at[n]]
          BY <5>1, <5>2
        <5>. QED  BY <5>3 DEF u, v
      <4>5. ASSUME NEW k \in 0 .. n + 1 PROVE at[k] <= at[n+1]
        <5>1. CASE k = n + 1
          BY <5>1, <3>3
        <5>2. CASE k \in 0 .. n
          <6>1. at[k] <= at[n] /\ k \in 0 .. Len(ss)
            BY <5>2, <4>2, <3>2 DEF Laid
          <6>2. at[k] \in Nat
            BY <6>1 DEF Cuts
          <6>. QED  BY <6>1, <6>2, <3>1, <3>3
        <5>. QED  BY <5>1, <5>2
      <4>6. ASSUME NEW k \in 0 .. n, NEW i \in 1 .. Len(ss[k+1])
            PROVE  f[n+1][at[k] + i] = ss[k+1][i]
        <5>1. CASE k = n
          <6>1. at[n] + i \in 1 .. at[n] + Len(ss[n+1]) /\ ~(at[n] + i <= at[n])
                /\ at[n] + i - at[n] = i
            BY <5>1, <3>1, <3>3
          <6>2. ASSUME NEW j \in 1 .. at[n] + Len(ss[n+1]), j = at[n] + i
                PROVE  f[n+1][j] = ss[n+1][i]
            <7>1. ~(j <= at[n]) /\ j - at[n] = i
              BY <6>1, <6>2, <3>1, <3>3, <5>1
            <7>2. f[n+1][j] = ss[n+1][j - at[n]]
              BY <7>1, <4>4
            <7>. QED  BY <7>1, <7>2
          <6>. QED  BY <6>1, <6>2, <5>1
        <5>2. CASE k # n
          <6>1. k \in 0 .. n - 1 /\ k \in 0 .. Len(ss) - 1 /\ k + 1 \in 1 .. Len(ss)
                /\ k + 1 \in 0 .. n /\ k \in 0 .. Len(ss) /\ k + 1 \in 0 .. Len(ss)
            BY <5>2, <3>2, <1>0
          <6>2. /\ at[k+1] = at[k] + Len(ss[k+1]) /\ at[k] \in Nat
                /\ ss[k+1] \in Seq(Byte)
            BY <6>1, StringAt DEF Cuts
          <6>3. at[k+1] <= at[n] /\ Len(ss[k+1]) \in Nat
            BY <6>1, <4>2, StringAt DEF Laid
          <6>4. at[k] + i \in 1 .. at[n] + Len(ss[n+1]) /\ at[k] + i <= at[n]
            <7>. DEFINE x == at[k]
                        y == at[n]
                        z == Len(ss[n+1])
                        l == Len(ss[k+1])
            <7>1. x \in Nat /\ y \in Nat /\ z \in Nat /\ l \in Nat /\ x + l <= y /\ i \in 1 .. l
              BY <6>2, <6>3, <3>1, <3>3
            <7>. HIDE DEF x, y, z, l
            <7>2. x + i \in 1 .. y + z /\ x + i <= y
              BY <7>1
            <7>. QED  BY <7>2 DEF x, y, z
          <6>5. f[n][at[k] + i] = ss[k+1][i]
            BY <6>1, <4>2 DEF Laid
          <6>6. f[n+1][at[k] + i] = f[n][at[k] + i]
            BY <6>4, <4>4
          <6>. QED  BY <6>5, <6>6
        <5>. QED  BY <5>1, <5>2
      <4>7. \A k \in 0 .. n + 1 - 1 : \A i \in 1 .. Len(ss[k+1]) :
              f[n+1][at[k] + i] = ss[k+1][i]
        BY <4>6, <3>2
      <4>. QED  BY <4>4, <4>5, <4>7, <3>3 DEF Laid
    <3>. QED  BY <3>4, <3>5
  <2>. HIDE DEF G
  <2>4. Len(ss) \in G
    BY <2>2, <2>3, <1>0, SetInduction
  <2>5. Len(ss) \in 1 .. Len(ss)
    BY <1>2, <1>0, EmptySeq DEF Strings
  <2>6. Laid(Len(ss))
    BY <2>4, <2>5 DEF G
  <2>. QED  BY <2>1, <2>6
<1>. QED  BY <1>1, <1>2

-----------------------------------------------------------------------------
(* Names on the wire and as text.                                          *)

LEMMA PlusOnePlus ==
  ASSUME NEW a \in Nat, NEW b \in Nat
  PROVE  a + 1 + b = a + (1 + b) /\ a + 1 + b = a + (b + 1)
OBVIOUS

\* What lies where in a concatenation.
LEMMA ConcatAt ==
  ASSUME NEW s \in Seq(Byte), NEW t \in Seq(Byte)
  PROVE  /\ s \o t \in Seq(Byte) /\ Len(s \o t) = Len(s) + Len(t)
         /\ \A i \in 1 .. Len(s) : (s \o t)[i] = s[i]
         /\ \A i \in 1 .. Len(t) : (s \o t)[Len(s) + i] = t[i]
<1>1. /\ s \o t \in Seq(Byte) /\ Len(s \o t) = Len(s) + Len(t)
      /\ \A i \in 1 .. Len(s) + Len(t) :
           (s \o t)[i] = IF i <= Len(s) THEN s[i] ELSE t[i - Len(s)]
  BY ConcatProperties
<1>2. Len(s) \in Nat /\ Len(t) \in Nat
  OBVIOUS
<1>3. \A i \in 1 .. Len(s) : (s \o t)[i] = s[i]
  BY <1>1, <1>2
<1>4. ASSUME NEW i \in 1 .. Len(t) PROVE (s \o t)[Len(s) + i] = t[i]
  <2>1. ASSUME NEW j \in 1 .. Len(s) + Len(t), j = Len(s) + i PROVE (s \o t)[j] = t[i]
    <3>1. ~(j <= Len(s)) /\ j - Len(s) = i
      BY <1>2, <2>1
    <3>. QED  BY <3>1, <1>1
  <2>2. Len(s) + i \in 1 .. Len(s) + Len(t)
    BY <1>2
  <2>. QED  BY <2>1, <2>2
<1>. QED  BY <1>1, <1>3, <1>4

\* A byte in front of a string.
LEMMA ByteBefore ==
  ASSUME NEW b \in Byte, NEW s \in Seq(Byte)
  PROVE  /\ <<b>> \o s \in Seq(Byte) /\ Len(<<b>> \o s) = Len(s) + 1
         /\ (<<b>> \o s)[1] = b
         /\ \A i \in 1 .. Len(s) : (<<b>> \o s)[1 + i] = s[i]
<1>. DEFINE t == <<b>>
<1>1. t \in Seq(Byte) /\ Len(t) = 1 /\ t[1] = b /\ Len(s) \in Nat
  OBVIOUS
<1>. HIDE DEF t
<1>2. /\ t \o s \in Seq(Byte) /\ Len(t \o s) = Len(t) + Len(s)
      /\ \A i \in 1 .. Len(t) : (t \o s)[i] = t[i]
      /\ \A i \in 1 .. Len(s) : (t \o s)[Len(t) + i] = s[i]
  BY <1>1, ConcatAt
<1>. QED  BY <1>1, <1>2 DEF t

\* The labels of a name, each behind the byte b gives it.
Behind(b, labels) == [i \in 1 .. Len(labels) |-> <<b[i]>> \o labels[i]]

\* Where the labels of a name lie, when each takes one byte more.
LabelCuts(labels, at) ==
  /\ at \in [0 .. Len(labels) -> Nat]
  /\ at[0] = 0
  /\ \A k \in 0 .. Len(labels) - 1 : at[k+1] = at[k] + 1 + Len(labels[k+1])

LEMMA BehindString ==
  ASSUME NEW labels \in Strings, NEW b \in [1 .. Len(labels) -> Byte]
  PROVE  /\ Behind(b, labels) \in Strings
         /\ Len(Behind(b, labels)) = Len(labels)
         /\ \A i \in 1 .. Len(labels) : Behind(b, labels)[i] = <<b[i]>> \o labels[i]
<1>. DEFINE ss == Behind(b, labels)
<1>1. \A i \in 1 .. Len(labels) : ss[i] = <<b[i]>> \o labels[i]
  BY DEF Behind
<1>2. DOMAIN ss = 1 .. Len(labels) /\ Len(labels) \in Nat
  BY DEF Behind, Strings
<1>3. \A i \in 1 .. Len(labels) : <<b[i]>> \o labels[i] \in Seq(Byte)
  BY StringAt, ByteBefore
<1>4. ss \in [1 .. Len(labels) -> Seq(Byte)]
  BY <1>3 DEF Behind
<1>. HIDE DEF ss
<1>5. ss \in Seq(Seq(Byte)) /\ Len(ss) = Len(labels)
  BY <1>2, <1>4
<1>. QED  BY <1>1, <1>5 DEF ss, Strings

LEMMA LabelCutsAreCuts ==
  ASSUME NEW labels \in Strings, NEW b \in [1 .. Len(labels) -> Byte], NEW at
  PROVE  LabelCuts(labels, at) <=> Cuts(Behind(b, labels), at)
<1>. DEFINE ss == Behind(b, labels)
<1>1. /\ ss \in Strings /\ Len(ss) = Len(labels) /\ Len(labels) \in Nat
      /\ \A i \in 1 .. Len(labels) : ss[i] = <<b[i]>> \o labels[i]
  BY BehindString DEF Strings
<1>. HIDE DEF ss
<1>2. ASSUME NEW k \in 0 .. Len(labels) - 1
      PROVE  Len(ss[k+1]) = Len(labels[k+1]) + 1 /\ Len(labels[k+1]) \in Nat
  <2>1. k + 1 \in 1 .. Len(labels)
    BY <1>1
  <2>2. labels[k+1] \in Seq(Byte) /\ Len(labels[k+1]) \in Nat /\ b[k+1] \in Byte
    BY <2>1, StringAt
  <2>3. ss[k+1] = <<b[k+1]>> \o labels[k+1]
    BY <2>1, <1>1
  <2>4. Len(<<b[k+1]>> \o labels[k+1]) = Len(labels[k+1]) + 1
    BY <2>2, ByteBefore
  <2>. QED  BY <2>2, <2>3, <2>4
<1>3. ASSUME at \in [0 .. Len(labels) -> Nat], NEW k \in 0 .. Len(labels) - 1
      PROVE  at[k] + 1 + Len(labels[k+1]) = at[k] + Len(ss[k+1])
  <2>1. at[k] \in Nat
    BY <1>1, <1>3
  <2>2. Len(ss[k+1]) = Len(labels[k+1]) + 1 /\ Len(labels[k+1]) \in Nat
    BY <1>2
  <2>3. at[k] + 1 + Len(labels[k+1]) = at[k] + (Len(labels[k+1]) + 1)
    BY <2>1, <2>2, PlusOnePlus
  <2>. QED  BY <2>2, <2>3
<1>4. LabelCuts(labels, at) <=> Cuts(ss, at)
  BY <1>1, <1>3 DEF LabelCuts, Cuts
<1>. QED  BY <1>4 DEF ss

LEMMA LabelCutsExist ==
  ASSUME NEW labels \in Strings
  PROVE  \E at : LabelCuts(labels, at)
<1>. DEFINE b == [i \in 1 .. Len(labels) |-> 0]
<1>1. b \in [1 .. Len(labels) -> Byte]
  BY DEF Byte
<1>. HIDE DEF b
<1>2. PICK at : Cuts(Behind(b, labels), at)
  BY <1>1, BehindString, CutsExist
<1>. QED  BY <1>1, <1>2, LabelCutsAreCuts

\* What lies where when the labels of a name are flattened, each behind a
\* byte of its own.
LEMMA LabelsFlattened ==
  ASSUME NEW labels \in Strings, NEW b \in [1 .. Len(labels) -> Byte],
         NEW at, LabelCuts(labels, at)
  PROVE  LET flat == FlattenSeq(Behind(b, labels))
         IN  /\ flat \in Seq(Byte) /\ Len(flat) = at[Len(labels)]
             /\ \A k \in 0 .. Len(labels) : at[k] <= at[Len(labels)]
             /\ \A k \in 0 .. Len(labels) - 1 :
                  /\ flat[at[k] + 1] = b[k+1]
                  /\ \A i \in 1 .. Len(labels[k+1]) :
                       flat[at[k] + 1 + i] = labels[k+1][i]
<1>. DEFINE ss == Behind(b, labels)
            flat == FlattenSeq(ss)
<1>1. /\ ss \in Strings /\ Len(ss) = Len(labels) /\ Len(labels) \in Nat
      /\ \A i \in 1 .. Len(labels) : ss[i] = <<b[i]>> \o labels[i]
  BY BehindString DEF Strings
<1>2. Cuts(ss, at)
  BY LabelCutsAreCuts
<1>. HIDE DEF ss
<1>3. /\ flat \in Seq(Byte) /\ Len(flat) = at[Len(labels)]
      /\ \A k \in 0 .. Len(labels) : at[k] <= at[Len(labels)]
      /\ \A k \in 0 .. Len(labels) - 1 : \A i \in 1 .. Len(ss[k+1]) :
           flat[at[k] + i] = ss[k+1][i]
  BY <1>1, <1>2, Flattened
<1>. HIDE DEF flat
<1>4. ASSUME NEW k \in 0 .. Len(labels) - 1
      PROVE  /\ flat[at[k] + 1] = b[k+1]
             /\ \A i \in 1 .. Len(labels[k+1]) : flat[at[k] + 1 + i] = labels[k+1][i]
  <2>. DEFINE l == labels[k+1]
              s == ss[k+1]
  <2>1. k + 1 \in 1 .. Len(labels) /\ k \in 0 .. Len(labels)
    BY <1>1
  <2>2. l \in Seq(Byte) /\ Len(l) \in Nat /\ b[k+1] \in Byte /\ s = <<b[k+1]>> \o l
    BY <2>1, <1>1, StringAt
  <2>3. at[k] \in Nat
    BY <2>1 DEF LabelCuts
  <2>4. \A i \in 1 .. Len(s) : flat[at[k] + i] = s[i]
    BY <1>3
  <2>. HIDE DEF l, s
  <2>5. Len(s) = Len(l) + 1 /\ s[1] = b[k+1] /\ \A i \in 1 .. Len(l) : s[1 + i] = l[i]
    BY <2>2, ByteBefore
  <2>6. flat[at[k] + 1] = b[k+1]
    <3>1. 1 \in 1 .. Len(s)
      BY <2>2, <2>5
    <3>. QED  BY <3>1, <2>4, <2>5
  <2>7. ASSUME NEW i \in 1 .. Len(l) PROVE flat[at[k] + 1 + i] = l[i]
    <3>0. i \in Nat /\ i >= 1 /\ i <= Len(l)
      BY <2>2
    <3>1. 1 + i \in 1 .. Len(s)
      BY <3>0, <2>2, <2>5
    <3>2. flat[at[k] + (1 + i)] = s[1 + i]
      BY <3>1, <2>4
    <3>3. at[k] + 1 + i = at[k] + (1 + i)
      BY <3>0, <2>3, PlusOnePlus
    <3>. QED  BY <3>2, <3>3, <2>5
  <2>. QED  BY <2>6, <2>7 DEF l
<1>. QED  BY <1>3, <1>4 DEF flat, ss

LEMMA LabelAt ==
  ASSUME NEW labels, IsName(labels), NEW k \in 1 .. Len(labels)
  PROVE  /\ labels[k] \in Seq(Byte) /\ Len(labels[k]) \in Nat
         /\ 1 <= Len(labels[k]) /\ Len(labels[k]) <= MaxLabelLen
<1>1. \A x \in 1 .. MaxLabelLen : x \in Nat /\ 1 <= x /\ x <= MaxLabelLen
  BY DEF MaxLabelLen
<1>2. labels[k] \in Seq(Byte) /\ Len(labels[k]) \in 1 .. MaxLabelLen
  BY DEF IsName
<1>. QED  BY <1>1, <1>2

NameCuts(labels) == CHOOSE at : LabelCuts(labels, at)

\* The layout EncodeName gives a name.
LEMMA NameOnWire ==
  ASSUME NEW labels, IsName(labels)
  PROVE  LET at == NameCuts(labels)
             wire == EncodeName(labels)
             n == Len(labels)
         IN  /\ LabelCuts(labels, at)
             /\ \A k \in 0 .. n : at[k] <= at[n]
             /\ wire \in Seq(Byte) /\ Len(wire) = at[n] + 1 /\ wire[at[n] + 1] = 0
             /\ \A k \in 0 .. n - 1 :
                  /\ wire[at[k] + 1] = Len(labels[k+1])
                  /\ \A i \in 1 .. Len(labels[k+1]) : wire[at[k] + 1 + i] = labels[k+1][i]
<1>. DEFINE at == NameCuts(labels)
            n == Len(labels)
            b == [i \in 1 .. Len(labels) |-> Len(labels[i])]
            flat == FlattenSeq(Behind(b, labels))
            root == <<0>>
<1>1. labels \in Strings /\ n \in Nat
  BY DEF IsName, Strings
<1>2. LabelCuts(labels, at)
  BY <1>1, LabelCutsExist DEF NameCuts
<1>3. b \in [1 .. Len(labels) -> Byte] /\ \A i \in 1 .. Len(labels) : b[i] = Len(labels[i])
  <2>1. \A i \in 1 .. MaxLabelLen : i \in Byte
    BY DEF MaxLabelLen, Byte
  <2>2. \A i \in 1 .. Len(labels) : Len(labels[i]) \in 1 .. MaxLabelLen
    BY DEF IsName
  <2>. QED  BY <2>1, <2>2
<1>4. EncodeName(labels) = flat \o root
  BY DEF EncodeName, Behind
<1>5. root \in Seq(Byte) /\ Len(root) = 1 /\ root[1] = 0
  BY DEF Byte
<1>. HIDE DEF at, b, root
<1>6. /\ flat \in Seq(Byte) /\ Len(flat) = at[n]
      /\ \A k \in 0 .. n : at[k] <= at[n]
      /\ \A k \in 0 .. n - 1 :
           /\ flat[at[k] + 1] = b[k+1]
           /\ \A i \in 1 .. Len(labels[k+1]) : flat[at[k] + 1 + i] = labels[k+1][i]
  BY <1>1, <1>2, <1>3, LabelsFlattened
<1>. HIDE DEF flat
<1>7. /\ flat \o root \in Seq(Byte) /\ Len(flat \o root) = at[n] + 1
      /\ \A i \in 1 .. at[n] : (flat \o root)[i] = flat[i]
      /\ (flat \o root)[at[n] + 1] = 0
  <2>1. /\ flat \o root \in Seq(Byte) /\ Len(flat \o root) = Len(flat) + Len(root)
        /\ \A i \in 1 .. Len(flat) : (flat \o root)[i] = flat[i]
        /\ \A i \in 1 .. Len(root) : (flat \o root)[Len(flat) + i] = root[i]
    BY <1>5, <1>6, ConcatAt
  <2>2. 1 \in 1 .. Len(root)
    BY <1>5
  <2>3. (flat \o root)[Len(flat) + 1] = root[1]
    BY <2>1, <2>2
  <2>. QED  BY <1>5, <1>6, <2>1, <2>3
<1>8. ASSUME NEW k \in 0 .. n - 1
      PROVE  /\ (flat \o root)[at[k] + 1] = Len(labels[k+1])
             /\ \A i \in 1 .. Len(labels[k+1]) :
                  (flat \o root)[at[k] + 1 + i] = labels[k+1][i]
  <2>1. k + 1 \in 1 .. n /\ k \in 0 .. n /\ k + 1 \in 0 .. n
    BY <1>1
  <2>2. /\ at[k+1] = at[k] + 1 + Len(labels[k+1]) /\ at[k] \in Nat
        /\ Len(labels[k+1]) \in Nat /\ at[n] \in Nat /\ at[k+1] <= at[n]
        /\ b[k+1] = Len(labels[k+1])
    BY <1>1, <1>2, <1>3, <1>6, <2>1, StringAt DEF LabelCuts
  <2>3. at[k] + 1 \in 1 .. at[n]
    BY <2>2
  <2>4. ASSUME NEW i \in 1 .. Len(labels[k+1])
        PROVE  (flat \o root)[at[k] + 1 + i] = labels[k+1][i]
    <3>1. at[k] + 1 + i \in 1 .. at[n]
      BY <2>2
    <3>. QED  BY <3>1, <1>6, <1>7
  <2>. QED  BY <2>2, <2>3, <2>4, <1>6, <1>7
<1>. DEFINE w == EncodeName(labels)
<1>9. /\ w \in Seq(Byte) /\ Len(w) = at[n] + 1 /\ w[at[n] + 1] = 0
      /\ \A k \in 0 .. n - 1 :
           /\ w[at[k] + 1] = Len(labels[k+1])
           /\ \A i \in 1 .. Len(labels[k+1]) : w[at[k] + 1 + i] = labels[k+1][i]
  BY <1>4, <1>7, <1>8
<1>10. \A k \in 0 .. n : at[k] <= at[n]
  BY <1>6
<1>. HIDE DEF w, n
<1>. QED  BY <1>2, <1>9, <1>10 DEF at, w, n

Dots(labels) == [i \in 1 .. Len(labels) |-> Dot]

\* The labels of a name, each behind a dot, lie where they do on the wire.
Dotted(labels) == FlattenSeq(Behind(Dots(labels), labels))

LEMMA NameAsText ==
  ASSUME NEW labels, IsName(labels)
  PROVE  LET at == NameCuts(labels)
             text == Dotted(labels)
             n == Len(labels)
         IN  /\ text \in Seq(Byte) /\ Len(text) = at[n]
             /\ \A k \in 0 .. n - 1 :
                  /\ text[at[k] + 1] = Dot
                  /\ \A i \in 1 .. Len(labels[k+1]) : text[at[k] + 1 + i] = labels[k+1][i]
<1>. DEFINE b == Dots(labels)
            at == NameCuts(labels)
<1>1. labels \in Strings /\ Len(labels) \in Nat
  BY DEF IsName, Strings
<1>2. b \in [1 .. Len(labels) -> Byte] /\ \A i \in 1 .. Len(labels) : b[i] = Dot
  BY DEF Dots, Dot, Byte
<1>3. LabelCuts(labels, at)
  BY NameOnWire
<1>4. \A k \in 0 .. Len(labels) - 1 : k + 1 \in 1 .. Len(labels)
  BY <1>1
<1>. HIDE DEF b, at
<1>. QED  BY <1>1, <1>2, <1>3, <1>4, LabelsFlattened DEF Dotted, b, at

\* The text of a question without the dot in front of its first label.
LEMMA TextIsDotted ==
  ASSUME NEW m, WellFormed(m)
  PROVE  Text(m) = SubSeq(Dotted(m.qname), 2, Len(Dotted(m.qname)))
<1>. DEFINE l == m.qname
            d == Dotted(l)
<1>1. IsName(l) /\ l \in Strings
  BY DEF WellFormed, IsName, Strings
<1>2. d \in Seq(Byte) /\ Len(d) = NameCuts(l)[Len(l)]
  BY <1>1, NameAsText
<1>3. d = FlattenSeq([i \in 1 .. Len(l) |-> <<46>> \o l[i]])
  <2>1. Behind(Dots(l), l) = [i \in 1 .. Len(l) |-> <<46>> \o l[i]]
    BY DEF Behind, Dots, Dot
  <2>. QED  BY <2>1 DEF Dotted
<1>4. Text(m) = IF l = << >> THEN << >> ELSE Tail(d)
  BY <1>3 DEF Text
<1>5. LabelCuts(l, NameCuts(l))
  BY <1>1, NameOnWire
<1>6. CASE l = << >>
  <2>1. Len(d) = 0
    BY <1>1, <1>2, <1>5, <1>6 DEF LabelCuts, Strings
  <2>2. d = << >>
    BY <2>1, <1>2, EmptySeq
  <2>. HIDE DEF d
  <2>3. SubSeq(d, 2, Len(d)) = << >>
    BY <2>2
  <2>. QED  BY <2>3, <1>4, <1>6 DEF d
<1>7. CASE l # << >>
  <2>. DEFINE at == NameCuts(l)
  <2>1. Len(l) \in Nat /\ Len(l) # 0
    BY <1>1, <1>7, EmptySeq DEF Strings
  <2>2. at[1] = at[0] + 1 + Len(l[1]) /\ at[0] = 0 /\ at[1] <= at[Len(l)] /\ 1 \in 1 .. Len(l)
        /\ at[1] \in Nat /\ at[Len(l)] \in Nat
    <3>1. 0 \in 0 .. Len(l) - 1 /\ 1 \in 0 .. Len(l) /\ 0 + 1 = 1 /\ 1 \in 1 .. Len(l)
          /\ Len(l) \in 0 .. Len(l)
      BY <2>1
    <3>2. at[0+1] = at[0] + 1 + Len(l[0+1])
      BY <1>5, <3>1 DEF LabelCuts
    <3>. QED  BY <1>1, <1>5, <3>1, <3>2, NameOnWire DEF LabelCuts
  <2>3. Len(l[1]) \in Nat /\ 1 <= Len(l[1])
    <3>1. \A k \in 1 .. Len(l) : Len(l[k]) \in Nat /\ 1 <= Len(l[k])
      BY <1>1, LabelAt
    <3>2. 1 \in 1 .. Len(l)
      BY <2>1
    <3>. QED  BY <3>1, <3>2
  <2>4. Len(d) \in Nat /\ Len(d) >= 2
    BY <1>2, <2>2, <2>3
  <2>. HIDE DEF d
  <2>5. d # << >>
    BY <2>4
  <2>6. Tail(d) = SubSeq(d, 2, Len(d))
    BY <1>2, <2>5, TailIsSubSeq
  <2>. QED  BY <2>6, <1>4, <1>7 DEF d
<1>. QED  BY <1>6, <1>7

-----------------------------------------------------------------------------
(* Records and messages on the wire.                                       *)

LEMMA ByteIsWord ==
  ASSUME NEW n \in Byte
  PROVE  n \in Word16
<1>1. 0 \in Byte /\ n = 256 * 0 + n
  BY DEF Byte
<1>. QED  BY <1>1 DEF Word16

LEMMA SplitWord ==
  ASSUME NEW n \in Word16
  PROVE  n \div 256 \in Byte /\ n % 256 \in Byte /\ 256 * (n \div 256) + (n % 256) = n
<1>1. ASSUME NEW hi \in Byte, NEW lo \in Byte
      PROVE  (256 * hi + lo) \div 256 = hi /\ (256 * hi + lo) % 256 = lo
  BY DEF Byte
<1>2. PICK hi \in Byte, lo \in Byte : n = 256 * hi + lo
  BY DEF Word16
<1>. QED  BY <1>1, <1>2

LEMMA U16Bytes ==
  ASSUME NEW n \in Word16
  PROVE  /\ U16(n) \in Seq(Byte) /\ Len(U16(n)) = 2
         /\ 256 * U16(n)[1] + U16(n)[2] = n
<1>. DEFINE q == n \div 256
            r == n % 256
<1>1. q \in Byte /\ r \in Byte /\ 256 * q + r = n /\ U16(n) = <<q, r>>
  BY SplitWord DEF U16
<1>. HIDE DEF q, r
<1>. QED  BY <1>1

\* Two bytes behind a string, what they are and that they leave it alone.
LEMMA WordBehind ==
  ASSUME NEW s \in Seq(Byte), NEW n \in Word16
  PROVE  /\ s \o U16(n) \in Seq(Byte) /\ Len(s \o U16(n)) = Len(s) + 2
         /\ \A i \in 1 .. Len(s) : (s \o U16(n))[i] = s[i]
         /\ 256 * (s \o U16(n))[Len(s) + 1] + (s \o U16(n))[Len(s) + 2] = n
<1>. DEFINE u == U16(n)
<1>1. u \in Seq(Byte) /\ Len(u) = 2 /\ 256 * u[1] + u[2] = n
  BY U16Bytes
<1>. HIDE DEF u
<1>2. /\ s \o u \in Seq(Byte) /\ Len(s \o u) = Len(s) + Len(u)
      /\ \A i \in 1 .. Len(s) : (s \o u)[i] = s[i]
      /\ \A i \in 1 .. Len(u) : (s \o u)[Len(s) + i] = u[i]
  BY <1>1, ConcatAt
<1>3. 1 \in 1 .. Len(u) /\ 2 \in 1 .. Len(u)
  BY <1>1
<1>4. (s \o u)[Len(s) + 1] = u[1] /\ (s \o u)[Len(s) + 2] = u[2]
  BY <1>2, <1>3
<1>. QED  BY <1>1, <1>2, <1>4 DEF u

\* The word behind the first k bytes.
WordAfter(s, k) == 256 * s[k + 1] + s[k + 2]

LEMMA WordValue ==
  ASSUME NEW s \in Seq(Byte), NEW n \in Word16
  PROVE  WordAfter(s \o U16(n), Len(s)) = n
BY WordBehind DEF WordAfter

LEMMA BeforeWord ==
  ASSUME NEW s \in Seq(Byte), NEW n \in Word16
  PROVE  /\ s \o U16(n) \in Seq(Byte) /\ Len(s \o U16(n)) = Len(s) + 2
         /\ \A i \in 1 .. Len(s) : (s \o U16(n))[i] = s[i]
BY WordBehind

LEMMA HeaderOnWire ==
  ASSUME NEW m, WellFormed(m)
  PROVE  /\ EncodeHeader(m) \in Seq(Byte) /\ Len(EncodeHeader(m)) = HdrLen
         /\ 256 * EncodeHeader(m)[7] + EncodeHeader(m)[8] = Len(m.answers)
<1>. DEFINE c == Len(m.answers)
            o == IF m.opt THEN 1 ELSE 0
            s1 == <<18, 52, 129, 128>>
            s2 == s1 \o U16(1)
            s3 == s2 \o U16(c)
            s4 == s3 \o U16(0)
            s5 == s4 \o U16(o)
<1>0. 0 \in Byte /\ 1 \in Byte
  BY DEF Byte
<1>1. c \in Word16 /\ o \in Word16
  BY <1>0, ByteIsWord DEF WellFormed
<1>2. EncodeHeader(m) = s5
  BY DEF EncodeHeader
<1>. HIDE DEF c, o
<1>3. s1 \in Seq(Byte) /\ Len(s1) = 4
  BY DEF Byte
<1>. HIDE DEF s1
<1>4. 0 \in Word16 /\ 1 \in Word16
  BY <1>0, ByteIsWord
<1>5. s2 \in Seq(Byte) /\ Len(s2) = 6
  <2>1. s2 \in Seq(Byte) /\ Len(s2) = Len(s1) + 2
    BY <1>3, <1>4, BeforeWord
  <2>. QED  BY <2>1, <1>3
<1>. HIDE DEF s2
<1>6. s3 \in Seq(Byte) /\ Len(s3) = 8 /\ 256 * s3[7] + s3[8] = c
  <2>1. s3 \in Seq(Byte) /\ Len(s3) = Len(s2) + 2
    BY <1>1, <1>5, BeforeWord
  <2>2. WordAfter(s3, Len(s2)) = c
    BY <1>1, <1>5, WordValue, Zenon
  <2>. HIDE DEF s3
  <2>. QED  BY <2>1, <2>2, <1>5 DEF WordAfter
<1>. HIDE DEF s3
<1>7. s4 \in Seq(Byte) /\ Len(s4) = 10 /\ s4[7] = s3[7] /\ s4[8] = s3[8]
  <2>1. /\ s4 \in Seq(Byte) /\ Len(s4) = Len(s3) + 2
        /\ \A i \in 1 .. Len(s3) : s4[i] = s3[i]
    BY <1>4, <1>6, BeforeWord
  <2>. QED  BY <2>1, <1>6
<1>. HIDE DEF s4
<1>8. s5 \in Seq(Byte) /\ Len(s5) = 12 /\ s5[7] = s4[7] /\ s5[8] = s4[8]
  <2>1. /\ s5 \in Seq(Byte) /\ Len(s5) = Len(s4) + 2
        /\ \A i \in 1 .. Len(s4) : s5[i] = s4[i]
    BY <1>1, <1>7, BeforeWord
  <2>. QED  BY <2>1, <1>7
<1>. HIDE DEF s5
<1>. QED  BY <1>2, <1>6, <1>7, <1>8 DEF HdrLen, c

\* The owner of a record: a pointer or a name.
LEMMA OwnerOnWire ==
  ASSUME NEW owner, IsName(owner)
  PROVE  EncodeOwner(owner) \in Seq(Byte) /\ Len(EncodeOwner(owner)) \in Nat
<1>1. Pointer \in Seq(Byte)
  BY DEF Pointer, Byte
<1>2. EncodeName(owner) \in Seq(Byte)
  BY NameOnWire
<1>3. EncodeOwner(owner) \in Seq(Byte)
  BY <1>1, <1>2 DEF EncodeOwner
<1>. QED  BY <1>3

\* The layout EncodeAnswer gives a record.
LEMMA RecordOnWire ==
  ASSUME NEW a, IsRecord(a)
  PROVE  LET wire == EncodeAnswer(a)
             o == Len(EncodeOwner(a.owner))
         IN  /\ wire \in Seq(Byte) /\ Len(wire) = o + 10 + Len(a.rdata)
             /\ \A i \in 1 .. o : wire[i] = EncodeOwner(a.owner)[i]
             /\ 256 * wire[o + 1] + wire[o + 2] = a.type
             /\ 256 * wire[o + 9] + wire[o + 10] = Len(a.rdata)
             /\ \A i \in 1 .. Len(a.rdata) : wire[o + 10 + i] = a.rdata[i]
<1>. DEFINE s1 == EncodeOwner(a.owner)
            o == Len(s1)
            s2 == s1 \o U16(a.type)
            s3 == s2 \o U16(1)
            ttl == <<0, 0, 1, 44>>
            s4 == s3 \o ttl
            s5 == s4 \o U16(Len(a.rdata))
            s6 == s5 \o a.rdata
<1>1. EncodeAnswer(a) = s6
  BY DEF EncodeAnswer
<1>2. a.type \in Word16 /\ Len(a.rdata) \in Word16 /\ 1 \in Word16 /\ a.rdata \in Seq(Byte)
  <2>1. 1 \in Byte
    BY DEF Byte
  <2>. QED  BY <2>1, ByteIsWord DEF IsRecord
<1>3. s1 \in Seq(Byte) /\ o \in Nat
  BY OwnerOnWire DEF IsRecord
<1>4. ttl \in Seq(Byte) /\ Len(ttl) = 4
  BY DEF Byte
<1>. HIDE DEF s1, o, ttl
<1>5. /\ s2 \in Seq(Byte) /\ Len(s2) = o + 2
      /\ \A i \in 1 .. o : s2[i] = s1[i]
      /\ 256 * s2[o + 1] + s2[o + 2] = a.type
  BY <1>2, <1>3, WordBehind DEF o
<1>. HIDE DEF s2
<1>6. /\ s3 \in Seq(Byte) /\ Len(s3) = o + 4
      /\ \A i \in 1 .. o + 2 : s3[i] = s2[i]
  <2>1. /\ s3 \in Seq(Byte) /\ Len(s3) = Len(s2) + 2
        /\ \A i \in 1 .. Len(s2) : s3[i] = s2[i]
    BY <1>2, <1>5, BeforeWord
  <2>. QED  BY <2>1, <1>3, <1>5
<1>. HIDE DEF s3
<1>7. /\ s4 \in Seq(Byte) /\ Len(s4) = o + 8
      /\ \A i \in 1 .. o + 4 : s4[i] = s3[i]
  <2>1. /\ s4 \in Seq(Byte) /\ Len(s4) = Len(s3) + Len(ttl)
        /\ \A i \in 1 .. Len(s3) : s4[i] = s3[i]
    BY <1>4, <1>6, ConcatAt
  <2>. QED  BY <2>1, <1>3, <1>4, <1>6
<1>. HIDE DEF s4
<1>8. /\ s5 \in Seq(Byte) /\ Len(s5) = o + 10
      /\ \A i \in 1 .. o + 8 : s5[i] = s4[i]
      /\ 256 * s5[o + 9] + s5[o + 10] = Len(a.rdata)
  <2>1. /\ s5 \in Seq(Byte) /\ Len(s5) = Len(s4) + 2
        /\ \A i \in 1 .. Len(s4) : s5[i] = s4[i]
    BY <1>2, <1>7, BeforeWord
  <2>2. WordAfter(s5, Len(s4)) = Len(a.rdata)
    BY <1>2, <1>7, WordValue, Zenon
  <2>. HIDE DEF s5
  <2>3. WordAfter(s5, o + 8) = Len(a.rdata)
    BY <1>7, <2>2
  <2>4. o + 8 + 1 = o + 9 /\ o + 8 + 2 = o + 10
    BY <1>3
  <2>. QED  BY <2>1, <2>3, <2>4, <1>7 DEF WordAfter
<1>. HIDE DEF s5
<1>9. /\ s6 \in Seq(Byte) /\ Len(s6) = o + 10 + Len(a.rdata)
      /\ \A i \in 1 .. o + 10 : s6[i] = s5[i]
      /\ \A i \in 1 .. Len(a.rdata) : s6[o + 10 + i] = a.rdata[i]
  <2>1. /\ s6 \in Seq(Byte) /\ Len(s6) = Len(s5) + Len(a.rdata)
        /\ \A i \in 1 .. Len(s5) : s6[i] = s5[i]
        /\ \A i \in 1 .. Len(a.rdata) : s6[Len(s5) + i] = a.rdata[i]
    BY <1>2, <1>8, ConcatAt
  <2>. QED  BY <2>1, <1>8
<1>. HIDE DEF s6
<1>10. ASSUME NEW i \in 1 .. o + 2 PROVE s6[i] = s2[i]
  <2>1. i \in 1 .. o + 4 /\ i \in 1 .. o + 8 /\ i \in 1 .. o + 10
    BY <1>3
  <2>. QED  BY <2>1, <1>6, <1>7, <1>8, <1>9
<1>11. ASSUME NEW i \in 1 .. o PROVE s6[i] = s1[i]
  <2>1. i \in 1 .. o + 2
    BY <1>3
  <2>. QED  BY <2>1, <1>5, <1>10
<1>12. 256 * s6[o + 1] + s6[o + 2] = a.type
  <2>1. o + 1 \in 1 .. o + 2 /\ o + 2 \in 1 .. o + 2
    BY <1>3
  <2>2. s6[o + 1] = s2[o + 1] /\ s6[o + 2] = s2[o + 2]
    BY <2>1, <1>10
  <2>. QED  BY <2>2, <1>5
<1>13. 256 * s6[o + 9] + s6[o + 10] = Len(a.rdata)
  <2>1. o + 9 \in 1 .. o + 10 /\ o + 10 \in 1 .. o + 10
    BY <1>3
  <2>2. s6[o + 9] = s5[o + 9] /\ s6[o + 10] = s5[o + 10]
    BY <2>1, <1>9
  <2>. QED  BY <2>2, <1>8
<1>. QED  BY <1>1, <1>9, <1>11, <1>12, <1>13 DEF s1, o

AnswerStrings(m) == [i \in 1 .. Len(m.answers) |-> EncodeAnswer(m.answers[i])]

\* Where the answers start in a message.
AnswersStart(m) == HdrLen + Len(EncodeName(m.qname)) + 4

LEMMA AnswerStringsType ==
  ASSUME NEW m, WellFormed(m)
  PROVE  /\ AnswerStrings(m) \in Strings
         /\ Len(AnswerStrings(m)) = Len(m.answers) /\ Len(m.answers) \in Nat
         /\ \A i \in 1 .. Len(m.answers) :
              AnswerStrings(m)[i] = EncodeAnswer(m.answers[i]) /\ IsRecord(m.answers[i])
<1>. DEFINE ss == AnswerStrings(m)
            n == Len(m.answers)
<1>1. n \in Nat /\ \A i \in 1 .. n : IsRecord(m.answers[i])
  BY DEF WellFormed
<1>2. \A i \in 1 .. n : EncodeAnswer(m.answers[i]) \in Seq(Byte)
  BY <1>1, RecordOnWire
<1>. HIDE DEF n
<1>3. ss \in [1 .. n -> Seq(Byte)] /\ \A i \in 1 .. n : ss[i] = EncodeAnswer(m.answers[i])
  BY <1>2 DEF AnswerStrings, n
<1>. HIDE DEF ss
<1>4. ss \in Seq(Seq(Byte)) /\ Len(ss) = n
  BY <1>1, <1>3
<1>. QED  BY <1>1, <1>3, <1>4 DEF ss, n, Strings

LEMMA OptOnWire ==
  OptRecord \in Seq(Byte) /\ Len(OptRecord) \in Nat /\ Len(OptRecord) > 0
<1>. DEFINE s1 == <<0>>
            s2 == s1 \o U16(41)
            size == <<4, 208>>
            s3 == s2 \o size
            ttl == <<0, 0, 0, 0>>
            s4 == s3 \o ttl
            s5 == s4 \o U16(0)
<1>1. 0 \in Byte /\ 41 \in Byte
  BY DEF Byte
<1>2. 0 \in Word16 /\ 41 \in Word16
  BY <1>1, ByteIsWord
<1>3. OptRecord = s5
  BY DEF OptRecord
<1>4. s1 \in Seq(Byte) /\ size \in Seq(Byte) /\ ttl \in Seq(Byte)
  BY DEF Byte
<1>. HIDE DEF s1, size, ttl
<1>5. s2 \in Seq(Byte)
  BY <1>2, <1>4, WordBehind
<1>. HIDE DEF s2
<1>6. s3 \in Seq(Byte)
  BY <1>4, <1>5, ConcatAt
<1>. HIDE DEF s3
<1>7. s4 \in Seq(Byte)
  BY <1>4, <1>6, ConcatAt
<1>. HIDE DEF s4
<1>8. s5 \in Seq(Byte) /\ Len(s5) = Len(s4) + 2 /\ Len(s4) \in Nat
  BY <1>2, <1>7, WordBehind
<1>. HIDE DEF s5
<1>9. Len(s5) \in Nat /\ Len(s5) > 0
  BY <1>8
<1>. QED  BY <1>3, <1>8, <1>9

\* The layout Encode gives a message.
LEMMA MessageOnWire ==
  ASSUME NEW m, WellFormed(m)
  PROVE  LET wire == Encode(m)
             qname == EncodeName(m.qname)
             start == AnswersStart(m)
             answers == FlattenSeq(AnswerStrings(m))
         IN  /\ wire \in Seq(Byte) /\ start \in Nat /\ answers \in Seq(Byte)
             /\ Len(wire) = start + Len(answers) + (IF m.opt THEN Len(OptRecord) ELSE 0)
             /\ 256 * wire[7] + wire[8] = Len(m.answers)
             /\ \A i \in 1 .. Len(qname) : wire[HdrLen + i] = qname[i]
             /\ \A i \in 1 .. Len(answers) : wire[start + i] = answers[i]
<1>. DEFINE s1 == EncodeHeader(m)
            q == EncodeName(m.qname)
            s2 == s1 \o q
            s3 == s2 \o U16(1)
            s4 == s3 \o U16(1)
            a == FlattenSeq(AnswerStrings(m))
            s5 == s4 \o a
            t == IF m.opt THEN OptRecord ELSE << >>
            s6 == s5 \o t
<1>1. Encode(m) = s6
  BY DEF Encode, AnswerStrings
<1>2. s1 \in Seq(Byte) /\ Len(s1) = 12 /\ 256 * s1[7] + s1[8] = Len(m.answers)
  BY HeaderOnWire DEF HdrLen
<1>3. q \in Seq(Byte) /\ Len(q) \in Nat
  <2>1. q \in Seq(Byte)
    BY NameOnWire DEF WellFormed
  <2>. QED  BY <2>1
<1>4. a \in Seq(Byte) /\ Len(a) \in Nat
  <2>1. PICK at : Cuts(AnswerStrings(m), at)
    BY AnswerStringsType, CutsExist
  <2>2. a \in Seq(Byte)
    BY <2>1, AnswerStringsType, Flattened
  <2>. QED  BY <2>2
<1>5. t \in Seq(Byte) /\ Len(t) = IF m.opt THEN Len(OptRecord) ELSE 0
  BY OptOnWire
<1>6. 1 \in Word16
  <2>1. 1 \in Byte
    BY DEF Byte
  <2>. QED  BY <2>1, ByteIsWord
<1>. HIDE DEF s1, q, a, t
<1>7. /\ s2 \in Seq(Byte) /\ Len(s2) = 12 + Len(q)
      /\ \A i \in 1 .. 12 : s2[i] = s1[i]
      /\ \A i \in 1 .. Len(q) : s2[12 + i] = q[i]
  <2>1. /\ s2 \in Seq(Byte) /\ Len(s2) = Len(s1) + Len(q)
        /\ \A i \in 1 .. Len(s1) : s2[i] = s1[i]
        /\ \A i \in 1 .. Len(q) : s2[Len(s1) + i] = q[i]
    BY <1>2, <1>3, ConcatAt
  <2>. QED  BY <2>1, <1>2
<1>. HIDE DEF s2
<1>8. /\ s3 \in Seq(Byte) /\ Len(s3) = 12 + Len(q) + 2
      /\ \A i \in 1 .. 12 + Len(q) : s3[i] = s2[i]
  BY <1>6, <1>7, WordBehind
<1>. HIDE DEF s3
<1>9. /\ s4 \in Seq(Byte) /\ Len(s4) = 12 + Len(q) + 4
      /\ \A i \in 1 .. 12 + Len(q) + 2 : s4[i] = s3[i]
  <2>1. /\ s4 \in Seq(Byte) /\ Len(s4) = Len(s3) + 2
        /\ \A i \in 1 .. Len(s3) : s4[i] = s3[i]
    BY <1>6, <1>8, WordBehind
  <2>. QED  BY <2>1, <1>3, <1>8
<1>. HIDE DEF s4
<1>10. /\ s5 \in Seq(Byte) /\ Len(s5) = 12 + Len(q) + 4 + Len(a)
       /\ \A i \in 1 .. 12 + Len(q) + 4 : s5[i] = s4[i]
       /\ \A i \in 1 .. Len(a) : s5[12 + Len(q) + 4 + i] = a[i]
  <2>1. /\ s5 \in Seq(Byte) /\ Len(s5) = Len(s4) + Len(a)
        /\ \A i \in 1 .. Len(s4) : s5[i] = s4[i]
        /\ \A i \in 1 .. Len(a) : s5[Len(s4) + i] = a[i]
    BY <1>4, <1>9, ConcatAt
  <2>. QED  BY <2>1, <1>9
<1>. HIDE DEF s5
<1>11. /\ s6 \in Seq(Byte) /\ Len(s6) = 12 + Len(q) + 4 + Len(a) + Len(t)
       /\ \A i \in 1 .. 12 + Len(q) + 4 + Len(a) : s6[i] = s5[i]
  <2>1. /\ s6 \in Seq(Byte) /\ Len(s6) = Len(s5) + Len(t)
        /\ \A i \in 1 .. Len(s5) : s6[i] = s5[i]
    BY <1>5, <1>10, ConcatAt
  <2>. QED  BY <2>1, <1>10
<1>. HIDE DEF s6
<1>12. ASSUME NEW i \in 1 .. 12 + Len(q) PROVE s6[i] = s2[i]
  <2>1. i \in 1 .. 12 + Len(q) + 2 /\ i \in 1 .. 12 + Len(q) + 4
        /\ i \in 1 .. 12 + Len(q) + 4 + Len(a)
    BY <1>3, <1>4
  <2>. QED  BY <2>1, <1>8, <1>9, <1>10, <1>11
<1>13. 256 * s6[7] + s6[8] = Len(m.answers)
  <2>1. 7 \in 1 .. 12 + Len(q) /\ 8 \in 1 .. 12 + Len(q) /\ 7 \in 1 .. 12 /\ 8 \in 1 .. 12
    BY <1>3
  <2>2. s6[7] = s2[7] /\ s6[8] = s2[8]
    BY <2>1, <1>12
  <2>3. s2[7] = s1[7] /\ s2[8] = s1[8]
    BY <2>1, <1>7
  <2>. QED  BY <2>2, <2>3, <1>2
<1>14. ASSUME NEW i \in 1 .. Len(q) PROVE s6[12 + i] = q[i]
  <2>1. 12 + i \in 1 .. 12 + Len(q)
    BY <1>3
  <2>. QED  BY <2>1, <1>7, <1>12
<1>15. ASSUME NEW i \in 1 .. Len(a) PROVE s6[12 + Len(q) + 4 + i] = a[i]
  <2>1. 12 + Len(q) + 4 + i \in 1 .. 12 + Len(q) + 4 + Len(a)
    BY <1>3, <1>4
  <2>. QED  BY <2>1, <1>10, <1>11
<1>16. AnswersStart(m) = 12 + Len(q) + 4 /\ 12 + Len(q) + 4 \in Nat
  BY <1>3 DEF AnswersStart, HdrLen, q
<1>. QED  BY <1>1, <1>4, <1>5, <1>11, <1>13, <1>14, <1>15, <1>16 DEF HdrLen, q, a

RecordLen(a) == OwnerLen(a) + 10 + Len(a.rdata)

LEMMA Lengths ==
  ASSUME NEW a, IsRecord(a)
  PROVE  OwnerLen(a) \in Nat /\ Len(a.rdata) \in Nat /\ RecordLen(a) \in Nat
<1>1. OwnerLen(a) \in Nat /\ a.rdata \in Seq(Byte)
  BY OwnerOnWire DEF IsRecord, OwnerLen
<1>2. Len(a.rdata) \in Nat
  BY <1>1
<1>. QED  BY <1>1, <1>2 DEF RecordLen

\* The first answer lies at the start of the answers, the second behind it.
\* skip is what the parser has stepped over when it comes to the answer.
LEMMA AnswerOnWire ==
  ASSUME NEW m, WellFormed(m), NEW k \in {1, 2}, k <= Len(m.answers)
  PROVE  LET wire == Encode(m)
             a == m.answers[k]
             skip == IF k = 1 THEN 0 ELSE RecordLen(m.answers[1])
             start == AnswersStart(m) + skip
         IN  /\ start + RecordLen(a) <= Len(wire) /\ start \in Nat
             /\ \A i \in 1 .. RecordLen(a) : wire[start + i] = EncodeAnswer(a)[i]
<1>. DEFINE wire == Encode(m)
            ss == AnswerStrings(m)
            a == m.answers[k]
            skip == IF k = 1 THEN 0 ELSE RecordLen(m.answers[1])
            flat == FlattenSeq(ss)
            base0 == AnswersStart(m)
            n == Len(m.answers)
<1>1. /\ ss \in Strings /\ Len(ss) = n /\ n \in Nat
      /\ \A i \in 1 .. n : ss[i] = EncodeAnswer(m.answers[i]) /\ IsRecord(m.answers[i])
  BY AnswerStringsType
<1>2. PICK at : Cuts(ss, at)
  BY <1>1, CutsExist
<1>3. /\ wire \in Seq(Byte) /\ base0 \in Nat /\ flat \in Seq(Byte)
      /\ Len(wire) = base0 + Len(flat) + (IF m.opt THEN Len(OptRecord) ELSE 0)
      /\ \A i \in 1 .. Len(flat) : wire[base0 + i] = flat[i]
  BY MessageOnWire
<1>4. Len(wire) >= base0 + Len(flat) /\ Len(flat) \in Nat /\ Len(wire) \in Nat
  <2>1. Len(flat) \in Nat /\ Len(wire) \in Nat /\ Len(OptRecord) \in Nat
    BY <1>3, OptOnWire
  <2>. HIDE DEF flat, wire, base0
  <2>2. CASE m.opt
    BY <2>1, <2>2, <1>3
  <2>3. CASE ~m.opt
    BY <2>1, <2>3, <1>3
  <2>. QED  BY <2>1, <2>2, <2>3
<1>. HIDE DEF wire, ss, base0, n
<1>5. /\ Len(flat) = at[n] /\ \A j \in 0 .. n : at[j] <= at[n]
      /\ \A j \in 0 .. n - 1 : \A i \in 1 .. Len(ss[j+1]) : flat[at[j] + i] = ss[j+1][i]
  <2>1. /\ FlattenSeq(ss) \in Seq(Byte)
        /\ Len(FlattenSeq(ss)) = at[Len(ss)]
        /\ \A j \in 0 .. Len(ss) : at[j] <= at[Len(ss)]
        /\ \A j \in 0 .. Len(ss) - 1 : \A i \in 1 .. Len(ss[j+1]) :
             FlattenSeq(ss)[at[j] + i] = ss[j+1][i]
    BY <1>1, <1>2, Flattened
  <2>. HIDE DEF flat
  <2>. QED  BY <2>1, <1>1 DEF flat
<1>. HIDE DEF flat
<1>6. k \in 1 .. n /\ k - 1 \in 0 .. n - 1 /\ 0 \in 0 .. n - 1 /\ k - 1 + 1 = k /\ 1 \in 1 .. n
      /\ k \in 0 .. n /\ k - 1 \in 0 .. n
  BY <1>1 DEF n
<1>7. \A i \in 1 .. n : Len(ss[i]) = RecordLen(m.answers[i]) /\ RecordLen(m.answers[i]) \in Nat
  BY <1>1, RecordOnWire, Lengths DEF RecordLen, OwnerLen
<1>8. at[k-1] = skip /\ skip \in Nat
  <2>1. at[0] = 0
    BY <1>2 DEF Cuts
  <2>2. CASE k = 1
    BY <2>1, <2>2
  <2>3. CASE k = 2
    <3>1. at[0+1] = at[0] + Len(ss[0+1])
      BY <1>1, <1>2, <1>6 DEF Cuts
    <3>2. k - 1 = 0 + 1 /\ 0 + 1 = 1
      BY <2>3
    <3>3. at[k-1] = RecordLen(m.answers[1]) /\ RecordLen(m.answers[1]) \in Nat
      BY <2>1, <3>1, <3>2, <1>6, <1>7
    <3>. QED  BY <2>3, <3>3
  <2>. QED  BY <2>2, <2>3
<1>9. at[k] = skip + RecordLen(a) /\ at[k] <= at[n] /\ RecordLen(a) \in Nat /\ Len(ss[k]) = RecordLen(a)
  <2>1. at[k-1+1] = at[k-1] + Len(ss[k-1+1])
    BY <1>1, <1>2, <1>6 DEF Cuts
  <2>. QED  BY <2>1, <1>5, <1>6, <1>7, <1>8
<1>10. \A i \in 1 .. RecordLen(a) : flat[skip + i] = EncodeAnswer(a)[i]
  <2>1. \A i \in 1 .. Len(ss[k-1+1]) : flat[at[k-1] + i] = ss[k-1+1][i]
    BY <1>5, <1>6
  <2>2. ss[k] = EncodeAnswer(a)
    BY <1>1, <1>6
  <2>. QED  BY <2>1, <2>2, <1>6, <1>8, <1>9
<1>. HIDE DEF skip, a
<1>11. base0 + skip \in Nat /\ base0 + skip + RecordLen(a) <= Len(wire)
  BY <1>3, <1>4, <1>5, <1>8, <1>9
<1>12. ASSUME NEW i \in 1 .. RecordLen(a) PROVE wire[base0 + skip + i] = EncodeAnswer(a)[i]
  <2>1. skip + i \in 1 .. Len(flat) /\ base0 + (skip + i) = base0 + skip + i
    BY <1>3, <1>4, <1>5, <1>8, <1>9
  <2>2. wire[base0 + (skip + i)] = flat[skip + i]
    BY <2>1, <1>3
  <2>. QED  BY <2>1, <2>2, <1>10
<1>. QED  BY <1>11, <1>12 DEF wire, base0, skip, a

\* Where the answers start, and when nothing follows the question.
LEMMA MessageLength ==
  ASSUME NEW m, WellFormed(m)
  PROVE  /\ Len(Encode(m)) \in Nat /\ AnswersStart(m) \in Nat
         /\ HdrLen <= AnswersStart(m) /\ AnswersStart(m) <= Len(Encode(m))
         /\ AnswersStart(m) = Len(Encode(m)) <=> m.answers = << >> /\ ~m.opt
<1>. DEFINE p == Encode(m)
            r == AnswersStart(m)
            a == FlattenSeq(AnswerStrings(m))
            q == EncodeName(m.qname)
<1>1. /\ p \in Seq(Byte) /\ r \in Nat /\ a \in Seq(Byte)
      /\ Len(p) = r + Len(a) + (IF m.opt THEN Len(OptRecord) ELSE 0)
  BY MessageOnWire
<1>2. q \in Seq(Byte) /\ r = 12 + Len(q) + 4
  BY NameOnWire DEF WellFormed, AnswersStart, HdrLen
<1>3. Len(p) \in Nat /\ Len(a) \in Nat /\ Len(q) \in Nat
      /\ Len(OptRecord) \in Nat /\ Len(OptRecord) > 0
  <2>1. Len(p) \in Nat /\ Len(a) \in Nat
    BY <1>1
  <2>2. Len(q) \in Nat
    BY <1>2
  <2>. QED  BY <2>1, <2>2, OptOnWire
<1>4. m.answers = << >> => Len(a) = 0
  <2>1. /\ AnswerStrings(m) \in Strings /\ Len(AnswerStrings(m)) = Len(m.answers)
    BY AnswerStringsType
  <2>2. PICK at : Cuts(AnswerStrings(m), at)
    BY <2>1, CutsExist
  <2>3. Len(a) = at[Len(m.answers)]
    BY <2>1, <2>2, Flattened
  <2>. QED  BY <2>2, <2>3 DEF Cuts
<1>5. m.answers # << >> => Len(a) > 0
  <2>. SUFFICES ASSUME m.answers # << >> PROVE Len(a) > 0
    OBVIOUS
  <2>. DEFINE b == m.answers[1]
  <2>1. Len(m.answers) \in Nat /\ 1 <= Len(m.answers) /\ IsRecord(b)
    BY EmptySeq DEF WellFormed
  <2>2. RecordLen(b) \in Nat /\ RecordLen(b) >= 10
    <3>1. OwnerLen(b) \in Nat /\ Len(b.rdata) \in Nat
      BY <2>1, Lengths
    <3>. HIDE DEF b
    <3>. QED  BY <3>1 DEF RecordLen
  <2>3. PICK at : Cuts(AnswerStrings(m), at)
    BY AnswerStringsType, CutsExist
  <2>4. /\ Len(a) = at[Len(m.answers)] /\ at[1] <= at[Len(m.answers)]
    <3>1. 1 \in 0 .. Len(m.answers)
      BY <2>1
    <3>. QED  BY <3>1, <2>3, AnswerStringsType, Flattened
  <2>5. at[1] = RecordLen(b)
    <3>1. 0 \in 0 .. Len(m.answers) - 1 /\ 0 + 1 = 1 /\ 1 \in 1 .. Len(m.answers)
      BY <2>1
    <3>2. at[0+1] = at[0] + Len(AnswerStrings(m)[0+1]) /\ at[0] = 0
      BY <3>1, <2>3, AnswerStringsType DEF Cuts
    <3>3. Len(AnswerStrings(m)[1]) = RecordLen(b)
      <4>1. AnswerStrings(m)[1] = EncodeAnswer(b)
        BY <3>1, AnswerStringsType
      <4>2. Len(EncodeAnswer(b)) = RecordLen(b)
        BY <2>1, RecordOnWire DEF RecordLen, OwnerLen
      <4>. QED  BY <4>1, <4>2
    <3>. QED  BY <3>1, <3>2, <3>3, <2>2
  <2>. QED  BY <2>2, <2>4, <2>5, <1>3
<1>. HIDE DEF p, r, a, q
<1>6. CASE m.opt
  BY <1>1, <1>2, <1>3, <1>6 DEF HdrLen, p, r
<1>7. CASE ~m.opt
  BY <1>1, <1>2, <1>3, <1>4, <1>5, <1>7 DEF HdrLen, p, r
<1>. QED  BY <1>6, <1>7

\* The text of the first k labels, and what the next label adds to it.
TextUpTo(labels, k) == SubSeq(Dotted(labels), 2, NameCuts(labels)[k])

LEMMA TextUpToType ==
  ASSUME NEW labels, IsName(labels), NEW k \in 0 .. Len(labels)
  PROVE  LET d == Dotted(labels)
             at == NameCuts(labels)
             text == TextUpTo(labels, k)
         IN  /\ text \in Seq(Byte) /\ at[k] \in Nat
             /\ Len(text) = (IF at[k] <= 1 THEN 0 ELSE at[k] - 1)
             /\ \A i \in 1 .. Len(text) : text[i] = d[i + 1]
<1>. DEFINE d == Dotted(labels)
            at == NameCuts(labels)
            text == TextUpTo(labels, k)
            hi == at[k]
<1>1. d \in Seq(Byte) /\ Len(d) = at[Len(labels)] /\ Len(labels) \in Nat
  BY NameAsText DEF IsName
<1>2. LabelCuts(labels, at) /\ hi <= at[Len(labels)]
  BY NameOnWire
<1>3. hi \in Nat /\ hi <= Len(d) /\ Len(d) \in Nat /\ text = SubSeq(d, 2, hi)
  BY <1>1, <1>2 DEF LabelCuts, TextUpTo
<1>. HIDE DEF d, hi, text
<1>4. \A i \in 2 .. hi : d[i] \in Byte
  BY <1>1, <1>3
<1>5. /\ text \in Seq(Byte) /\ Len(text) = IF 2 <= hi THEN hi - 2 + 1 ELSE 0
      /\ \A i \in 1 .. hi - 2 + 1 : text[i] = d[2 + i - 1]
  BY <1>3, <1>4, SubSeqProperties
<1>6. Len(text) = IF hi <= 1 THEN 0 ELSE hi - 1
  BY <1>3, <1>5
<1>7. ASSUME NEW i \in 1 .. Len(text) PROVE text[i] = d[i + 1]
  <2>1. i \in 1 .. hi - 2 + 1 /\ 2 + i - 1 = i + 1
    BY <1>3, <1>6
  <2>. QED  BY <2>1, <1>5
<1>. QED  BY <1>3, <1>5, <1>6, <1>7 DEF d, hi, text

LEMMA CutsGrow ==
  ASSUME NEW labels, IsName(labels), NEW k \in 0 .. Len(labels) - 1
  PROVE  LET at == NameCuts(labels)
         IN  /\ at[k+1] = at[k] + 1 + Len(labels[k+1])
             /\ at[k] \in Nat /\ at[k+1] \in Nat /\ at[k+1] <= at[Len(labels)]
             /\ at[Len(labels)] \in Nat /\ at[k+1] >= 2
             /\ labels[k+1] \in Seq(Byte) /\ Len(labels[k+1]) \in Nat
             /\ 1 <= Len(labels[k+1]) /\ Len(labels[k+1]) <= MaxLabelLen
<1>. DEFINE at == NameCuts(labels)
<1>1. /\ Len(labels) \in Nat /\ k + 1 \in 1 .. Len(labels) /\ k \in 0 .. Len(labels)
      /\ k + 1 \in 0 .. Len(labels) /\ Len(labels) \in 0 .. Len(labels)
  BY DEF IsName
<1>2. LabelCuts(labels, at) /\ at[k+1] <= at[Len(labels)]
  BY <1>1, NameOnWire
<1>3. /\ labels[k+1] \in Seq(Byte) /\ Len(labels[k+1]) \in Nat
      /\ 1 <= Len(labels[k+1]) /\ Len(labels[k+1]) <= MaxLabelLen
  BY <1>1, LabelAt
<1>4. at[k+1] = at[k] + 1 + Len(labels[k+1]) /\ at[k] \in Nat /\ at[k+1] \in Nat
      /\ at[Len(labels)] \in Nat
  BY <1>1, <1>2 DEF LabelCuts
<1>5. at[k+1] >= 2
  BY <1>3, <1>4
<1>. QED  BY <1>2, <1>3, <1>4, <1>5

LEMMA PushNext ==
  ASSUME NEW labels, IsName(labels), NEW k \in 0 .. Len(labels) - 1
  PROVE  PushLabel(TextUpTo(labels, k), labels[k+1]) = TextUpTo(labels, k + 1)
<1>. DEFINE d == Dotted(labels)
            at == NameCuts(labels)
            x == at[k]
            l == labels[k+1]
            n == Len(l)
            s == TextUpTo(labels, k)
            t == TextUpTo(labels, k + 1)
            p == PushLabel(s, l)
<1>1. Len(labels) \in Nat /\ k \in 0 .. Len(labels) /\ k + 1 \in 0 .. Len(labels)
  BY DEF IsName
<1>2. /\ at[k+1] = x + 1 + n /\ x \in Nat /\ l \in Seq(Byte) /\ n \in Nat /\ n >= 1
  BY CutsGrow
<1>3. /\ s \in Seq(Byte) /\ Len(s) = (IF x <= 1 THEN 0 ELSE x - 1)
      /\ \A i \in 1 .. Len(s) : s[i] = d[i + 1]
  BY <1>1, TextUpToType
<1>4. /\ t \in Seq(Byte) /\ Len(t) = x + n
      /\ \A i \in 1 .. Len(t) : t[i] = d[i + 1]
  <2>1. /\ t \in Seq(Byte) /\ Len(t) = (IF at[k+1] <= 1 THEN 0 ELSE at[k+1] - 1)
        /\ \A i \in 1 .. Len(t) : t[i] = d[i + 1]
    BY <1>1, TextUpToType
  <2>. HIDE DEF at, x, l, n, t, d
  <2>2. ~(at[k+1] <= 1) /\ at[k+1] - 1 = x + n
    BY <1>2
  <2>. QED  BY <2>1, <2>2
<1>5. d[x + 1] = Dot /\ \A i \in 1 .. n : d[x + 1 + i] = l[i]
  BY NameAsText
<1>6. k = 0 \/ x >= 2
  <2>1. CASE k # 0
    <3>1. k - 1 \in 0 .. Len(labels) - 1 /\ k - 1 + 1 = k
      BY <2>1, <1>1
    <3>2. at[k-1+1] >= 2
      BY <3>1, CutsGrow
    <3>. QED  BY <3>1, <3>2
  <2>. QED  BY <2>1
<1>7. k = 0 => x = 0
  BY NameOnWire DEF LabelCuts
<1>. HIDE DEF d, at, x, l, n, s, t
<1>8. CASE k = 0
  <2>1. s = << >> /\ x = 0
    BY <1>3, <1>7, <1>8, EmptySeq
  <2>2. p = s \o l
    BY <2>1 DEF PushLabel
  <2>3. p = l
    BY <2>1, <2>2, <1>2
  <2>. HIDE DEF p
  <2>4. ASSUME NEW i \in 1 .. Len(l) PROVE l[i] = t[i]
    <3>1. i \in 1 .. n /\ i \in 1 .. Len(t) /\ x + 1 + i = i + 1
      BY <2>1, <1>2, <1>4 DEF n
    <3>. QED  BY <3>1, <1>4, <1>5
  <2>5. Len(l) = Len(t)
    BY <2>1, <1>2, <1>4 DEF n
  <2>6. l = t
    BY <2>4, <2>5, <1>2, <1>4, SeqEqual
  <2>7. p = t
    BY <2>3, <2>6
  <2>. QED  BY <2>7 DEF p, s, l, t
<1>9. CASE k # 0
  <2>. DEFINE sd == Append(s, Dot)
  <2>1. Len(s) = x - 1 /\ x >= 2 /\ s # << >>
    BY <1>2, <1>3, <1>6, <1>9
  <2>2. p = sd \o l
    BY <2>1 DEF PushLabel
  <2>3. /\ sd \in Seq(Byte) /\ Len(sd) = x /\ sd[x] = Dot
        /\ \A i \in 1 .. x - 1 : sd[i] = s[i]
    <3>1. Dot \in Byte
      BY DEF Dot, Byte
    <3>2. /\ sd \in Seq(Byte) /\ Len(sd) = Len(s) + 1 /\ sd[Len(s) + 1] = Dot
          /\ \A i \in 1 .. Len(s) : sd[i] = s[i]
      BY <3>1, <1>3, AppendProperties
    <3>3. Len(s) + 1 = x
      BY <2>1, <1>2
    <3>. QED  BY <3>2, <3>3, <2>1
  <2>. HIDE DEF sd
  <2>4. /\ p \in Seq(Byte) /\ Len(p) = x + n
        /\ \A i \in 1 .. x : p[i] = sd[i]
        /\ \A i \in 1 .. n : p[x + i] = l[i]
    <3>1. /\ sd \o l \in Seq(Byte) /\ Len(sd \o l) = Len(sd) + Len(l)
          /\ \A i \in 1 .. Len(sd) : (sd \o l)[i] = sd[i]
          /\ \A i \in 1 .. Len(l) : (sd \o l)[Len(sd) + i] = l[i]
      BY <2>3, <1>2, ConcatAt
    <3>. HIDE DEF p
    <3>. QED  BY <3>1, <2>2, <2>3 DEF n
  <2>. HIDE DEF p
  <2>5. ASSUME NEW i \in 1 .. x + n PROVE p[i] = d[i + 1]
    <3>1. CASE i <= x - 1
      <4>1. i \in 1 .. x - 1 /\ i \in 1 .. x /\ i \in 1 .. Len(s)
        BY <3>1, <2>1, <1>2
      <4>. QED  BY <4>1, <2>3, <2>4, <1>3
    <3>2. CASE i = x
      <4>1. i \in 1 .. x
        BY <3>2, <2>1, <1>2
      <4>. QED  BY <4>1, <3>2, <2>3, <2>4, <1>5
    <3>3. CASE i > x
      <4>1. PICK j \in 1 .. n : i = x + j
        <5>1. i - x \in 1 .. n /\ i = x + (i - x)
          BY <3>3, <1>2
        <5>. QED  BY <5>1
      <4>2. i + 1 = x + 1 + j
        BY <4>1, <1>2
      <4>. QED  BY <4>1, <4>2, <2>4, <1>5
    <3>. QED  BY <3>1, <3>2, <3>3, <1>2
  <2>6. \A i \in 1 .. Len(p) : p[i] = t[i]
    BY <2>4, <2>5, <1>4
  <2>7. p = t
    BY <2>4, <2>6, <1>4, SeqEqual
  <2>. QED  BY <2>7 DEF p, s, l, t
<1>. QED  BY <1>8, <1>9

\* The first answer.
First(m) == m.answers[1]

LEMMA FirstIsRecord ==
  ASSUME NEW m, WellFormed(m), 1 <= Len(m.answers)
  PROVE  /\ IsRecord(First(m)) /\ OwnerLen(First(m)) \in Nat
         /\ Len(First(m).rdata) \in Nat /\ First(m).rdata \in Seq(Byte)
         /\ RecordLen(First(m)) \in Nat
         /\ RecordLen(First(m)) = OwnerLen(First(m)) + 10 + Len(First(m).rdata)
<1>1. Len(m.answers) \in Nat /\ IsRecord(First(m))
  BY DEF WellFormed, First
<1>. QED  BY <1>1, Lengths DEF IsRecord, RecordLen

\* The strings of at most one answer, joined.
LEMMA FlattenOne ==
  ASSUME NEW ss \in Strings, Len(ss) <= 1
  PROVE  FlattenSeq(ss) = IF ss = << >> THEN << >> ELSE ss[1]
<1>. DEFINE f == FlattenSeq(ss)
<1>1. Len(ss) \in Nat
  BY DEF Strings
<1>2. PICK at : Cuts(ss, at)
  BY CutsExist
<1>3. /\ f \in Seq(Byte) /\ Len(f) = at[Len(ss)]
      /\ \A k \in 0 .. Len(ss) - 1 : \A i \in 1 .. Len(ss[k+1]) : f[at[k] + i] = ss[k+1][i]
  BY <1>2, Flattened
<1>. HIDE DEF f
<1>4. CASE Len(ss) = 0
  <2>1. Len(f) = 0
    BY <1>2, <1>3, <1>4 DEF Cuts
  <2>2. f = << >> /\ ss = << >>
    BY <2>1, <1>3, <1>4, EmptySeq DEF Strings
  <2>. QED  BY <2>2 DEF f
<1>5. CASE Len(ss) = 1
  <2>. DEFINE x == ss[1]
  <2>1. 0 \in 0 .. Len(ss) - 1 /\ 0 + 1 = 1 /\ at[0] = 0 /\ x \in Seq(Byte) /\ Len(x) \in Nat
    <3>1. x \in Seq(Byte)
      BY <1>5 DEF Strings
    <3>. QED  BY <3>1, <1>2, <1>5 DEF Cuts
  <2>2. at[0+1] = at[0] + Len(ss[0+1])
    BY <2>1, <1>2 DEF Cuts
  <2>3. \A i \in 1 .. Len(ss[0+1]) : f[at[0] + i] = ss[0+1][i]
    BY <2>1, <1>3
  <2>4. at[1] = 0 + Len(x) /\ \A i \in 1 .. Len(x) : f[0 + i] = x[i]
    BY <2>1, <2>2, <2>3
  <2>. HIDE DEF x
  <2>5. Len(f) = Len(x) /\ \A i \in 1 .. Len(f) : f[i] = x[i]
    BY <2>1, <2>4, <1>3, <1>5
  <2>6. f = x
    BY <2>1, <2>5, <1>3, SeqEqual
  <2>7. ss # << >>
    BY <1>5
  <2>. QED  BY <2>6, <2>7 DEF f, x
<1>. QED  BY <1>1, <1>4, <1>5

\* What the reference finds in a message with at most one answer.
LEMMA OneAnswer ==
  ASSUME NEW m, WellFormed(m), Len(m.answers) <= 1
  PROVE  IF m.answers = << >> \/ FamilyOf(First(m).type) = 0
         THEN AddressBytes(m) = << >> /\ LastFamily(m) = 0
         ELSE AddressBytes(m) = First(m).rdata /\ LastFamily(m) = FamilyOf(First(m).type)
<1>. DEFINE a == First(m)
            ss == [i \in 1 .. Len(m.answers) |->
                     IF i \in AddressAt(m) THEN m.answers[i].rdata ELSE << >>]
<1>1. Len(m.answers) \in Nat /\ (m.answers = << >> <=> Len(m.answers) = 0)
  BY EmptySeq DEF WellFormed
<1>2. /\ ss \in Strings /\ Len(ss) = Len(m.answers)
      /\ ss = << >> <=> m.answers = << >>
  <2>1. \A i \in 1 .. Len(m.answers) : m.answers[i].rdata \in Seq(Byte) /\ << >> \in Seq(Byte)
    BY DEF WellFormed, IsRecord
  <2>2. ss \in Strings /\ Len(ss) = Len(m.answers)
    BY <2>1, <1>1 DEF Strings
  <2>. QED  BY <2>2, <1>1, EmptySeq DEF Strings
<1>3. AddressBytes(m) = IF ss = << >> THEN << >> ELSE ss[1]
  <2>1. AddressBytes(m) = FlattenSeq(ss)
    BY DEF AddressBytes
  <2>. HIDE DEF ss
  <2>. QED  BY <2>1, <1>2, FlattenOne
<1>4. CASE m.answers = << >>
  <2>1. AddressAt(m) = {}
    BY <1>1, <1>4 DEF AddressAt
  <2>. QED  BY <2>1, <1>2, <1>3, <1>4 DEF LastFamily
<1>5. CASE m.answers # << >>
  <2>1. Len(m.answers) = 1 /\ 1 \in 1 .. Len(m.answers)
    <3>1. Len(m.answers) # 0
      BY <1>1, <1>5
    <3>. DEFINE k == Len(m.answers)
    <3>2. k \in Nat /\ k <= 1 /\ k # 0
      BY <3>1, <1>1
    <3>. HIDE DEF k
    <3>3. k = 1 /\ 1 \in 1 .. k
      BY <3>2
    <3>. QED  BY <3>3 DEF k
  <2>2. AddressAt(m) = IF CarriesAddress(a) THEN {1} ELSE {}
    BY <2>1 DEF AddressAt, First
  <2>3. CarriesAddress(a) <=> FamilyOf(a.type) # 0
    BY DEF CarriesAddress, FamilyOf, TypeA, TypeAAAA, AF_INET, AF_INET6
  <2>4. AddressBytes(m) = ss[1] /\ ss[1] = IF CarriesAddress(a) THEN a.rdata ELSE << >>
    BY <2>1, <2>2, <1>2, <1>3, <1>5 DEF First
  <2>5. CASE ~CarriesAddress(a)
    <3>1. LastFamily(m) = 0
      BY <2>2, <2>5 DEF LastFamily
    <3>. QED  BY <3>1, <2>3, <2>4, <2>5
  <2>6. CASE CarriesAddress(a)
    <3>1. Max({1}) = 1
      BY DEF Max
    <3>2. AddressAt(m) = {1} /\ AddressAt(m) # {}
      BY <2>2, <2>6
    <3>3. m.answers[Max(AddressAt(m))] = a
      BY <3>1, <3>2 DEF First
    <3>4. LastFamily(m) = IF a.type = 1 THEN 2 ELSE 10
      BY <3>2, <3>3 DEF LastFamily
    <3>5. LastFamily(m) = FamilyOf(a.type)
      BY <3>4, <2>6 DEF FamilyOf, CarriesAddress, TypeA, TypeAAAA, AF_INET, AF_INET6
    <3>. QED  BY <3>5, <2>3, <2>4, <2>6, <1>5
  <2>. QED  BY <2>5, <2>6
<1>. QED  BY <1>4, <1>5
=============================================================================
