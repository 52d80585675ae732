--------------------------- MODULE OrderingProofs ---------------------------
(***************************************************************************)
(* Moving a part of a sequence, dropping a part, adding to the end: what   *)
(* that does to the order of the ids.                                      *)
(***************************************************************************)
EXTENDS Ordering, SequenceTheorems, TLAPS

\* An index of a concatenation is an index of one of its parts.
LEMMA ConcatIndex ==
  ASSUME NEW S, NEW s \in Seq(S), NEW t \in Seq(S)
  PROVE  /\ s \o t \in Seq(S) /\ DOMAIN (s \o t) = 1 .. Len(s) + Len(t)
         /\ \A i \in 1 .. Len(s) : (s \o t)[i] = s[i]
         /\ \A i \in 1 .. Len(t) : (s \o t)[Len(s) + i] = t[i]
         /\ \A i \in 1 .. Len(s) + Len(t) : i \in 1 .. Len(s) \/ i - Len(s) \in 1 .. Len(t)
<1>1. /\ s \o t \in Seq(S) /\ Len(s \o t) = Len(s) + Len(t)
      /\ \A i \in 1 .. Len(s) + Len(t) : (s \o t)[i] = IF i <= Len(s) THEN s[i] ELSE t[i - Len(s)]
  BY ConcatProperties
<1>2. Len(s) \in Nat /\ Len(t) \in Nat
  BY LenProperties
<1>3. DOMAIN (s \o t) = 1 .. Len(s) + Len(t)
  BY <1>1, LenProperties
<1>4. ASSUME NEW i \in 1 .. Len(s) PROVE (s \o t)[i] = s[i]
  BY <1>1, <1>2
<1>5. ASSUME NEW i \in 1 .. Len(t) PROVE (s \o t)[Len(s) + i] = t[i]
  <2>1. Len(s) + i \in 1 .. Len(s) + Len(t) /\ ~(Len(s) + i <= Len(s)) /\ (Len(s) + i) - Len(s) = i
    BY <1>2
  <2> QED BY <1>1, <2>1
<1>6. ASSUME NEW i \in 1 .. Len(s) + Len(t)
      PROVE  i \in 1 .. Len(s) \/ i - Len(s) \in 1 .. Len(t)
  BY <1>2
<1> QED BY <1>1, <1>3, <1>4, <1>5, <1>6

\* If every element of s is found in t, at a place that moves up with it, then
\* s is numbered as t is.
LEMMA Embedded ==
  ASSUME NEW S, NEW s \in Seq(S), NEW t \in Seq(S), NEW n, Numbered(t, n),
         NEW f \in [1 .. Len(s) -> 1 .. Len(t)],
         \A i \in 1 .. Len(s) : s[i] = t[f[i]],
         \A i, j \in 1 .. Len(s) : i < j => f[i] < f[j]
  PROVE  Numbered(s, n)
<1>1. DOMAIN s = 1 .. Len(s) /\ DOMAIN t = 1 .. Len(t)
  BY LenProperties
<1>2. ASSUME NEW i \in 1 .. Len(s), NEW j \in 1 .. Len(s), i < j
      PROVE  s[i].id < s[j].id
  <2>1. f[i] \in DOMAIN t /\ f[j] \in DOMAIN t /\ f[i] < f[j]
    BY <1>1, <1>2
  <2>2. t[f[i]].id < t[f[j]].id
    BY <2>1 DEF Numbered, Increasing
  <2> QED BY <2>2
<1>3. ASSUME NEW i \in 1 .. Len(s) PROVE s[i].id <= n
  BY <1>1 DEF Numbered
<1> QED BY <1>1, <1>2, <1>3 DEF Numbered, Increasing

\* A part in the middle may be dropped.
LEMMA CutMiddle ==
  ASSUME NEW S, NEW p \in Seq(S), NEW x \in Seq(S), NEW q \in Seq(S), NEW n,
         Numbered((p \o x) \o q, n)
  PROVE  Numbered(p \o q, n)
<1> DEFINE px == p \o x
           all == px \o q
           pq == p \o q
           f == [i \in 1 .. Len(pq) |-> IF i <= Len(p) THEN i ELSE i + Len(x)]
<1>1. Len(p) \in Nat /\ Len(x) \in Nat /\ Len(q) \in Nat
  BY LenProperties
<1>2. px \in Seq(S) /\ pq \in Seq(S)
  BY ConcatProperties
<1>3. /\ Len(px) = Len(p) + Len(x) /\ Len(pq) = Len(p) + Len(q)
      /\ all \in Seq(S) /\ Len(all) = Len(px) + Len(q)
  BY <1>2, ConcatProperties
<1>4. \A i \in 1 .. Len(p) : px[i] = p[i] /\ pq[i] = p[i]
  BY ConcatIndex
<1>5. \A i \in 1 .. Len(px) : all[i] = px[i]
  BY <1>2, ConcatIndex
<1>6. \A i \in 1 .. Len(q) : all[Len(px) + i] = q[i] /\ pq[Len(p) + i] = q[i]
  BY <1>2, ConcatIndex
<1> HIDE DEF px, pq, all
<1>7. f \in [1 .. Len(pq) -> 1 .. Len(all)]
  BY <1>1, <1>3
<1>8. ASSUME NEW i \in 1 .. Len(pq) PROVE pq[i] = all[f[i]]
  <2>1. CASE i <= Len(p)
    <3>1. i \in 1 .. Len(p) /\ i \in 1 .. Len(px)
      BY <2>1, <1>1, <1>3
    <3> QED BY <2>1, <3>1, <1>4, <1>5
  <2>2. CASE ~(i <= Len(p))
    <3>1. i - Len(p) \in 1 .. Len(q) /\ Len(p) + (i - Len(p)) = i
          /\ Len(px) + (i - Len(p)) = i + Len(x)
      BY <2>2, <1>1, <1>3
    <3>2. pq[i] = q[i - Len(p)] /\ all[i + Len(x)] = q[i - Len(p)]
      BY <3>1, <1>6
    <3> QED BY <2>2, <3>2
  <2> QED BY <2>1, <2>2
<1>9. ASSUME NEW i \in 1 .. Len(pq), NEW j \in 1 .. Len(pq), i < j PROVE f[i] < f[j]
  BY <1>1, <1>3, <1>9
<1>10. Numbered(all, n)
  BY DEF all, px
<1> HIDE DEF f
<1>11. Numbered(pq, n)
  BY <1>2, <1>3, <1>7, <1>8, <1>9, <1>10, Embedded
<1> QED BY <1>11 DEF pq

\* So may the end, and the beginning.
LEMMA CutEnd ==
  ASSUME NEW S, NEW p \in Seq(S), NEW x \in Seq(S), NEW n, Numbered(p \o x, n)
  PROVE  Numbered(p, n)
<1>1. << >> \in Seq(S) /\ p \o x \in Seq(S)
  BY ConcatProperties
<1>2. (p \o x) \o << >> = p \o x /\ p \o << >> = p
  BY <1>1, ConcatEmptySeq
<1> QED BY <1>1, <1>2, CutMiddle

\* New ids go to the end.
LEMMA AddNew ==
  ASSUME NEW S, \A e \in S : e.id \in Int, NEW s \in Seq(S), NEW t \in Seq(S),
         NEW n \in Int, NEW m \in Int, Numbered(s, n), n <= m,
         Increasing(t), \A i \in 1 .. Len(t) : n < t[i].id /\ t[i].id <= m
  PROVE  Numbered(s \o t, m)
<1> DEFINE st == s \o t
<1>1. /\ st \in Seq(S) /\ DOMAIN st = 1 .. Len(s) + Len(t)
      /\ \A i \in 1 .. Len(s) : st[i] = s[i]
      /\ \A i \in 1 .. Len(t) : st[Len(s) + i] = t[i]
      /\ \A i \in 1 .. Len(s) + Len(t) : i \in 1 .. Len(s) \/ i - Len(s) \in 1 .. Len(t)
  BY ConcatIndex
<1>2. DOMAIN s = 1 .. Len(s) /\ DOMAIN t = 1 .. Len(t) /\ Len(s) \in Nat /\ Len(t) \in Nat
  BY LenProperties
<1>3. \A i \in 1 .. Len(s) : s[i].id \in Int /\ s[i].id <= n
  BY <1>2, ElementOfSeq DEF Numbered
<1>4. \A i \in 1 .. Len(t) : t[i].id \in Int
  BY <1>2, ElementOfSeq
<1> HIDE DEF st
<1>5. \A i \in 1 .. Len(s) : st[i].id \in Int /\ st[i].id <= n /\ st[i].id <= m
  BY <1>1, <1>3
<1>6. ASSUME NEW i \in 1 .. Len(s) + Len(t), i \notin 1 .. Len(s)
      PROVE  /\ i - Len(s) \in 1 .. Len(t) /\ st[i] = t[i - Len(s)]
             /\ st[i].id \in Int /\ n < st[i].id /\ st[i].id <= m
  <2>1. i - Len(s) \in 1 .. Len(t) /\ Len(s) + (i - Len(s)) = i
    BY <1>1, <1>2, <1>6
  <2>2. st[i] = t[i - Len(s)]
    BY <1>1, <2>1
  <2> QED BY <2>1, <2>2, <1>4
<1>7. ASSUME NEW i \in 1 .. Len(s) + Len(t), NEW j \in 1 .. Len(s) + Len(t), i < j
      PROVE  st[i].id < st[j].id
  <2>1. CASE j \in 1 .. Len(s)
    <3>1. i \in 1 .. Len(s)
      BY <2>1, <1>2, <1>7
    <3>2. s[i].id < s[j].id
      BY <2>1, <3>1, <1>2, <1>7 DEF Numbered, Increasing
    <3> QED BY <2>1, <3>1, <3>2, <1>1
  <2>2. CASE j \notin 1 .. Len(s) /\ i \in 1 .. Len(s)
    BY <2>2, <1>5, <1>6
  <2>3. CASE j \notin 1 .. Len(s) /\ i \notin 1 .. Len(s)
    <3>1. i - Len(s) < j - Len(s)
      BY <1>2, <1>7
    <3>2. t[i - Len(s)].id < t[j - Len(s)].id
      BY <2>3, <3>1, <1>2, <1>6 DEF Increasing
    <3> QED BY <2>3, <3>2, <1>6
  <2> QED BY <2>1, <2>2, <2>3
<1>8. \A i \in 1 .. Len(s) + Len(t) : st[i].id <= m
  BY <1>5, <1>6
<1>9. Numbered(st, m)
  BY <1>1, <1>7, <1>8 DEF Numbered, Increasing
<1> QED BY <1>9 DEF st

\* A sequence cut in two.
LEMMA SplitSeq ==
  ASSUME NEW S, NEW s \in Seq(S), NEW n \in 0 .. Len(s)
  PROVE  /\ SubSeq(s, 1, n) \in Seq(S) /\ SubSeq(s, n + 1, Len(s)) \in Seq(S)
         /\ s = SubSeq(s, 1, n) \o SubSeq(s, n + 1, Len(s))
<1>1. Len(s) \in Nat /\ DOMAIN s = 1 .. Len(s)
  BY LenProperties
<1>2. \A i \in 1 .. Len(s) : s[i] \in S
  BY <1>1, ElementOfSeq
<1>3. SubSeq(s, 1, n) \in Seq(S) /\ SubSeq(s, n + 1, Len(s)) \in Seq(S)
  BY <1>1, <1>2, SubSeqProperties
<1>4. SubSeq(s, 1, n) \o SubSeq(s, n + 1, Len(s)) = SubSeq(s, 1, Len(s))
  <2>1. 1 \in 1 .. Len(s) + 1 /\ n \in 1 - 1 .. Len(s) /\ Len(s) \in n .. Len(s)
    BY <1>1
  <2> QED BY <2>1, ConcatAdjacentSubSeq
<1> QED BY <1>3, <1>4, SubSeqFull
=============================================================================
