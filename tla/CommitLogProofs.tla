-------------------------- MODULE CommitLogProofs ---------------------------
(***************************************************************************)
(* For frames and buffers of any size, any number of failed writes and of  *)
(* restarts: no byte is duplicated or reordered, every torn frame is due   *)
(* to a failed write or a restart, and the log of one run in which no      *)
(* write fails is properly framed.                                         *)
(***************************************************************************)
EXTENDS CommitLog, OrderingProofs, FiniteSetTheorems

\* Frame after frame, the last one possibly incomplete.
Framed(s) ==
  /\ s # << >> => s[1].first
  /\ \A i \in 1 .. Len(s) - 1 : Follows(s[i], s[i + 1])

Complete(s) == s # << >> => s[Len(s)].last

Shape ==
  /\ phase \in {"down", "open", "recv", "last", "drop", "ended"} => todo = << >>
  /\ phase = "prefix" => Len(todo) >= PrefixLen
  /\ phase = "direct" => buf = << >> /\ ~flushing
  /\ starts = 0 => phase = "down" /\ file = << >> /\ buf = << >>

\* With what the writer still has in its hands the log is complete.
Clean ==
  failed = 0 /\ starts <= 1 => Framed(Stream) /\ (phase # "down" => Complete(Stream))

Restarts == IF starts > 1 THEN starts - 1 ELSE 0
Ends == IF phase = "down" THEN starts ELSE starts - 1

\* How often the stream is torn: a failed write and the end of a process pay
\* for one tear each, and as long as the last frame is incomplete one of them
\* has not been used up.
Budget ==
  /\ Cardinality(Tears(Stream)) <= failed + Restarts
  /\ ~Complete(Stream) => Cardinality(Tears(Stream)) + 1 <= failed + Ends

Inv == TypeOK /\ Shape /\ BytesInOrder /\ Clean /\ Budget

-----------------------------------------------------------------------------
(* Framing.                                                                *)

LEMMA FramedCut ==
  ASSUME NEW p \in Seq(Byte), NEW x \in Seq(Byte), Framed(p \o x)
  PROVE  Framed(p)
<1>1. /\ Len(p) \in Nat /\ Len(x) \in Nat /\ Len(p \o x) = Len(p) + Len(x)
      /\ \A i \in 1 .. Len(p) : (p \o x)[i] = p[i]
  BY ConcatIndex, ConcatProperties, LenProperties
<1>2. ASSUME p # << >> PROVE p[1].first
  <2>1. 1 \in 1 .. Len(p) /\ p \o x # << >>
    BY <1>1, <1>2, EmptySeq
  <2> QED BY <1>1, <2>1 DEF Framed
<1>3. ASSUME NEW i \in 1 .. Len(p) - 1 PROVE Follows(p[i], p[i + 1])
  <2>1. i \in 1 .. Len(p) /\ i + 1 \in 1 .. Len(p) /\ i \in 1 .. Len(p \o x) - 1
    BY <1>1
  <2> QED BY <1>1, <2>1 DEF Framed
<1> QED BY <1>2, <1>3 DEF Framed

LEMMA FramedJoin ==
  ASSUME NEW s \in Seq(Byte), NEW t \in Seq(Byte), Framed(s), Complete(s),
         Framed(t), Complete(t), t # << >>
  PROVE  Framed(s \o t) /\ Complete(s \o t)
<1> DEFINE st == s \o t
<1>1. /\ Len(s) \in Nat /\ Len(t) \in Nat /\ Len(st) = Len(s) + Len(t) /\ st \in Seq(Byte)
      /\ \A i \in 1 .. Len(s) : st[i] = s[i]
      /\ \A i \in 1 .. Len(t) : st[Len(s) + i] = t[i]
  BY ConcatIndex, ConcatProperties, LenProperties
<1>2. Len(t) >= 1
  BY <1>1, EmptySeq
<1> HIDE DEF st
<1>3. st[1].first
  <2>1. CASE s = << >>
    BY <2>1, <1>1, <1>2 DEF Framed
  <2>2. CASE s # << >>
    <3>1. 1 \in 1 .. Len(s)
      BY <2>2, <1>1, EmptySeq
    <3> QED BY <2>2, <3>1, <1>1 DEF Framed
  <2> QED BY <2>1, <2>2
<1>4. st[Len(st)].last
  BY <1>1, <1>2 DEF Complete
<1>5. ASSUME NEW i \in 1 .. Len(st) - 1 PROVE Follows(st[i], st[i + 1])
  <2>1. CASE i < Len(s)
    <3>1. i \in 1 .. Len(s) - 1 /\ i \in 1 .. Len(s) /\ i + 1 \in 1 .. Len(s)
      BY <2>1, <1>1
    <3> QED BY <3>1, <1>1 DEF Framed
  <2>2. CASE i = Len(s)
    <3>1. i \in 1 .. Len(s) /\ 1 \in 1 .. Len(t) /\ s # << >>
      BY <2>2, <1>1, <1>2
    <3>2. st[i] = s[Len(s)] /\ st[i + 1] = t[1]
      BY <2>2, <3>1, <1>1
    <3>3. s[Len(s)].last /\ t[1].first
      BY <3>1 DEF Complete, Framed
    <3> QED BY <3>2, <3>3 DEF Follows
  <2>3. CASE i > Len(s)
    <3> DEFINE j == i - Len(s)
    <3>1. j \in 1 .. Len(t) - 1 /\ j \in 1 .. Len(t) /\ j + 1 \in 1 .. Len(t)
          /\ Len(s) + j = i /\ Len(s) + (j + 1) = i + 1
      BY <2>3, <1>1
    <3> HIDE DEF j
    <3>2. st[i] = t[j] /\ st[i + 1] = t[j + 1]
      BY <3>1, <1>1
    <3> QED BY <3>1, <3>2 DEF Framed
  <2> QED BY <2>1, <2>2, <2>3, <1>1
<1> QED BY <1>3, <1>4, <1>5 DEF Framed, Complete, st

\* What Recv encodes is one frame, with new ids.
LEMMA FrameProperties ==
  ASSUME TypeOK, NEW n \in Sizes
  PROVE  /\ Frame(n) \in Seq(Byte) /\ Len(Frame(n)) = PrefixLen + n /\ Frame(n) # << >>
         /\ Framed(Frame(n)) /\ Complete(Frame(n)) /\ Increasing(Frame(n))
         /\ \A i \in 1 .. Len(Frame(n)) :
              encoded < Frame(n)[i].id /\ Frame(n)[i].id <= encoded + PrefixLen + n
<1> DEFINE L == PrefixLen + n
           b(k) == [id |-> encoded + k, first |-> k = 1, last |-> k = L]
<1>1. encoded \in Nat /\ n \in Nat /\ PrefixLen \in Nat \ {0} /\ L \in Nat /\ L >= 1
  BY CommitLogAssumption DEF TypeOK
<1> HIDE DEF L
<1>2. \A k \in 1 .. L : b(k) \in Byte /\ b(k).id = encoded + k
  BY <1>1 DEF Byte
<1>3. Frame(n) = [k \in 1 .. L |-> b(k)]
  BY DEF Frame, L
<1>4. /\ Frame(n) \in Seq(Byte) /\ Len(Frame(n)) = L
      /\ DOMAIN Frame(n) = 1 .. L
      /\ \A k \in 1 .. L : Frame(n)[k] = b(k)
  <2> HIDE DEF b
  <2> QED BY <1>1, <1>2, <1>3, IsASeq
<1>5. \A k \in 1 .. L : /\ Frame(n)[k].id = encoded + k
                        /\ Frame(n)[k].first <=> k = 1
                        /\ Frame(n)[k].last <=> k = L
  <2>1. ASSUME NEW k \in 1 .. L
        PROVE  b(k).id = encoded + k /\ (b(k).first <=> k = 1) /\ (b(k).last <=> k = L)
    OBVIOUS
  <2> HIDE DEF b
  <2> QED BY <1>4, <2>1
<1> HIDE DEF b
<1>6. Frame(n) # << >>
  BY <1>1, <1>4, EmptySeq
<1>7. Increasing(Frame(n))
  BY <1>1, <1>4, <1>5 DEF Increasing
<1>8. Complete(Frame(n))
  BY <1>1, <1>4, <1>5 DEF Complete
<1>9. Framed(Frame(n))
  <2>1. Frame(n)[1].first
    BY <1>1, <1>5
  <2>2. ASSUME NEW i \in 1 .. L - 1 PROVE Follows(Frame(n)[i], Frame(n)[i + 1])
    <3>1. i \in 1 .. L /\ i + 1 \in 1 .. L /\ i # L
      BY <1>1
    <3>2. ~Frame(n)[i].last /\ Frame(n)[i + 1].id = Frame(n)[i].id + 1
      BY <1>1, <1>5, <3>1
    <3> QED BY <3>2 DEF Follows
  <2> QED BY <2>1, <2>2, <1>4 DEF Framed
<1>10. ASSUME NEW i \in 1 .. L
       PROVE  encoded < Frame(n)[i].id /\ Frame(n)[i].id <= encoded + PrefixLen + n
  BY <1>1, <1>5 DEF L
<1> QED BY <1>4, <1>6, <1>7, <1>8, <1>9, <1>10 DEF L

-----------------------------------------------------------------------------
(* Tears.                                                                  *)

LEMMA TearsFinite ==
  ASSUME NEW s \in Seq(Byte)
  PROVE  IsFiniteSet(Tears(s)) /\ Cardinality(Tears(s)) \in Nat
<1>1. IsFiniteSet(1 .. Len(s) - 1)
  BY LenProperties, FS_Interval
<1>2. Tears(s) \in SUBSET (1 .. Len(s) - 1)
  BY DEF Tears
<1> QED BY <1>1, <1>2, FS_Subset, FS_CardinalityType

\* Cutting bytes off at the end adds no tear.
LEMMA TearsCut ==
  ASSUME NEW s \in Seq(Byte), NEW x \in Seq(Byte)
  PROVE  Cardinality(Tears(s)) <= Cardinality(Tears(s \o x))
<1>1. /\ Len(s) \in Nat /\ Len(x) \in Nat /\ Len(s \o x) = Len(s) + Len(x)
      /\ \A i \in 1 .. Len(s) : (s \o x)[i] = s[i]
      /\ s \o x \in Seq(Byte)
  BY ConcatIndex, ConcatProperties, LenProperties
<1>2. ASSUME NEW i \in Tears(s) PROVE i \in Tears(s \o x)
  <2>1. i \in 1 .. Len(s) - 1 /\ ~Follows(s[i], s[i + 1])
    BY DEF Tears
  <2>2. i \in 1 .. Len(s) /\ i + 1 \in 1 .. Len(s) /\ i \in 1 .. Len(s \o x) - 1
    BY <1>1, <2>1
  <2>3. ~Follows((s \o x)[i], (s \o x)[i + 1])
    BY <1>1, <2>1, <2>2
  <2> QED BY <2>2, <2>3 DEF Tears
<1> QED BY <1>1, <1>2, TearsFinite, FS_Subset

\* A frame added at the end tears the stream at the joint if at all, and there
\* only if what it is added to is incomplete.
LEMMA TearsJoin ==
  ASSUME NEW s \in Seq(Byte), NEW t \in Seq(Byte), Framed(t), t # << >>
  PROVE  /\ Cardinality(Tears(s \o t)) <= Cardinality(Tears(s)) + 1
         /\ Complete(s) => Cardinality(Tears(s \o t)) <= Cardinality(Tears(s))
<1> DEFINE st == s \o t
<1>1. /\ Len(s) \in Nat /\ Len(t) \in Nat /\ Len(st) = Len(s) + Len(t) /\ st \in Seq(Byte)
      /\ \A i \in 1 .. Len(s) : st[i] = s[i]
      /\ \A i \in 1 .. Len(t) : st[Len(s) + i] = t[i]
  BY ConcatIndex, ConcatProperties, LenProperties
<1>2. Len(t) >= 1
  BY <1>1, EmptySeq
<1> HIDE DEF st
<1>3. ASSUME NEW i \in Tears(st)
      PROVE  i \in Tears(s) \/ (i = Len(s) /\ ~Complete(s))
  <2>0. i \in 1 .. Len(st) - 1 /\ ~Follows(st[i], st[i + 1])
    BY DEF Tears
  <2>1. CASE i < Len(s)
    <3>1. i \in 1 .. Len(s) - 1 /\ i \in 1 .. Len(s) /\ i + 1 \in 1 .. Len(s)
      BY <2>0, <2>1, <1>1
    <3>2. st[i] = s[i] /\ st[i + 1] = s[i + 1]
      BY <3>1, <1>1
    <3> QED BY <2>0, <3>1, <3>2 DEF Tears
  <2>2. CASE i = Len(s)
    <3>1. i \in 1 .. Len(s) /\ 1 \in 1 .. Len(t) /\ s # << >>
      BY <2>0, <2>2, <1>1, <1>2
    <3>2. st[i] = s[Len(s)] /\ st[i + 1] = t[1]
      BY <2>2, <3>1, <1>1
    <3>3. ~s[Len(s)].last
      BY <2>0, <3>2 DEF Framed, Follows
    <3> QED BY <2>2, <3>1, <3>3 DEF Complete
  <2>3. CASE i > Len(s)
    <3> DEFINE j == i - Len(s)
    <3>1. j \in 1 .. Len(t) - 1 /\ j \in 1 .. Len(t) /\ j + 1 \in 1 .. Len(t)
          /\ Len(s) + j = i /\ Len(s) + (j + 1) = i + 1
      BY <2>0, <2>3, <1>1
    <3> HIDE DEF j
    <3>2. st[i] = t[j] /\ st[i + 1] = t[j + 1]
      BY <3>1, <1>1
    <3> QED BY <2>0, <3>1, <3>2 DEF Framed
  <2> QED BY <2>0, <2>1, <2>2, <2>3, <1>1
<1>4. /\ IsFiniteSet(Tears(s)) /\ Cardinality(Tears(s)) \in Nat
      /\ IsFiniteSet(Tears(st)) /\ Cardinality(Tears(st)) \in Nat
  BY <1>1, TearsFinite
<1>5. Cardinality(Tears(st)) <= Cardinality(Tears(s)) + 1
  <2> DEFINE more == Tears(s) \cup {Len(s)}
  <2>0. /\ IsFiniteSet(more)
        /\ Cardinality(more) = IF Len(s) \in Tears(s) THEN Cardinality(Tears(s))
                                                       ELSE Cardinality(Tears(s)) + 1
    BY <1>4, FS_AddElement
  <2>1. /\ IsFiniteSet(more) /\ Cardinality(more) \in Nat
        /\ Cardinality(more) <= Cardinality(Tears(s)) + 1
    BY <1>4, <2>0
  <2>2. Tears(st) \in SUBSET more
    BY <1>3
  <2> HIDE DEF more
  <2>3. Cardinality(Tears(st)) <= Cardinality(more)
    BY <2>1, <2>2, FS_Subset
  <2> QED BY <2>1, <2>3, <1>4
<1>6. ASSUME Complete(s) PROVE Cardinality(Tears(st)) <= Cardinality(Tears(s))
  <2>1. Tears(st) \in SUBSET Tears(s)
    BY <1>3, <1>6
  <2> QED BY <2>1, <1>4, FS_Subset
<1> QED BY <1>5, <1>6 DEF st

-----------------------------------------------------------------------------
(* The steps.                                                              *)

\* Bytes only move on.
LEMMA SameStream ==
  ASSUME Inv, TypeOK', Shape', Stream' = Stream,
         UNCHANGED <<starts, encoded, failed>>, phase' = "down" <=> phase = "down"
  PROVE  Inv'
<1>1. BytesInOrder'
  BY DEF Inv, BytesInOrder
<1>2. Clean'
  BY DEF Inv, Clean
<1>3. Restarts' = Restarts /\ Ends' = Ends
  BY DEF Restarts, Ends
<1>4. Budget'
  BY <1>3 DEF Inv, Budget
<1> QED BY <1>1, <1>2, <1>4 DEF Inv

\* Bytes at the end are lost.
LEMMA CutStream ==
  ASSUME Inv, TypeOK', Shape', NEW s \in Seq(Byte), NEW x \in Seq(Byte),
         Stream = s \o x, Stream' = s, UNCHANGED <<starts, encoded>>, starts # 0,
         \/ failed' = failed + 1 /\ phase' # "down"
         \/ failed' = failed /\ phase' = "down"
  PROVE  Inv'
<1>1. BytesInOrder'
  <2>1. Numbered(s \o x, encoded)
    BY DEF Inv, BytesInOrder
  <2>2. Numbered(s, encoded)
    BY <2>1, CutEnd
  <2> QED BY <2>2 DEF BytesInOrder
<1>2. Clean'
  <2>1. CASE failed' = failed + 1
    BY <2>1 DEF Inv, TypeOK, Clean
  <2>2. CASE failed' = failed /\ phase' = "down"
    <3>1. failed = 0 /\ starts <= 1 => Framed(s \o x)
      BY DEF Inv, Clean
    <3>2. failed = 0 /\ starts <= 1 => Framed(s)
      BY <3>1, FramedCut
    <3> QED BY <2>2, <3>2 DEF Clean
  <2> QED BY <2>1, <2>2
<1>3. Budget'
  <2> DEFINE before == Cardinality(Tears(s \o x))
             after == Cardinality(Tears(s))
  <2>1. before \in Nat /\ after \in Nat /\ after <= before
    BY TearsFinite, TearsCut, ConcatProperties
  <2>2. before <= failed + Restarts
    BY DEF Inv, Budget
  <2>3. starts \in Nat /\ failed \in Nat /\ starts # 0
    BY DEF Inv, TypeOK
  <2>4. Restarts = starts - 1 /\ Restarts' = Restarts
    BY <2>3 DEF Restarts
  <2>5. failed' + Ends' = failed + starts /\ failed' >= failed
    BY <2>3 DEF Ends
  <2> HIDE DEF before, after
  <2>6. after <= failed' + Restarts' /\ after + 1 <= failed' + Ends'
    BY <2>1, <2>2, <2>3, <2>4, <2>5
  <2> QED BY <2>6 DEF Budget, after
<1> QED BY <1>1, <1>2, <1>3 DEF Inv

LEMMA Regroup ==
  \A s, t, u \in Seq(Byte) : (s \o t) \o u = s \o (t \o u)
<1>1. ASSUME NEW s \in Seq(Byte), NEW t \in Seq(Byte), NEW u \in Seq(Byte)
      PROVE  (s \o t) \o u = s \o (t \o u)
  OBVIOUS
<1> QED BY <1>1

LEMMA Sequences ==
  ASSUME TypeOK
  PROVE  /\ file \in Seq(Byte) /\ buf \in Seq(Byte) /\ todo \in Seq(Byte)
         /\ file \o buf \in Seq(Byte) /\ Stream \in Seq(Byte)
         /\ Stream = file \o (buf \o todo)
<1>1. file \in Seq(Byte) /\ buf \in Seq(Byte) /\ todo \in Seq(Byte)
  BY DEF TypeOK
<1>2. file \o buf \in Seq(Byte)
  BY <1>1, ConcatProperties
<1>3. Stream = file \o (buf \o todo)
  BY <1>1, Regroup, Zenon DEF Stream
<1> QED BY <1>1, <1>2, <1>3, ConcatProperties DEF Stream

LEMMA InitInv == Init => Inv
<1> SUFFICES ASSUME Init PROVE Inv OBVIOUS
<1>1. << >> \in Seq(Byte)
  OBVIOUS
<1>2. TypeOK
  BY <1>1 DEF Init, TypeOK
<1>3. Shape
  BY DEF Init, Shape
<1>4. Stream = << >>
  BY <1>1, ConcatEmptySeq DEF Init, Stream
<1>5. BytesInOrder
  BY <1>4 DEF BytesInOrder, Numbered, Increasing
<1>6. Clean
  BY <1>4 DEF Clean, Framed, Complete
<1>7. Budget
  <2>1. Tears(<< >>) = {}
    BY DEF Tears
  <2>2. Complete(<< >>)
    BY DEF Complete
  <2> QED BY <1>4, <2>1, <2>2, FS_EmptySet DEF Init, Budget, Restarts
<1> QED BY <1>2, <1>3, <1>5, <1>6, <1>7 DEF Inv

LEMMA StartStep ==
  ASSUME Inv, Start
  PROVE  Inv'
<1>1. TypeOK' /\ Shape'
  BY DEF Inv, TypeOK, Shape, Start
<1>2. Stream' = Stream
  BY DEF Start, Stream
<1>3. BytesInOrder'
  BY <1>2 DEF Inv, BytesInOrder, Start
<1>4. Clean'
  <2>1. CASE starts = 0
    <3>1. file = << >> /\ buf = << >> /\ todo = << >>
      BY <2>1 DEF Inv, Shape
    <3>2. Stream = << >>
      BY <3>1, ConcatEmptySeq DEF Stream
    <3> QED BY <3>2, <1>2 DEF Clean, Framed, Complete
  <2>2. CASE starts # 0
    BY <2>2 DEF Inv, TypeOK, Start, Clean
  <2> QED BY <2>1, <2>2
<1>5. Budget'
  <2>1. /\ starts \in Nat /\ failed \in Nat /\ starts' = starts + 1 /\ failed' = failed
        /\ phase = "down" /\ phase' = "open"
    BY DEF Inv, TypeOK, Start
  <2>2. Ends' = Ends /\ Restarts \in Nat /\ Restarts' \in Nat /\ Restarts <= Restarts'
    BY <2>1 DEF Ends, Restarts
  <2>3. Cardinality(Tears(Stream)) \in Nat
    BY Sequences, TearsFinite DEF Inv
  <2>4. Cardinality(Tears(Stream)) <= failed + Restarts'
    BY <2>1, <2>2, <2>3 DEF Inv, Budget
  <2> QED BY <1>2, <2>1, <2>2, <2>4 DEF Inv, Budget
<1> QED BY <1>1, <1>3, <1>4, <1>5 DEF Inv

\* Steps that touch no byte.
LEMMA QuietStep ==
  ASSUME Inv, Open \/ OpenFails \/ MustFlush \/ FlushDone \/ Close \/ GoDirect
  PROVE  Inv'
<1>1. UNCHANGED <<starts, encoded, todo, buf, file, failed>>
  BY DEF Open, OpenFails, MustFlush, FlushDone, Close, GoDirect
<1>2. /\ phase' \in {"recv", "ended", "last", "direct"} \/ phase' = phase
      /\ phase' = phase \/ phase \in {"open", "recv", "last", "drop"} \/ phase' = "direct"
      /\ phase # "down" \/ phase' = phase
      /\ flushing' \in BOOLEAN
  BY DEF Inv, TypeOK, Open, OpenFails, MustFlush, FlushDone, Close, GoDirect
<1>3. TypeOK'
  BY <1>1, <1>2 DEF Inv, TypeOK
<1>4. phase' = "direct" => buf' = << >> /\ ~flushing'
  BY DEF Inv, Shape, Open, OpenFails, MustFlush, FlushDone, Close, GoDirect
<1>5. Shape'
  BY <1>1, <1>2, <1>4 DEF Inv, Shape
<1>6. Stream' = Stream
  BY <1>1 DEF Stream
<1> QED BY <1>1, <1>2, <1>3, <1>5, <1>6, SameStream

LEMMA RecvStep ==
  ASSUME Inv, NEW n \in Sizes, Recv(n)
  PROVE  Inv'
<1>0. TypeOK /\ Shape /\ BytesInOrder /\ Clean /\ Budget
  BY DEF Inv
<1>1. /\ phase = "recv" /\ todo' = Frame(n) /\ encoded' = encoded + PrefixLen + n
      /\ phase' = "prefix" /\ UNCHANGED <<starts, flushing, buf, file, failed>>
  BY DEF Recv
<1>2. /\ Frame(n) \in Seq(Byte) /\ Len(Frame(n)) = PrefixLen + n /\ Frame(n) # << >>
      /\ Framed(Frame(n)) /\ Complete(Frame(n)) /\ Increasing(Frame(n))
      /\ \A i \in 1 .. Len(Frame(n)) :
           encoded < Frame(n)[i].id /\ Frame(n)[i].id <= encoded + PrefixLen + n
  BY <1>0, FrameProperties
<1>3. n \in Nat /\ PrefixLen \in Nat /\ encoded \in Nat /\ encoded' \in Nat /\ encoded <= encoded'
  BY <1>0, <1>1, CommitLogAssumption DEF TypeOK
<1>4. TypeOK'
  BY <1>0, <1>1, <1>2, <1>3 DEF TypeOK
<1>5. Shape'
  BY <1>0, <1>1, <1>2, <1>3 DEF Shape
<1>6. Stream = file \o buf /\ Stream' = Stream \o Frame(n) /\ Stream \in Seq(Byte)
  <2>1. todo = << >>
    BY <1>0, <1>1 DEF Shape
  <2>2. (file \o buf) \o << >> = file \o buf
    BY <1>0, Sequences, ConcatEmptySeq
  <2>3. Stream = file \o buf
    BY <2>1, <2>2 DEF Stream
  <2> QED BY <2>3, <1>0, <1>1, Sequences DEF Stream
<1>7. BytesInOrder'
  <2>1. \A e \in Byte : e.id \in Int
    BY DEF Byte
  <2>2. Numbered(Stream, encoded)
    BY <1>0 DEF BytesInOrder
  <2>3. Numbered(Stream \o Frame(n), encoded')
    <3> DEFINE t == Frame(n)
               m == encoded'
    <3>1. /\ t \in Seq(Byte) /\ m \in Int /\ encoded \in Int /\ encoded <= m /\ Increasing(t)
          /\ \A i \in 1 .. Len(t) : encoded < t[i].id /\ t[i].id <= m
      BY <1>1, <1>2, <1>3
    <3> HIDE DEF t, m
    <3>2. Numbered(Stream \o t, m)
      BY <2>1, <2>2, <3>1, <1>6, AddNew
    <3> QED BY <3>2 DEF t, m
  <2> QED BY <2>3, <1>6 DEF BytesInOrder
<1>8. Clean'
  <2>1. ASSUME failed = 0, starts <= 1
        PROVE  Framed(Stream \o Frame(n)) /\ Complete(Stream \o Frame(n))
    <3>1. Framed(Stream) /\ Complete(Stream)
      BY <2>1, <1>0, <1>1 DEF Clean
    <3> QED BY <3>1, <1>2, <1>6, FramedJoin
  <2> QED BY <2>1, <1>1, <1>6 DEF Clean
<1>9. Budget'
  <2> DEFINE before == Cardinality(Tears(Stream))
             after == Cardinality(Tears(Stream \o Frame(n)))
  <2>1. before \in Nat /\ after \in Nat
    BY <1>2, <1>6, TearsFinite, ConcatProperties
  <2>2. after <= before + 1 /\ (Complete(Stream) => after <= before)
    BY <1>2, <1>6, TearsJoin
  <2>3. before <= failed + Restarts /\ (~Complete(Stream) => before + 1 <= failed + Ends)
    BY <1>0 DEF Budget
  <2>4. starts \in Nat /\ failed \in Nat /\ starts # 0
    BY <1>0, <1>1 DEF TypeOK, Shape
  <2>5. Restarts = starts - 1 /\ Ends = starts - 1 /\ Restarts' = Restarts
    BY <2>4, <1>1 DEF Restarts, Ends
  <2> HIDE DEF before, after
  <2>6. after <= failed + Restarts
    BY <2>1, <2>2, <2>3, <2>4, <2>5
  <2>7. Complete(Stream \o Frame(n))
    <3>1. LET st == Stream \o Frame(n) IN st[Len(st)] = Frame(n)[Len(Frame(n))]
      BY <1>2, <1>6, ConcatProperties, LenProperties, EmptySeq
    <3> QED BY <3>1, <1>2 DEF Complete
  <2> QED BY <1>1, <1>6, <2>5, <2>6, <2>7 DEF Budget, after
<1> QED BY <1>4, <1>5, <1>7, <1>8, <1>9 DEF Inv

LEMMA PutStep ==
  ASSUME Inv, Put
  PROVE  Inv'
<1>0. TypeOK /\ Shape
  BY DEF Inv
<1> DEFINE a == SubSeq(todo, 1, Part)
           b == SubSeq(todo, Part + 1, Len(todo))
<1>1. /\ phase \in {"prefix", "payload"} /\ buf' = buf \o a /\ todo' = b
      /\ phase' = IF phase = "prefix" THEN "payload" ELSE "recv"
      /\ UNCHANGED <<starts, flushing, encoded, file, failed>>
  BY DEF Put
<1>2. todo \in Seq(Byte) /\ Len(todo) \in Nat /\ Part \in 0 .. Len(todo)
  <2>1. todo \in Seq(Byte) /\ Len(todo) \in Nat
    BY <1>0 DEF TypeOK
  <2>2. PrefixLen \in Nat
    BY CommitLogAssumption
  <2>3. phase = "prefix" => Len(todo) >= PrefixLen
    BY <1>0 DEF Shape
  <2> QED BY <2>1, <2>2, <2>3 DEF Part
<1>3. a \in Seq(Byte) /\ b \in Seq(Byte) /\ todo = a \o b
  BY <1>2, SplitSeq
<1>4. phase = "payload" => b = << >>
  <2>1. phase = "payload" => Part = Len(todo)
    BY DEF Part
  <2> QED BY <1>2, <2>1, SubSeqEmpty
<1> HIDE DEF a, b
<1>5. buf \o a \in Seq(Byte)
  BY <1>0, <1>3, Sequences, ConcatProperties
<1>6. TypeOK'
  BY <1>0, <1>1, <1>3, <1>5 DEF TypeOK
<1>7. Shape'
  BY <1>0, <1>1, <1>4 DEF Shape
<1>8. Stream' = Stream
  <2>1. Stream' = (file \o (buf \o a)) \o b
    BY <1>1 DEF Stream
  <2>2. file \in Seq(Byte) /\ buf \in Seq(Byte)
    BY <1>0, Sequences
  <2>3. a \in Seq(Byte) /\ b \in Seq(Byte)
    BY <1>3
  <2>4. file \o (buf \o a) = (file \o buf) \o a
    BY <2>2, <2>3, Regroup, Zenon
  <2>5. file \o buf \in Seq(Byte)
    BY <2>2, ConcatProperties
  <2>6. ((file \o buf) \o a) \o b = (file \o buf) \o (a \o b)
    BY <2>3, <2>5, Regroup, Zenon
  <2> QED BY <2>1, <2>4, <2>6, <1>3 DEF Stream
<1> QED BY <1>1, <1>6, <1>7, <1>8, SameStream

LEMMA FlushSomeStep ==
  ASSUME Inv, NEW n \in 1 .. Len(buf), FlushSome(n)
  PROVE  Inv'
<1>0. TypeOK /\ Shape
  BY DEF Inv
<1> DEFINE a == SubSeq(buf, 1, n)
           b == SubSeq(buf, n + 1, Len(buf))
<1>1. /\ flushing /\ file' = file \o a /\ buf' = b
      /\ UNCHANGED <<starts, phase, flushing, encoded, todo, failed>>
  BY DEF FlushSome
<1>2. buf \in Seq(Byte) /\ Len(buf) \in Nat /\ n \in 0 .. Len(buf)
  BY <1>0 DEF TypeOK
<1>3. a \in Seq(Byte) /\ b \in Seq(Byte) /\ buf = a \o b
  BY <1>2, SplitSeq
<1>4. starts # 0
  <2>1. buf # << >>
    BY <1>2
  <2> QED BY <2>1, <1>0 DEF Shape
<1> HIDE DEF a, b
<1>5. file \o a \in Seq(Byte)
  BY <1>0, <1>3, Sequences, ConcatProperties
<1>6. TypeOK'
  BY <1>0, <1>1, <1>3, <1>5 DEF TypeOK
<1>7. Shape'
  BY <1>0, <1>1, <1>4 DEF Shape
<1>8. Stream' = Stream
  <2>1. Stream' = ((file \o a) \o b) \o todo
    BY <1>1 DEF Stream
  <2>2. file \in Seq(Byte) /\ a \in Seq(Byte) /\ b \in Seq(Byte)
    BY <1>0, <1>3, Sequences
  <2>3. (file \o a) \o b = file \o (a \o b)
    BY <2>2, Regroup, Zenon
  <2> QED BY <2>1, <2>3, <1>3 DEF Stream
<1> QED BY <1>1, <1>6, <1>7, <1>8, SameStream

LEMMA DirectSomeStep ==
  ASSUME Inv, NEW n \in 1 .. Len(todo), DirectSome(n)
  PROVE  Inv'
<1>0. TypeOK /\ Shape
  BY DEF Inv
<1> DEFINE a == SubSeq(todo, 1, n)
           b == SubSeq(todo, n + 1, Len(todo))
<1>1. /\ phase = "direct" /\ file' = file \o a /\ todo' = b
      /\ phase' = IF n = Len(todo) THEN "recv" ELSE "direct"
      /\ UNCHANGED <<starts, flushing, encoded, buf, failed>>
  BY DEF DirectSome
<1>2. todo \in Seq(Byte) /\ Len(todo) \in Nat /\ n \in 0 .. Len(todo)
  BY <1>0 DEF TypeOK
<1>3. a \in Seq(Byte) /\ b \in Seq(Byte) /\ todo = a \o b
  BY <1>2, SplitSeq
<1>4. n = Len(todo) => b = << >>
  BY <1>2, SubSeqEmpty
<1>5. buf = << >>
  BY <1>0, <1>1 DEF Shape
<1> HIDE DEF a, b
<1>6. file \o a \in Seq(Byte)
  BY <1>0, <1>3, Sequences, ConcatProperties
<1>7. TypeOK'
  BY <1>0, <1>1, <1>3, <1>6 DEF TypeOK
<1>8. Shape'
  BY <1>0, <1>1, <1>4 DEF Shape
<1>9. Stream' = Stream
  <2>1. file \in Seq(Byte) /\ a \in Seq(Byte) /\ b \in Seq(Byte)
    BY <1>0, <1>3, Sequences
  <2>2. (file \o a) \o b = file \o (a \o b)
    BY <2>1, Regroup, Zenon
  <2>3. file \o << >> = file /\ (file \o a) \o << >> = file \o a
    BY <2>1, <1>6, ConcatEmptySeq
  <2>4. Stream = (file \o << >>) \o todo /\ Stream' = ((file \o a) \o << >>) \o b
    BY <1>1, <1>5 DEF Stream
  <2> QED BY <1>3, <2>2, <2>3, <2>4, Zenon
<1> QED BY <1>1, <1>7, <1>8, <1>9, SameStream

LEMMA FlushFailsStep ==
  ASSUME Inv, FlushFails \/ DirectFails
  PROVE  Inv'
<1>0. TypeOK /\ Shape
  BY DEF Inv
<1>1. /\ flushing' \in BOOLEAN /\ failed' = failed + 1 /\ todo' = << >>
      /\ phase' \in {"drop", "ended", "recv"}
      /\ UNCHANGED <<starts, encoded, buf, file>> /\ starts # 0
  <2>1. CASE FlushFails
    <3>1. flushing' \in BOOLEAN /\ phase' \in {"drop", "ended", "recv"}
      BY <2>1 DEF FlushFails
    <3>2. starts # 0
      BY <2>1, <1>0 DEF FlushFails, Shape
    <3> QED BY <2>1, <3>1, <3>2 DEF FlushFails
  <2>2. CASE DirectFails
    BY <2>2, <1>0 DEF DirectFails, TypeOK, Shape
  <2> QED BY <2>1, <2>2
<1>2. failed' \in Nat /\ failed' # 0
  BY <1>0, <1>1 DEF TypeOK
<1>3. TypeOK'
  <2>1. << >> \in Seq(Byte)
    OBVIOUS
  <2> QED BY <2>1, <1>0, <1>1, <1>2 DEF TypeOK
<1>4. Shape'
  BY <1>0, <1>1 DEF Shape
<1>5. Stream' = file \o buf
  <2>1. (file \o buf) \o << >> = file \o buf
    BY <1>0, Sequences, ConcatEmptySeq
  <2> QED BY <2>1, <1>1 DEF Stream
<1>6. Stream = (file \o buf) \o todo
  BY DEF Stream
<1> QED BY <1>0, <1>1, <1>2, <1>3, <1>4, <1>5, <1>6, Sequences, CutStream

LEMMA ExitStep ==
  ASSUME Inv, Exit
  PROVE  Inv'
<1>0. TypeOK /\ Shape
  BY DEF Inv
<1>1. /\ phase' = "down" /\ flushing' = FALSE /\ todo' = << >> /\ buf' = << >>
      /\ UNCHANGED <<starts, encoded, file, failed>> /\ phase # "down"
  BY DEF Exit
<1>2. << >> \in Seq(Byte)
  OBVIOUS
<1>3. TypeOK'
  BY <1>0, <1>1, <1>2 DEF TypeOK
<1>4. Shape'
  BY <1>0, <1>1 DEF Shape
<1>5. Stream' = file
  <2>1. file \o << >> = file
    BY <1>0, Sequences, ConcatEmptySeq
  <2> QED BY <2>1, <1>1 DEF Stream
<1>6. Stream = file \o (buf \o todo) /\ buf \o todo \in Seq(Byte) /\ file \in Seq(Byte)
  BY <1>0, Sequences, ConcatProperties
<1>7. starts # 0
  BY <1>0, <1>1 DEF Shape
<1> QED BY <1>1, <1>3, <1>4, <1>5, <1>6, <1>7, CutStream

LEMMA StepInv == Inv /\ [Next]_vars => Inv'
<1> SUFFICES ASSUME Inv, [Next]_vars PROVE Inv' OBVIOUS
<1>1. CASE Start
  BY <1>1, StartStep
<1>2. CASE Open \/ OpenFails \/ MustFlush \/ FlushDone \/ Close \/ GoDirect
  BY <1>2, QuietStep
<1>3. CASE \E n \in Sizes : Recv(n)
  BY <1>3, RecvStep
<1>4. CASE Put
  BY <1>4, PutStep
<1>5. CASE \E n \in 1 .. Len(buf) : FlushSome(n)
  BY <1>5, FlushSomeStep
<1>6. CASE \E n \in 1 .. Len(todo) : DirectSome(n)
  BY <1>6, DirectSomeStep
<1>7. CASE FlushFails \/ DirectFails
  BY <1>7, FlushFailsStep
<1>8. CASE Exit
  BY <1>8, ExitStep
<1>9. CASE UNCHANGED vars
  <2>1. UNCHANGED <<starts, phase, flushing, encoded, todo, buf, file, failed>>
    BY <1>9 DEF vars
  <2>2. TypeOK' /\ Shape' /\ Stream' = Stream
    BY <2>1 DEF Inv, TypeOK, Shape, Stream
  <2> QED BY <2>1, <2>2, SameStream
<1> QED BY <1>1, <1>2, <1>3, <1>4, <1>5, <1>6, <1>7, <1>8, <1>9 DEF Next, BufWriter

\* The inductive invariant of the writer holds: types, what buffer and frame at
\* hand hold in each phase, and the order and joints of the byte stream.
THEOREM Invariance == Spec => []Inv
BY InitInv, StepInv, PTL DEF Spec

\* No byte of the log is duplicated or overtaken, in spite of short and failed
\* writes, of records given up half-way and of restarts.
THEOREM BytesStayInOrder == Spec => []BytesInOrder
<1>1. Inv => BytesInOrder
  BY DEF Inv
<1> QED BY <1>1, Invariance, PTL

\* Every place where the log is torn is paid for by a failed write or by a
\* restart of its own: a record is never cut short otherwise, also not by the
\* short writes of the BufWriter or by a message that goes past it.
THEOREM TearsAreExplained == Spec => []TearsExplained
<1>1. Inv => TearsExplained
  <2> SUFFICES ASSUME Inv PROVE TearsExplained OBVIOUS
  <2>1. file \o buf \in Seq(Byte) /\ todo \in Seq(Byte) /\ Stream \in Seq(Byte)
    BY Sequences DEF Inv
  <2>2. Cardinality(Tears(file \o buf)) <= Cardinality(Tears(Stream))
    BY <2>1, TearsCut DEF Stream
  <2>3. Cardinality(Tears(file \o buf)) \in Nat /\ Cardinality(Tears(Stream)) \in Nat
    BY <2>1, TearsFinite
  <2>4. Cardinality(Tears(Stream)) <= failed + Restarts
    BY DEF Inv, Budget
  <2>5. failed \in Nat /\ Restarts \in Nat
    BY DEF Inv, TypeOK, Restarts
  <2>6. Cardinality(Tears(file \o buf)) <= failed + Restarts
    BY <2>2, <2>3, <2>4, <2>5
  <2> QED BY <2>6 DEF TearsExplained, Restarts
<1> QED BY <1>1, Invariance, PTL

\* In one run without a failed write the file is at any moment a sequence of
\* frames, of which only the last may be incomplete.
THEOREM OneRunIsFramed == Spec => []FramedInOneRun
<1>1. Inv => FramedInOneRun
  <2> SUFFICES ASSUME Inv, failed = 0, starts <= 1
               PROVE  (file # << >> => file[1].first) /\ Tears(file) = {}
    BY DEF FramedInOneRun
  <2>1. Framed(file \o (buf \o todo))
    BY Sequences DEF Inv, Clean
  <2>2. file \in Seq(Byte) /\ buf \o todo \in Seq(Byte)
    BY Sequences, ConcatProperties DEF Inv
  <2>3. Framed(file)
    BY <2>1, <2>2, FramedCut
  <2> QED BY <2>3 DEF Framed, Tears
<1> QED BY <1>1, Invariance, PTL
=============================================================================
