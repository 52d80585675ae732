--------------------------- MODULE PipelineProofs ---------------------------
(***************************************************************************)
(* Proofs about the pipeline and the daemon that runs it, for every number *)
(* of events, every capacity, with and without failures of the disk: type  *)
(* correctness, the bounds of the queues, the accounting of events, the    *)
(* order in which stages die, that the policy map is ahead of the log,     *)
(* that events keep their order from the hook to the disk, and that the    *)
(* pipeline implements the abstract log of AuditLog.                       *)
(*                                                                         *)
(* The daemon from start to end comes last: while a process is alive its   *)
(* pipeline satisfies the pipeline's invariant, and as long as the stages  *)
(* have not been spawned nothing is anywhere but in the ring. It follows   *)
(* that the whole daemon implements the abstract log too.                  *)
(***************************************************************************)
EXTENDS Daemon, OrderingProofs, FiniteSetTheorems

\* Which stage holds what, and what is left behind when one is gone.
Hands ==
  /\ Len(job) = IF parser \in {"parse", "send"} THEN 1 ELSE 0
  /\ Len(entry) = IF writer = "write" THEN 1 ELSE 0
  /\ parser = "exited" => raw = << >>
  /\ writer = "open" => buf = << >>
  /\ writer = "exited" => dns = << >> /\ buf = << >>
  /\ main = "exited" => ring = << >> /\ parser = "exited" /\ writer = "exited"

\* The inductive invariant of the control state and of the counts.
Inv == TypeOK /\ Hands /\ QueuesBounded /\ Accounted /\ DiesFromTheBack

-----------------------------------------------------------------------------
(* Sequences of events.                                                    *)

LEMMA HeadTail ==
  ASSUME NEW S, NEW s \in Seq(S), s # << >>
  PROVE  /\ Len(s) \in Nat /\ Len(s) > 0
         /\ Head(s) \in S /\ <<Head(s)>> \in Seq(S) /\ Len(<<Head(s)>>) = 1
         /\ Tail(s) \in Seq(S) /\ Len(Tail(s)) = Len(s) - 1
BY EmptySeq, HeadTailProperties

LEMMA Joined ==
  ASSUME NEW S, NEW s \in Seq(S), NEW t \in Seq(S)
  PROVE  s \o t \in Seq(S) /\ Len(s \o t) = Len(s) + Len(t)
BY ConcatProperties

\* The first n records of the buffer and the others.
LEMMA Cut ==
  ASSUME NEW S, NEW s \in Seq(S), NEW n \in 0 .. Len(s)
  PROVE  /\ SubSeq(s, 1, n) \in Seq(S) /\ Len(SubSeq(s, 1, n)) = n
         /\ SubSeq(s, n + 1, Len(s)) \in Seq(S)
         /\ Len(SubSeq(s, n + 1, Len(s))) = Len(s) - n
<1>1. Len(s) \in Nat /\ n \in Nat /\ n <= Len(s)
  OBVIOUS
<1>2. \A i \in 1 .. n : s[i] \in S
  BY <1>1
<1>3. \A i \in n + 1 .. Len(s) : s[i] \in S
  BY <1>1
<1>. QED  BY <1>1, <1>2, <1>3, SubSeqProperties

-----------------------------------------------------------------------------
(* The control state and the counts.                                       *)

LEMMA InitInv == Init => Inv
BY PipelineAssumption
   DEF Init, Inv, TypeOK, Hands, QueuesBounded, Accounted, Upstream, Downstream,
       DiesFromTheBack

\* Lengths are natural numbers.
LEMMA Lengths ==
  ASSUME TypeOK
  PROVE  /\ Len(ring) \in Nat /\ Len(raw) \in Nat /\ Len(job) \in Nat
         /\ Len(dns) \in Nat /\ Len(entry) \in Nat /\ Len(buf) \in Nat
         /\ Len(file) \in Nat /\ arrived \in Nat /\ lost \in Nat
BY DEF TypeOK

LEMMA Capacities ==
  /\ RingCap \in Nat /\ RawCap \in Nat /\ DnsCap \in Nat /\ BufCap \in Nat
  /\ MapCapacity \in Nat
BY PipelineAssumption

LEMMA Sides ==
  ASSUME TypeOK
  PROVE  Upstream \in Nat /\ Downstream \in Nat /\ arrived \in Nat /\ lost \in Nat
BY Lengths DEF Upstream, Downstream

\* What leaves upstream and is counted as lost leaves the sum as it was.
LEMMA Shift ==
  ASSUME NEW u \in Nat, NEW d \in Nat, NEW l \in Nat, NEW n \in Nat
  PROVE  (u - n) + d + (l + n) = u + d + l
OBVIOUS

LEMMA ArriveInv ==
  ASSUME Inv, NEW k \in Kinds, Arrive(k)
  PROVE  Inv'
<1>. DEFINE e == [id |-> arrived + 1, kind |-> k]
<1>1. e \in Event
  BY DEF Inv, TypeOK, Event
<1>2. /\ Append(ring, e) \in Seq(Event)
      /\ Len(Append(ring, e)) = Len(ring) + 1
  BY <1>1, AppendProperties DEF Inv, TypeOK
<1>3. /\ ring' \in Seq(Event)
      /\ \/ Len(ring) < RingCap /\ Len(ring') = Len(ring) + 1 /\ lost' = lost
         \/ Len(ring') = Len(ring) /\ lost' = lost + 1
  BY <1>2 DEF Arrive, Inv, TypeOK
<1>4. arrived' = arrived + 1
  BY DEF Arrive
<1>5. UNCHANGED <<reader, raw, parser, job, map, dns, writer, entry, buf, file, main>>
  BY DEF Arrive, parserVars, writerVars
<1>6. main # "exited"
  BY DEF Arrive
<1>7. TypeOK'
  BY <1>3, <1>4, <1>5 DEF Inv, TypeOK
<1>8. QueuesBounded'
  <2>1. QueuesBounded /\ Len(ring) \in Nat /\ RingCap \in Nat
    BY Lengths, Capacities DEF Inv
  <2>2. Len(ring) <= RingCap
    BY <2>1 DEF QueuesBounded
  <2>3. Len(ring') <= RingCap
    BY <1>3, <2>1, <2>2
  <2>. QED  BY <1>5, <2>1, <2>3 DEF QueuesBounded
<1>9. Accounted'
  <2>1. TypeOK /\ Accounted
    BY DEF Inv
  <2>2. Downstream' = Downstream
    BY <1>5 DEF Downstream
  <2>3. CASE Len(ring') = Len(ring) + 1 /\ lost' = lost
    <3>1. Upstream' = Upstream + 1
      BY <1>5, <2>1, <2>3, Lengths DEF Upstream
    <3>. QED  BY <1>4, <2>1, <2>2, <2>3, <3>1, Sides DEF Accounted
  <2>4. CASE Len(ring') = Len(ring) /\ lost' = lost + 1
    <3>1. Upstream' = Upstream
      BY <1>5, <2>1, <2>4, Lengths DEF Upstream
    <3>. QED  BY <1>4, <2>1, <2>2, <2>4, <3>1, Sides DEF Accounted
  <2>. QED  BY <1>3, <2>3, <2>4
<1>10. Hands' /\ DiesFromTheBack'
  BY <1>5, <1>6 DEF Inv, Hands, DiesFromTheBack
<1>. QED  BY <1>7, <1>8, <1>9, <1>10 DEF Inv

LEMMA ReaderInv ==
  ASSUME TypeOK, Hands, QueuesBounded, Accounted, DiesFromTheBack,
         Reader
  PROVE  Inv'
<1>. USE DEF kernelVars, parserVars, writerVars, RawRxGone
<1>1. CASE ReaderWake
  BY <1>1, Lengths, Capacities
     DEF ReaderWake, Inv, TypeOK, Hands, QueuesBounded, Accounted, Upstream,
         Downstream, DiesFromTheBack
<1>2. CASE ReaderPark
  BY <1>2, Lengths, Capacities
     DEF ReaderPark, Inv, TypeOK, Hands, QueuesBounded, Accounted, Upstream,
         Downstream, DiesFromTheBack
<1>3. CASE ReaderSend
  <2>1. /\ Head(ring) \in Event
        /\ Tail(ring) \in Seq(Event) /\ Len(Tail(ring)) = Len(ring) - 1
    BY <1>3, HeadTail DEF ReaderSend, TypeOK
  <2>2. Len(raw) + Len(job) < RawCap
    BY <1>3, Lengths, Capacities DEF ReaderSend, RawFull
  <2>3. /\ ring' \in Seq(Event) /\ Len(ring') = Len(ring) - 1
        /\ raw' \in Seq(Event) /\ Len(raw') = Len(raw) + 1
        /\ Len(raw) + Len(job) < RawCap
    BY <1>3, <2>1, <2>2, AppendProperties DEF ReaderSend, TypeOK
  <2>4. TypeOK'
    BY <1>3, <2>3 DEF ReaderSend, TypeOK
  <2>5. Hands'
    BY <1>3, <2>3 DEF ReaderSend, Hands, TypeOK
  <2>6. QueuesBounded'
    <3>1. UNCHANGED <<job, dns, entry, buf>>
      BY <1>3 DEF ReaderSend
    <3>2. Len(ring) \in Nat /\ Len(ring) <= RingCap
      BY Lengths DEF QueuesBounded
    <3>3. Len(ring') <= RingCap
      BY <2>3, <3>2, Capacities
    <3>4. Len(raw') + Len(job) <= RawCap
      BY <2>3, Lengths, Capacities
    <3>. QED  BY <3>1, <3>3, <3>4 DEF QueuesBounded
  <2>7. Upstream' = Upstream
    BY <1>3, <2>3, Lengths DEF ReaderSend, Upstream
  <2>8. Downstream' = Downstream
    BY <1>3, <2>3, Lengths DEF ReaderSend, Downstream
  <2>9. arrived' = arrived /\ lost' = lost
    BY <1>3 DEF ReaderSend
  <2>10. Accounted'
    BY <2>7, <2>8, <2>9, Sides DEF Accounted
  <2>11. DiesFromTheBack'
    BY <1>3, <2>3 DEF ReaderSend, DiesFromTheBack
  <2>. QED  BY <2>4, <2>5, <2>6, <2>10, <2>11 DEF Inv
<1>4. CASE ReaderDrop
  <2>1. ring' \in Seq(Event) /\ Len(ring') = Len(ring) - 1
    BY <1>4, HeadTail DEF ReaderDrop, TypeOK
  <2>2. TypeOK'
    BY <1>4, <2>1 DEF ReaderDrop, TypeOK
  <2>3. Hands'
    BY <1>4, <2>1 DEF ReaderDrop, Hands, TypeOK
  <2>4. QueuesBounded'
    BY <1>4, <2>1, Lengths, Capacities DEF ReaderDrop, QueuesBounded
  <2>5. Upstream' = Upstream - 1
    BY <1>4, <2>1, Lengths DEF ReaderDrop, Upstream
  <2>6. Downstream' = Downstream
    BY <1>4, <2>1, Lengths DEF ReaderDrop, Downstream
  <2>7. arrived' = arrived /\ lost' = lost + 1
    BY <1>4 DEF ReaderDrop
  <2>8. Accounted'
    BY <2>5, <2>6, <2>7, Sides DEF Accounted
  <2>9. DiesFromTheBack'
    BY <1>4, <2>1 DEF ReaderDrop, DiesFromTheBack
  <2>. QED  BY <2>2, <2>3, <2>4, <2>8, <2>9 DEF Inv
<1>5. CASE ReaderClosed
  <2>1. ring' \in Seq(Event) /\ Len(ring') = Len(ring) - 1
    BY <1>5, HeadTail DEF ReaderClosed, TypeOK
  <2>2. TypeOK'
    BY <1>5, <2>1 DEF ReaderClosed, TypeOK
  <2>3. Hands'
    BY <1>5, <2>1 DEF ReaderClosed, Hands, TypeOK
  <2>4. QueuesBounded'
    BY <1>5, <2>1, Lengths, Capacities DEF ReaderClosed, QueuesBounded
  <2>5. Upstream' = Upstream - 1
    BY <1>5, <2>1, Lengths DEF ReaderClosed, Upstream
  <2>6. Downstream' = Downstream
    BY <1>5, <2>1, Lengths DEF ReaderClosed, Downstream
  <2>7. arrived' = arrived /\ lost' = lost + 1
    BY <1>5 DEF ReaderClosed
  <2>8. Accounted'
    BY <2>5, <2>6, <2>7, Sides DEF Accounted
  <2>9. DiesFromTheBack'
    BY <1>5, <2>1 DEF ReaderClosed, DiesFromTheBack
  <2>. QED  BY <2>2, <2>3, <2>4, <2>8, <2>9 DEF Inv
<1>. QED  BY <1>1, <1>2, <1>3, <1>4, <1>5 DEF Reader

LEMMA ParserInv ==
  ASSUME TypeOK, Hands, QueuesBounded, Accounted, DiesFromTheBack,
         Parser
  PROVE  Inv'
<1>. USE DEF kernelVars, parserVars, writerVars, RawTxGone, DnsRxGone
<1>1. CASE ParserWake
  BY <1>1, Lengths, Capacities
     DEF ParserWake, Inv, TypeOK, Hands, QueuesBounded, Accounted, Upstream,
         Downstream, DiesFromTheBack
<1>2. CASE ParserPark
  BY <1>2, Lengths, Capacities
     DEF ParserPark, Inv, TypeOK, Hands, QueuesBounded, Accounted, Upstream,
         Downstream, DiesFromTheBack
<1>3. CASE ParserRecv
  <2>1. Len(job) = 0
    BY <1>3 DEF ParserRecv, Hands
  <2>2. /\ Len(job) = 0
        /\ job' \in Seq(Event) /\ Len(job') = 1
        /\ raw' \in Seq(Event) /\ Len(raw') = Len(raw) - 1
    BY <1>3, <2>1, HeadTail DEF ParserRecv, TypeOK
  <2>3. TypeOK'
    BY <1>3, <2>2 DEF ParserRecv, TypeOK
  <2>4. Hands'
    BY <1>3, <2>2 DEF ParserRecv, Hands, TypeOK
  <2>5. QueuesBounded'
    BY <1>3, <2>2, Lengths, Capacities DEF ParserRecv, QueuesBounded
  <2>6. Upstream' = Upstream
    BY <1>3, <2>2, Lengths DEF ParserRecv, Upstream
  <2>7. Downstream' = Downstream
    BY <1>3, <2>2, Lengths DEF ParserRecv, Downstream
  <2>8. arrived' = arrived /\ lost' = lost
    BY <1>3 DEF ParserRecv
  <2>9. Accounted'
    BY <2>6, <2>7, <2>8, Sides DEF Accounted
  <2>10. DiesFromTheBack'
    BY <1>3, <2>2 DEF ParserRecv, DiesFromTheBack
  <2>. QED  BY <2>3, <2>4, <2>5, <2>9, <2>10 DEF Inv
<1>4. CASE ParserDone
  BY <1>4, Lengths, Capacities
     DEF ParserDone, Inv, TypeOK, Hands, QueuesBounded, Accounted, Upstream,
         Downstream, DiesFromTheBack
<1>5. CASE ParseFails
  <2>1. job' \in Seq(Event) /\ Len(job') = 0 /\ Len(job) = 1
    BY <1>5 DEF ParseFails, Hands
  <2>2. TypeOK'
    BY <1>5, <2>1 DEF ParseFails, TypeOK
  <2>3. Hands'
    BY <1>5, <2>1 DEF ParseFails, Hands, TypeOK
  <2>4. QueuesBounded'
    BY <1>5, <2>1, Lengths, Capacities DEF ParseFails, QueuesBounded
  <2>5. Upstream' = Upstream - 1
    BY <1>5, <2>1, Lengths DEF ParseFails, Upstream
  <2>6. Downstream' = Downstream
    BY <1>5, <2>1, Lengths DEF ParseFails, Downstream
  <2>7. arrived' = arrived /\ lost' = lost + 1
    BY <1>5 DEF ParseFails
  <2>8. Accounted'
    BY <2>5, <2>6, <2>7, Sides DEF Accounted
  <2>9. DiesFromTheBack'
    BY <1>5, <2>1 DEF ParseFails, DiesFromTheBack
  <2>. QED  BY <2>2, <2>3, <2>4, <2>8, <2>9 DEF Inv
<1>6. CASE Observe
  <2>1. map' \subseteq Addrs
    BY <1>6 DEF Observe, Admitted, TypeOK
  <2>2. TypeOK'
    BY <1>6, <2>1 DEF Observe, TypeOK
  <2>3. Hands'
    BY <1>6, <2>1 DEF Observe, Hands, TypeOK
  <2>4. QueuesBounded'
    BY <1>6, <2>1, Lengths, Capacities DEF Observe, QueuesBounded
  <2>5. Upstream' = Upstream
    BY <1>6, <2>1, Lengths DEF Observe, Upstream
  <2>6. Downstream' = Downstream
    BY <1>6, <2>1, Lengths DEF Observe, Downstream
  <2>7. arrived' = arrived /\ lost' = lost
    BY <1>6 DEF Observe
  <2>8. Accounted'
    BY <2>5, <2>6, <2>7, Sides DEF Accounted
  <2>9. DiesFromTheBack'
    BY <1>6, <2>1 DEF Observe, DiesFromTheBack
  <2>. QED  BY <2>2, <2>3, <2>4, <2>8, <2>9 DEF Inv
<1>7. CASE ParserSend
  <2>1. Len(job) = 1
    BY <1>7 DEF ParserSend, Hands
  <2>2. dns \o job \in Seq(Event) /\ Len(dns \o job) = Len(dns) + Len(job)
    BY Joined DEF TypeOK
  <2>3. Len(dns) + Len(entry) < DnsCap
    BY <1>7, Lengths, Capacities DEF ParserSend, DnsFull
  <2>4. dns' \in Seq(Event) /\ job' \in Seq(Event)
    BY <1>7, <2>2 DEF ParserSend
  <2>5. /\ Len(dns) + Len(entry) < DnsCap
        /\ Len(dns') = Len(dns) + 1
        /\ Len(job') = 0 /\ Len(job) = 1
        /\ UNCHANGED <<arrived, ring, raw, entry, buf, file, lost>>
    BY <1>7, <2>1, <2>2, <2>3 DEF ParserSend
  <2>6. TypeOK'
    BY <1>7, <2>4, <2>5 DEF ParserSend, TypeOK
  <2>7. Hands'
    BY <1>7, <2>4, <2>5 DEF ParserSend, Hands, TypeOK
  <2>8. QueuesBounded'
    BY <2>5, Lengths, Capacities DEF QueuesBounded
  <2>9. Upstream' = Upstream - 1
    BY <2>5, Lengths DEF Upstream
  <2>10. Downstream' = Downstream + 1
    BY <2>5, Lengths DEF Downstream
  <2>11. arrived' = arrived /\ lost' = lost
    BY <1>7 DEF ParserSend
  <2>12. Accounted'
    BY <2>9, <2>10, <2>11, Sides DEF Accounted
  <2>13. DiesFromTheBack'
    BY <1>7, <2>4, <2>5 DEF ParserSend, DiesFromTheBack
  <2>. QED  BY <2>6, <2>7, <2>8, <2>12, <2>13 DEF Inv
<1>8. CASE ParserDrop
  <2>1. job' \in Seq(Event) /\ Len(job') = 0 /\ Len(job) = 1
    BY <1>8 DEF ParserDrop, Hands
  <2>2. TypeOK'
    BY <1>8, <2>1 DEF ParserDrop, TypeOK
  <2>3. Hands'
    BY <1>8, <2>1 DEF ParserDrop, Hands, TypeOK
  <2>4. QueuesBounded'
    BY <1>8, <2>1, Lengths, Capacities DEF ParserDrop, QueuesBounded
  <2>5. Upstream' = Upstream - 1
    BY <1>8, <2>1, Lengths DEF ParserDrop, Upstream
  <2>6. Downstream' = Downstream
    BY <1>8, <2>1, Lengths DEF ParserDrop, Downstream
  <2>7. arrived' = arrived /\ lost' = lost + 1
    BY <1>8 DEF ParserDrop
  <2>8. Accounted'
    BY <2>5, <2>6, <2>7, Sides DEF Accounted
  <2>9. DiesFromTheBack'
    BY <1>8, <2>1 DEF ParserDrop, DiesFromTheBack
  <2>. QED  BY <2>2, <2>3, <2>4, <2>8, <2>9 DEF Inv
<1>9. CASE ParserClosed
  <2>1. /\ job' \in Seq(Event) /\ Len(job') = 0 /\ Len(job) = 1
        /\ raw' \in Seq(Event) /\ Len(raw') = 0
    BY <1>9 DEF ParserClosed, Hands
  <2>2. TypeOK'
    BY <1>9, <2>1 DEF ParserClosed, TypeOK
  <2>3. Hands'
    BY <1>9, <2>1 DEF ParserClosed, Hands, TypeOK
  <2>4. QueuesBounded'
    BY <1>9, <2>1, Lengths, Capacities DEF ParserClosed, QueuesBounded
  <2>5. Upstream' = Upstream - (1 + Len(raw))
    BY <1>9, <2>1, Lengths DEF ParserClosed, Upstream
  <2>6. Downstream' = Downstream
    BY <1>9, <2>1, Lengths DEF ParserClosed, Downstream
  <2>7. arrived' = arrived /\ lost' = lost + (1 + Len(raw))
    BY <1>9, Lengths DEF ParserClosed
  <2>8. 1 + Len(raw) \in Nat
    BY Lengths
  <2>9. Accounted'
    BY <2>5, <2>6, <2>7, <2>8, Sides, Shift DEF Accounted
  <2>10. DiesFromTheBack'
    BY <1>9, <2>1 DEF ParserClosed, DiesFromTheBack
  <2>. QED  BY <2>2, <2>3, <2>4, <2>9, <2>10 DEF Inv
<1>. QED  BY <1>1, <1>2, <1>3, <1>4, <1>5, <1>6, <1>7, <1>8, <1>9 DEF Parser

LEMMA WriterInv ==
  ASSUME TypeOK, Hands, QueuesBounded, Accounted, DiesFromTheBack,
         Writer
  PROVE  Inv'
<1>. USE DEF kernelVars, parserVars, writerVars, DnsTxGone
<1>1. CASE Open
  BY <1>1, Lengths, Capacities
     DEF Open, Inv, TypeOK, Hands, QueuesBounded, Accounted, Upstream,
         Downstream, DiesFromTheBack
<1>2. CASE OpenFails
  <2>1. dns' \in Seq(Event) /\ Len(dns') = 0 /\ Len(entry) = 0
    BY <1>2 DEF OpenFails, Hands
  <2>2. TypeOK'
    BY <1>2, <2>1 DEF OpenFails, TypeOK
  <2>3. Hands'
    BY <1>2, <2>1 DEF OpenFails, Hands, TypeOK
  <2>4. QueuesBounded'
    BY <1>2, <2>1, Lengths, Capacities DEF OpenFails, QueuesBounded
  <2>5. Upstream' = Upstream
    BY <1>2, <2>1, Lengths DEF OpenFails, Upstream
  <2>6. Downstream' = Downstream - Len(dns)
    BY <1>2, <2>1, Lengths DEF OpenFails, Downstream
  <2>7. arrived' = arrived /\ lost' = lost + Len(dns)
    BY <1>2 DEF OpenFails
  <2>8. Len(dns) \in Nat
    BY Lengths
  <2>9. Accounted'
    BY <2>5, <2>6, <2>7, <2>8, Sides DEF Accounted
  <2>10. DiesFromTheBack'
    BY <1>2, <2>1 DEF OpenFails, DiesFromTheBack
  <2>. QED  BY <2>2, <2>3, <2>4, <2>9, <2>10 DEF Inv
<1>3. CASE WriterRecv
  <2>1. Len(entry) = 0
    BY <1>3 DEF WriterRecv, Hands
  <2>2. /\ entry' \in Seq(Event) /\ Len(entry') = 1 /\ Len(entry) = 0
        /\ dns' \in Seq(Event) /\ Len(dns') = Len(dns) - 1
    BY <1>3, <2>1, HeadTail DEF WriterRecv, TypeOK
  <2>3. TypeOK'
    BY <1>3, <2>2 DEF WriterRecv, TypeOK
  <2>4. Hands'
    BY <1>3, <2>2 DEF WriterRecv, Hands, TypeOK
  <2>5. QueuesBounded'
    BY <1>3, <2>2, Lengths, Capacities DEF WriterRecv, QueuesBounded
  <2>6. Upstream' = Upstream
    BY <1>3, <2>2, Lengths DEF WriterRecv, Upstream
  <2>7. Downstream' = Downstream
    BY <1>3, <2>2, Lengths DEF WriterRecv, Downstream
  <2>8. arrived' = arrived /\ lost' = lost
    BY <1>3 DEF WriterRecv
  <2>9. Accounted'
    BY <2>6, <2>7, <2>8, Sides DEF Accounted
  <2>10. DiesFromTheBack'
    BY <1>3, <2>2 DEF WriterRecv, DiesFromTheBack
  <2>. QED  BY <2>3, <2>4, <2>5, <2>9, <2>10 DEF Inv
<1>4. CASE WriteBuffered
  <2>1. Len(entry) = 1
    BY <1>4 DEF WriteBuffered, Hands
  <2>2. buf \o entry \in Seq(Event) /\ Len(buf \o entry) = Len(buf) + Len(entry)
    BY Joined DEF TypeOK
  <2>3. buf' \in Seq(Event) /\ entry' \in Seq(Event)
    BY <1>4, <2>2 DEF WriteBuffered
  <2>4. /\ Len(buf) < BufCap
        /\ Len(buf') = Len(buf) + 1
        /\ Len(entry') = 0 /\ Len(entry) = 1
        /\ UNCHANGED <<arrived, ring, raw, job, dns, file, lost>>
    BY <1>4, <2>1, <2>2 DEF WriteBuffered
  <2>5. TypeOK'
    BY <1>4, <2>3, <2>4 DEF WriteBuffered, TypeOK
  <2>6. Hands'
    BY <1>4, <2>3, <2>4 DEF WriteBuffered, Hands, TypeOK
  <2>7. QueuesBounded'
    BY <2>4, Lengths, Capacities DEF QueuesBounded
  <2>8. Upstream' = Upstream
    BY <2>4, Lengths DEF Upstream
  <2>9. Downstream' = Downstream
    BY <2>4, Lengths DEF Downstream
  <2>10. arrived' = arrived /\ lost' = lost
    BY <1>4 DEF WriteBuffered
  <2>11. Accounted'
    BY <2>8, <2>9, <2>10, Sides DEF Accounted
  <2>12. DiesFromTheBack'
    BY <1>4, <2>3, <2>4 DEF WriteBuffered, DiesFromTheBack
  <2>. QED  BY <2>5, <2>6, <2>7, <2>11, <2>12 DEF Inv
<1>5. CASE WriteSpill
  <2>1. Len(entry) = 1
    BY <1>5 DEF WriteSpill, Hands
  <2>2. file \o buf \in Seq(Event) /\ Len(file \o buf) = Len(file) + Len(buf)
    BY Joined DEF TypeOK
  <2>3. BufCap >= 1
    BY PipelineAssumption
  <2>4. file' \in Seq(Event) /\ buf' \in Seq(Event) /\ entry' \in Seq(Event)
    BY <1>5, <2>2 DEF WriteSpill, TypeOK
  <2>5. /\ BufCap >= 1
        /\ Len(file') = Len(file) + Len(buf)
        /\ Len(buf') = 1
        /\ Len(entry') = 0 /\ Len(entry) = 1
        /\ UNCHANGED <<arrived, ring, raw, job, dns, lost>>
    BY <1>5, <2>1, <2>2, <2>3 DEF WriteSpill
  <2>6. TypeOK'
    BY <1>5, <2>4, <2>5 DEF WriteSpill, TypeOK
  <2>7. Hands'
    BY <1>5, <2>4, <2>5 DEF WriteSpill, Hands, TypeOK
  <2>8. QueuesBounded'
    BY <2>5, Lengths, Capacities DEF QueuesBounded
  <2>9. Upstream' = Upstream
    BY <2>5, Lengths DEF Upstream
  <2>10. Downstream' = Downstream
    BY <2>5, Lengths DEF Downstream
  <2>11. arrived' = arrived /\ lost' = lost
    BY <1>5 DEF WriteSpill
  <2>12. Accounted'
    BY <2>9, <2>10, <2>11, Sides DEF Accounted
  <2>13. DiesFromTheBack'
    BY <1>5, <2>4, <2>5 DEF WriteSpill, DiesFromTheBack
  <2>. QED  BY <2>6, <2>7, <2>8, <2>12, <2>13 DEF Inv
<1>6. ASSUME NEW n \in 0 .. Len(buf), WriteFails(n)
      PROVE  Inv'
  <2>1. n \in 0 .. Len(buf) /\ n \in Nat
    BY <1>6
  <2>2. /\ SubSeq(buf, 1, n) \in Seq(Event) /\ Len(SubSeq(buf, 1, n)) = n
        /\ buf' \in Seq(Event) /\ Len(buf') = Len(buf) - n
    <3>1. buf \in Seq(Event) /\ buf' = SubSeq(buf, n + 1, Len(buf))
      BY <1>6 DEF WriteFails, TypeOK
    <3>. QED  BY <2>1, <3>1, Cut
  <2>3. file' \in Seq(Event) /\ Len(file') = Len(file) + n
    BY <1>6, <2>2, Joined DEF WriteFails, TypeOK
  <2>4. Len(entry) = 1
    BY <1>6 DEF WriteFails, Hands
  <2>5. file' \in Seq(Event) /\ buf' \in Seq(Event) /\ entry' \in Seq(Event)
    BY <1>6, <2>2, <2>3 DEF WriteFails
  <2>6. /\ n \in Nat /\ n <= Len(buf)
        /\ Len(buf') = Len(buf) - n
        /\ Len(file') = Len(file) + n
        /\ Len(entry') = 0 /\ Len(entry) = 1
        /\ lost' = lost + 1
        /\ UNCHANGED <<arrived, ring, raw, job, dns>>
    BY <1>6, <2>1, <2>2, <2>3, <2>4 DEF WriteFails
  <2>7. TypeOK'
    BY <1>6, <2>5, <2>6 DEF WriteFails, TypeOK
  <2>8. Hands'
    BY <1>6, <2>5, <2>6 DEF WriteFails, Hands, TypeOK
  <2>9. Len(buf') <= BufCap
    BY <2>6, Lengths, Capacities DEF QueuesBounded
  <2>10. Len(dns') + Len(entry') <= DnsCap
    BY <2>6, Lengths, Capacities DEF QueuesBounded
  <2>11. QueuesBounded'
    BY <2>6, <2>9, <2>10 DEF QueuesBounded
  <2>12. Upstream' = Upstream
    BY <2>6, Lengths DEF Upstream
  <2>13. Downstream' = Downstream - 1
    BY <2>6, Lengths DEF Downstream
  <2>14. arrived' = arrived /\ lost' = lost + 1
    BY <1>6 DEF WriteFails
  <2>15. Accounted'
    BY <2>12, <2>13, <2>14, Sides DEF Accounted
  <2>16. DiesFromTheBack'
    BY <1>6, <2>5, <2>6 DEF WriteFails, DiesFromTheBack
  <2>. QED  BY <2>7, <2>8, <2>11, <2>15, <2>16 DEF Inv
<1>7. ASSUME NEW n \in 0 .. Len(buf), WriterDone(n)
      PROVE  Inv'
  <2>1. SubSeq(buf, 1, n) \in Seq(Event) /\ Len(SubSeq(buf, 1, n)) = n
    BY <1>7, Cut DEF WriterDone, TypeOK
  <2>2. file' \in Seq(Event) /\ Len(file') = Len(file) + n
    BY <1>7, <2>1, Joined DEF WriterDone, TypeOK
  <2>3. file' \in Seq(Event) /\ buf' \in Seq(Event)
    BY <1>7, <2>2 DEF WriterDone
  <2>4. /\ n \in Nat /\ n <= Len(buf)
        /\ Len(buf') = 0
        /\ Len(file') = Len(file) + n
        /\ lost' = lost + (Len(buf) - n)
        /\ UNCHANGED <<arrived, ring, raw, job, dns, entry>>
    BY <1>7, <2>2 DEF WriterDone
  <2>5. TypeOK'
    BY <1>7, <2>3, <2>4 DEF WriterDone, TypeOK
  <2>6. Hands'
    BY <1>7, <2>3, <2>4 DEF WriterDone, Hands, TypeOK
  <2>7. QueuesBounded'
    BY <2>4, Lengths, Capacities DEF QueuesBounded
  <2>8. Upstream' = Upstream
    BY <2>4, Lengths DEF Upstream
  <2>9. Downstream' = Downstream - (Len(buf) - n)
    BY <2>4, Lengths DEF Downstream
  <2>10. arrived' = arrived /\ lost' = lost + (Len(buf) - n)
    BY <1>7 DEF WriterDone
  <2>11. Len(buf) \in Nat /\ n \in Nat
    BY Lengths, <2>4
  <2>12. Accounted'
    BY <2>8, <2>9, <2>10, <2>11, Sides DEF Accounted
  <2>13. DiesFromTheBack'
    BY <1>7, <2>3, <2>4 DEF WriterDone, DiesFromTheBack
  <2>. QED  BY <2>5, <2>6, <2>7, <2>12, <2>13 DEF Inv
<1>8. CASE WriteDirect
  <2>1. Len(entry) = 1
    BY <1>8 DEF WriteDirect, Hands
  <2>2. file \o buf \in Seq(Event) /\ Len(file \o buf) = Len(file) + Len(buf)
    BY Joined DEF TypeOK
  <2>3. /\ (file \o buf) \o entry \in Seq(Event)
        /\ Len((file \o buf) \o entry) = Len(file \o buf) + Len(entry)
    BY <2>2, Joined DEF TypeOK
  <2>4. file' \in Seq(Event) /\ buf' \in Seq(Event) /\ entry' \in Seq(Event)
    BY <1>8, <2>3 DEF WriteDirect
  <2>5. /\ Len(file') = Len(file) + Len(buf) + 1
        /\ Len(buf') = 0
        /\ Len(entry') = 0 /\ Len(entry) = 1
        /\ UNCHANGED <<arrived, ring, raw, job, dns, lost>>
    BY <1>8, <2>1, <2>2, <2>3 DEF WriteDirect
  <2>6. TypeOK'
    BY <1>8, <2>4, <2>5 DEF WriteDirect, TypeOK
  <2>7. Hands'
    BY <1>8, <2>4, <2>5 DEF WriteDirect, Hands, TypeOK
  <2>8. QueuesBounded'
    BY <2>5, Lengths, Capacities DEF QueuesBounded
  <2>9. Upstream' = Upstream
    BY <2>5, Lengths DEF Upstream
  <2>10. Downstream' = Downstream
    BY <2>5, Lengths DEF Downstream
  <2>11. arrived' = arrived /\ lost' = lost
    BY <1>8 DEF WriteDirect
  <2>12. Accounted'
    BY <2>9, <2>10, <2>11, Sides DEF Accounted
  <2>13. DiesFromTheBack'
    BY <1>8, <2>4, <2>5 DEF WriteDirect, DiesFromTheBack
  <2>. QED  BY <2>6, <2>7, <2>8, <2>12, <2>13 DEF Inv
<1>. QED  BY <1>1, <1>2, <1>3, <1>4, <1>5, <1>6, <1>7, <1>8 DEF Writer

LEMMA MainInv ==
  ASSUME TypeOK, Hands, QueuesBounded, Accounted, DiesFromTheBack,
         CtrlC \/ Shutdown
  PROVE  Inv'
<1>. USE DEF kernelVars, parserVars, writerVars
<1>1. CASE CtrlC
  BY <1>1, Lengths, Capacities
     DEF CtrlC, Inv, TypeOK, Hands, QueuesBounded, Accounted, Upstream,
         Downstream, DiesFromTheBack
<1>2. CASE CancelReader
  BY <1>2, Lengths, Capacities
     DEF CancelReader, Inv, TypeOK, Hands, QueuesBounded, Accounted, Upstream,
         Downstream, DiesFromTheBack
<1>3. CASE CancelParser
  <2>1. raw' \in Seq(Event) /\ Len(raw') = 0 /\ Len(job) = 0
    BY <1>3 DEF CancelParser, Hands
  <2>2. TypeOK'
    BY <1>3, <2>1 DEF CancelParser, TypeOK
  <2>3. Hands'
    BY <1>3, <2>1 DEF CancelParser, Hands, TypeOK
  <2>4. QueuesBounded'
    BY <1>3, <2>1, Lengths, Capacities DEF CancelParser, QueuesBounded
  <2>5. Upstream' = Upstream - Len(raw)
    BY <1>3, <2>1, Lengths DEF CancelParser, Upstream
  <2>6. Downstream' = Downstream
    BY <1>3, <2>1, Lengths DEF CancelParser, Downstream
  <2>7. arrived' = arrived /\ lost' = lost + Len(raw)
    BY <1>3 DEF CancelParser
  <2>8. Len(raw) \in Nat
    BY Lengths
  <2>9. Accounted'
    BY <2>5, <2>6, <2>7, <2>8, Sides DEF Accounted
  <2>10. DiesFromTheBack'
    BY <1>3, <2>1 DEF CancelParser, DiesFromTheBack
  <2>. QED  BY <2>2, <2>3, <2>4, <2>9, <2>10 DEF Inv
<1>4. CASE Exit
  <2>1. /\ ring' \in Seq(Event) /\ Len(ring') = 0
        /\ dns' \in Seq(Event) /\ Len(dns') = 0
        /\ entry' \in Seq(Event) /\ Len(entry') = 0
        /\ buf' \in Seq(Event) /\ Len(buf') = 0
    BY <1>4 DEF Exit
  <2>2. TypeOK'
    BY <1>4, <2>1, Lengths DEF Exit, TypeOK
  <2>3. Hands'
    BY <1>4, <2>1 DEF Exit, Hands, TypeOK
  <2>4. QueuesBounded'
    BY <1>4, <2>1, Lengths, Capacities DEF Exit, QueuesBounded
  <2>. DEFINE gone == Len(dns) + Len(entry) + Len(buf)
  <2>5. gone \in Nat /\ Len(ring) \in Nat
    BY Lengths
  <2>6. Upstream' = Upstream - Len(ring)
    BY <1>4, <2>1, Lengths DEF Exit, Upstream
  <2>7. Downstream' = Downstream - gone
    BY <1>4, <2>1, Lengths DEF Exit, Downstream
  <2>8. lost' = lost + Len(ring) + gone
    BY <1>4, Lengths DEF Exit
  <2>9. arrived' = arrived
    BY <1>4 DEF Exit
  <2>10. Accounted'
    <3>. DEFINE r == Len(ring)
    <3>1. r \in Nat /\ gone \in Nat
      BY <2>5
    <3>2. /\ Upstream' = Upstream - r
          /\ Downstream' = Downstream - gone
          /\ lost' = lost + r + gone
      BY <2>6, <2>7, <2>8
    <3>. HIDE DEF gone, r
    <3>. QED  BY <2>9, <3>1, <3>2, Sides DEF Accounted
  <2>11. DiesFromTheBack'
    BY <1>4 DEF Exit, DiesFromTheBack
  <2>. QED  BY <2>2, <2>3, <2>4, <2>10, <2>11 DEF Inv
<1>. QED  BY <1>1, <1>2, <1>3, <1>4 DEF Shutdown

LEMMA StutterInv ==
  ASSUME Inv, UNCHANGED vars
  PROVE  Inv'
<1>. USE DEF Inv, vars
<1>1. TypeOK'           BY DEF TypeOK
<1>2. Hands'            BY DEF Hands
<1>3. QueuesBounded'    BY DEF QueuesBounded
<1>4. Accounted'        BY DEF Accounted, Upstream, Downstream
<1>5. DiesFromTheBack'  BY DEF DiesFromTheBack
<1>. QED  BY <1>1, <1>2, <1>3, <1>4, <1>5

LEMMA Inductive == Spec => []Inv
<1>1. Inv /\ [Next]_vars => Inv'
  BY ArriveInv, ReaderInv, ParserInv, WriterInv, MainInv, StutterInv DEF Inv, Next
<1>. QED  BY <1>1, InitInv, PTL DEF Spec

-----------------------------------------------------------------------------
(* The policy is ahead of the log.                                         *)

\* PolicyBeforeLog and the same of the response about to be sent.
VetInv ==
  /\ PolicyBeforeLog
  /\ parser = "send" => \A e \in Members(job) : Vetted(e)
  /\ IsFiniteSet(map)

LEMMA MembersEmpty == Members(<< >>) = {}
BY DEF Members

LEMMA MembersOfOne ==
  ASSUME NEW S, NEW s \in Seq(S), Len(s) = 1
  PROVE  Members(s) = {s[1]}
BY DEF Members

LEMMA MembersHeadTail ==
  ASSUME NEW S, NEW s \in Seq(S), s # << >>
  PROVE  Members(<<Head(s)>>) \subseteq Members(s) /\ Members(Tail(s)) \subseteq Members(s)
<1>1. Len(s) \in Nat /\ Len(s) > 0 /\ Head(s) = s[1] /\ Len(Tail(s)) = Len(s) - 1
  BY HeadTail, HeadTailProperties
<1>2. \A i \in 1 .. Len(Tail(s)) : Tail(s)[i] = s[i + 1]
  BY <1>1, HeadTailProperties
<1>3. Members(<<Head(s)>>) \subseteq Members(s)
  BY <1>1 DEF Members
<1>4. Members(Tail(s)) \subseteq Members(s)
  BY <1>1, <1>2 DEF Members
<1>. QED  BY <1>3, <1>4

LEMMA MembersJoined ==
  ASSUME NEW S, NEW s \in Seq(S), NEW t \in Seq(S)
  PROVE  Members(s \o t) = Members(s) \cup Members(t)
<1>1. /\ Len(s) \in Nat /\ Len(t) \in Nat
      /\ s \o t \in Seq(S) /\ Len(s \o t) = Len(s) + Len(t)
  BY ConcatProperties
<1>2. \A i \in 1 .. Len(s) + Len(t) :
        (s \o t)[i] = IF i <= Len(s) THEN s[i] ELSE t[i - Len(s)]
  BY ConcatProperties
<1>3. DOMAIN s = 1 .. Len(s) /\ DOMAIN t = 1 .. Len(t)
      /\ DOMAIN (s \o t) = 1 .. Len(s) + Len(t)
  BY <1>1, LenProperties
<1>4. ASSUME NEW x \in Members(s \o t)  PROVE x \in Members(s) \cup Members(t)
  <2>1. PICK i \in 1 .. Len(s) + Len(t) : x = (s \o t)[i]
    BY <1>3, <1>4 DEF Members
  <2>2. CASE i <= Len(s)
    BY <1>1, <1>2, <1>3, <2>1, <2>2 DEF Members
  <2>3. CASE i > Len(s)
    <3>1. i - Len(s) \in 1 .. Len(t) /\ x = t[i - Len(s)]
      BY <1>1, <1>2, <2>1, <2>3
    <3>. QED  BY <1>3, <3>1 DEF Members
  <2>. QED  BY <1>1, <2>2, <2>3
<1>5. ASSUME NEW x \in Members(s)  PROVE x \in Members(s \o t)
  <2>1. PICK i \in 1 .. Len(s) : x = s[i]
    BY <1>3, <1>5 DEF Members
  <2>2. i \in 1 .. Len(s) + Len(t) /\ (s \o t)[i] = x
    BY <1>1, <1>2, <2>1
  <2>. QED  BY <1>3, <2>2 DEF Members
<1>6. ASSUME NEW x \in Members(t)  PROVE x \in Members(s \o t)
  <2>1. PICK i \in 1 .. Len(t) : x = t[i]
    BY <1>3, <1>6 DEF Members
  <2>2. i + Len(s) \in 1 .. Len(s) + Len(t) /\ (s \o t)[i + Len(s)] = x
    BY <1>1, <1>2, <2>1
  <2>. QED  BY <1>3, <2>2 DEF Members
<1>. QED  BY <1>4, <1>5, <1>6

LEMMA MembersCut ==
  ASSUME NEW S, NEW s \in Seq(S), NEW n \in 0 .. Len(s)
  PROVE  /\ Members(SubSeq(s, 1, n)) \subseteq Members(s)
         /\ Members(SubSeq(s, n + 1, Len(s))) \subseteq Members(s)
<1>1. Len(s) \in Nat /\ n \in Nat /\ n <= Len(s) /\ DOMAIN s = 1 .. Len(s)
  BY LenProperties
<1>2. \A a, b \in Nat : a >= 1 /\ b <= Len(s) =>
        Members(SubSeq(s, a, b)) \subseteq Members(s)
  <2>. SUFFICES ASSUME NEW a \in Nat, NEW b \in Nat, a >= 1, b <= Len(s),
                       NEW x \in Members(SubSeq(s, a, b))
                PROVE  x \in Members(s)
    OBVIOUS
  <2>1. \A i \in a .. b : s[i] \in S
    BY <1>1
  <2>2. /\ DOMAIN SubSeq(s, a, b) = 1 .. (IF a <= b THEN b - a + 1 ELSE 0)
        /\ \A i \in 1 .. b - a + 1 : SubSeq(s, a, b)[i] = s[a + i - 1]
    BY <1>1, <2>1, SubSeqProperties
  <2>3. PICK i \in DOMAIN SubSeq(s, a, b) : x = SubSeq(s, a, b)[i]
    BY DEF Members
  <2>4. i \in 1 .. b - a + 1
    BY <2>2, <2>3
  <2>5. x = s[a + i - 1] /\ a + i - 1 \in 1 .. Len(s)
    BY <2>2, <2>3, <2>4
  <2>. QED  BY <1>1, <2>5 DEF Members
<1>. QED  BY <1>1, <1>2
\* A step that gives the writer nothing new and leaves the map alone.
LEMMA NothingNew ==
  ASSUME VetInv, map' = map, HandedOver' \subseteq HandedOver,
         parser' = "send" => parser = "send" /\ job' = job
  PROVE  VetInv'
BY DEF VetInv, PolicyBeforeLog, Vetted

\* Entries are only added, and a map that is full stays so.
LEMMA MapGrows ==
  ASSUME IsFiniteSet(map), NEW k \in Kinds, map' = Admitted(k)
  PROVE  /\ IsFiniteSet(map') /\ map \subseteq map'
         /\ Cardinality(map) \in Nat /\ Cardinality(map') \in Nat
         /\ Cardinality(map) <= Cardinality(map')
         /\ k \in Addrs => k \in map' \/ Cardinality(map') >= MapCapacity
<1>1. IsFiniteSet(map \cup {k})
  BY FS_AddElement
<1>2. IsFiniteSet(map') /\ map \subseteq map'
  BY <1>1 DEF Admitted
<1>3. Cardinality(map) <= Cardinality(map') /\ Cardinality(map) \in Nat
      /\ Cardinality(map') \in Nat
  BY <1>2, FS_Subset, FS_CardinalityType
<1>4. k \in Addrs => k \in map' \/ Cardinality(map') >= MapCapacity
  BY <1>3, Capacities DEF Admitted
<1>. QED  BY <1>2, <1>3, <1>4

LEMMA ObserveVets ==
  ASSUME TypeOK, Hands, VetInv, Observe
  PROVE  VetInv'
<1>. USE DEF kernelVars, writerVars
<1>a. Len(job) = 1 /\ job \in Seq(Event)
  BY DEF Hands, TypeOK, Observe
<1>b. job[1] \in Event
  BY <1>a
<1>1. Len(job) = 1 /\ job \in Seq(Event) /\ job[1].kind \in Kinds
  BY <1>a, <1>b DEF Event
<1>2. Members(job) = {job[1]} /\ job' = job /\ HandedOver' = HandedOver
  BY <1>1, MembersOfOne DEF Observe, HandedOver
<1>3. IsFiniteSet(map) /\ map' = Admitted(job[1].kind) /\ job[1].kind # "bad"
  BY DEF VetInv, Observe
<1>. DEFINE k == job[1].kind
<1>4. /\ IsFiniteSet(map') /\ map \subseteq map'
      /\ Cardinality(map) \in Nat /\ Cardinality(map') \in Nat
      /\ Cardinality(map) <= Cardinality(map')
      /\ k \in Addrs => k \in map' \/ Cardinality(map') >= MapCapacity
  BY <1>1, <1>3, MapGrows
<1>5. \A e \in HandedOver : Vetted(e)'
  <2>. SUFFICES ASSUME NEW e \in HandedOver  PROVE Vetted(e)'
    OBVIOUS
  <2>1. Vetted(e)
    BY DEF VetInv, PolicyBeforeLog
  <2>. QED  BY <1>4, <2>1, Capacities DEF Vetted
<1>6. PolicyBeforeLog'
  BY <1>2, <1>5 DEF PolicyBeforeLog
<1>7. Vetted(job[1])'
  BY <1>2, <1>3, <1>4 DEF Vetted
<1>8. (\A e \in Members(job) : Vetted(e))'
  BY <1>2, <1>7
<1>. QED  BY <1>4, <1>6, <1>8 DEF VetInv

LEMMA ParserVets ==
  ASSUME TypeOK, Hands, VetInv, Parser
  PROVE  VetInv'
<1>. USE DEF kernelVars, writerVars
<1>1. CASE ParserWake \/ ParserPark \/ ParserRecv \/ ParserDone \/ ParseFails
           \/ ParserDrop \/ ParserClosed
  <2>1. map' = map /\ HandedOver' = HandedOver /\ parser' # "send"
    BY <1>1 DEF ParserWake, ParserPark, ParserRecv, ParserDone, ParseFails,
                ParserDrop, ParserClosed, HandedOver
  <2>. QED  BY <2>1, NothingNew
<1>2. CASE Observe
  BY <1>2, ObserveVets
<1>3. CASE ParserSend
  <2>1. Members(dns') = Members(dns) \cup Members(job)
    BY <1>3, MembersJoined DEF ParserSend, TypeOK
  <2>2. /\ parser = "send" /\ parser' = "recv" /\ map' = map
        /\ Members(file') = Members(file) /\ Members(buf') = Members(buf)
        /\ Members(entry') = Members(entry)
    BY <1>3 DEF ParserSend
  <2>3. HandedOver' = HandedOver \cup Members(job)
    BY <2>1, <2>2 DEF HandedOver
  <2>4. \A e \in HandedOver \cup Members(job) : Vetted(e)
    BY <2>2 DEF VetInv, PolicyBeforeLog
  <2>5. PolicyBeforeLog'
    BY <2>2, <2>3, <2>4 DEF PolicyBeforeLog, Vetted
  <2>. QED  BY <2>2, <2>5 DEF VetInv
<1>. QED  BY <1>1, <1>2, <1>3 DEF Parser

\* The writer only moves what it was given, or loses it.
LEMMA WriterVets ==
  ASSUME TypeOK, VetInv, Writer
  PROVE  VetInv'
<1>. USE DEF kernelVars, parserVars
<1>. DEFINE Moves == /\ map' = map /\ parser' = parser /\ job' = job
                     /\ HandedOver' \subseteq HandedOver
<1>1. CASE Open
  BY <1>1, NothingNew DEF Open, HandedOver
<1>2. CASE OpenFails
  BY <1>2, NothingNew, MembersEmpty DEF OpenFails, HandedOver
<1>3. CASE WriterRecv
  <2>1. Members(entry') \subseteq Members(dns) /\ Members(dns') \subseteq Members(dns)
    BY <1>3, MembersHeadTail DEF WriterRecv, TypeOK
  <2>2. Moves
    BY <1>3, <2>1 DEF WriterRecv, HandedOver
  <2>. QED  BY <2>2, NothingNew
<1>4. CASE WriteBuffered
  <2>1. Members(buf') = Members(buf) \cup Members(entry) /\ Members(entry') = {}
    BY <1>4, MembersJoined, MembersEmpty DEF WriteBuffered, TypeOK
  <2>2. Moves
    BY <1>4, <2>1 DEF WriteBuffered, HandedOver
  <2>. QED  BY <2>2, NothingNew
<1>5. CASE WriteSpill
  <2>1. /\ Members(file') = Members(file) \cup Members(buf)
        /\ Members(buf') = Members(entry) /\ Members(entry') = {}
    BY <1>5, MembersJoined, MembersEmpty DEF WriteSpill, TypeOK
  <2>2. Moves
    BY <1>5, <2>1 DEF WriteSpill, HandedOver
  <2>. QED  BY <2>2, NothingNew
<1>6. ASSUME NEW n \in 0 .. Len(buf), WriteFails(n) \/ WriterDone(n)  PROVE VetInv'
  <2>1. /\ Members(SubSeq(buf, 1, n)) \subseteq Members(buf)
        /\ Members(SubSeq(buf, n + 1, Len(buf))) \subseteq Members(buf)
    BY MembersCut DEF TypeOK
  <2>2. PICK out \in Seq(Event) : out = SubSeq(buf, 1, n)
    BY Cut DEF TypeOK
  <2>3. Members(file') = Members(file) \cup Members(out)
    <3>1. file' = file \o out /\ file \in Seq(Event)
      BY <1>6, <2>2 DEF WriteFails, WriterDone, TypeOK
    <3>. QED  BY <3>1, MembersJoined
  <2>4. Members(buf') \subseteq Members(buf) /\ Members(entry') \subseteq Members(entry)
    BY <1>6, <2>1, MembersEmpty DEF WriteFails, WriterDone
  <2>5. Moves
    BY <1>6, <2>1, <2>2, <2>3, <2>4 DEF WriteFails, WriterDone, HandedOver
  <2>. QED  BY <2>5, NothingNew
<1>7. CASE WriteDirect
  <2>1. file \o buf \in Seq(Event)
    BY Joined DEF TypeOK
  <2>2. Members(file') = Members(file \o buf) \cup Members(entry)
    <3>. DEFINE flushed == file \o buf
    <3>1. file' = flushed \o entry /\ flushed \in Seq(Event) /\ entry \in Seq(Event)
      BY <1>7, <2>1 DEF WriteDirect, TypeOK
    <3>. HIDE DEF flushed
    <3>2. Members(file') = Members(flushed) \cup Members(entry)
      BY <3>1, MembersJoined
    <3>. QED  BY <3>2 DEF flushed
  <2>3. Members(file \o buf) = Members(file) \cup Members(buf)
    BY MembersJoined DEF TypeOK
  <2>4. Members(buf') = {} /\ Members(entry') = {}
    BY <1>7, MembersEmpty DEF WriteDirect
  <2>5. Moves
    BY <1>7, <2>2, <2>3, <2>4 DEF WriteDirect, HandedOver
  <2>. QED  BY <2>5, NothingNew
<1>. QED  BY <1>1, <1>2, <1>3, <1>4, <1>5, <1>6, <1>7 DEF Writer

LEMMA OthersVet ==
  ASSUME VetInv,
         (\E k \in Kinds : Arrive(k)) \/ Reader \/ CtrlC \/ Shutdown \/ UNCHANGED vars
  PROVE  VetInv'
<1>. USE DEF parserVars, writerVars
<1>1. CASE \E k \in Kinds : Arrive(k)
  BY <1>1, NothingNew DEF Arrive, HandedOver
<1>2. CASE Reader
  BY <1>2, NothingNew
     DEF Reader, ReaderWake, ReaderPark, ReaderSend, ReaderDrop, ReaderClosed, HandedOver
<1>3. CASE CtrlC \/ CancelReader
  BY <1>3, NothingNew DEF CtrlC, CancelReader, HandedOver
<1>4. CASE CancelParser
  BY <1>4, NothingNew DEF CancelParser, HandedOver
<1>5. CASE Exit
  BY <1>5, NothingNew, MembersEmpty DEF Exit, HandedOver
<1>6. CASE UNCHANGED vars
  BY <1>6, NothingNew DEF vars, HandedOver
<1>. QED  BY <1>1, <1>2, <1>3, <1>4, <1>5, <1>6 DEF Shutdown

LEMMA VetInductive == Spec => []VetInv
<1>1. Init => VetInv
  BY MembersEmpty, FS_EmptySet DEF Init, VetInv, PolicyBeforeLog, HandedOver
<1>2. Inv /\ VetInv /\ [Next]_vars => VetInv'
  BY ParserVets, WriterVets, OthersVet DEF Inv, Next
<1>. QED  BY <1>1, <1>2, Inductive, PTL DEF Spec

-----------------------------------------------------------------------------

\* Type correctness: queues hold events and stages are at a program point.
THEOREM TypeCorrect == Spec => []TypeOK
BY Inductive, PTL DEF Inv

\* Channel slots are never handed out twice and nothing outgrows its
\* capacity, for every capacity of the ring, the two channels and the
\* BufWriter.
THEOREM AlwaysBounded == Spec => []QueuesBounded
BY Inductive, PTL DEF Inv

\* Every event that arrived is held somewhere or was counted as lost, for any
\* number of events, through failures, dying stages and Ctrl-C.
THEOREM NothingVanishes == Spec => []Accounted
BY Inductive, PTL DEF Inv

\* Until Ctrl-C a stage is gone only if the stage behind it is.
THEOREM DeathFromTheBack == Spec => []DiesFromTheBack
BY Inductive, PTL DEF Inv

\* Whatever the writer was given had parsed, and its address was admitted
\* first unless the map was full.
THEOREM PolicyFirst == Spec => []PolicyBeforeLog
BY VetInductive, PTL DEF VetInv

-----------------------------------------------------------------------------
(* The order of events, from the hook to the disk.                         *)

\* The line up to a stage, and what follows it.
UpToBuf   == file \o buf
UpToEntry == UpToBuf \o entry
UpToDns   == UpToEntry \o dns
UpToJob   == UpToDns \o job
UpToRaw   == UpToJob \o raw

FromRaw   == raw \o ring
FromJob   == job \o FromRaw
FromDns   == dns \o FromJob
FromEntry == entry \o FromDns
FromBuf   == buf \o FromEntry

-----------------------------------------------------------------------------
(* The line cut at each stage.                                             *)

LEMMA Regroup ==
  \A s, t, u \in Seq(Event) : (s \o t) \o u = s \o (t \o u)
<1>1. ASSUME NEW s \in Seq(Event), NEW t \in Seq(Event), NEW u \in Seq(Event)
      PROVE  (s \o t) \o u = s \o (t \o u)
  OBVIOUS
<1> QED BY <1>1

LEMMA Closed ==
  /\ << >> \in Seq(Event)
  /\ \A s, t \in Seq(Event) : s \o t \in Seq(Event)
  /\ \A s \in Seq(Event) : s \o << >> = s
<1>1. << >> \in Seq(Event)
  OBVIOUS
<1>2. ASSUME NEW s \in Seq(Event), NEW t \in Seq(Event) PROVE s \o t \in Seq(Event)
  BY ConcatProperties
<1>3. ASSUME NEW s \in Seq(Event) PROVE s \o << >> = s
  BY ConcatEmptySeq
<1> QED BY <1>1, <1>2, <1>3

LEMMA Parts ==
  ASSUME TypeOK
  PROVE  /\ file \in Seq(Event) /\ buf \in Seq(Event) /\ entry \in Seq(Event)
         /\ dns \in Seq(Event) /\ job \in Seq(Event) /\ raw \in Seq(Event)
         /\ ring \in Seq(Event)
         /\ UpToBuf \in Seq(Event) /\ UpToEntry \in Seq(Event) /\ UpToDns \in Seq(Event)
         /\ UpToJob \in Seq(Event) /\ UpToRaw \in Seq(Event)
         /\ FromRaw \in Seq(Event) /\ FromJob \in Seq(Event) /\ FromDns \in Seq(Event)
         /\ FromEntry \in Seq(Event) /\ FromBuf \in Seq(Event)
<1>1. /\ file \in Seq(Event) /\ buf \in Seq(Event) /\ entry \in Seq(Event)
      /\ dns \in Seq(Event) /\ job \in Seq(Event) /\ raw \in Seq(Event)
      /\ ring \in Seq(Event)
  BY DEF TypeOK
<1>2. UpToBuf \in Seq(Event)
  BY <1>1, Closed, Zenon DEF UpToBuf
<1>3. UpToEntry \in Seq(Event)
  BY <1>1, <1>2, Closed, Zenon DEF UpToEntry
<1>4. UpToDns \in Seq(Event)
  BY <1>1, <1>3, Closed, Zenon DEF UpToDns
<1>5. UpToJob \in Seq(Event)
  BY <1>1, <1>4, Closed, Zenon DEF UpToJob
<1>6. UpToRaw \in Seq(Event)
  BY <1>1, <1>5, Closed, Zenon DEF UpToRaw
<1>7. FromRaw \in Seq(Event)
  BY <1>1, Closed, Zenon DEF FromRaw
<1>8. FromJob \in Seq(Event)
  BY <1>1, <1>7, Closed, Zenon DEF FromJob
<1>9. FromDns \in Seq(Event)
  BY <1>1, <1>8, Closed, Zenon DEF FromDns
<1>10. FromEntry \in Seq(Event)
  BY <1>1, <1>9, Closed, Zenon DEF FromEntry
<1>11. FromBuf \in Seq(Event)
  BY <1>1, <1>10, Closed, Zenon DEF FromBuf
<1> QED BY <1>1, <1>2, <1>3, <1>4, <1>5, <1>6, <1>7, <1>8, <1>9, <1>10, <1>11

\* What follows a stage can be put together first.
LEMMA TailView ==
  ASSUME TypeOK, NEW p \in Seq(Event)
  PROVE  /\ (p \o raw) \o ring = p \o FromRaw
         /\ ((p \o job) \o raw) \o ring = p \o FromJob
         /\ (((p \o dns) \o job) \o raw) \o ring = p \o FromDns
         /\ ((((p \o entry) \o dns) \o job) \o raw) \o ring = p \o FromEntry
         /\ (((((p \o buf) \o entry) \o dns) \o job) \o raw) \o ring = p \o FromBuf
<1>0. /\ buf \in Seq(Event) /\ entry \in Seq(Event) /\ dns \in Seq(Event)
      /\ job \in Seq(Event) /\ raw \in Seq(Event) /\ ring \in Seq(Event)
      /\ FromRaw \in Seq(Event) /\ FromJob \in Seq(Event) /\ FromDns \in Seq(Event)
      /\ FromEntry \in Seq(Event)
  BY Parts
<1>1. ASSUME NEW q \in Seq(Event) PROVE (q \o raw) \o ring = q \o FromRaw
  <2>1. raw \in Seq(Event) /\ ring \in Seq(Event)
    BY <1>0
  <2> QED BY <2>1, Regroup, Zenon DEF FromRaw
<1>2. ASSUME NEW q \in Seq(Event) PROVE ((q \o job) \o raw) \o ring = q \o FromJob
  <2>1. q \o job \in Seq(Event)
    BY <1>0, Closed, Zenon
  <2>2. ((q \o job) \o raw) \o ring = (q \o job) \o FromRaw
    BY <2>1, <1>1, Zenon
  <2>3. (q \o job) \o FromRaw = q \o (job \o FromRaw)
    <3>1. job \in Seq(Event) /\ FromRaw \in Seq(Event)
      BY <1>0
    <3> QED BY <3>1, Regroup, Zenon
  <2> QED BY <2>2, <2>3, Zenon DEF FromJob
<1>3. ASSUME NEW q \in Seq(Event) PROVE (((q \o dns) \o job) \o raw) \o ring = q \o FromDns
  <2>1. q \o dns \in Seq(Event)
    BY <1>0, Closed, Zenon
  <2>2. (((q \o dns) \o job) \o raw) \o ring = (q \o dns) \o FromJob
    BY <2>1, <1>2, Zenon
  <2>3. (q \o dns) \o FromJob = q \o (dns \o FromJob)
    <3>1. dns \in Seq(Event) /\ FromJob \in Seq(Event)
      BY <1>0
    <3> QED BY <3>1, Regroup, Zenon
  <2> QED BY <2>2, <2>3, Zenon DEF FromDns
<1>4. ASSUME NEW q \in Seq(Event)
      PROVE  ((((q \o entry) \o dns) \o job) \o raw) \o ring = q \o FromEntry
  <2>1. q \o entry \in Seq(Event)
    BY <1>0, Closed, Zenon
  <2>2. ((((q \o entry) \o dns) \o job) \o raw) \o ring = (q \o entry) \o FromDns
    BY <2>1, <1>3, Zenon
  <2>3. (q \o entry) \o FromDns = q \o (entry \o FromDns)
    <3>1. entry \in Seq(Event) /\ FromDns \in Seq(Event)
      BY <1>0
    <3> QED BY <3>1, Regroup, Zenon
  <2> QED BY <2>2, <2>3, Zenon DEF FromEntry
<1>5. (((((p \o buf) \o entry) \o dns) \o job) \o raw) \o ring = p \o FromBuf
  <2>1. p \o buf \in Seq(Event)
    BY <1>0, Closed, Zenon
  <2>2. (((((p \o buf) \o entry) \o dns) \o job) \o raw) \o ring = (p \o buf) \o FromEntry
    BY <2>1, <1>4, Zenon
  <2>3. (p \o buf) \o FromEntry = p \o (buf \o FromEntry)
    <3>1. buf \in Seq(Event) /\ FromEntry \in Seq(Event)
      BY <1>0
    <3> QED BY <3>1, Regroup, Zenon
  <2> QED BY <2>2, <2>3, Zenon DEF FromBuf
<1> QED BY <1>1, <1>2, <1>3, <1>4, <1>5, Zenon

LEMMA Views ==
  ASSUME TypeOK
  PROVE  /\ Line = UpToRaw \o ring
         /\ Line = UpToJob \o FromRaw
         /\ Line = UpToDns \o FromJob
         /\ Line = UpToEntry \o FromDns
         /\ Line = UpToBuf \o FromEntry
         /\ Line = file \o FromBuf
<1>1. Line = UpToRaw \o ring
  BY Zenon DEF Line, UpToRaw, UpToJob, UpToDns, UpToEntry, UpToBuf
<1>2. Line = UpToJob \o FromRaw
  BY <1>1, Parts, TailView, Zenon DEF UpToRaw
<1>3. Line = UpToDns \o FromJob
  BY <1>1, Parts, TailView, Zenon DEF UpToRaw, UpToJob
<1>4. Line = UpToEntry \o FromDns
  BY <1>1, Parts, TailView, Zenon DEF UpToRaw, UpToJob, UpToDns
<1>5. Line = UpToBuf \o FromEntry
  BY <1>1, Parts, TailView, Zenon DEF UpToRaw, UpToJob, UpToDns, UpToEntry
<1>6. Line = file \o FromBuf
  BY <1>1, Parts, TailView, Zenon DEF UpToRaw, UpToJob, UpToDns, UpToEntry, UpToBuf
<1> QED BY <1>1, <1>2, <1>3, <1>4, <1>5, <1>6

-----------------------------------------------------------------------------
(* InOrder is preserved.                                                   *)

LEMMA HeadFirst ==
  ASSUME NEW s \in Seq(Event), s # << >>
  PROVE  /\ <<Head(s)>> \in Seq(Event) /\ Tail(s) \in Seq(Event)
         /\ s = <<Head(s)>> \o Tail(s)
<1>1. <<Head(s)>> \in Seq(Event) /\ Tail(s) \in Seq(Event)
  BY HeadTail
<1>2. s = <<Head(s)>> \o Tail(s)
  OBVIOUS
<1> QED BY <1>1, <1>2

\* The line is what it was.
LEMMA Same ==
  ASSUME InOrder, Line' = Line, arrived' = arrived
  PROVE  InOrder'
BY DEF InOrder

\* A part x of the line is dropped.
LEMMA Dropped ==
  ASSUME InOrder, NEW p \in Seq(Event), NEW x \in Seq(Event), NEW q \in Seq(Event),
         Line = (p \o x) \o q, Line' = p \o q, arrived' = arrived
  PROVE  InOrder'
<1>1. Numbered((p \o x) \o q, arrived)
  BY DEF InOrder
<1>2. Numbered(p \o q, arrived)
  BY <1>1, CutMiddle
<1> QED BY <1>2 DEF InOrder

LEMMA QuietOrder ==
  ASSUME InOrder,
         ReaderWake \/ ReaderPark \/ ParserWake \/ ParserPark \/ ParserDone \/ Observe
           \/ Open \/ CtrlC \/ CancelReader \/ UNCHANGED vars
  PROVE  InOrder'
<1>1. UNCHANGED <<arrived, ring, raw, job, dns, entry, buf, file>>
  BY DEF ReaderWake, ReaderPark, ParserWake, ParserPark, ParserDone, Observe, Open,
         CtrlC, CancelReader, vars, kernelVars, parserVars, writerVars
<1>2. Line' = Line
  BY <1>1 DEF Line
<1> QED BY <1>1, <1>2, Same

LEMMA ArriveOrder ==
  ASSUME TypeOK, InOrder, NEW k \in Kinds, Arrive(k)
  PROVE  InOrder'
<1> DEFINE e == [id |-> arrived + 1, kind |-> k]
<1>0. /\ arrived \in Nat /\ arrived' = arrived + 1
      /\ UNCHANGED <<raw, job, dns, entry, buf, file>>
      /\ ring' = ring \/ ring' = Append(ring, e)
  BY DEF TypeOK, Arrive, parserVars, writerVars
<1>1. Line \in Seq(Event)
  <2>1. UpToRaw \in Seq(Event) /\ ring \in Seq(Event) /\ Line = UpToRaw \o ring
    BY Parts, Views
  <2> QED BY <2>1, Closed, Zenon
<1>2. \A x \in Event : x.id \in Int
  BY DEF Event
<1>3. Numbered(Line, arrived)
  BY DEF InOrder
<1>4. UpToRaw' = UpToRaw
  BY <1>0 DEF UpToRaw, UpToJob, UpToDns, UpToEntry, UpToBuf
<1>5. Line = UpToRaw \o ring /\ Line' = UpToRaw \o ring'
  BY <1>4, Zenon DEF Line, UpToRaw, UpToJob, UpToDns, UpToEntry, UpToBuf
<1>6. CASE ring' = ring
  <2>1. Line' = Line
    BY <1>5, <1>6
  <2>2. \A i \in DOMAIN Line : Line[i].id <= arrived /\ Line[i].id \in Int
    BY <1>1, <1>2, <1>3, ElementOfSeq DEF Numbered
  <2>3. \A i \in DOMAIN Line : Line[i].id <= arrived'
    BY <2>2, <1>0
  <2> QED BY <2>1, <2>3, <1>3 DEF InOrder, Numbered
<1>7. CASE ring' = Append(ring, e)
  <2>1. e \in Event
    BY <1>0 DEF Event
  <2>2. <<e>> \in Seq(Event) /\ Len(<<e>>) = 1 /\ <<e>>[1] = e /\ e.id = arrived + 1
    BY <2>1
  <2>3. Increasing(<<e>>)
    BY DEF Increasing
  <2>4. \A i \in 1 .. Len(<<e>>) : arrived < <<e>>[i].id /\ <<e>>[i].id <= arrived'
    BY <2>2, <1>0
  <2> DEFINE t == <<e>>
  <2>5. ring' = ring \o t
    <3>1. ring \in Seq(Event)
      BY Parts
    <3> QED BY <1>7, <2>1, <3>1, AppendIsConcat
  <2>6. /\ t \in Seq(Event) /\ Increasing(t)
        /\ \A i \in 1 .. Len(t) : arrived < t[i].id /\ t[i].id <= arrived'
    BY <2>2, <2>3, <2>4
  <2> HIDE DEF t, e
  <2>7. arrived \in Int /\ arrived' \in Int /\ arrived <= arrived'
    BY <1>0
  <2>8. Numbered(Line \o t, arrived')
    BY <1>1, <1>2, <1>3, <2>6, <2>7, AddNew
  <2>9. UpToRaw \in Seq(Event) /\ ring \in Seq(Event)
    BY Parts
  <2>10. (UpToRaw \o ring) \o t = UpToRaw \o (ring \o t)
    BY <2>6, <2>9, Regroup, Zenon
  <2>11. Line' = Line \o t
    BY <1>5, <2>5, <2>10, Zenon
  <2> QED BY <2>8, <2>11, Zenon DEF InOrder
<1> QED BY <1>0, <1>6, <1>7

LEMMA ReaderOrder ==
  ASSUME TypeOK, InOrder, ReaderSend \/ ReaderDrop \/ ReaderClosed
  PROVE  InOrder'
<1> DEFINE h == <<Head(ring)>>
           t == Tail(ring)
<1>0. /\ ring # << >> /\ ring' = t
      /\ UNCHANGED <<arrived, job, dns, entry, buf, file>>
  BY DEF ReaderSend, ReaderDrop, ReaderClosed, parserVars, writerVars
<1>1. /\ UpToJob \in Seq(Event) /\ UpToRaw \in Seq(Event) /\ raw \in Seq(Event)
      /\ ring \in Seq(Event)
  BY Parts
<1>2. h \in Seq(Event) /\ t \in Seq(Event) /\ ring = h \o t
  BY <1>0, <1>1, HeadFirst
<1>3. raw' = raw \/ raw' = raw \o h
  <2>1. Append(raw, Head(ring)) = raw \o h
    BY <1>1, <1>0, HeadTail, AppendIsConcat
  <2> QED BY <2>1 DEF ReaderSend, ReaderDrop, ReaderClosed
<1> HIDE DEF h, t
<1>4. Line = (UpToRaw \o h) \o t
  <2>1. Line = UpToRaw \o (h \o t)
    BY <1>2, Views
  <2>2. UpToRaw \in Seq(Event) /\ h \in Seq(Event) /\ t \in Seq(Event)
    BY <1>1, <1>2
  <2>3. (UpToRaw \o h) \o t = UpToRaw \o (h \o t)
    BY <2>2, Regroup, Zenon
  <2> QED BY <2>1, <2>3
<1>5. UpToJob' = UpToJob
  BY <1>0 DEF UpToJob, UpToDns, UpToEntry, UpToBuf
<1>6. Line' = (UpToJob \o raw') \o t
  BY <1>0, <1>5, Zenon DEF Line, UpToJob, UpToDns, UpToEntry, UpToBuf
<1>7. CASE raw' = raw
  <2>1. Line' = UpToRaw \o t
    BY <1>6, <1>7 DEF UpToRaw
  <2> QED BY <2>1, <1>0, <1>1, <1>2, <1>4, Dropped
<1>8. CASE raw' = raw \o h
  <2>1. UpToJob \in Seq(Event) /\ raw \in Seq(Event) /\ h \in Seq(Event)
    BY <1>1, <1>2
  <2>2. UpToJob \o (raw \o h) = (UpToJob \o raw) \o h
    BY <2>1, Regroup, Zenon
  <2>3. Line' = Line
    BY <1>4, <1>6, <1>8, <2>2, Zenon DEF UpToRaw
  <2> QED BY <2>3, <1>0, Same
<1> QED BY <1>3, <1>7, <1>8

LEMMA ParserRecvOrder ==
  ASSUME TypeOK, Hands, InOrder, ParserRecv
  PROVE  InOrder'
<1> DEFINE h == <<Head(raw)>>
           t == Tail(raw)
<1>0. /\ raw # << >> /\ job' = h /\ raw' = t /\ parser = "recv"
      /\ UNCHANGED <<arrived, ring, dns, entry, buf, file>>
  BY DEF ParserRecv, kernelVars, writerVars
<1>1. UpToDns \in Seq(Event) /\ raw \in Seq(Event) /\ job \in Seq(Event)
  BY Parts
<1>2. h \in Seq(Event) /\ t \in Seq(Event) /\ raw = h \o t
  BY <1>0, <1>1, HeadFirst
<1> HIDE DEF h, t
<1>3. job = << >>
  <2>1. Len(job) = 0
    BY <1>0 DEF Hands
  <2> QED BY <1>1, <2>1, EmptySeq
<1>4. UpToJob = UpToDns
  <2>1. UpToDns \o << >> = UpToDns
    BY <1>1, Closed, Zenon
  <2> QED BY <1>3, <2>1, Zenon DEF UpToJob
<1>5. (UpToDns \o h) \o t = UpToDns \o raw
  <2>1. UpToDns \in Seq(Event) /\ h \in Seq(Event) /\ t \in Seq(Event)
    BY <1>1, <1>2
  <2>2. (UpToDns \o h) \o t = UpToDns \o (h \o t)
    BY <2>1, Regroup, Zenon
  <2> QED BY <1>2, <2>2, Zenon
<1>6. UpToDns' = UpToDns
  BY <1>0 DEF UpToDns, UpToEntry, UpToBuf
<1>7. Line' = ((UpToDns \o h) \o t) \o ring
  BY <1>0, <1>6, Zenon DEF Line, UpToDns, UpToEntry, UpToBuf
<1>8. Line = (UpToDns \o raw) \o ring
  BY <1>4, Views, Zenon DEF UpToRaw
<1>9. Line' = Line
  BY <1>5, <1>7, <1>8, Zenon
<1> QED BY <1>0, <1>9, Same

\* The job is dropped, alone or with what is queued behind it.
LEMMA ParserDropOrder ==
  ASSUME TypeOK, InOrder, ParseFails \/ ParserDrop \/ ParserClosed
  PROVE  InOrder'
<1>0. /\ job' = << >> /\ UNCHANGED <<arrived, ring, dns, entry, buf, file>>
      /\ raw' = raw \/ raw' = << >>
  BY DEF ParseFails, ParserDrop, ParserClosed, kernelVars, writerVars
<1>1. /\ UpToDns \in Seq(Event) /\ UpToJob \in Seq(Event) /\ job \in Seq(Event)
      /\ raw \in Seq(Event) /\ ring \in Seq(Event) /\ FromRaw \in Seq(Event)
  BY Parts
<1>2. UpToDns \o << >> = UpToDns
  BY <1>1, Closed, Zenon
<1>3. UpToDns' = UpToDns
  BY <1>0 DEF UpToDns, UpToEntry, UpToBuf
<1>4. Line' = ((UpToDns \o << >>) \o raw') \o ring
  BY <1>0, <1>3, Zenon DEF Line, UpToDns, UpToEntry, UpToBuf
<1>5. Line' = (UpToDns \o raw') \o ring
  BY <1>2, <1>4, Zenon
<1>6. CASE raw' = raw
  <2>1. Line' = UpToDns \o FromRaw
    BY <1>1, <1>5, <1>6, TailView, Zenon
  <2>2. Line = (UpToDns \o job) \o FromRaw
    BY Views, Zenon DEF UpToJob
  <2> QED BY <2>1, <2>2, <1>0, <1>1, Dropped
<1>7. CASE raw' = << >>
  <2>1. Line' = UpToDns \o ring
    BY <1>2, <1>5, <1>7, Zenon
  <2> DEFINE x == job \o raw
  <2>2. x \in Seq(Event)
    BY <1>1, Closed, Zenon
  <2>3. (UpToDns \o job) \o raw = UpToDns \o x
    <3>1. UpToDns \in Seq(Event) /\ job \in Seq(Event) /\ raw \in Seq(Event)
      BY <1>1
    <3> QED BY <3>1, Regroup, Zenon
  <2> HIDE DEF x
  <2>4. Line = (UpToDns \o x) \o ring
    BY <2>3, Views, Zenon DEF UpToRaw, UpToJob
  <2> QED BY <2>1, <2>2, <2>4, <1>0, <1>1, Dropped
<1> QED BY <1>0, <1>6, <1>7

LEMMA ParserSendOrder ==
  ASSUME TypeOK, InOrder, ParserSend
  PROVE  InOrder'
<1>0. /\ job' = << >> /\ dns' = dns \o job
      /\ UNCHANGED <<arrived, ring, raw, entry, buf, file>>
  BY DEF ParserSend, kernelVars, writerVars
<1>1. /\ UpToEntry \in Seq(Event) /\ dns \in Seq(Event) /\ job \in Seq(Event)
      /\ UpToJob \in Seq(Event)
  BY Parts
<1>2. UpToEntry' = UpToEntry
  BY <1>0 DEF UpToEntry, UpToBuf
<1>3. Line' = (((UpToEntry \o (dns \o job)) \o << >>) \o raw) \o ring
  BY <1>0, <1>2, Zenon DEF Line, UpToEntry, UpToBuf
<1>4. UpToEntry \o (dns \o job) = UpToJob
  <2>1. UpToEntry \in Seq(Event) /\ dns \in Seq(Event) /\ job \in Seq(Event)
    BY <1>1
  <2>2. (UpToEntry \o dns) \o job = UpToEntry \o (dns \o job)
    BY <2>1, Regroup, Zenon
  <2> QED BY <2>2, Zenon DEF UpToJob, UpToDns
<1>5. UpToJob \o << >> = UpToJob
  BY <1>1, Closed, Zenon
<1>6. Line' = Line
  BY <1>3, <1>4, <1>5, Views, Zenon DEF UpToRaw
<1> QED BY <1>0, <1>6, Same

LEMMA CancelParserOrder ==
  ASSUME TypeOK, InOrder, CancelParser
  PROVE  InOrder'
<1>0. raw' = << >> /\ UNCHANGED <<arrived, ring, job, dns, entry, buf, file>>
  BY DEF CancelParser, kernelVars, writerVars
<1>1. UpToJob \in Seq(Event) /\ raw \in Seq(Event) /\ ring \in Seq(Event)
  BY Parts
<1>2. UpToJob' = UpToJob
  BY <1>0 DEF UpToJob, UpToDns, UpToEntry, UpToBuf
<1>3. Line' = (UpToJob \o << >>) \o ring
  BY <1>0, <1>2, Zenon DEF Line, UpToJob, UpToDns, UpToEntry, UpToBuf
<1>4. UpToJob \o << >> = UpToJob
  BY <1>1, Closed, Zenon
<1>5. Line' = UpToJob \o ring
  BY <1>3, <1>4, Zenon
<1>6. Line = (UpToJob \o raw) \o ring
  BY Views, Zenon DEF UpToRaw
<1> QED BY <1>0, <1>1, <1>5, <1>6, Dropped

LEMMA OpenFailsOrder ==
  ASSUME TypeOK, InOrder, OpenFails
  PROVE  InOrder'
<1>0. dns' = << >> /\ UNCHANGED <<arrived, ring, raw, job, entry, buf, file>>
  BY DEF OpenFails, kernelVars, parserVars
<1>1. UpToEntry \in Seq(Event) /\ dns \in Seq(Event) /\ FromJob \in Seq(Event)
  BY Parts
<1>2. UpToEntry' = UpToEntry
  BY <1>0 DEF UpToEntry, UpToBuf
<1>3. Line' = (((UpToEntry \o << >>) \o job) \o raw) \o ring
  BY <1>0, <1>2, Zenon DEF Line, UpToEntry, UpToBuf
<1>4. UpToEntry \o << >> = UpToEntry
  BY <1>1, Closed, Zenon
<1>5. Line' = UpToEntry \o FromJob
  BY <1>1, <1>3, <1>4, TailView, Zenon
<1>6. Line = (UpToEntry \o dns) \o FromJob
  BY Views, Zenon DEF UpToDns
<1> QED BY <1>0, <1>1, <1>5, <1>6, Dropped

LEMMA WriterRecvOrder ==
  ASSUME TypeOK, Hands, InOrder, WriterRecv
  PROVE  InOrder'
<1> DEFINE h == <<Head(dns)>>
           t == Tail(dns)
<1>0. /\ dns # << >> /\ entry' = h /\ dns' = t /\ writer = "recv"
      /\ UNCHANGED <<arrived, ring, raw, job, buf, file>>
  BY DEF WriterRecv, kernelVars, parserVars
<1>1. UpToBuf \in Seq(Event) /\ dns \in Seq(Event) /\ entry \in Seq(Event)
  BY Parts
<1>2. h \in Seq(Event) /\ t \in Seq(Event) /\ dns = h \o t
  BY <1>0, <1>1, HeadFirst
<1> HIDE DEF h, t
<1>3. entry = << >>
  <2>1. Len(entry) = 0
    BY <1>0 DEF Hands
  <2> QED BY <1>1, <2>1, EmptySeq
<1>4. UpToEntry = UpToBuf
  <2>1. UpToBuf \o << >> = UpToBuf
    BY <1>1, Closed, Zenon
  <2> QED BY <1>3, <2>1, Zenon DEF UpToEntry
<1>5. (UpToBuf \o h) \o t = UpToBuf \o dns
  <2>1. UpToBuf \in Seq(Event) /\ h \in Seq(Event) /\ t \in Seq(Event)
    BY <1>1, <1>2
  <2>2. (UpToBuf \o h) \o t = UpToBuf \o (h \o t)
    BY <2>1, Regroup, Zenon
  <2> QED BY <1>2, <2>2, Zenon
<1>6. UpToBuf' = UpToBuf
  BY <1>0 DEF UpToBuf
<1>7. Line' = ((((UpToBuf \o h) \o t) \o job) \o raw) \o ring
  BY <1>0, <1>6, Zenon DEF Line, UpToBuf
<1>8. Line = (((UpToBuf \o dns) \o job) \o raw) \o ring
  BY <1>4, Views, Zenon DEF UpToRaw, UpToJob, UpToDns
<1>9. Line' = Line
  BY <1>5, <1>7, <1>8, Zenon
<1> QED BY <1>0, <1>9, Same

LEMMA WriteOrder ==
  ASSUME TypeOK, InOrder, WriteBuffered \/ WriteSpill \/ WriteDirect
  PROVE  InOrder'
<1>0. /\ entry' = << >> /\ UNCHANGED <<arrived, ring, raw, job, dns>>
      /\ \/ file' = file /\ buf' = buf \o entry
         \/ file' = file \o buf /\ buf' = entry
         \/ file' = UpToEntry /\ buf' = << >>
  BY DEF WriteBuffered, WriteSpill, WriteDirect, kernelVars, parserVars, UpToEntry, UpToBuf
<1>1. /\ file \in Seq(Event) /\ buf \in Seq(Event) /\ entry \in Seq(Event)
  BY Parts
<1>2. UpToEntry \o << >> = UpToEntry
  BY Parts, Closed, Zenon
<1>3. file' \o buf' = UpToEntry
  <2>1. (file \o buf) \o entry = file \o (buf \o entry)
    BY <1>1, Regroup, Zenon
  <2>2. (file \o buf) \o entry = UpToEntry
    BY DEF UpToEntry, UpToBuf
  <2> QED BY <1>0, <1>2, <2>1, <2>2, Zenon
<1>4. Line' = ((((UpToEntry \o << >>) \o dns) \o job) \o raw) \o ring
  BY <1>0, <1>3, Zenon DEF Line
<1>5. Line' = Line
  BY <1>2, <1>4, Views, Zenon DEF UpToRaw, UpToJob, UpToDns
<1> QED BY <1>0, <1>5, Same

\* What a flush that fails has written, and what it has not.
LEMMA BufferSplit ==
  ASSUME TypeOK, NEW n \in 0 .. Len(buf)
  PROVE  /\ SubSeq(buf, 1, n) \in Seq(Event) /\ SubSeq(buf, n + 1, Len(buf)) \in Seq(Event)
         /\ file \o SubSeq(buf, 1, n) \in Seq(Event)
         /\ (file \o SubSeq(buf, 1, n)) \o SubSeq(buf, n + 1, Len(buf)) = UpToBuf
<1> DEFINE a == SubSeq(buf, 1, n)
           b == SubSeq(buf, n + 1, Len(buf))
<1>1. file \in Seq(Event) /\ buf \in Seq(Event)
  BY Parts
<1>2. a \in Seq(Event) /\ b \in Seq(Event) /\ buf = a \o b
  BY <1>1, SplitSeq
<1> HIDE DEF a, b
<1>3. file \o a \in Seq(Event)
  BY <1>1, <1>2, Closed, Zenon
<1>4. (file \o a) \o b = file \o (a \o b)
  <2>1. file \in Seq(Event) /\ a \in Seq(Event) /\ b \in Seq(Event)
    BY <1>1, <1>2
  <2> QED BY <2>1, Regroup, Zenon
<1>5. (file \o a) \o b = UpToBuf
  BY <1>2, <1>4, Zenon DEF UpToBuf
<1> QED BY <1>2, <1>3, <1>5 DEF a, b

LEMMA WriteFailsOrder ==
  ASSUME TypeOK, InOrder, NEW n \in 0 .. Len(buf), WriteFails(n)
  PROVE  InOrder'
<1> DEFINE a == SubSeq(buf, 1, n)
           b == SubSeq(buf, n + 1, Len(buf))
<1>0. /\ file' = file \o a /\ buf' = b /\ entry' = << >>
      /\ UNCHANGED <<arrived, ring, raw, job, dns>>
  BY DEF WriteFails, kernelVars, parserVars
<1>1. (file \o a) \o b = UpToBuf
  BY BufferSplit
<1>2. UpToBuf \in Seq(Event) /\ entry \in Seq(Event) /\ FromDns \in Seq(Event)
  BY Parts
<1> HIDE DEF a, b
<1>3. Line' = (((((UpToBuf \o << >>) \o dns) \o job) \o raw)) \o ring
  BY <1>0, <1>1, Zenon DEF Line
<1>4. UpToBuf \o << >> = UpToBuf
  BY <1>2, Closed, Zenon
<1>5. Line' = UpToBuf \o FromDns
  BY <1>2, <1>3, <1>4, TailView, Zenon
<1>6. Line = (UpToBuf \o entry) \o FromDns
  BY Views, Zenon DEF UpToEntry
<1> QED BY <1>0, <1>2, <1>5, <1>6, Dropped

LEMMA WriterDoneOrder ==
  ASSUME TypeOK, InOrder, NEW n \in 0 .. Len(buf), WriterDone(n)
  PROVE  InOrder'
<1> DEFINE a == SubSeq(buf, 1, n)
           b == SubSeq(buf, n + 1, Len(buf))
           p == file \o a
<1>0. /\ file' = p /\ buf' = << >> /\ UNCHANGED <<arrived, ring, raw, job, dns, entry>>
  BY DEF WriterDone, kernelVars, parserVars
<1>1. p \in Seq(Event) /\ b \in Seq(Event) /\ p \o b = UpToBuf
  BY BufferSplit
<1>2. FromEntry \in Seq(Event)
  BY Parts
<1> HIDE DEF a, b, p
<1>3. Line' = (((((p \o << >>) \o entry) \o dns) \o job) \o raw) \o ring
  BY <1>0, Zenon DEF Line
<1>4. p \o << >> = p
  BY <1>1, Closed, Zenon
<1>5. Line' = p \o FromEntry
  BY <1>1, <1>3, <1>4, TailView, Zenon
<1>6. Line = (p \o b) \o FromEntry
  BY <1>1, Views, Zenon
<1> QED BY <1>0, <1>1, <1>2, <1>5, <1>6, Dropped

LEMMA ExitOrder ==
  ASSUME TypeOK, Hands, InOrder, Exit
  PROVE  InOrder'
<1>0. /\ ring' = << >> /\ dns' = << >> /\ entry' = << >> /\ buf' = << >>
      /\ parser = "exited" /\ UNCHANGED <<arrived, raw, job, file>>
  BY DEF Exit, parserVars
<1>1. job = << >> /\ raw = << >>
  <2>1. Len(job) = 0 /\ raw = << >>
    BY <1>0 DEF Hands
  <2> QED BY <2>1, Parts, EmptySeq
<1>2. file \in Seq(Event) /\ FromBuf \in Seq(Event) /\ file \o << >> = file
  BY Parts, Closed, Zenon
<1>3. Line' = file
  BY <1>0, <1>1, <1>2, Zenon DEF Line
<1>4. Numbered(file \o FromBuf, arrived)
  BY Views DEF InOrder
<1>5. Numbered(file, arrived)
  BY <1>2, <1>4, CutEnd
<1> QED BY <1>0, <1>3, <1>5 DEF InOrder

LEMMA OrderStep ==
  ASSUME Inv, InOrder, [Next]_vars
  PROVE  InOrder'
<1>0. TypeOK /\ Hands
  BY DEF Inv
<1>1. CASE \E k \in Kinds : Arrive(k)
  BY <1>0, <1>1, ArriveOrder
<1>2. CASE Reader
  BY <1>0, <1>2, QuietOrder, ReaderOrder DEF Reader
<1>3. CASE Parser
  BY <1>0, <1>3, QuietOrder, ParserRecvOrder, ParserDropOrder, ParserSendOrder DEF Parser
<1>4. CASE Writer
  BY <1>0, <1>4, QuietOrder, OpenFailsOrder, WriterRecvOrder, WriteOrder, WriteFailsOrder,
     WriterDoneOrder DEF Writer
<1>5. CASE CtrlC \/ Shutdown
  BY <1>0, <1>5, QuietOrder, CancelParserOrder, ExitOrder DEF Shutdown
<1>6. CASE UNCHANGED vars
  BY <1>6, QuietOrder
<1> QED BY <1>1, <1>2, <1>3, <1>4, <1>5, <1>6 DEF Next

\* Events keep the order of their arrival from the ring to the file, and none
\* is ever in two places, for every capacity and number of events.
THEOREM OrderKept == Spec => []InOrder
<1>1. Init => InOrder
  <2> SUFFICES ASSUME Init PROVE InOrder OBVIOUS
  <2>1. << >> \o << >> = << >>
    BY Closed, Zenon
  <2>2. Line = << >>
    BY <2>1, Zenon DEF Init, Line
  <2> QED BY <2>2 DEF InOrder, Numbered, Increasing
<1>2. Inv /\ InOrder /\ [Next]_vars => InOrder'
  BY OrderStep
<1> QED BY <1>1, <1>2, Inductive, PTL DEF Spec

-----------------------------------------------------------------------------
(* The abstract log.                                                       *)

\* Only the writer touches the file, and it only appends.
LEMMA FileGrows ==
  ASSUME TypeOK, [Next]_vars
  PROVE  \/ file' = file /\ arrived' \in {arrived, arrived + 1}
         \/ arrived' = arrived /\ \E s \in Seq(Event) : file' = file \o s
<1>1. CASE \E k \in Kinds : Arrive(k)
  BY <1>1 DEF Arrive, writerVars
<1>2. CASE Reader
  BY <1>2 DEF Reader, ReaderWake, ReaderPark, ReaderSend, ReaderDrop, ReaderClosed,
              kernelVars, writerVars
<1>3. CASE Parser
  BY <1>3 DEF Parser, ParserWake, ParserPark, ParserRecv, ParserDone, ParseFails, Observe,
              ParserSend, ParserDrop, ParserClosed, kernelVars, writerVars
<1>4. CASE Open \/ OpenFails \/ WriterRecv \/ WriteBuffered
  BY <1>4 DEF Open, OpenFails, WriterRecv, WriteBuffered, kernelVars
<1>5. CASE WriteSpill
  BY <1>5, Parts DEF WriteSpill, kernelVars
<1>6. CASE WriteDirect
  <2>1. file \in Seq(Event) /\ buf \in Seq(Event) /\ entry \in Seq(Event)
    BY Parts
  <2>2. (file \o buf) \o entry = file \o (buf \o entry)
    BY <2>1, Regroup, Zenon
  <2>3. buf \o entry \in Seq(Event)
    BY <2>1, Closed, Zenon
  <2>4. arrived' = arrived /\ file' = file \o (buf \o entry)
    BY <1>6, <2>2 DEF WriteDirect, kernelVars
  <2> QED BY <2>3, <2>4
<1>7. ASSUME NEW n \in 0 .. Len(buf), WriteFails(n) \/ WriterDone(n)
      PROVE  arrived' = arrived /\ \E s \in Seq(Event) : file' = file \o s
  <2>1. SubSeq(buf, 1, n) \in Seq(Event)
    BY BufferSplit
  <2> QED BY <1>7, <2>1 DEF WriteFails, WriterDone, kernelVars
<1>8. CASE CtrlC \/ Shutdown
  BY <1>8 DEF CtrlC, Shutdown, CancelReader, CancelParser, Exit, kernelVars, writerVars
<1>9. CASE UNCHANGED vars
  BY <1>9 DEF vars
<1> QED BY <1>1, <1>2, <1>3, <1>4, <1>5, <1>6, <1>7, <1>8, <1>9 DEF Next, Writer

\* The file holds a prefix of the line, so it is in order.
LEMMA FileInOrder ==
  ASSUME TypeOK, InOrder
  PROVE  Numbered(file, arrived)
<1>1. file \in Seq(Event) /\ FromBuf \in Seq(Event)
  BY Parts
<1>2. Numbered(file \o FromBuf, arrived)
  BY Views DEF InOrder
<1> QED BY <1>1, <1>2, CutEnd

\* What the abstract log asks of the records in the file.
GoodFile ==
  /\ file \in Seq(Event)
  /\ Numbered(file, arrived)
  /\ \A i \in DOMAIN file : file[i].kind # "bad"

LEMMA FileIsGood ==
  ASSUME TypeOK, InOrder, PolicyBeforeLog
  PROVE  GoodFile
<1>1. \A i \in DOMAIN file : file[i] \in HandedOver
  BY DEF HandedOver, Members
<1> QED BY <1>1, FileInOrder DEF GoodFile, PolicyBeforeLog, Vetted, TypeOK

LEMMA RefinementStep ==
  ASSUME TypeOK, GoodFile', [Next]_vars
  PROVE  [Audit!AuditNext]_(Audit!auditVars)
<1>1. CASE file' = file /\ arrived' \in {arrived, arrived + 1}
  BY <1>1 DEF Audit!AuditNext, Audit!Arrival, Audit!auditVars
<1>2. ASSUME arrived' = arrived, NEW s \in Seq(Event), file' = file \o s
      PROVE  [Audit!AuditNext]_(Audit!auditVars)
  <2>1. file \in Seq(Event)
    BY Parts
  <2>2. CASE s = << >>
    <3>1. file' = file
      BY <1>2, <2>1, <2>2, Closed, Zenon
    <3> QED BY <1>2, <3>1 DEF Audit!auditVars
  <2>3. CASE s # << >>
    <3>1. Len(file) < Len(file')
      <4>1. Len(s) \in Nat /\ Len(s) > 0 /\ Len(file) \in Nat
        BY <2>1, <2>3, HeadTail, LenProperties
      <4>2. Len(file \o s) = Len(file) + Len(s)
        BY <2>1, Joined
      <4> QED BY <1>2, <4>1, <4>2
    <3>2. SubSeq(file', 1, Len(file)) = file
      BY <1>2, <2>1, SubSeqOfConcat1, SubSeqFull
    <3>3. Audit!Numbered(file', arrived)
      BY <1>2 DEF GoodFile, Numbered, Increasing, Audit!Numbered, Audit!Increasing
    <3>4. \A i \in DOMAIN file' : file'[i].kind # "bad"
      BY DEF GoodFile
    <3>5. Audit!Extend
      BY <1>2, <3>1, <3>2, <3>3, <3>4 DEF Audit!Extend
    <3> QED BY <3>5 DEF Audit!AuditNext
  <2> QED BY <2>2, <2>3
<1> QED BY <1>1, <1>2, FileGrows

\* The pipeline implements the abstract log, for every capacity and number of
\* events: what is in the file stays there, and what is appended are parsable
\* events, none of them twice, in the order in which they reached the hook.
THEOREM Refinement == Spec => ImplementsAuditLog
<1>1. Init => Audit!AuditInit
  BY DEF Init, Audit!AuditInit
<1>2. TypeOK /\ InOrder /\ PolicyBeforeLog => GoodFile
  BY FileIsGood
<1>3. TypeOK /\ GoodFile' /\ [Next]_vars => [Audit!AuditNext]_(Audit!auditVars)
  BY RefinementStep
<1> QED BY <1>1, <1>2, <1>3, TypeCorrect, OrderKept, PolicyFirst, PTL
    DEF Spec, ImplementsAuditLog, Audit!AuditSpec

-----------------------------------------------------------------------------
(* The daemon from start to end.                                           *)

\* The process ended without having had a pipeline.
Gone == boot = "failed" \/ (boot = "alone" /\ main = "exited")

\* Nothing has left the ring.
NothingRead ==
  /\ raw = << >> /\ job = << >> /\ dns = << >>
  /\ entry = << >> /\ buf = << >> /\ file = << >>

DaemonInv ==
  /\ AccountedAndInOrder
  /\ ~Gone => Inv
  /\ Gone => main = "exited"
  /\ boot # "up" => NothingRead /\ arrived \in Nat /\ lost \in Nat /\ ring \in Seq(Event)
  /\ boot \notin {"up", "alone", "failed"} => main = "running"

-----------------------------------------------------------------------------

LEMMA InitDaemonInv == DaemonInit => DaemonInv
<1> SUFFICES ASSUME DaemonInit PROVE DaemonInv OBVIOUS
<1>1. boot = "rlimit" /\ Init
  BY DEF DaemonInit, Startup
<1>2. << >> \o << >> = << >>
  BY Closed, Zenon
<1>3. Line = << >>
  BY <1>1, <1>2, Zenon DEF Init, Line
<1>4. InOrder
  BY <1>3 DEF InOrder, Numbered, Increasing
<1>5. Inv
  BY <1>1, InitInv
<1> QED BY <1>1, <1>4, <1>5
        DEF DaemonInv, AccountedAndInOrder, Gone, NothingRead, Inv, TypeOK, Init

\* While the process is alive, what the pipeline may do keeps the invariant.
LEMMA PipelineStep ==
  ASSUME DaemonInv, ~Gone, [Next]_vars
  PROVE  Inv' /\ AccountedAndInOrder'
<1>1. Inv /\ InOrder
  BY DEF DaemonInv, AccountedAndInOrder
<1>2. Inv'
  BY <1>1, ArriveInv, ReaderInv, ParserInv, WriterInv, MainInv, StutterInv DEF Inv, Next
<1>3. InOrder'
  BY <1>1, OrderStep
<1> QED BY <1>2, <1>3 DEF Inv, AccountedAndInOrder

LEMMA BootStep ==
  ASSUME DaemonInv, Proceed \/ Assemble \/ AssembleFails
  PROVE  DaemonInv'
<1>1. UNCHANGED vars
  BY DEF Proceed, Assemble, AssembleFails
<1>2. /\ boot \notin {"up", "alone", "failed"} /\ boot' # "failed"
  BY DEF Proceed, Assemble, AssembleFails, Startup
<1>3. main = "running" /\ main' = "running" /\ ~Gone /\ ~Gone'
  BY <1>1, <1>2 DEF DaemonInv, Gone, vars
<1>4. Inv' /\ AccountedAndInOrder'
  BY <1>1, <1>3, PipelineStep
<1>5. NothingRead' /\ arrived' \in Nat /\ lost' \in Nat /\ ring' \in Seq(Event)
  BY <1>1, <1>2 DEF DaemonInv, NothingRead, vars
<1> QED BY <1>3, <1>4, <1>5 DEF DaemonInv

LEMMA LeaveStep ==
  ASSUME DaemonInv, Leave, boot # "up", boot' = "failed" \/ boot' = "alone"
  PROVE  DaemonInv'
<1>1. /\ NothingRead /\ arrived \in Nat /\ lost \in Nat /\ ring \in Seq(Event)
      /\ Accounted /\ InOrder
  BY DEF DaemonInv, AccountedAndInOrder
<1>2. /\ main' = "exited" /\ ring' = << >> /\ lost' = lost + Len(ring)
      /\ UNCHANGED <<arrived, raw, job, dns, entry, buf, file>>
  BY DEF Leave, parserVars, writerVars
<1>3. NothingRead'
  BY <1>1, <1>2 DEF NothingRead
<1>4. Len(ring) \in Nat /\ lost' \in Nat
  BY <1>1, <1>2
<1>5. Accounted'
  <2>1. arrived = Len(ring) + lost
    BY <1>1, <1>4 DEF Accounted, NothingRead, Upstream, Downstream
  <2>2. Upstream' = 0 /\ Downstream' = 0
    BY <1>2, <1>3 DEF NothingRead, Upstream, Downstream
  <2> QED BY <1>1, <1>2, <1>4, <2>1, <2>2 DEF Accounted
<1>6. InOrder'
  <2>1. << >> \o << >> = << >>
    BY Closed, Zenon
  <2>2. Line' = << >>
    BY <1>2, <1>3, <2>1, Zenon DEF NothingRead, Line
  <2> QED BY <2>2 DEF InOrder, Numbered, Increasing
<1>7. Gone'
  BY <1>2 DEF Gone
<1> QED BY <1>1, <1>2, <1>3, <1>4, <1>5, <1>6, <1>7 DEF DaemonInv, AccountedAndInOrder

LEMMA CaptureStep ==
  ASSUME DaemonInv, (\E k \in Kinds : Capture(k)) \/ Interrupt
  PROVE  DaemonInv'
<1>1. /\ main = "running" /\ boot' = boot
      /\ UNCHANGED <<raw, job, dns, entry, buf, file>>
      /\ main' \in {"running", "stopping"}
      /\ boot \in {"up", "alone"} \/ main' = "running"
  BY DEF Capture, Arrive, Interrupt, CtrlC, bootVars, parserVars, writerVars
<1>2. ~Gone /\ ~Gone'
  BY <1>1 DEF DaemonInv, Gone
<1>3. [Next]_vars
  BY DEF Capture, Interrupt, Next
<1>4. Inv' /\ AccountedAndInOrder'
  BY <1>2, <1>3, PipelineStep
<1>5. arrived' \in Nat /\ lost' \in Nat /\ ring' \in Seq(Event)
  BY <1>4 DEF Inv, TypeOK
<1>6. boot' # "up" => NothingRead'
  BY <1>1 DEF DaemonInv, NothingRead
<1> QED BY <1>1, <1>2, <1>4, <1>5, <1>6 DEF DaemonInv

LEMMA UpStep ==
  ASSUME DaemonInv, boot = "up", boot' = boot, [Next]_vars
  PROVE  DaemonInv'
<1>1. ~Gone /\ ~Gone'
  BY DEF Gone
<1>2. Inv' /\ AccountedAndInOrder'
  BY <1>1, PipelineStep
<1> QED BY <1>1, <1>2 DEF DaemonInv

LEMMA DaemonStutter ==
  ASSUME DaemonInv, UNCHANGED daemonVars
  PROVE  DaemonInv'
<1>1. UNCHANGED vars /\ boot' = boot
  BY DEF daemonVars, bootVars
<1>2. Gone' <=> Gone
  BY <1>1 DEF Gone, vars
<1>3. Inv => Inv'
  BY <1>1, StutterInv
<1>4. AccountedAndInOrder'
  <2>1. UNCHANGED <<arrived, lost, ring, raw, job, dns, entry, buf, file>>
    BY <1>1 DEF vars
  <2>2. Line' = Line
    BY <2>1 DEF Line
  <2>3. InOrder'
    BY <2>1, <2>2, Same DEF DaemonInv, AccountedAndInOrder
  <2>4. Accounted'
    BY <2>1 DEF DaemonInv, AccountedAndInOrder, Accounted, Upstream, Downstream
  <2> QED BY <2>3, <2>4 DEF AccountedAndInOrder
<1> QED BY <1>1, <1>2, <1>3, <1>4 DEF DaemonInv, NothingRead, vars

LEMMA DaemonStep == DaemonInv /\ [DaemonNext]_daemonVars => DaemonInv'
<1> SUFFICES ASSUME DaemonInv, [DaemonNext]_daemonVars PROVE DaemonInv' OBVIOUS
<1>1. CASE Proceed \/ Assemble \/ AssembleFails
  BY <1>1, BootStep
<1>2. CASE StartupFails
  BY <1>2, LeaveStep DEF StartupFails, Fatal
<1>3. CASE (\E k \in Kinds : Capture(k)) \/ Interrupt
  BY <1>3, CaptureStep
<1>4. CASE ReaderRuns \/ ParserRuns \/ WriterRuns
  BY <1>4, UpStep DEF ReaderRuns, ParserRuns, WriterRuns, bootVars, Next
<1>5. CASE RuntimeDrop
  BY <1>5, UpStep, LeaveStep DEF RuntimeDrop, bootVars, Next
<1>6. CASE UNCHANGED daemonVars
  BY <1>6, DaemonStutter
<1> QED BY <1>1, <1>2, <1>3, <1>4, <1>5, <1>6 DEF DaemonNext, Boot

\* From the first call of main to the end of the process, whichever call
\* fails, no event vanishes and none is overtaken.
THEOREM DaemonAccounts == DaemonSpec => []AccountedAndInOrder
<1>1. DaemonInv => AccountedAndInOrder
  BY DEF DaemonInv
<1> QED BY <1>1, InitDaemonInv, DaemonStep, PTL DEF DaemonSpec

-----------------------------------------------------------------------------
(* The abstract log.                                                       *)

\* main itself hands nothing to the writer and admits nothing.
LEMMA DaemonVets == DaemonInv /\ VetInv /\ [DaemonNext]_daemonVars => VetInv'
<1> SUFFICES ASSUME DaemonInv, VetInv, [DaemonNext]_daemonVars PROVE VetInv' OBVIOUS
<1>1. CASE (\E k \in Kinds : Capture(k)) \/ Interrupt
  BY <1>1, OthersVet DEF Capture, Interrupt
<1>2. CASE UNCHANGED vars
  BY <1>2, OthersVet
<1>3. CASE Leave
  BY <1>3, NothingNew DEF Leave, HandedOver, parserVars, writerVars
<1>4. CASE boot = "up" /\ (Reader \/ Parser \/ Writer \/ Shutdown)
  <2>1. TypeOK /\ Hands
    BY <1>4 DEF DaemonInv, Gone, Inv
  <2> QED BY <1>4, <2>1, ParserVets, WriterVets, OthersVet
<1> QED BY <1>1, <1>2, <1>3, <1>4
        DEF DaemonNext, Boot, Proceed, StartupFails, Assemble, AssembleFails, ReaderRuns,
            ParserRuns, WriterRuns, RuntimeDrop, daemonVars

LEMMA DaemonFile == DaemonInv /\ VetInv => GoodFile
<1> SUFFICES ASSUME DaemonInv, VetInv PROVE GoodFile OBVIOUS
<1>1. CASE ~Gone
  BY <1>1, FileIsGood DEF DaemonInv, AccountedAndInOrder, Inv, VetInv
<1>2. CASE Gone
  <2>1. file = << >>
    BY <1>2 DEF DaemonInv, Gone, NothingRead
  <2> QED BY <2>1 DEF GoodFile, Numbered, Increasing
<1> QED BY <1>1, <1>2

LEMMA DaemonRefines ==
  ASSUME DaemonInv, GoodFile', [DaemonNext]_daemonVars
  PROVE  [Audit!AuditNext]_(Audit!auditVars)
<1>1. CASE UNCHANGED <<arrived, file>>
  BY <1>1 DEF Audit!auditVars
<1>2. CASE UNCHANGED vars
  BY <1>1, <1>2 DEF vars
<1>3. CASE Leave \/ Interrupt
  BY <1>1, <1>3 DEF Leave, Interrupt, CtrlC, kernelVars, writerVars
<1>4. CASE \E k \in Kinds : Capture(k)
  <2>1. TypeOK /\ [Next]_vars
    BY <1>4 DEF Capture, Arrive, DaemonInv, Gone, Inv, Next
  <2> QED BY <2>1, RefinementStep
<1>5. CASE boot = "up" /\ (Reader \/ Parser \/ Writer \/ Shutdown)
  <2>1. TypeOK /\ [Next]_vars
    BY <1>5 DEF DaemonInv, Gone, Inv, Next
  <2> QED BY <2>1, RefinementStep
<1> QED BY <1>2, <1>3, <1>4, <1>5
        DEF DaemonNext, Boot, Proceed, StartupFails, Assemble, AssembleFails, ReaderRuns,
            ParserRuns, WriterRuns, RuntimeDrop, daemonVars

\* The whole process implements the abstract log: however startup goes and
\* wherever the process ends, the file only grows, by parsable events that
\* reached the hook, none of them twice, in the order of their arrival.
THEOREM DaemonRefinement == DaemonSpec => ImplementsAuditLog
<1>1. DaemonInit => Audit!AuditInit /\ VetInv
  BY MembersEmpty, FS_EmptySet
     DEF DaemonInit, Init, Audit!AuditInit, VetInv, PolicyBeforeLog, HandedOver
<1>2. DaemonInv /\ GoodFile' /\ [DaemonNext]_daemonVars
        => [Audit!AuditNext]_(Audit!auditVars)
  BY DaemonRefines
<1> QED BY <1>1, <1>2, InitDaemonInv, DaemonStep, DaemonVets, DaemonFile, PTL
        DEF DaemonSpec, ImplementsAuditLog, Audit!AuditSpec
=============================================================================
