-------------------------- MODULE EventRingProofs ---------------------------
(***************************************************************************)
(* For any number of CPUs, any ring size and any frames: the reader reads  *)
(* whole captures in the order of reservation, and no wake-up is lost.     *)
(***************************************************************************)
EXTENDS EventRing, SequenceTheorems, TLAPS

Record == [busy : BOOLEAN, frame : Frame, mem : Memory]

Limits ==
  /\ cons <= Len(recs)
  /\ Len(recs) - cons <= RingCap
  /\ Len(out) <= cons
  /\ reader # "gone" => Len(out) = cons

\* What a CPU is writing is busy, its own, and ahead of the consumer.
Owners ==
  /\ \A c \in CPUs : Writing(c) =>
       /\ pos[c] \in cons + 1 .. Len(recs)
       /\ recs[pos[c]].busy
       /\ recs[pos[c]].frame = frame[c]
  /\ \A c, d \in CPUs : Writing(c) /\ Writing(d) /\ pos[c] = pos[d] => c = d

\* How far the memory of a record has come.
Contents ==
  /\ \A c \in CPUs : cpu[c] = "copy" => recs[pos[c]].mem.head = frame[c]
  /\ \A c \in CPUs : cpu[c] = "commit" => recs[pos[c]].mem = Capture(frame[c])
  /\ \A p \in 1 .. Len(recs) : recs[p].busy \/ recs[p].mem = Capture(recs[p].frame)

Filtered ==
  /\ \A c \in CPUs : cpu[c] = "reserve" => Captured(frame[c])
  /\ \A p \in 1 .. Len(recs) : Captured(recs[p].frame)

Delivery == \A p \in 1 .. Len(out) : out[p] = Capture(recs[p].frame)

\* After its last look at the ring, a record that becomes visible to the
\* reader comes with a wake-up that clear_ready does not cancel.
WakeUps ==
  /\ guard <= tick
  /\ reader = "clear" /\ HeadReady => (ready /\ tick # guard) \/ WakeUpUnderWay
  /\ NoLostWakeUp

Inv == TypeOK /\ Limits /\ Owners /\ Contents /\ Filtered /\ Delivery /\ WakeUps

-----------------------------------------------------------------------------
(* The copy loop.                                                          *)

LEMMA FrameType ==
  ASSUME NEW f \in Frame
  PROVE  f.len \in Nat /\ f.ihl \in Nat
<1>1. f.len \in Nat /\ f.ihl \in Ihl
  BY DEF Frame
<1> QED BY <1>1 DEF Ihl

LEMMA NoFrameType == NoFrame \in Frame
<1>1. 0 \in Ihl /\ 0 \in Port
  BY 0 = 4 * 0 DEF Ihl, Port
<1> QED BY <1>1 DEF NoFrame, Frame

\* On a frame that passes the filters the loop copies at least one byte, at
\* most 512, and none from outside the frame.
LEMMA CopyBounds ==
  ASSUME NEW f \in Frame, Captured(f)
  PROVE  /\ copied_len(f) \in 1 .. MAX_DNS_PAYLOAD_SIZE
         /\ payload_offset(f) + copied_len(f) <= f.len
<1> DEFINE off == payload_offset(f)
           Stops(n) == /\ n = 512 \/ ~(off + n + 1 <= f.len)
                       /\ \A i \in 0 .. n - 1 : off + i + 1 <= f.len
<1>1. off \in Nat /\ f.len \in Nat /\ off + 1 <= f.len
  <2>1. f.len \in Nat
    BY FrameType
  <2>2. f.ihl \in Nat
    BY FrameType
  <2>3. udp_offset(f) \in Nat
    BY <2>2 DEF udp_offset, EthHdr_LEN, Ipv6Hdr_LEN
  <2>4. off \in Nat
    BY <2>3 DEF payload_offset, UdpHdr_LEN
  <2> HIDE DEF off
  <2>5. available_len(f) = IF f.len >= off THEN f.len - off ELSE 0
    BY DEF available_len, off
  <2> QED BY <2>1, <2>4, <2>5 DEF Captured
<1>2. copied_len(f) = CHOOSE n \in 0 .. 512 : Stops(n)
  BY DEF copied_len, ptr_at, MAX_DNS_PAYLOAD_SIZE
<1> HIDE DEF off
<1>3. \E n \in 0 .. 512 : Stops(n)
  <2>1. CASE off + 512 <= f.len
    <3>1. \A i \in 0 .. 512 - 1 : off + i + 1 <= f.len
      BY <2>1, <1>1
    <3>2. Stops(512)
      BY <3>1
    <3> HIDE DEF Stops
    <3> QED BY <3>2
  <2>2. CASE ~(off + 512 <= f.len)
    <3>1. f.len - off \in 0 .. 512 BY <2>2, <1>1
    <3>2. Stops(f.len - off) BY <2>2, <1>1, <3>1
    <3> QED BY <3>1, <3>2
  <2> QED BY <2>1, <2>2
<1> HIDE DEF Stops
<1>4. copied_len(f) \in 0 .. 512 /\ Stops(copied_len(f))
  BY <1>2, <1>3
<1>5. copied_len(f) # 0
  BY <1>1, <1>4 DEF Stops
<1>6. copied_len(f) - 1 \in 0 .. copied_len(f) - 1
  BY <1>4, <1>5
<1>7. off + (copied_len(f) - 1) + 1 <= f.len
  BY <1>4, <1>6 DEF Stops
<1> QED BY <1>1, <1>4, <1>5, <1>7 DEF off, MAX_DNS_PAYLOAD_SIZE

LEMMA CaptureType ==
  ASSUME NEW f \in Frame, Captured(f)
  PROVE  Capture(f) \in Memory
BY CopyBounds DEF Capture, Memory, MAX_DNS_PAYLOAD_SIZE

-----------------------------------------------------------------------------
(* Init.                                                                   *)

LEMMA InitInv == Init => Inv
<1> SUFFICES ASSUME Init PROVE Inv OBVIOUS
<1>1. NoFrame \in Frame
  BY NoFrameType
<1>2. recs \in Seq(Record) /\ out \in Seq(Memory) /\ frame \in [CPUs -> Frame]
  BY <1>1 DEF Init
<1>3. TypeOK
  BY <1>2 DEF Init, TypeOK, Record
<1> QED BY <1>3, EventRingAssumption DEF Init, Inv, Limits, Owners, Writing, Contents, Filtered,
       Delivery, WakeUps, NoLostWakeUp, HeadReady

-----------------------------------------------------------------------------
(* The steps of the classifier.                                            *)

\* Replacing one element of a sequence.
LEMMA Replace ==
  ASSUME NEW S, NEW r \in Seq(S), NEW p \in 1 .. Len(r), NEW e \in S
  PROVE  /\ [r EXCEPT ![p] = e] \in Seq(S)
         /\ Len([r EXCEPT ![p] = e]) = Len(r)
         /\ \A q \in 1 .. Len(r) : [r EXCEPT ![p] = e][q] = IF q = p THEN e ELSE r[q]
BY ExceptSeq

LEMMA ClassifyStep ==
  ASSUME Inv, NEW c \in CPUs, NEW f \in Frames, Classify(c, f)
  PROVE  Inv'
<1>0. TypeOK /\ Limits /\ Owners /\ Contents /\ Filtered /\ Delivery /\ WakeUps
  BY DEF Inv
<1>1. f \in Frame
  BY EventRingAssumption
<1>2. /\ UNCHANGED <<pos, recs, cons, pending, ready, tick, reader, guard, out>>
      /\ cpu[c] = "idle"
      /\ \/ cpu' = cpu /\ frame' = frame
         \/ /\ Captured(f)
            /\ cpu' = [cpu EXCEPT ![c] = "reserve"]
            /\ frame' = [frame EXCEPT ![c] = f]
  BY DEF Classify, Goto, readerVars
<1>3. seen' \in Nat
  BY <1>0 DEF TypeOK, Classify
<1>4. TypeOK'
  BY <1>0, <1>1, <1>2, <1>3 DEF TypeOK
<1>5. \A d \in CPUs :
         \/ cpu'[d] = cpu[d] /\ frame'[d] = frame[d]
         \/ d = c /\ cpu'[d] = "reserve" /\ frame'[d] = f /\ Captured(f)
  <2>1. cpu \in [CPUs -> {"idle", "reserve", "fill", "copy", "commit", "notify"}]
        /\ frame \in [CPUs -> Frame]
    BY <1>0 DEF TypeOK
  <2>2. CASE cpu' = cpu /\ frame' = frame
    BY <2>2
  <2>3. CASE /\ Captured(f)
             /\ cpu' = [cpu EXCEPT ![c] = "reserve"]
             /\ frame' = [frame EXCEPT ![c] = f]
    <3>1. /\ cpu'[c] = "reserve" /\ frame'[c] = f
          /\ \A d \in CPUs \ {c} : cpu'[d] = cpu[d] /\ frame'[d] = frame[d]
      BY <2>1, <2>3
    <3> QED BY <2>3, <3>1
  <2> QED BY <2>2, <2>3, <1>2
<1>6. Limits' /\ Delivery'
  BY <1>0, <1>2 DEF Limits, Delivery
<1>7. Owners'
  BY <1>0, <1>2, <1>5 DEF Owners, Writing
<1>8. Contents'
  BY <1>0, <1>2, <1>5 DEF Contents
<1>9. Filtered'
  BY <1>0, <1>2, <1>5 DEF Filtered
<1>10. (WakeUpUnderWay => WakeUpUnderWay') /\ HeadReady' = HeadReady
  BY <1>2, <1>5 DEF WakeUpUnderWay, HeadReady
<1>11. WakeUps'
  BY <1>0, <1>2, <1>10 DEF WakeUps, NoLostWakeUp
<1> QED BY <1>4, <1>6, <1>7, <1>8, <1>9, <1>11 DEF Inv

LEMMA ReserveStep ==
  ASSUME Inv, NEW c \in CPUs, NEW stale \in Stale, Reserve(c, stale)
  PROVE  Inv'
<1> DEFINE new == [busy |-> TRUE, frame |-> frame[c], mem |-> stale]
<1>0. TypeOK /\ Limits /\ Owners /\ Contents /\ Filtered /\ Delivery /\ WakeUps
  BY DEF Inv
<1>1. /\ cpu[c] = "reserve" /\ Len(recs) - cons < RingCap
      /\ recs' = Append(recs, new)
      /\ pos' = [pos EXCEPT ![c] = Len(recs) + 1]
      /\ cpu' = [cpu EXCEPT ![c] = "fill"]
      /\ UNCHANGED <<seen, frame, cons, pending, ready, tick, reader, guard, out>>
  BY DEF Reserve, Goto, readerVars
<1>2. /\ cpu \in [CPUs -> {"idle", "reserve", "fill", "copy", "commit", "notify"}]
      /\ frame \in [CPUs -> Frame] /\ pos \in [CPUs -> Nat]
      /\ recs \in Seq(Record) /\ cons \in Nat /\ cons <= Len(recs)
  BY <1>0 DEF TypeOK, Limits, Record
<1>3. stale \in Memory
  <2>1. NoFrame \in Frame
    BY NoFrameType
  <2>2. ZeroPage \in Memory
    BY <2>1 DEF ZeroPage, Memory
  <2>3. ASSUME NEW p \in 1 .. cons PROVE recs[p].mem \in Memory
    <3>1. recs[p] \in Record
      BY <1>2
    <3> QED BY <3>1 DEF Record
  <2> QED BY <2>2, <2>3 DEF Stale
<1>4. new \in Record
  BY <1>2, <1>3 DEF Record
<1>5. /\ recs' \in Seq(Record) /\ Len(recs') = Len(recs) + 1
      /\ recs'[Len(recs) + 1] = new
      /\ \A p \in 1 .. Len(recs) : recs'[p] = recs[p]
  <2> HIDE DEF new
  <2> QED BY <1>1, <1>2, <1>4, AppendProperties
<1>6. /\ cpu' \in [CPUs -> {"idle", "reserve", "fill", "copy", "commit", "notify"}]
      /\ pos' \in [CPUs -> Nat]
      /\ cpu'[c] = "fill" /\ pos'[c] = Len(recs) + 1
      /\ \A d \in CPUs : d # c => cpu'[d] = cpu[d] /\ pos'[d] = pos[d]
  BY <1>1, <1>2
<1>7. TypeOK'
  BY <1>0, <1>1, <1>5, <1>6 DEF TypeOK, Record
<1>8. Limits'
  BY <1>0, <1>1, <1>2, <1>5, EventRingAssumption DEF Limits
<1>9. Owners'
  <2>1. ASSUME NEW d \in CPUs, Writing(d)'
        PROVE  /\ pos'[d] \in cons' + 1 .. Len(recs')
               /\ recs'[pos'[d]].busy
               /\ recs'[pos'[d]].frame = frame'[d]
               /\ d # c => Writing(d) /\ pos'[d] = pos[d] /\ pos[d] <= Len(recs)
    <3>1. CASE d = c
      BY <3>1, <1>1, <1>2, <1>5, <1>6
    <3>2. CASE d # c
      <4>1. Writing(d) /\ pos'[d] = pos[d]
        BY <2>1, <3>2, <1>6 DEF Writing
      <4>2. pos[d] \in cons + 1 .. Len(recs) /\ recs[pos[d]].busy /\ recs[pos[d]].frame = frame[d]
        BY <4>1, <1>0 DEF Owners
      <4> QED BY <3>2, <4>1, <4>2, <1>1, <1>2, <1>5
    <3> QED BY <3>1, <3>2
  <2>2. ASSUME NEW d \in CPUs, NEW e \in CPUs, Writing(d)', Writing(e)', pos'[d] = pos'[e]
        PROVE  d = e
    <3>1. CASE d # c /\ e # c
      BY <3>1, <2>1, <2>2, <1>0 DEF Owners
    <3>2. CASE d = c \/ e = c
      BY <3>2, <2>1, <2>2, <1>2, <1>6
    <3> QED BY <3>1, <3>2
  <2> QED BY <2>1, <2>2 DEF Owners
<1>10. Contents'
  <2>1. ASSUME NEW d \in CPUs, cpu'[d] \in {"copy", "commit"}
        PROVE  cpu'[d] = cpu[d] /\ recs'[pos'[d]] = recs[pos[d]]
    <3>1. d # c /\ cpu[d] = cpu'[d] /\ pos'[d] = pos[d]
      BY <2>1, <1>6
    <3>2. pos[d] \in cons + 1 .. Len(recs)
      BY <2>1, <3>1, <1>0 DEF Owners, Writing
    <3> QED BY <3>1, <3>2, <1>2, <1>5
  <2>2. ASSUME NEW p \in 1 .. Len(recs')
        PROVE  recs'[p].busy \/ recs'[p].mem = Capture(recs'[p].frame)
    <3>1. CASE p = Len(recs) + 1
      BY <3>1, <1>5
    <3>2. CASE p \in 1 .. Len(recs)
      BY <3>2, <1>0, <1>5 DEF Contents
    <3> QED BY <3>1, <3>2, <1>2, <1>5
  <2>3. ASSUME NEW d \in CPUs, cpu'[d] = "copy" PROVE recs'[pos'[d]].mem.head = frame'[d]
    BY <2>1, <2>3, <1>0, <1>1 DEF Contents
  <2>4. ASSUME NEW d \in CPUs, cpu'[d] = "commit" PROVE recs'[pos'[d]].mem = Capture(frame'[d])
    BY <2>1, <2>4, <1>0, <1>1 DEF Contents
  <2> QED BY <2>2, <2>3, <2>4 DEF Contents
<1>11. Filtered'
  <2>1. ASSUME NEW p \in 1 .. Len(recs') PROVE Captured(recs'[p].frame)
    <3>1. CASE p = Len(recs) + 1
      BY <3>1, <1>0, <1>1, <1>5 DEF Filtered
    <3>2. CASE p \in 1 .. Len(recs)
      BY <3>2, <1>0, <1>5 DEF Filtered
    <3> QED BY <3>1, <3>2, <1>2, <1>5
  <2>2. ASSUME NEW d \in CPUs, cpu'[d] = "reserve" PROVE Captured(frame'[d])
    BY <2>2, <1>0, <1>1, <1>6 DEF Filtered
  <2> QED BY <2>1, <2>2 DEF Filtered
<1>12. Delivery'
  <2>1. Len(out) <= Len(recs) /\ Len(out) \in Nat
    BY <1>0, <1>2 DEF Limits, TypeOK
  <2> QED BY <2>1, <1>0, <1>1, <1>2, <1>5 DEF Delivery
<1>13. WakeUpUnderWay => WakeUpUnderWay'
  BY <1>1, <1>6 DEF WakeUpUnderWay
<1>14. HeadReady' => HeadReady
  BY <1>1, <1>2, <1>5 DEF HeadReady
<1>15. WakeUps'
  BY <1>0, <1>1, <1>13, <1>14 DEF WakeUps, NoLostWakeUp
<1> QED BY <1>7, <1>8, <1>9, <1>10, <1>11, <1>12, <1>15 DEF Inv

LEMMA ReserveFailsStep ==
  ASSUME Inv, NEW c \in CPUs, ReserveFails(c)
  PROVE  Inv'
<1>0. TypeOK /\ Limits /\ Owners /\ Contents /\ Filtered /\ Delivery /\ WakeUps
  BY DEF Inv
<1>1. /\ cpu[c] = "reserve"
      /\ cpu' = [cpu EXCEPT ![c] = "idle"]
      /\ UNCHANGED <<seen, frame, pos, recs, cons, pending, ready, tick, reader, guard, out>>
  BY DEF ReserveFails, Goto, readerVars
<1>2. cpu \in [CPUs -> {"idle", "reserve", "fill", "copy", "commit", "notify"}]
  BY <1>0 DEF TypeOK
<1>3. /\ cpu' \in [CPUs -> {"idle", "reserve", "fill", "copy", "commit", "notify"}]
      /\ \A d \in CPUs : cpu'[d] = IF d = c THEN "idle" ELSE cpu[d]
  BY <1>1, <1>2
<1>4. TypeOK'
  BY <1>0, <1>1, <1>3 DEF TypeOK
<1>5. Limits' /\ Delivery'
  BY <1>0, <1>1 DEF Limits, Delivery
<1>6. Owners'
  BY <1>0, <1>1, <1>3 DEF Owners, Writing
<1>7. Contents' /\ Filtered'
  BY <1>0, <1>1, <1>3 DEF Contents, Filtered
<1>8. (WakeUpUnderWay => WakeUpUnderWay') /\ HeadReady' = HeadReady
  BY <1>1, <1>3 DEF WakeUpUnderWay, HeadReady
<1>9. WakeUps'
  BY <1>0, <1>1, <1>8 DEF WakeUps, NoLostWakeUp
<1> QED BY <1>4, <1>5, <1>6, <1>7, <1>9 DEF Inv

LEMMA ReservedRecord ==
  ASSUME Inv, NEW c \in CPUs, Writing(c)
  PROVE  /\ recs[pos[c]] \in Record /\ frame[c] \in Frame
         /\ recs[pos[c]].busy = TRUE /\ recs[pos[c]].frame = frame[c]
         /\ Captured(frame[c])
<1>1. recs \in Seq(Record) /\ cons \in Nat /\ frame[c] \in Frame
  BY DEF Inv, TypeOK, Record
<1>2. pos[c] \in cons + 1 .. Len(recs) /\ recs[pos[c]].busy /\ recs[pos[c]].frame = frame[c]
  BY DEF Inv, Owners
<1>3. pos[c] \in 1 .. Len(recs)
  BY <1>1, <1>2
<1>4. recs[pos[c]] \in Record
  BY <1>1, <1>3
<1>5. recs[pos[c]].busy = TRUE
  BY <1>2, <1>4 DEF Record
<1>6. Captured(recs[pos[c]].frame)
  BY <1>3 DEF Inv, Filtered
<1> QED BY <1>1, <1>2, <1>4, <1>5, <1>6

\* A CPU replaces its record by e and goes on to its next program point.
LEMMA WriteStep ==
  ASSUME Inv, NEW c \in CPUs, Writing(c),
         NEW e \in Record, NEW next \in {"copy", "commit", "notify"},
         e.frame = frame[c],
         next # "notify" => e.busy,
         next = "copy" => e.mem.head = frame[c],
         next # "copy" => e.mem = Capture(frame[c]),
         recs' = [recs EXCEPT ![pos[c]] = e],
         cpu' = [cpu EXCEPT ![c] = next],
         UNCHANGED <<seen, frame, pos, cons, pending, ready, tick, reader, guard, out>>
  PROVE  Inv'
<1>0. TypeOK /\ Limits /\ Owners /\ Contents /\ Filtered /\ Delivery /\ WakeUps
  BY DEF Inv
<1>1. /\ cpu \in [CPUs -> {"idle", "reserve", "fill", "copy", "commit", "notify"}]
      /\ pos \in [CPUs -> Nat]
      /\ recs \in Seq(Record) /\ cons \in Nat /\ cons <= Len(recs)
  BY <1>0 DEF TypeOK, Limits, Record
<1>2. /\ pos[c] \in cons + 1 .. Len(recs) /\ recs[pos[c]].busy
      /\ recs[pos[c]].frame = frame[c]
  BY <1>0 DEF Owners
<1>3. /\ recs' \in Seq(Record) /\ Len(recs') = Len(recs)
      /\ \A p \in 1 .. Len(recs) : recs'[p] = IF p = pos[c] THEN e ELSE recs[p]
  <2>1. pos[c] \in 1 .. Len(recs)
    BY <1>1, <1>2
  <2> QED BY <2>1, <1>1, Replace
<1>4. /\ cpu' \in [CPUs -> {"idle", "reserve", "fill", "copy", "commit", "notify"}]
      /\ \A d \in CPUs : cpu'[d] = IF d = c THEN next ELSE cpu[d]
  BY <1>1
<1>5. TypeOK'
  BY <1>0, <1>3, <1>4 DEF TypeOK, Record
<1>6. Limits'
  BY <1>0, <1>3 DEF Limits
<1>7. \A p \in 1 .. Len(recs) : recs'[p].frame = recs[p].frame
  BY <1>2, <1>3
<1>8. ASSUME NEW d \in CPUs, Writing(d)', d # c
      PROVE  /\ Writing(d) /\ cpu'[d] = cpu[d] /\ recs'[pos[d]] = recs[pos[d]]
             /\ pos[d] \in cons + 1 .. Len(recs)
  <2>1. Writing(d) /\ cpu'[d] = cpu[d]
    BY <1>4, <1>8 DEF Writing
  <2>2. pos[d] \in cons + 1 .. Len(recs) /\ pos[d] # pos[c]
    BY <2>1, <1>0, <1>8 DEF Owners
  <2> QED BY <2>1, <2>2, <1>1, <1>3
<1>9. recs'[pos[c]] = e
  BY <1>1, <1>2, <1>3
<1>10. Owners'
  <2>1. ASSUME NEW d \in CPUs, Writing(d)'
        PROVE  /\ pos[d] \in cons + 1 .. Len(recs)
               /\ recs'[pos[d]].busy
               /\ recs'[pos[d]].frame = frame[d]
               /\ Writing(d)
    <3>1. CASE d = c
      <4>1. next # "notify"
        BY <2>1, <3>1, <1>4 DEF Writing
      <4> QED BY <3>1, <4>1, <1>2, <1>9
    <3>2. CASE d # c
      BY <2>1, <3>2, <1>8, <1>0 DEF Owners
    <3> QED BY <3>1, <3>2
  <2>2. ASSUME NEW d \in CPUs, NEW b \in CPUs, Writing(d)', Writing(b)', pos[d] = pos[b]
        PROVE  d = b
    BY <2>1, <2>2, <1>0 DEF Owners
  <2> QED BY <2>1, <2>2, <1>3 DEF Owners
<1>11. Contents'
  <2>1. ASSUME NEW d \in CPUs, cpu'[d] = "copy" PROVE recs'[pos[d]].mem.head = frame[d]
    <3>1. CASE d = c
      BY <2>1, <3>1, <1>4, <1>9
    <3>2. CASE d # c
      BY <2>1, <3>2, <1>0, <1>8 DEF Contents, Writing
    <3> QED BY <3>1, <3>2
  <2>2. ASSUME NEW d \in CPUs, cpu'[d] = "commit" PROVE recs'[pos[d]].mem = Capture(frame[d])
    <3>1. CASE d = c
      BY <2>2, <3>1, <1>4, <1>9
    <3>2. CASE d # c
      BY <2>2, <3>2, <1>0, <1>8 DEF Contents, Writing
    <3> QED BY <3>1, <3>2
  <2>3. ASSUME NEW p \in 1 .. Len(recs)
        PROVE  recs'[p].busy \/ recs'[p].mem = Capture(recs'[p].frame)
    <3>1. CASE p = pos[c]
      BY <3>1, <1>9
    <3>2. CASE p # pos[c]
      BY <3>2, <1>0, <1>3 DEF Contents
    <3> QED BY <3>1, <3>2
  <2> QED BY <2>1, <2>2, <2>3, <1>3 DEF Contents
<1>12. Filtered'
  BY <1>0, <1>3, <1>4, <1>7 DEF Filtered
<1>13. Delivery'
  <2>1. Len(out) <= Len(recs) /\ Len(out) \in Nat
    BY <1>0, <1>1 DEF Limits, TypeOK
  <2>2. ASSUME NEW p \in 1 .. Len(out) PROVE out[p] = Capture(recs'[p].frame)
    <3>1. p \in 1 .. Len(recs)
      BY <2>1, <1>1
    <3>2. out[p] = Capture(recs[p].frame)
      BY <1>0 DEF Delivery
    <3> QED BY <3>1, <3>2, <1>7
  <2> QED BY <2>2 DEF Delivery
<1>14. WakeUpUnderWay => WakeUpUnderWay'
  BY <1>4 DEF WakeUpUnderWay, Writing
<1>15. HeadReady' => HeadReady \/ WakeUpUnderWay'
  <2>1. CASE pos[c] # cons + 1
    BY <2>1, <1>1, <1>3 DEF HeadReady
  <2>2. CASE pos[c] = cons + 1 /\ next = "notify"
    BY <2>2, <1>4 DEF WakeUpUnderWay
  <2>3. CASE pos[c] = cons + 1 /\ next # "notify"
    BY <2>3, <1>9 DEF HeadReady
  <2> QED BY <2>1, <2>2, <2>3
<1>16. WakeUps'
  BY <1>0, <1>14, <1>15 DEF WakeUps, NoLostWakeUp
<1> QED BY <1>5, <1>6, <1>10, <1>11, <1>12, <1>13, <1>16 DEF Inv

LEMMA FillStep ==
  ASSUME Inv, NEW c \in CPUs, Fill(c)
  PROVE  Inv'
<1> DEFINE r == recs[pos[c]]
           e == [r EXCEPT !.mem.head = frame[c]]
<1>1. Writing(c) /\ TypeOK /\ Owners
  BY DEF Inv, Fill, Writing
<1>2. r \in Record /\ frame[c] \in Frame /\ r.busy = TRUE /\ r.frame = frame[c]
  BY <1>1, ReservedRecord
<1>3. e \in Record /\ e.mem.head = frame[c] /\ e.busy /\ e.frame = frame[c]
  BY <1>2 DEF Record, Memory
<1>5. recs' = [recs EXCEPT ![pos[c]] = e]
  BY DEF Fill
<1>6. cpu' = [cpu EXCEPT ![c] = "copy"]
  BY DEF Fill, Goto
<1>7. UNCHANGED <<seen, frame, pos, cons, pending, ready, tick, reader, guard, out>>
  BY DEF Fill, readerVars
<1> HIDE DEF e, r
<1> QED BY <1>1, <1>3, <1>5, <1>6, <1>7, WriteStep

LEMMA CopyStep ==
  ASSUME Inv, NEW c \in CPUs, CopyPayload(c)
  PROVE  Inv'
<1> DEFINE r == recs[pos[c]]
           n == copied_len(frame[c])
           e == [r EXCEPT !.mem.payload = frame[c], !.mem.payload_len = n]
<1>1. Writing(c) /\ TypeOK /\ Owners /\ cpu[c] = "copy"
  BY DEF Inv, CopyPayload, Writing
<1>2. r \in Record /\ frame[c] \in Frame /\ r.busy = TRUE /\ r.frame = frame[c]
  BY <1>1, ReservedRecord
<1>3. r.mem.head = frame[c] /\ Captured(frame[c])
  BY <1>1, ReservedRecord DEF Inv, Contents
<1>4. n \in Nat
  BY <1>2, <1>3, CopyBounds DEF MAX_DNS_PAYLOAD_SIZE
<1> HIDE DEF n
<1>5. e \in Record /\ e.busy /\ e.frame = frame[c]
  BY <1>2, <1>4 DEF Record, Memory
<1>6. e.mem \in Memory /\ e.mem.head = frame[c] /\ e.mem.payload = frame[c] /\ e.mem.payload_len = n
  BY <1>2, <1>3, <1>4 DEF Record, Memory
<1>7. recs' = [recs EXCEPT ![pos[c]] = e]
  BY DEF CopyPayload, n
<1>8. cpu' = [cpu EXCEPT ![c] = "commit"]
  BY DEF CopyPayload, Goto
<1>9. UNCHANGED <<seen, frame, pos, cons, pending, ready, tick, reader, guard, out>>
  BY DEF CopyPayload, readerVars
<1> HIDE DEF e, r
<1>10. e.mem = Capture(frame[c])
  BY <1>6 DEF Memory, Capture, n
<1> QED BY <1>1, <1>5, <1>7, <1>8, <1>9, <1>10, WriteStep

LEMMA CommitStep ==
  ASSUME Inv, NEW c \in CPUs, Commit(c)
  PROVE  Inv'
<1> DEFINE r == recs[pos[c]]
           e == [r EXCEPT !.busy = FALSE]
<1>1. Writing(c) /\ TypeOK /\ Owners /\ cpu[c] = "commit"
  BY DEF Inv, Commit, Writing
<1>2. r \in Record /\ frame[c] \in Frame /\ r.busy = TRUE /\ r.frame = frame[c]
  BY <1>1, ReservedRecord
<1>3. r.mem = Capture(frame[c])
  BY <1>1 DEF Inv, Contents
<1>4. e \in Record /\ e.frame = frame[c] /\ e.mem = Capture(frame[c])
  BY <1>2, <1>3 DEF Record
<1>5. recs' = [recs EXCEPT ![pos[c]] = e]
  BY DEF Commit
<1>6. cpu' = [cpu EXCEPT ![c] = "notify"]
  BY DEF Commit, Goto
<1>7. UNCHANGED <<seen, frame, pos, cons, pending, ready, tick, reader, guard, out>>
  BY DEF Commit, readerVars
<1> HIDE DEF e, r
<1> QED BY <1>1, <1>4, <1>5, <1>6, <1>7, WriteStep

LEMMA NotifyStep ==
  ASSUME Inv, NEW c \in CPUs, Notify(c)
  PROVE  Inv'
<1>0. TypeOK /\ Limits /\ Owners /\ Contents /\ Filtered /\ Delivery /\ WakeUps
  BY DEF Inv
<1>1. /\ cpu[c] = "notify"
      /\ cpu' = [cpu EXCEPT ![c] = "idle"]
      /\ pending' = (pending \/ (Watched /\ cons = pos[c] - 1))
      /\ UNCHANGED <<seen, frame, pos, recs, cons, ready, tick, reader, guard, out>>
  BY DEF Notify, Goto, readerVars
<1>2. cpu \in [CPUs -> {"idle", "reserve", "fill", "copy", "commit", "notify"}]
      /\ pos \in [CPUs -> Nat] /\ cons \in Nat
  BY <1>0 DEF TypeOK
<1>3. /\ cpu' \in [CPUs -> {"idle", "reserve", "fill", "copy", "commit", "notify"}]
      /\ \A d \in CPUs : cpu'[d] = IF d = c THEN "idle" ELSE cpu[d]
  BY <1>1, <1>2
<1>4. pending' \in BOOLEAN
  BY <1>1
<1>5. TypeOK'
  BY <1>0, <1>1, <1>3, <1>4 DEF TypeOK
<1>6. Limits' /\ Delivery'
  BY <1>0, <1>1 DEF Limits, Delivery
<1>7. Owners'
  BY <1>0, <1>1, <1>3 DEF Owners, Writing
<1>8. Contents' /\ Filtered'
  BY <1>0, <1>1, <1>3 DEF Contents, Filtered
<1>9. ASSUME reader \in {"await", "clear"}, WakeUpUnderWay PROVE WakeUpUnderWay'
  <2>1. CASE pending
    BY <2>1, <1>1 DEF WakeUpUnderWay
  <2>2. CASE \E d \in CPUs : cpu[d] = "notify" /\ pos[d] = cons + 1
    <3>1. PICK d \in CPUs : cpu[d] = "notify" /\ pos[d] = cons + 1
      BY <2>2
    <3>2. CASE d = c
      <4>1. Watched /\ cons = pos[c] - 1
        BY <3>1, <3>2, <1>2, <1>9 DEF Watched
      <4> QED BY <4>1, <1>1 DEF WakeUpUnderWay
    <3>3. CASE d # c
      BY <3>1, <3>3, <1>1, <1>3 DEF WakeUpUnderWay
    <3> QED BY <3>2, <3>3
  <2> QED BY <2>1, <2>2, <1>9 DEF WakeUpUnderWay
<1>10. HeadReady' = HeadReady
  BY <1>1 DEF HeadReady
<1>11. WakeUps'
  BY <1>0, <1>1, <1>9, <1>10 DEF WakeUps, NoLostWakeUp
<1> QED BY <1>5, <1>6, <1>7, <1>8, <1>11 DEF Inv

-----------------------------------------------------------------------------
(* The steps of epoll and of the reader.                                   *)

\* What does not concern the reader is not touched by a step that leaves the
\* CPUs, the records and the consumer position alone.
LEMMA Untouched ==
  ASSUME Owners, Contents, Filtered, UNCHANGED <<cpu, frame, pos, recs, cons>>
  PROVE  Owners' /\ Contents' /\ Filtered'
BY DEF Owners, Writing, Contents, Filtered

LEMMA PollStep ==
  ASSUME Inv, Poll
  PROVE  Inv'
<1>0. TypeOK /\ Limits /\ Owners /\ Contents /\ Filtered /\ Delivery /\ WakeUps
  BY DEF Inv
<1>1. /\ pending' = FALSE
      /\ IF cons < Len(recs) THEN ready' = TRUE /\ tick' = tick + 1
                             ELSE UNCHANGED <<ready, tick>>
      /\ UNCHANGED <<seen, cpu, frame, pos, recs, cons, reader, guard, out>>
  BY DEF Poll, cpuVars
<1>2. tick \in Nat /\ guard \in Nat /\ guard <= tick /\ ready \in BOOLEAN
  BY <1>0 DEF TypeOK, WakeUps
<1>3. ready' \in BOOLEAN /\ tick' \in Nat /\ guard <= tick'
  <2>1. CASE cons < Len(recs)
    BY <2>1, <1>1, <1>2
  <2>2. CASE ~(cons < Len(recs))
    BY <2>2, <1>1, <1>2
  <2> QED BY <2>1, <2>2
<1>4. TypeOK'
  BY <1>0, <1>1, <1>3 DEF TypeOK
<1>5. Limits' /\ Delivery'
  BY <1>0, <1>1 DEF Limits, Delivery
<1>6. HeadReady' => ready' /\ tick' # guard
  <2>1. HeadReady' => cons < Len(recs)
    BY <1>1 DEF HeadReady
  <2> QED BY <2>1, <1>1, <1>2
<1>7. WakeUps'
  BY <1>1, <1>3, <1>6 DEF WakeUps, NoLostWakeUp
<1> QED BY <1>0, <1>1, <1>4, <1>5, <1>7, Untouched DEF Inv

LEMMA RegisterStep ==
  ASSUME Inv, Register
  PROVE  Inv'
<1>0. TypeOK /\ Limits /\ Owners /\ Contents /\ Filtered /\ Delivery /\ WakeUps
  BY DEF Inv
<1>1. /\ reader = "off" /\ reader' = "await"
      /\ pending' = (cons < Len(recs))
      /\ UNCHANGED <<seen, cpu, frame, pos, recs, cons, ready, tick, guard, out>>
  BY DEF Register, cpuVars
<1>2. pending' \in BOOLEAN
  BY <1>1
<1>3. TypeOK'
  BY <1>0, <1>1, <1>2 DEF TypeOK
<1>4. Limits' /\ Delivery'
  BY <1>0, <1>1 DEF Limits, Delivery
<1>5. HeadReady' => WakeUpUnderWay'
  BY <1>1 DEF HeadReady, WakeUpUnderWay
<1>6. WakeUps'
  BY <1>0, <1>1, <1>5 DEF WakeUps, NoLostWakeUp
<1> QED BY <1>0, <1>1, <1>3, <1>4, <1>6, Untouched DEF Inv

LEMMA WakeStep ==
  ASSUME Inv, Wake
  PROVE  Inv'
<1>0. TypeOK /\ Limits /\ Owners /\ Contents /\ Filtered /\ Delivery /\ WakeUps
  BY DEF Inv
<1>1. /\ reader = "await" /\ reader' = "drain" /\ guard' = tick
      /\ UNCHANGED <<seen, cpu, frame, pos, recs, cons, pending, ready, tick, out>>
  BY DEF Wake, cpuVars
<1>2. TypeOK'
  BY <1>0, <1>1 DEF TypeOK
<1>3. Limits' /\ Delivery'
  BY <1>0, <1>1 DEF Limits, Delivery
<1>4. WakeUps'
  BY <1>0, <1>1 DEF WakeUps, NoLostWakeUp, TypeOK
<1> QED BY <1>0, <1>1, <1>2, <1>3, <1>4, Untouched DEF Inv

\* The record that is released was not being written.
LEMMA Released ==
  ASSUME Inv, HeadReady, cons' = cons + 1, UNCHANGED <<cpu, frame, pos, recs>>
  PROVE  Owners' /\ Contents' /\ Filtered' /\ cons' \in Nat /\ cons' <= Len(recs)
<1>0. TypeOK /\ Owners /\ Contents /\ Filtered
  BY DEF Inv
<1>1. cons \in Nat /\ Len(recs) \in Nat /\ cons < Len(recs)
  BY <1>0 DEF TypeOK, HeadReady
<1>2. ASSUME NEW c \in CPUs, Writing(c)
      PROVE  pos[c] \in cons' + 1 .. Len(recs)
  <2>1. pos[c] \in cons + 1 .. Len(recs) /\ recs[pos[c]].busy
    BY <1>0, <1>2 DEF Owners
  <2>2. pos[c] # cons + 1
    BY <2>1 DEF HeadReady
  <2> QED BY <2>1, <2>2, <1>1
<1>3. Owners'
  BY <1>0, <1>2 DEF Owners, Writing
<1>4. Contents' /\ Filtered'
  BY <1>0 DEF Contents, Filtered
<1> QED BY <1>1, <1>3, <1>4

LEMMA TakeStep ==
  ASSUME Inv, Take
  PROVE  Inv'
<1>0. TypeOK /\ Limits /\ Owners /\ Contents /\ Filtered /\ Delivery /\ WakeUps
  BY DEF Inv
<1>1. /\ reader = "drain" /\ HeadReady
      /\ out' = Append(out, recs[cons + 1].mem)
      /\ cons' = cons + 1
      /\ UNCHANGED <<seen, cpu, frame, pos, recs, pending, ready, tick, reader, guard>>
  BY DEF Take, cpuVars, readerVars
<1>2. /\ cons \in Nat /\ recs \in Seq(Record) /\ out \in Seq(Memory)
      /\ Len(out) = cons /\ cons + 1 \in 1 .. Len(recs) /\ ~recs[cons + 1].busy
      /\ Len(recs) - cons <= RingCap
  BY <1>0, <1>1 DEF TypeOK, Record, Limits, HeadReady
<1>3. recs[cons + 1] \in Record
  BY <1>2
<1>4. recs[cons + 1].mem \in Memory
  BY <1>3 DEF Record
<1>5. /\ out' \in Seq(Memory) /\ Len(out') = cons + 1
      /\ out'[cons + 1] = recs[cons + 1].mem
      /\ \A p \in 1 .. cons : out'[p] = out[p]
  BY <1>1, <1>2, <1>4, AppendProperties
<1>6. TypeOK'
  BY <1>0, <1>1, <1>2, <1>5 DEF TypeOK
<1>7. Limits'
  BY <1>1, <1>2, <1>5, EventRingAssumption DEF Limits
<1>8. Delivery'
  <2>1. ASSUME NEW p \in 1 .. cons + 1 PROVE out'[p] = Capture(recs[p].frame)
    <3>1. CASE p = cons + 1
      BY <3>1, <1>0, <1>2, <1>5 DEF Contents
    <3>2. CASE p \in 1 .. cons
      BY <3>2, <1>0, <1>2, <1>5 DEF Delivery
    <3> QED BY <3>1, <3>2, <1>2
  <2> QED BY <2>1, <1>1, <1>5 DEF Delivery
<1>9. WakeUps'
  BY <1>0, <1>1 DEF WakeUps, NoLostWakeUp
<1> QED BY <1>1, <1>6, <1>7, <1>8, <1>9, Released DEF Inv

LEMMA ClosedStep ==
  ASSUME Inv, Closed
  PROVE  Inv'
<1>0. TypeOK /\ Limits /\ Owners /\ Contents /\ Filtered /\ Delivery /\ WakeUps
  BY DEF Inv
<1>1. /\ reader = "drain" /\ HeadReady
      /\ cons' = cons + 1 /\ reader' = "gone"
      /\ UNCHANGED <<seen, cpu, frame, pos, recs, pending, ready, tick, guard, out>>
  BY DEF Closed, cpuVars
<1>2. cons' \in Nat /\ cons' <= Len(recs)
  BY <1>1, Released
<1>3. TypeOK'
  BY <1>0, <1>1, <1>2 DEF TypeOK
<1>4. Limits'
  <2>1. cons \in Nat /\ Len(recs) \in Nat /\ Len(out) \in Nat
    BY <1>0 DEF TypeOK
  <2> QED BY <2>1, <1>0, <1>1, <1>2, EventRingAssumption DEF Limits
<1>5. Delivery'
  BY <1>0, <1>1 DEF Delivery
<1>6. WakeUps'
  BY <1>0, <1>1 DEF WakeUps, NoLostWakeUp
<1> QED BY <1>1, <1>3, <1>4, <1>5, <1>6, Released DEF Inv

LEMMA DrainedStep ==
  ASSUME Inv, Drained
  PROVE  Inv'
<1>0. TypeOK /\ Limits /\ Owners /\ Contents /\ Filtered /\ Delivery /\ WakeUps
  BY DEF Inv
<1>1. /\ reader = "drain" /\ ~HeadReady /\ reader' = "clear"
      /\ UNCHANGED <<seen, cpu, frame, pos, recs, cons, pending, ready, tick, guard, out>>
  BY DEF Drained, cpuVars
<1>2. TypeOK'
  BY <1>0, <1>1 DEF TypeOK
<1>3. Limits' /\ Delivery'
  BY <1>0, <1>1 DEF Limits, Delivery
<1>4. ~HeadReady'
  BY <1>1 DEF HeadReady
<1>5. WakeUps'
  BY <1>0, <1>1, <1>4 DEF WakeUps, NoLostWakeUp
<1> QED BY <1>0, <1>1, <1>2, <1>3, <1>5, Untouched DEF Inv

LEMMA ClearReadyStep ==
  ASSUME Inv, ClearReady
  PROVE  Inv'
<1>0. TypeOK /\ Limits /\ Owners /\ Contents /\ Filtered /\ Delivery /\ WakeUps
  BY DEF Inv
<1>1. /\ reader = "clear" /\ reader' = "await"
      /\ ready' = (ready /\ tick # guard)
      /\ UNCHANGED <<seen, cpu, frame, pos, recs, cons, pending, tick, guard, out>>
  BY DEF ClearReady, cpuVars
<1>2. ready' \in BOOLEAN
  BY <1>1
<1>3. TypeOK'
  BY <1>0, <1>1, <1>2 DEF TypeOK
<1>4. Limits' /\ Delivery'
  BY <1>0, <1>1 DEF Limits, Delivery
<1>5. HeadReady' = HeadReady /\ (WakeUpUnderWay => WakeUpUnderWay')
  BY <1>1 DEF HeadReady, WakeUpUnderWay
<1>6. WakeUps'
  BY <1>0, <1>1, <1>5 DEF WakeUps, NoLostWakeUp
<1> QED BY <1>0, <1>1, <1>3, <1>4, <1>6, Untouched DEF Inv

-----------------------------------------------------------------------------
(* The theorems.                                                           *)

LEMMA StepInv == Inv /\ [Next]_vars => Inv'
<1> SUFFICES ASSUME Inv, [Next]_vars PROVE Inv' OBVIOUS
<1>1. CASE \E c \in CPUs, f \in Frames : Classify(c, f)
  BY <1>1, ClassifyStep
<1>2. CASE \E c \in CPUs : Program(c)
  <2>1. PICK c \in CPUs : Program(c)
    BY <1>2
  <2> QED BY <2>1, ReserveStep, ReserveFailsStep, FillStep, CopyStep, CommitStep,
             NotifyStep DEF Program
<1>3. CASE Poll
  BY <1>3, PollStep
<1>4. CASE Reader
  BY <1>4, RegisterStep, WakeStep, TakeStep, ClosedStep, DrainedStep, ClearReadyStep
     DEF Reader
<1>5. CASE UNCHANGED vars
  <2>1. UNCHANGED <<seen, cpu, frame, pos, recs, cons, pending, ready, tick, reader, guard, out>>
    BY <1>5 DEF vars
  <2>2. TypeOK' /\ Limits' /\ Delivery'
    BY <2>1 DEF Inv, TypeOK, Limits, Delivery
  <2>3. WakeUps'
    BY <2>1 DEF Inv, WakeUps, NoLostWakeUp, HeadReady, WakeUpUnderWay
  <2> QED BY <2>1, <2>2, <2>3, Untouched DEF Inv
<1> QED BY <1>1, <1>2, <1>3, <1>4, <1>5 DEF Next

\* The inductive invariant of classifier, ring buffer and reader holds: types,
\* positions, who owns which record, what has been written of each record and
\* what has been delivered, and the wake-ups.
THEOREM Invariance == Spec => []Inv
BY InitInv, StepInv, PTL DEF Spec

\* The reader of the ring buffer reads whole captures, each once, in the order
\* in which the CPUs reserved them, whatever was in the memory before.
THEOREM Exactness == Spec => []DeliveredExact
<1>1. Inv => DeliveredExact
  BY DEF Inv, Limits, Delivery, DeliveredExact
<1> QED BY <1>1, Invariance, PTL

\* What the parser assumes of an event: 1 to 512 bytes of payload, all of them
\* from within the frame.
THEOREM Payloads == Spec => []PayloadInFrame
<1>1. Inv => PayloadInFrame
  <2> SUFFICES ASSUME Inv, NEW p \in 1 .. Len(out)
               PROVE  /\ out[p].payload_len \in 1 .. MAX_DNS_PAYLOAD_SIZE
                      /\ payload_offset(out[p].payload) + out[p].payload_len <= out[p].payload.len
    BY DEF PayloadInFrame
  <2>1. p \in 1 .. Len(recs) /\ recs \in Seq(Record)
    BY DEF Inv, TypeOK, Limits, Record
  <2>2. recs[p] \in Record
    BY <2>1
  <2>3. recs[p].frame \in Frame /\ Captured(recs[p].frame)
    BY <2>1, <2>2 DEF Record, Inv, Filtered
  <2>4. out[p] = Capture(recs[p].frame)
    BY DEF Inv, Delivery
  <2>5. out[p].payload = recs[p].frame /\ out[p].payload_len = copied_len(recs[p].frame)
    BY <2>4 DEF Capture
  <2> QED BY <2>3, <2>5, CopyBounds
<1> QED BY <1>1, Invariance, PTL

\* No two CPUs ever write to the same memory, nor does the reader read what
\* one of them is writing.
THEOREM Disjointness == Spec => []RingDisjoint
<1>1. Inv => RingDisjoint
  BY DEF Inv, Limits, Owners, RingDisjoint
<1> QED BY <1>1, Invariance, PTL

\* The reader never sleeps on a committed event without a wake-up under way.
THEOREM WakeUpsArrive == Spec => []NoLostWakeUp
<1>1. Inv => NoLostWakeUp
  BY DEF Inv, WakeUps
<1> QED BY <1>1, Invariance, PTL
=============================================================================
