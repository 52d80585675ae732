----------------------------- MODULE EventRing ------------------------------
(***************************************************************************)
(* From the hook to the reader task: the classifier on several CPUs at     *)
(* once, the ring buffer DNS_EVENTS_PIPE between kernel and daemon, and    *)
(* the wake-ups of spawn_ebpf_reader (cilium-mini-ebpf/src/main.rs,        *)
(* cilium-mini-rs/src/topology.rs).                                        *)
(*                                                                         *)
(* The kernel's ring buffer, epoll, aya's RingBuf and tokio's AsyncFd are  *)
(* external.  A CPU reserves a record, fills it and commits it by clearing *)
(* its busy bit; it wakes the consumer up only if the consumer stands at   *)
(* this very record.  epoll reports such a wake-up once (edge-triggered),  *)
(* and AsyncFd remembers it as a flag with a tick: clear_ready clears the  *)
(* flag unless the tick has moved on.                                      *)
(***************************************************************************)
EXTENDS DnsTc

CONSTANTS
  CPUs,       \* CPUs that run the classifier
  Frames,     \* frames that may arrive
  RingCap,    \* records that fit the ring buffer (64 MB)
  MaxFrames   \* bound on the number of arriving frames

ASSUME EventRingAssumption ==
  Frames \subseteq Frame /\ RingCap \in Nat \ {0} /\ MaxFrames \in Nat

NoFrame == [len |-> 0, ether |-> "other", ihl |-> 0, proto |-> "other", src_port |-> 0]

\* The memory of a record: whose addresses and ports it holds, whose bytes
\* its payload begins with, and the field payload_len.
Memory == [head : Frame, payload : Frame, payload_len : Nat]
ZeroPage == [head |-> NoFrame, payload |-> NoFrame, payload_len |-> 0]

\* What the classifier is to capture of a frame.
Capture(f) == [head |-> f, payload |-> f, payload_len |-> copied_len(f)]

VARIABLES
  seen,     \* how many frames have arrived
  cpu,      \* per CPU: idle, reserve, fill, copy, commit, notify
  frame,    \* per CPU: the frame at hand
  pos,      \* per CPU: which record it has reserved
  recs,     \* every record reserved so far: busy, for which frame, memory
  cons,     \* consumer position: how many records have been released
  pending,  \* a wake-up has been sent and epoll has not reported it yet
  ready,    \* the AsyncFd's readiness flag
  tick,     \* its tick
  reader,   \* reader task: off, await, drain, clear, gone
  guard,    \* the tick when the guard was handed out
  out       \* what the reader has read, oldest first

cpuVars    == <<cpu, frame, pos>>
readerVars == <<ready, tick, reader, guard>>
vars == <<seen, cpu, frame, pos, recs, cons, pending, ready, tick, reader, guard, out>>

Init ==
  /\ seen = 0 /\ cons = 0 /\ tick = 0 /\ guard = 0
  /\ cpu = [c \in CPUs |-> "idle"]
  /\ frame = [c \in CPUs |-> NoFrame]
  /\ pos = [c \in CPUs |-> 0]
  /\ recs = << >> /\ out = << >>
  /\ pending = FALSE /\ ready = FALSE
  /\ reader = "off"

-----------------------------------------------------------------------------
(* The classifier.                                                         *)

Goto(c, point) == cpu' = [cpu EXCEPT ![c] = point]

\* dns_tc up to reserve; most frames pass without an event.
Classify(c, f) ==
  /\ cpu[c] = "idle" /\ seen < MaxFrames
  /\ seen' = seen + 1
  /\ IF Captured(f) THEN Goto(c, "reserve") /\ frame' = [frame EXCEPT ![c] = f]
                    ELSE UNCHANGED <<cpu, frame>>
  /\ UNCHANGED <<pos, recs, cons, pending, readerVars, out>>

\* What a new record may hold: the ring goes round.
Stale == {ZeroPage} \cup {recs[p].mem : p \in 1 .. cons}

\* reserve is Some: the record is the CPU's own until it submits it.
Reserve(c, stale) ==
  /\ cpu[c] = "reserve" /\ Len(recs) - cons < RingCap
  /\ recs' = Append(recs, [busy |-> TRUE, frame |-> frame[c], mem |-> stale])
  /\ pos' = [pos EXCEPT ![c] = Len(recs) + 1]
  /\ Goto(c, "fill")
  /\ UNCHANGED <<seen, frame, cons, pending, readerVars, out>>

\* reserve is None: the event is dropped.
ReserveFails(c) ==
  /\ cpu[c] = "reserve" /\ Len(recs) - cons >= RingCap
  /\ Goto(c, "idle")
  /\ UNCHANGED <<seen, frame, pos, recs, cons, pending, readerVars, out>>

\* Faulty variant: left as they are.
Fill_Skipped(c) ==
  /\ cpu[c] = "fill"
  /\ Goto(c, "copy")
  /\ UNCHANGED <<seen, frame, pos, recs, cons, pending, readerVars, out>>

\* Addresses and ports.
Fill(c) ==
  /\ cpu[c] = "fill"
  /\ recs' = [recs EXCEPT ![pos[c]].mem.head = frame[c]]
  /\ Goto(c, "copy")
  /\ UNCHANGED <<seen, frame, pos, cons, pending, readerVars, out>>

\* Whether somebody has the ring's descriptor in an epoll set.
Watched == reader \notin {"off", "gone"}

\* Faulty variant: the record is submitted here already, and once more below.
CopyPayload_Submits(c) ==
  /\ cpu[c] = "copy"
  /\ recs' = [recs EXCEPT ![pos[c]].mem = Capture(frame[c]), ![pos[c]].busy = FALSE]
  /\ pending' = (pending \/ (Watched /\ cons = pos[c] - 1))
  /\ Goto(c, "commit")
  /\ UNCHANGED <<seen, frame, pos, cons, readerVars, out>>

\* The copy loop, then payload_len (and the time stamp).
CopyPayload(c) ==
  /\ cpu[c] = "copy"
  /\ recs' = [recs EXCEPT ![pos[c]].mem.payload = frame[c],
                          ![pos[c]].mem.payload_len = copied_len(frame[c])]
  /\ Goto(c, "commit")
  /\ UNCHANGED <<seen, frame, pos, cons, pending, readerVars, out>>

\* submit(0), first half: the busy bit goes.
Commit(c) ==
  /\ cpu[c] = "commit"
  /\ recs' = [recs EXCEPT ![pos[c]].busy = FALSE]
  /\ Goto(c, "notify")
  /\ UNCHANGED <<seen, frame, pos, cons, pending, readerVars, out>>

\* submit(0), second half: a wake-up if the consumer stands at this record.
Notify(c) ==
  /\ cpu[c] = "notify"
  /\ pending' = (pending \/ (Watched /\ cons = pos[c] - 1))
  /\ Goto(c, "idle")
  /\ UNCHANGED <<seen, frame, pos, recs, cons, readerVars, out>>

Program(c) ==
  \/ \E stale \in Stale : Reserve(c, stale)
  \/ ReserveFails(c) \/ Fill(c) \/ CopyPayload(c) \/ Commit(c) \/ Notify(c)

-----------------------------------------------------------------------------
(* epoll and the reader task.                                              *)

\* The runtime's I/O driver: epoll looks whether the ring is non-empty, busy
\* records included, and if so the AsyncFd becomes ready.
Poll ==
  /\ pending
  /\ pending' = FALSE
  /\ IF cons < Len(recs) THEN ready' = TRUE /\ tick' = tick + 1
                         ELSE UNCHANGED <<ready, tick>>
  /\ UNCHANGED <<seen, cpuVars, recs, cons, reader, guard, out>>

\* AsyncFd::new: epoll looks at the ring when the descriptor is added.
Register ==
  /\ reader = "off"
  /\ reader' = "await"
  /\ pending' = (cons < Len(recs))
  /\ UNCHANGED <<seen, cpuVars, recs, cons, ready, tick, guard, out>>

\* Faulty variant: the reader waits for a batch.
Wake_Batch ==
  /\ reader = "await" /\ ready /\ Len(recs) - cons > 1
  /\ reader' = "drain"
  /\ guard' = tick
  /\ UNCHANGED <<seen, cpuVars, recs, cons, pending, ready, tick, out>>

\* readable_mut().await returns a guard.
Wake ==
  /\ reader = "await" /\ ready
  /\ reader' = "drain"
  /\ guard' = tick
  /\ UNCHANGED <<seen, cpuVars, recs, cons, pending, ready, tick, out>>

\* rb.next() is Some: there is a next record and it is not busy.
HeadReady == cons < Len(recs) /\ ~recs[cons + 1].busy

\* Faulty variant: `if let` instead of `while let`.
Take_One ==
  /\ reader = "drain" /\ HeadReady
  /\ out' = Append(out, recs[cons + 1].mem)
  /\ cons' = cons + 1
  /\ reader' = "clear"
  /\ UNCHANGED <<seen, cpuVars, recs, pending, ready, tick, guard>>

\* The item is read, sent or dropped on a full channel, and released.
Take ==
  /\ reader = "drain" /\ HeadReady
  /\ out' = Append(out, recs[cons + 1].mem)
  /\ cons' = cons + 1
  /\ UNCHANGED <<seen, cpuVars, recs, pending, readerVars>>

\* The channel is closed: the item is released unread and the task returns.
Closed ==
  /\ reader = "drain" /\ HeadReady
  /\ cons' = cons + 1
  /\ reader' = "gone"
  /\ UNCHANGED <<seen, cpuVars, recs, pending, ready, tick, guard, out>>

\* rb.next() is None.
Drained ==
  /\ reader = "drain" /\ ~HeadReady
  /\ reader' = "clear"
  /\ UNCHANGED <<seen, cpuVars, recs, cons, pending, ready, tick, guard, out>>

\* Faulty variant: the call is missing.
ClearReady_Forgotten ==
  /\ reader = "clear"
  /\ reader' = "await"
  /\ UNCHANGED <<seen, cpuVars, recs, cons, pending, ready, tick, guard, out>>

\* guard.clear_ready(), and back to the await.
ClearReady ==
  /\ reader = "clear"
  /\ ready' = (ready /\ tick # guard)
  /\ reader' = "await"
  /\ UNCHANGED <<seen, cpuVars, recs, cons, pending, tick, guard, out>>

Reader == Register \/ Wake \/ Take \/ Closed \/ Drained \/ ClearReady

Next ==
  \/ \E c \in CPUs : (\E f \in Frames : Classify(c, f)) \/ Program(c)
  \/ Poll \/ Reader

Spec == Init /\ [][Next]_vars

\* A classifier that has begun comes to its end, as the kernel's verifier sees
\* to, the runtime runs its I/O driver and polls the task.  Frames need not
\* arrive.
FairSpec ==
  /\ Spec
  /\ \A c \in CPUs : []<>(cpu[c] = "idle")
  /\ WF_vars(Poll) /\ WF_vars(Reader)

-----------------------------------------------------------------------------
(* Properties.                                                             *)

\* Type correctness.
TypeOK ==
  /\ seen \in Nat /\ cons \in Nat /\ tick \in Nat /\ guard \in Nat
  /\ cpu \in [CPUs -> {"idle", "reserve", "fill", "copy", "commit", "notify"}]
  /\ frame \in [CPUs -> Frame]
  /\ pos \in [CPUs -> Nat]
  /\ recs \in Seq([busy : BOOLEAN, frame : Frame, mem : Memory])
  /\ out \in Seq(Memory)
  /\ pending \in BOOLEAN /\ ready \in BOOLEAN
  /\ reader \in {"off", "await", "drain", "clear", "gone"}

\* What the reader reads is, record by record in the order in which the CPUs
\* reserved them, the capture of one frame: never a record that is still
\* being written, never bytes or a length left over from an earlier record,
\* never one record twice or not at all.
DeliveredExact ==
  /\ Len(out) <= cons /\ cons <= Len(recs)
  /\ reader # "gone" => Len(out) = cons
  /\ \A p \in 1 .. Len(out) : out[p] = Capture(recs[p].frame)

\* Every event the daemon is handed has a payload that the parser can take:
\* not empty, within the array, and within the frame it came from.
PayloadInFrame ==
  \A p \in 1 .. Len(out) :
    LET e == out[p]
    IN /\ e.payload_len \in 1 .. MAX_DNS_PAYLOAD_SIZE
       /\ payload_offset(e.payload) + e.payload_len <= e.payload.len

\* The CPU has a record that the consumer may not see yet.
Writing(c) == cpu[c] \in {"fill", "copy", "commit"}

\* No two records in flight share memory: the ring never holds more than fits
\* it, and a CPU writes to a record of its own that has not been released.
RingDisjoint ==
  /\ Len(recs) - cons <= RingCap
  /\ \A c \in CPUs : Writing(c) => pos[c] \in cons + 1 .. Len(recs)
  /\ \A c, d \in CPUs : Writing(c) /\ Writing(d) /\ pos[c] = pos[d] => c = d

\* A wake-up for the record at the consumer's position is on its way: sent,
\* or about to be sent by the CPU that has just committed that record.
WakeUpUnderWay ==
  pending \/ \E c \in CPUs : cpu[c] = "notify" /\ pos[c] = cons + 1

\* No lost wake-up: the reader never sleeps on a committed event unless it
\* has been, or is about to be, woken up for it, although a commit may fall
\* between its last look at the ring and its clear_ready.
NoLostWakeUp ==
  reader = "await" /\ HeadReady => ready \/ WakeUpUnderWay

\* docs/userspace_architecture.md: "waking reactively on readability without
\* busy-polling".  Every record that is reserved is taken in the end, with no
\* further frame arriving.
AllTaken ==
  \A p \in 1 .. MaxFrames : Len(recs) >= p ~> (cons >= p \/ reader = "gone")

\* The other half of that sentence: once no frame arrives any more the reader
\* goes to sleep and stays asleep.
QuietWhenIdle ==
  <>[](reader = "gone" \/ (reader = "await" /\ ~ready))
=============================================================================
