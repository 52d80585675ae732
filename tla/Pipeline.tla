------------------------------ MODULE Pipeline ------------------------------
(***************************************************************************)
(* The daemon's pipeline (cilium-mini-rs/src/topology.rs and main.rs): the *)
(* ring buffer the kernel fills, the reader task, the parser task with its *)
(* policy observer, the writer thread, and the main task that waits for    *)
(* Ctrl-C.  The stages run in parallel; what one stage does between two    *)
(* operations on shared state is one step.                                 *)
(*                                                                         *)
(* What a response says is abstracted to its kind: it does not parse, it   *)
(* is for a domain that is not allowed, or it resolves an allowed domain   *)
(* to an address.  DnsParser, FqdnPolicy and ParserTask have the details.  *)
(***************************************************************************)
EXTENDS Ordering, FiniteSets

CONSTANTS
  Addrs,        \* addresses that allowed domains resolve to
  MaxEvents,    \* bound on the number of arriving events
  RingCap,      \* events that fit the ring buffer (64 MB)
  RawCap,       \* slots of the channel to the parser (1000)
  DnsCap,       \* slots of the channel to the writer (1000)
  BufCap,       \* records that fit the BufWriter (256 KB)
  MapCapacity,  \* entries of ALLOWED_IP_MAP (1024)
  IoMayFail     \* whether opening and writing the log file can fail

ASSUME PipelineAssumption ==
  /\ {MaxEvents, RingCap, RawCap, DnsCap, BufCap, MapCapacity} \subseteq Nat \ {0}
  /\ IoMayFail \in BOOLEAN
  /\ {"bad", "plain"} \cap Addrs = {}

Kinds == {"bad", "plain"} \cup Addrs
Event == [id : Nat \ {0}, kind : Kinds]

VARIABLES
  arrived,  \* how many events have reached the hook; the n-th has id n
  ring,     \* DNS_EVENTS_PIPE: committed events, oldest first
  reader,   \* reader task: idle (at its await), drain, exited
  raw,      \* the channel from reader to parser
  parser,   \* parser task: idle (at its await), recv, parse, send, exited
  job,      \* the event whose slot the parser holds, if any
  map,      \* ALLOWED_IP_MAP
  dns,      \* the channel from parser to writer
  writer,   \* writer thread: open, recv, write, exited
  entry,    \* the response whose slot the writer holds, if any
  buf,      \* records in the BufWriter
  file,     \* records in 00000001.ldpb
  main,     \* main task: running, stopping (after Ctrl-C), exited
  lost      \* how many events have been dropped, at any stage

kernelVars == <<arrived, ring>>
parserVars == <<parser, job, map>>
writerVars == <<writer, entry, buf, file>>
vars == <<arrived, ring, reader, raw, parser, job, map, dns, writer, entry,
          buf, file, main, lost>>

Init ==
  /\ arrived = 0 /\ lost = 0
  /\ ring = << >> /\ raw = << >> /\ dns = << >>
  /\ job = << >> /\ entry = << >> /\ buf = << >> /\ file = << >>
  /\ map = {}
  /\ reader = "idle" /\ parser = "idle" /\ writer = "open"
  /\ main = "running"

-----------------------------------------------------------------------------
(* The kernel: an event is submitted, or dropped when reserve fails.  The  *)
(* hook is gone once main has returned.                                    *)

Arrive(k) ==
  /\ main = "running"
  /\ arrived < MaxEvents
  /\ arrived' = arrived + 1
  /\ IF Len(ring) < RingCap
     THEN ring' = Append(ring, [id |-> arrived + 1, kind |-> k]) /\ UNCHANGED lost
     ELSE lost' = lost + 1 /\ UNCHANGED ring
  /\ UNCHANGED <<reader, raw, parserVars, dns, writerVars, main>>

-----------------------------------------------------------------------------
(* Channels (thingbuf, external).  A slot that a receiver still refers to  *)
(* is not free.  A channel is closed for the sender when the receiver is   *)
(* gone; for the receiver when the sender is gone and nothing is left.     *)

RawFull == Len(raw) + Len(job) >= RawCap

DnsFull == Len(dns) + Len(entry) >= DnsCap

RawRxGone == parser = "exited"
RawTxGone == reader = "exited"
DnsRxGone == writer = "exited"
DnsTxGone == parser = "exited"

-----------------------------------------------------------------------------
(* spawn_ebpf_reader.                                                      *)

\* readable_mut().await returns.
ReaderWake ==
  /\ reader = "idle" /\ ring # << >>
  /\ reader' = "drain"
  /\ UNCHANGED <<kernelVars, raw, parserVars, dns, writerVars, main, lost>>

\* Faulty variant: the drain loop never goes back to the await.
ReaderPark_Spins == reader = "drain" /\ ring = << >> /\ UNCHANGED vars

\* rb.next() is None: clear_ready, and back to the await.
ReaderPark ==
  /\ reader = "drain" /\ ring = << >>
  /\ reader' = "idle"
  /\ UNCHANGED <<kernelVars, raw, parserVars, dns, writerVars, main, lost>>

ReaderSend ==
  /\ reader = "drain" /\ ring # << >>
  /\ ~RawRxGone /\ ~RawFull
  /\ raw' = Append(raw, Head(ring))
  /\ ring' = Tail(ring)
  /\ UNCHANGED <<arrived, reader, parserVars, dns, writerVars, main, lost>>

\* Faulty variant: the reader waits for a slot instead of dropping.
ReaderDrop_Waits ==
  /\ reader = "drain" /\ ring # << >>
  /\ ~RawRxGone /\ RawFull
  /\ UNCHANGED vars

\* Faulty variant: the oldest queued event is overwritten.
ReaderDrop_Keeps ==
  /\ reader = "drain" /\ ring # << >>
  /\ ~RawRxGone /\ RawFull
  /\ raw' = Append(Tail(raw), Head(ring))
  /\ ring' = Tail(ring)
  /\ UNCHANGED <<arrived, reader, parserVars, dns, writerVars, main, lost>>

\* "Channel is full. Dropping packet to preserve eBPF reader speed."
ReaderDrop ==
  /\ reader = "drain" /\ ring # << >>
  /\ ~RawRxGone /\ RawFull
  /\ ring' = Tail(ring)
  /\ lost' = lost + 1
  /\ UNCHANGED <<arrived, reader, raw, parserVars, dns, writerVars, main>>

\* Faulty variant: a closed channel is taken for a full one.
ReaderClosed_Drops ==
  /\ reader = "drain" /\ ring # << >>
  /\ RawRxGone
  /\ ring' = Tail(ring)
  /\ lost' = lost + 1
  /\ UNCHANGED <<arrived, reader, raw, parserVars, dns, writerVars, main>>

\* "Event channel closed unexpectedly. Shutting down reader task."
ReaderClosed ==
  /\ reader = "drain" /\ ring # << >>
  /\ RawRxGone
  /\ ring' = Tail(ring)
  /\ lost' = lost + 1
  /\ reader' = "exited"
  /\ UNCHANGED <<arrived, raw, parserVars, dns, writerVars, main>>

Reader == ReaderWake \/ ReaderPark \/ ReaderSend \/ ReaderDrop \/ ReaderClosed

-----------------------------------------------------------------------------
(* spawn_dns_parser.                                                       *)

\* The runtime polls the task: recv_ref().await has something to return.
ParserWake ==
  /\ parser = "idle" /\ (raw # << >> \/ RawTxGone)
  /\ parser' = "recv"
  /\ UNCHANGED <<kernelVars, reader, raw, job, map, dns, writerVars, main, lost>>

ParserPark ==
  /\ parser = "recv" /\ raw = << >> /\ ~RawTxGone
  /\ parser' = "idle"
  /\ UNCHANGED <<kernelVars, reader, raw, job, map, dns, writerVars, main, lost>>

ParserRecv ==
  /\ parser = "recv" /\ raw # << >>
  /\ job' = <<Head(raw)>>
  /\ raw' = Tail(raw)
  /\ parser' = "parse"
  /\ UNCHANGED <<kernelVars, reader, map, dns, writerVars, main, lost>>

\* recv_ref() is None: the task returns and drops dns_tx.
ParserDone ==
  /\ parser = "recv" /\ raw = << >> /\ RawTxGone
  /\ parser' = "exited"
  /\ UNCHANGED <<kernelVars, reader, raw, job, map, dns, writerVars, main, lost>>

ParseFails ==
  /\ parser = "parse" /\ job[1].kind = "bad"
  /\ job' = << >>
  /\ lost' = lost + 1
  /\ parser' = "recv"
  /\ UNCHANGED <<kernelVars, reader, raw, map, dns, writerVars, main>>

\* Faulty variant: the domain is not looked up.
Admitted_AnyDomain(k) ==
  IF Cardinality(map) < MapCapacity THEN map \cup {k} ELSE map

\* ALLOWED_IP_MAP after update for an address; a full map refuses new keys.
Admitted(k) ==
  IF k \in Addrs /\ Cardinality(map) < MapCapacity THEN map \cup {k} ELSE map

\* Faulty variant: the observer sees the response only if it is sent.
Observe_Later ==
  /\ parser = "parse" /\ job[1].kind # "bad"
  /\ map' = IF DnsFull THEN map ELSE Admitted(job[1].kind)
  /\ parser' = "send"
  /\ UNCHANGED <<kernelVars, reader, raw, job, dns, writerVars, main, lost>>

\* The response parses and the observer is told.
Observe ==
  /\ parser = "parse" /\ job[1].kind # "bad"
  /\ map' = Admitted(job[1].kind)
  /\ parser' = "send"
  /\ UNCHANGED <<kernelVars, reader, raw, job, dns, writerVars, main, lost>>

\* Faulty variant: the outcome of try_send_ref is not looked at.
ParserSend_Unchecked ==
  /\ parser = "send" /\ ~DnsRxGone
  /\ dns' = dns \o job
  /\ job' = << >>
  /\ parser' = "recv"
  /\ UNCHANGED <<kernelVars, reader, raw, map, writerVars, main, lost>>

\* The response is swapped into a slot of the channel.
ParserSend ==
  /\ parser = "send" /\ ~DnsRxGone /\ ~DnsFull
  /\ dns' = dns \o job
  /\ job' = << >>
  /\ parser' = "recv"
  /\ UNCHANGED <<kernelVars, reader, raw, map, writerVars, main, lost>>

\* Faulty variant: a full channel ends the task as a closed one does.
ParserDrop_Returns ==
  /\ parser = "send" /\ ~DnsRxGone /\ DnsFull
  /\ job' = << >> /\ raw' = << >>
  /\ lost' = lost + 1 + Len(raw)
  /\ parser' = "exited"
  /\ UNCHANGED <<kernelVars, reader, map, dns, writerVars, main>>

ParserDrop ==
  /\ parser = "send" /\ ~DnsRxGone /\ DnsFull
  /\ job' = << >>
  /\ lost' = lost + 1
  /\ parser' = "recv"
  /\ UNCHANGED <<kernelVars, reader, raw, map, dns, writerVars, main>>

\* Faulty variant: a closed channel is waited on.
ParserClosed_Waits == parser = "send" /\ DnsRxGone /\ UNCHANGED vars

\* The writer is gone: the task returns, and what was queued for it is lost.
ParserClosed ==
  /\ parser = "send" /\ DnsRxGone
  /\ job' = << >> /\ raw' = << >>
  /\ lost' = lost + 1 + Len(raw)
  /\ parser' = "exited"
  /\ UNCHANGED <<kernelVars, reader, map, dns, writerVars, main>>

Parser ==
  \/ ParserWake \/ ParserPark \/ ParserRecv \/ ParserDone \/ ParseFails
  \/ Observe \/ ParserSend \/ ParserDrop \/ ParserClosed

-----------------------------------------------------------------------------
(* spawn_file_writer.                                                      *)

Open ==
  /\ writer = "open"
  /\ writer' = "recv"
  /\ UNCHANGED <<kernelVars, reader, raw, parserVars, dns, entry, buf, file,
                 main, lost>>

\* expect("Failed to open log file") panics and the thread is gone.
OpenFails ==
  /\ writer = "open" /\ IoMayFail
  /\ writer' = "exited"
  /\ dns' = << >>
  /\ lost' = lost + Len(dns)
  /\ UNCHANGED <<kernelVars, reader, raw, parserVars, entry, buf, file, main>>

WriterRecv ==
  /\ writer = "recv" /\ dns # << >>
  /\ entry' = <<Head(dns)>>
  /\ dns' = Tail(dns)
  /\ writer' = "write"
  /\ UNCHANGED <<kernelVars, reader, raw, parserVars, buf, file, main, lost>>

WriteBuffered ==
  /\ writer = "write" /\ Len(buf) < BufCap
  /\ buf' = buf \o entry
  /\ entry' = << >>
  /\ writer' = "recv"
  /\ UNCHANGED <<kernelVars, reader, raw, parserVars, dns, file, main, lost>>

\* Faulty variant: the record overtakes the buffer.
WriteSpill_Overtakes ==
  /\ writer = "write" /\ Len(buf) = BufCap
  /\ file' = file \o entry
  /\ entry' = << >>
  /\ writer' = "recv"
  /\ UNCHANGED <<kernelVars, reader, raw, parserVars, dns, buf, main, lost>>

\* No room: the buffer is flushed to the file first.
WriteSpill ==
  /\ writer = "write" /\ Len(buf) = BufCap
  /\ file' = file \o buf
  /\ buf' = entry
  /\ entry' = << >>
  /\ writer' = "recv"
  /\ UNCHANGED <<kernelVars, reader, raw, parserVars, dns, main, lost>>

\* A record larger than the whole buffer, as one with thousands of answers is:
\* after the flush it goes to the file directly.
WriteDirect ==
  /\ writer = "write"
  /\ file' = (file \o buf) \o entry
  /\ buf' = << >> /\ entry' = << >>
  /\ writer' = "recv"
  /\ UNCHANGED <<kernelVars, reader, raw, parserVars, dns, main, lost>>

\* Such a flush fails after n records, or the direct write after all of them:
\* they leave the buffer, the others stay, the record at hand is given up and
\* the loop goes on.
WriteFails(n) ==
  /\ writer = "write" /\ IoMayFail
  /\ file' = file \o SubSeq(buf, 1, n)
  /\ buf' = SubSeq(buf, n + 1, Len(buf))
  /\ entry' = << >>
  /\ lost' = lost + 1
  /\ writer' = "recv"
  /\ UNCHANGED <<kernelVars, reader, raw, parserVars, dns, main>>

\* Faulty variant: the last flush rewrites the file.
WriterDone_Truncates(n) ==
  /\ writer = "recv" /\ dns = << >> /\ DnsTxGone
  /\ n = Len(buf) \/ IoMayFail
  /\ file' = SubSeq(buf, 1, n)
  /\ buf' = << >>
  /\ lost' = lost + Len(file) + (Len(buf) - n)
  /\ writer' = "exited"
  /\ UNCHANGED <<kernelVars, reader, raw, parserVars, dns, entry, main>>

\* recv_ref() is None: a last flush, which gets n records out, all of them
\* unless it fails; its error is ignored.
WriterDone(n) ==
  /\ writer = "recv" /\ dns = << >> /\ DnsTxGone
  /\ n = Len(buf) \/ IoMayFail
  /\ file' = file \o SubSeq(buf, 1, n)
  /\ buf' = << >>
  /\ lost' = lost + (Len(buf) - n)
  /\ writer' = "exited"
  /\ UNCHANGED <<kernelVars, reader, raw, parserVars, dns, entry, main>>

Writer ==
  \/ Open \/ OpenFails \/ WriterRecv \/ WriteBuffered \/ WriteSpill \/ WriteDirect
  \/ \E n \in 0 .. Len(buf) : WriteFails(n) \/ WriterDone(n)

-----------------------------------------------------------------------------
(* main.                                                                   *)

\* Ctrl-C: main returns, its locals go and with them the hook.
CtrlC ==
  /\ main = "running"
  /\ main' = "stopping"
  /\ UNCHANGED <<kernelVars, reader, raw, parserVars, dns, writerVars, lost>>

\* The runtime is dropped: a task is cancelled where it awaits, no earlier.
\* Its ends of the channels go with it.
CancelReader ==
  /\ main = "stopping" /\ reader = "idle"
  /\ reader' = "exited"
  /\ UNCHANGED <<kernelVars, raw, parserVars, dns, writerVars, main, lost>>

CancelParser ==
  /\ main = "stopping" /\ parser = "idle"
  /\ parser' = "exited"
  /\ raw' = << >>
  /\ lost' = lost + Len(raw)
  /\ UNCHANGED <<kernelVars, reader, job, map, dns, writerVars, main>>

\* Both tasks are gone and the process exits.  Nobody joins the writer
\* thread: wherever it stands, it ends here.
Exit ==
  /\ main = "stopping" /\ reader = "exited" /\ parser = "exited"
  /\ main' = "exited"
  /\ writer' = "exited"
  /\ ring' = << >> /\ dns' = << >> /\ entry' = << >> /\ buf' = << >>
  /\ lost' = lost + Len(ring) + Len(dns) + Len(entry) + Len(buf)
  /\ UNCHANGED <<arrived, reader, raw, parserVars, file>>

Shutdown == CancelReader \/ CancelParser \/ Exit

Next ==
  \/ \E k \in Kinds : Arrive(k)
  \/ Reader \/ Parser \/ Writer
  \/ CtrlC \/ Shutdown

Spec == Init /\ [][Next]_vars

-----------------------------------------------------------------------------
(* Properties.                                                             *)

Audit == INSTANCE AuditLog WITH seen <- arrived, log <- file

\* Type correctness: the queues hold events, the stages are at one of their
\* program points and the map holds nothing but addresses of allowed domains.
TypeOK ==
  /\ arrived \in Nat /\ lost \in Nat
  /\ ring \in Seq(Event) /\ raw \in Seq(Event) /\ dns \in Seq(Event)
  /\ job \in Seq(Event) /\ entry \in Seq(Event)
  /\ buf \in Seq(Event) /\ file \in Seq(Event)
  /\ map \subseteq Addrs
  /\ reader \in {"idle", "drain", "exited"}
  /\ parser \in {"idle", "recv", "parse", "send", "exited"}
  /\ writer \in {"open", "recv", "write", "exited"}
  /\ main \in {"running", "stopping", "exited"}

\* No slot of a channel is used twice: what is queued and what the receiver
\* still refers to fit the capacity, for both channels and the BufWriter.
QueuesBounded ==
  /\ Len(ring) <= RingCap
  /\ Len(raw) + Len(job) <= RawCap
  /\ Len(dns) + Len(entry) <= DnsCap
  /\ Len(buf) <= BufCap

\* Everything between the hook and the disk, oldest first.
Line == file \o buf \o entry \o dns \o job \o raw \o ring

\* Events stay in the order in which they arrived, and none is in two places
\* or twice in one, whatever is dropped on the way and however the stages
\* interleave.
InOrder == Numbered(Line, arrived)

\* How many events the writer has not been given yet, and how many it has.
Upstream   == Len(ring) + Len(raw) + Len(job)
Downstream == Len(dns) + Len(entry) + Len(buf) + Len(file)

\* No event vanishes: each one that arrived is in the ring, a channel, the
\* hands of a stage, the buffer or the file, or went through one of the
\* program's drop branches, also when stages die and when the process exits.
Accounted == arrived = Upstream + Downstream + lost

Members(s) == {s[i] : i \in DOMAIN s}

\* What the writer was ever given.
HandedOver == Members(file) \cup Members(buf) \cup Members(entry) \cup Members(dns)

\* Parsed, and admitted if there was something to admit and room for it.
Vetted(e) ==
  /\ e.kind # "bad"
  /\ e.kind \in Addrs => e.kind \in map \/ Cardinality(map) >= MapCapacity

\* The firewall is ahead of the log: a response reaches the writer only if it
\* parsed, and by then its address is in ALLOWED_IP_MAP unless that is full.
PolicyBeforeLog == \A e \in HandedOver : Vetted(e)

\* While the daemon runs, stages only die from the back: the reader because
\* the parser is gone, the parser because the writer is gone.
DiesFromTheBack ==
  main = "running" => /\ reader = "exited" => parser = "exited"
                      /\ parser = "exited" => writer = "exited"

\* The pipeline implements the abstract log: AuditLog with the file as log.
ImplementsAuditLog == Audit!AuditSpec

\* docs/userspace_architecture.md: the daemon "persists records to a
\* length-delimited Protocol Buffers (.ldpb) commit log on disk": when the
\* process exits after Ctrl-C, no record handed to the writer is still on
\* its way.
FlushedOnExit ==
  [][main' = "exited" /\ main # "exited" =>
       dns = << >> /\ entry = << >> /\ buf = << >>]_vars
=============================================================================
