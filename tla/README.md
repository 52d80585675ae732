# Formal verification of cilium-mini

TLA+ specifications of the DNS observability daemon in this repository, TLC
configurations that check them on small instances, and TLAPS proofs of the
most important properties for every value of the constants. Paths below are
relative to the repository's root.

## The system

A TC classifier in the kernel (`cilium-mini-ebpf/src/main.rs`) copies UDP
packets from port 53 into a ring buffer of 64 MB. The daemon
(`cilium-mini-rs`) drains it in three stages that run in parallel:

    TC hook -> DNS_EVENTS_PIPE -> reader task -> channel (1000)
            -> parser task (parse_dns_into, FqdnPolicyEngine::update,
                            which fills ALLOWED_IP_MAP)
            -> channel (1000) -> writer thread -> BufWriter -> 00000001.ldpb

`main` loads and attaches the classifier, assembles the stages, waits for
Ctrl-C and returns.

### Inventory

| Part | Source | State it owns | Operations | Modelled in |
|---|---|---|---|---|
| Shared types | `cilium-mini-common/src/lib.rs` | none | `from_ipv4`, `from_ipv6`, `RawDnsEvent` | `CiliumMiniCommon` |
| DNS wire parser | `cilium-mini-rs/src/parser.rs` | the reused `DnsResponse` | `parse_dns_into`, `parse_qname`, `parse_rdata`, `skip_name`, `reset_slot` | `DnsParser` |
| Policy engine | `cilium-mini-rs/src/policy.rs` | `ALLOWED_IP_MAP`, `allowed_domains` | `update` | `FqdnPolicy` |
| Parser task | `cilium-mini-rs/src/topology.rs` | `local_dns_response`, both channel ends | receive, parse, observe, send or drop, exit | `ParserTask` (data), `Pipeline` (channels) |
| Classifier | `cilium-mini-ebpf/src/main.rs` | per CPU: the frame at hand | header walk, filters, reserve, fill, copy, submit | `DnsTc` (one frame), `EventRing` (CPUs at once) |
| Ring buffer | `cilium-mini-ebpf/src/main.rs`, kernel | records, consumer position, wake-ups | reserve, commit, notify | `EventRing`; a FIFO in `Pipeline` |
| Reader task | `cilium-mini-rs/src/topology.rs` | ring consumer, readiness guard, channel end | register, await, drain, send or drop, clear, exit | `EventRing` (wake-ups), `Pipeline` (channel) |
| Writer thread | `cilium-mini-rs/src/topology.rs` | `BufWriter`, file | open, receive, encode, write, flush | `CommitLog` (bytes), `Pipeline` (records), against `AuditLog` |
| Shutdown | `cilium-mini-rs/src/main.rs` | the runtime | Ctrl-C, drop of the runtime, exit | `Pipeline` |
| Startup | `cilium-mini-rs/src/main.rs` | hook, where `main` is | rlimit, load, logger, attach, maps, topology | `Daemon`, around `Pipeline` |
| eBPF logging | `cilium-mini-rs/src/main.rs` | logger | flush | no |

`PROJECT.json` lists the hazards of this code at their lines and the
properties that would catch each of them.

## Modules

**`DnsParser`** models the parser over real bytes and with the sizes of the
code. A parse is a walk through program points, one for each place where the
code tests a bound or reads the payload; the test and the read it protects
are different steps, so that a wrong test becomes a reachable bad read. The
variables are the locals of `parse_qname`, `parse_rdata` and `skip_name`
(`offset`, `total`, `left`, `name`, `rtype`, `rdlength`), the event, and the
slot that lives on from event to event. `Discard` and `Deliver` are the two
ways the parser task ends an event; after `Deliver` the slot is what it was
(the channel had no room) or blank (it was swapped with a recycled one).
The addresses rendered as text are left out, since nothing reads them back;
ports and timestamp are one `stamp`.

**`FqdnPolicy`** has one action per way out of `update`. `verdict` records
which one it was; the code only logs it.

**`ParserTask`** composes the two: `Handover` is the observer's call followed
by the send, with no `await` between them.

**`DnsWire`** says what a DNS response looks like on the wire, independently
of how the parser walks it: `Encode` gives the bytes of an abstract message,
`Text`, `AddressBytes` and `LastFamily` what a reader should find in them.

**`DnsMessages`** and **`AnswerPolicy`** hold the parser and the parser task
to that reference. `Messages` is a constant, the well-formed responses that
their properties speak about: labels of 1 to 63 bytes, a question of ASCII
labels that `parse_qname` has room for, records whose data fits their type
(`WellFormed`). The raw events may contain anything else besides.
`AdmittedWasAnswered` and `FirstAddressAdmitted` speak about the messages in
which the record loop keeps its footing (`Aligned`): those whose first two
owners are equally long, as pointers are. They say nothing of the others and do
not hold of them in general: since `parser.rs:243` assigns where it should
add, the second pass then starts in the middle of a record and takes the bytes
there for one, and what it decodes and `update` admits need not be an address
that anybody answered. Of such a response only `AdmittedFromPacket`,
`UnwrapSafe` and the parser's own invariants are claimed.

**`Pipeline`** models the stages, the channels, the writer's buffer and the
shutdown. What a response says is abstracted to a kind: it does not parse
(`"bad"`), it is for a domain that is not allowed (`"plain"`), or it resolves
an allowed domain to an address. The parts that are not in this repository
are modelled from how it uses them:

* thingbuf channels: a slot that the receiver still refers to is not free;
  a send reports a closed channel before a full one; a received channel ends
  when the sender is gone and nothing is queued; recycled slots are blank.
* tokio: dropping the runtime cancels a task where it awaits, and only there.
  The tasks have one `await` each, which is the program point `idle`.
* the runtime is dropped after `main` returned, and the process then exits
  whatever the writer thread is doing. The classifier is detached when
  `main`'s locals are dropped, so no event arrives after Ctrl-C.
* `BufWriter`: a flush that fails keeps what it has not written, and a record
  larger than the buffer goes to the file directly (`WriteDirect`). Records
  are whole here and have no size, so any record may be such a one.

**`AuditLog`** is the abstract specification of the commit log: it only
grows, and lists some of the parsable events that arrived, each at most once
and in the order of arrival. `Pipeline` implements it with the file as log.

**`DnsTc`** says what the classifier makes of one frame. A frame is its length
and the header fields that the code looks at; `ptr_at` is the bounds check in
front of every read, `Captured` holds if `parse_udp` comes to reserve a
record, and `copied_len` is where the copy loop breaks.

**`EventRing`** runs that on several CPUs at once and puts the ring buffer and
the reader's wake-ups behind it. A CPU's program points are those between
which another CPU or the reader can be seen: reserve, fill (addresses and
ports), copy (payload, length), commit, notify. A record's memory starts as
anything the ring has held before. External, from how the code uses them:

* kernel ring buffer: a reserved record is busy until it is submitted;
  `submit(0)` clears the busy bit and *then* compares the consumer position
  with the record, and wakes the consumer up only if they agree. A poll
  reports the ring readable if it is not empty, busy records included.
* epoll as tokio uses it is edge-triggered: a wake-up is reported once, and
  adding the descriptor looks at the ring once.
* `AsyncFd`: readiness is a flag with a tick; `clear_ready` clears the flag
  only if the tick is that of the guard.
* aya's `RingBuf`: `next` stops at the first busy record; the item's drop
  releases it.

`Pipeline` sees all of this as a bounded FIFO: its `Arrive` is `Reserve`, and
`DeliveredExact` and `RingDisjoint` are what justifies it.

**`CommitLog`** models the log as bytes. A byte is known by its number and by
whether it begins or ends a frame (a length prefix and its message). `Put`
gives prefix and message to the `BufWriter` (external) in two calls; each may
have to flush first, and a flush is any number of short writes, of which one
may fail. A message as large as the buffer goes to the file directly after the
flush. That happens: the parser's record loop runs as often as the answer
count of the packet says and reads the first record each time
(`parser.rs:243`), so the size of a decoded response is not bounded by that of
the packet. A failing call ends the record, not the loop; a failing last flush
is tried once more when the `BufWriter` is dropped. `Exit` ends the process
anywhere and `Start` begins another one on the same file.

**`Daemon`** puts `main` around `Pipeline`: the calls of startup in their
order with the error path of each, the hook that is attached before anybody
reads the ring, a topology that could not be set up (main goes on to wait for
Ctrl-C without stages), and the end.

**`Ordering`** has the two definitions of order that the log's specifications
share.

## Runs

| Run | Instance | Shows |
|---|---|---|
| `dns_parser` | all responses with up to two answers out of six kinds for three questions, all truncations and all single byte corruptions (six values) of three of them, names at and around the length limit, unknown address families; in any order, into the same slot | `TypeOK`, `IndexSafe`, `FamilyBacked`, `DomainBounded`, `QuestionExact`, `SingleAnswerExact`, and that every parse ends (`ParseEnds`) |
| `parser_task` | responses for an allowed domain and for a domain it is a suffix of, IPv4, IPv6, CNAME and a record without data, owner as pointer or spelled out, two packets that are cut off; in any order, into the same slot; room for 2 addresses | `UnwrapSafe`, `AdmittedWasAnswered`, `FirstAddressAdmitted`, `AdmittedFromPacket` |
| `pipeline` | 5 events of 4 kinds, ring 2, channels 2 and 1, buffer 2, room for 1 of 2 addresses, I/O may fail, Ctrl-C at any time | `TypeOK`, `QueuesBounded`, `InOrder`, `Accounted`, `PolicyBeforeLog`, `DiesFromTheBack`, `ImplementsAuditLog` |
| `event_ring` | 2 CPUs, 3 frames out of 8 sorts (one byte of payload, 513 bytes, and six that pass uncaptured), ring 2 | `DeliveredExact`, `PayloadInFrame`, `RingDisjoint`, `NoLostWakeUp`, `AllTaken`, `QuietWhenIdle` |
| `commit_log` | prefix 2, messages of 1, 3 and 6 bytes, buffer 6, 16 bytes, 3 starts, failing I/O | `BytesInOrder`, `TearsExplained`, `FramedInOneRun` |
| `daemon` | 3 events, ring 2, everything else 1, startup and I/O may fail, the reader fair | `AccountedAndInOrder`, `Served`, `ChannelsEmpty`, `Stops`, `DeathSpreads` |

Six more runs are expected to fail; each states what a document or a comment
says and what the code does otherwise:

| Run | Property | What TLC finds |
|---|---|---|
| `dns_parser_answers` | `EveryAnswerDecoded` | `parse_rdata` assigns `skip_name`'s result to `offset` instead of adding it (`parser.rs:243`): of two answers the first is read twice |
| `dns_parser_rfc` | `QnameWithinRfc1035` | the root label is not counted (`parser.rs:199`): 256 bytes on the wire are accepted |
| `parser_task_every_ip` | `EveryAddressAdmitted` | `update` takes the first chunk only (`policy.rs:30`) |
| `parser_task_family` | `FamilyAlreadyParsed` | a response without address, or with a CNAME first, reaches the branch that is called a bug (`policy.rs:56`) |
| `pipeline_exit` | `FlushedOnExit` | nobody joins the writer thread (`topology.rs:107`): Ctrl-C can lose what is queued and buffered, also with a perfect disk |
| `commit_log_failure` | `EveryEntryFramed` | one failing flush between length and message (`topology.rs:130`) leaves a length without message, and the writer goes on behind it |

A restart does the same with a perfect disk (`IoMayFail = FALSE`,
`MaxStarts = 2` in that configuration): the process ends between two writes of
a flush, and the next run appends to half an entry (`topology.rs:110`).
`TearsExplained` is what holds of the log instead: each failure and each end
of a process breaks the framing in one place at most, and nothing else does;
`commit_log` checks it with three starts.

With `AfterName` changed to add, `EveryAnswerDecoded` holds on the instance
and `AdmittedWasAnswered` fails on that of `parser_task`: an A record before an AAAA record is then cut
into a chunk that is no address. Correcting `parser.rs:243` calls for
correcting `policy.rs:25-53` with it.

### Bounds

* The parser's instance has two answers because one pass of the record loop
  depends on the pass before it through `offset` alone, and two are enough
  for it to be wrong. The high byte of the answer count is not corrupted: it
  repeats passes that are already there 256 times.
* The pipeline's channels are small so that they are full, empty and half
  full with few events. Five events fill ring, channel, hands and buffer at
  different moments; the channel of capacity 1 is full while the writer only
  holds its slot. `MapCapacity` 1 of 2 addresses makes the map overflow.
* Two CPUs and a ring of two records: one CPU commits while the other still
  writes in front of it, the ring is full, and the third frame reuses the
  memory of the first. The sizes of headers and payload are the real ones.
* The log's buffer of 6 bytes holds a frame of 5 or two of 3, so that a flush
  falls before the prefix, between prefix and message, and at the end; a
  message of 6 goes past it. Three starts make two joints.
* `MaxEvents`, `MaxFrames`, `MaxBytes` and `MaxStarts` only bound TLC.
  The proofs do not depend on them.

### Fairness

* `DnsParser`: a parse has no `await`, so a task that began one goes on
  (`WF` on its steps). Nothing obliges an event to arrive.
* `DaemonSpec`: `main` runs on to its await, and the runtime polls the reader
  again and again. Nothing is assumed of parser and writer, because the
  document claims that the reader keeps the ring drained when they lag. Events
  need not arrive and Ctrl-C need not come.
* `OthersRun`, the hypothesis of `ChannelsEmpty`, `Stops` and `DeathSpreads`: the runtime polls
  the parser too, the operating system schedules the writer thread, and a
  shutdown that began goes on. Weak fairness is enough in each case.
* `FairSpec` of `EventRing`: a classifier that began comes to its end, which
  the kernel's verifier sees to, and the runtime runs its I/O driver and polls
  the reader. Frames need not arrive, so the last record must not depend on a
  later one for its wake-up.
* Pipeline, daemon, ring and log may stop (`CHECK_DEADLOCK FALSE`): the process
  has exited, or everything is handled and nothing more arrives.

## Proofs

| Module | Theorem | Establishes |
|---|---|---|
| `DnsParserProofs` | `TypeCorrect`, `NeverOutOfBounds`, `FamilyAlwaysBacked`, `DomainAlwaysBounded` | `TypeOK`, `IndexSafe`, `FamilyBacked`, `DomainBounded` |
| `DnsMessageProofs` | `QuestionAlwaysExact`, `SingleAnswerAlwaysExact` | `QuestionExact`, `SingleAnswerExact` |
| `ParserTaskProofs` | `TaskIsParser` | the parser task implements `DnsParser` |
| | `UpdateNeverPanics`, `NothingStaleAdmitted` | `UnwrapSafe`, `AdmittedFromPacket` |
| | `FirstAddressAlwaysAdmitted`, `OnlyAnsweredAdmitted` | `FirstAddressAdmitted`, `AdmittedWasAnswered` |
| `PipelineProofs` | `TypeCorrect`, `AlwaysBounded`, `NothingVanishes`, `DeathFromTheBack` | `TypeOK`, `QueuesBounded`, `Accounted`, `DiesFromTheBack` |
| | `PolicyFirst` | `PolicyBeforeLog` |
| | `OrderKept`, `Refinement` | `InOrder`, `ImplementsAuditLog` |
| | `DaemonAccounts`, `DaemonRefinement` | `AccountedAndInOrder` and `ImplementsAuditLog` of the daemon |
| `EventRingProofs` | `Exactness`, `Payloads`, `Disjointness`, `WakeUpsArrive` | `DeliveredExact`, `PayloadInFrame`, `RingDisjoint`, `NoLostWakeUp` |
| `CommitLogProofs` | `BytesStayInOrder`, `OneRunIsFramed`, `TearsAreExplained` | `BytesInOrder`, `FramedInOneRun`, `TearsExplained` |

`OrderingProofs` has the lemmas about sequences that these rest on, and
`DnsWireProofs` those about the reference encoding.

**Parser.** The only assumption is `RawEventsAssumption`: events carry bytes
and at most 512 of them, which `Payloads` shows of the classifier. The
invariant strengthens `IndexSafe` by where `base` is at each program point,
by the length of the name built so far in terms of `total`, and by
`rdlength` fitting the slice at `rdata`. `FamilyBacked` is inductive together
with the types, because every address record appends a whole address with
its family and `reset_slot` clears both.

**Messages.** `MessagesAssumption` asks that `Messages` be well-formed; there
is no bound on the number of labels or of messages, and none on the other raw
events. The argument has two halves.

* What the encoding puts where (`DnsWireProofs`). `Encode` concatenates lists
  of any length with `FlattenSeq`, so this is an induction. `SetInduction` is
  the principle, stated for a *set* of naturals (and proved from the library's well-founded
  minimum), since the provers cannot instantiate a theorem about an operator.
  `Cuts` are the places where the strings of a list begin, `Flattened` says
  that each string of a list stands at its cut; `NameOnWire`, `RecordOnWire`,
  `MessageOnWire` and `AnswerOnWire` give the layout of names, records and
  messages from it.
* Where the parser stands (`DnsMessageProofs`). `QuestionInv` says that
  `parse_qname` is at the cut of some label with the text of the labels before it, and that `parse_rdata`
  starts where the answers do. `AnswerInv` follows the record loop: it steps
  over the first owner and then, because of the assignment at `parser.rs:243`,
  always over the second, and is back at the first record if the two owners
  are equally long (`Aligned`; pointers are). Then no test of the parser fails
  and the slot holds the first address, once per pass. With at most one answer
  `Aligned` holds by itself, which gives `SingleAnswerExact`.

**Parser task.** Each step of the task is a step of the parser or leaves its
variables alone, so the parser's theorems carry over; `UnwrapSafe` follows
from `FamilyBacked`. For `AdmittedFromPacket` an invariant says that every
byte of `resolved_ip_raw` is a byte of the event being parsed: `reset_slot`
empties it, and only `rdata` of that event is appended.

The two theorems about admitted addresses have no hypothesis on the raw
events: malformed packets and messages with owners of different lengths may
come before and after the one at hand. For a message in which the loop keeps
its footing `AnswerInv` gives that the first chunk of the slot is the address
of the first answer (`FirstKey`), and `QuestionInv` that the name looked up is
that of its question. `FirstAddressAlwaysAdmitted` also needs that the map is
never larger than its capacity (`MapBounded`).

**Pipeline.** `PipelineAssumption` asks for positive capacities and for
addresses that differ from the two other kinds. `Accounted` and
`QueuesBounded` are not inductive alone: one must know who holds an event at
which program point and that a stage that is gone left nothing behind
(`Hands`). `Inv` is the conjunction, and each stage has a lemma that its
steps preserve it. For `PolicyBeforeLog` the invariant `VetInv` adds the
response that the parser is about to send and the finiteness of the map.

**Order.** `InOrder` is about `Line`, the concatenation of file, buffer,
channels, hands and ring. Every step leaves `Line` as it is, cuts a piece out
of it, or adds the next number at its end, and each keeps it numbered; the
proof regroups the concatenation around the stage that moves. The refinement
maps the file to the log: a step that changes the file appends to it, and what
it appends is in order by `InOrder` and parsable by `PolicyBeforeLog`.

**Event ring.** `EventRingAssumption` asks for frames, and for a ring of at
least one record. The inductive invariant adds who owns which busy record, how
far its memory has come at each program point, and that only captured frames
get records. For the wake-ups one must look at the reader between its last
look and `clear_ready`: a record that becomes visible to it there comes with a
moved tick, or with a wake-up under way (`WakeUps`).

**Commit log.** `CommitLogAssumption` asks for a buffer larger than a prefix.
`Stream` is file, buffer and the rest of the frame at hand; the invariant says
that it is numbered and, without failure or restart, framed and complete.
For `TearsExplained` the invariant `Budget` counts the tears of the stream: a
failed write and the end of a process pay for one each, and as long as the
last frame is incomplete one of them has not been used up.

**Daemon.** While `main` has not left early, the pipeline's invariant holds;
while the stages do not exist nothing has been read; once `main` has left
early only accounting and order are claimed (`DaemonInv`). A step of `main`
leaves the file alone, so that the daemon implements `AuditLog` because the
pipeline does; this is proved only, since a run would repeat that of the
pipeline.

Only model-checked: the liveness properties (`ParseEnds`, `ChannelsEmpty`,
`Stops`, `DeathSpreads`, `AllTaken`, `QuietWhenIdle`, `Served`), which are out
of the prover's reach.

## Not modelled

* A record in the ring that has not the size of a `RawDnsEvent`
  (`topology.rs:42`) and an encoding that fails (`topology.rs:122`): the
  classifier reserves exactly that size, and encoding into a `Vec` cannot
  fail.
* Within `Pipeline`, taking an event from the ring and handing it to the
  channel are one step, and the await returns whenever the ring has an event:
  `EventRing` shows that it does in the end.
* A disk that is lost: the file is what `write` was given. A killed process
  is `Exit` of `CommitLog`; SIGINT before `main` has reached `ctrl_c()` kills
  the process in the same way.
* What `load_ebpf`, `attach_dns_hook` and `bump_memlock_rlimit` do inside:
  each is one call that succeeds or ends `main`. The code attaches the ingress
  hook only, where `docs/ebpf_architecture.md:38` speaks of "both **ingress**
  and **egress** hooks"; there is no behaviour to check in that.
* The order of the time stamps, which are taken after the copy while the place
  in the ring is taken before it: nothing relies on it.
* eBPF logging (a task of its own that shares nothing with the pipeline),
  command line, log messages, build scripts and the generated protobuf code.
* `cilium-mini-ebpf/src/vmlinux.rs`: more than 74,000 lines of generated
  kernel bindings, most of the repository by lines, which the program does
  not use.
* The egress firewall of `docs/roadmap.md`, which does not exist yet: nothing
  looks `ALLOWED_IP_MAP` up.
