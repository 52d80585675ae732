------------------------------ MODULE CommitLog ------------------------------
(***************************************************************************)
(* The bytes of the commit log: spawn_file_writer of                       *)
(* cilium-mini-rs/src/topology.rs with its BufWriter, over failing writes, *)
(* the end of the process at any moment and restarts that append to the    *)
(* same file.                                                              *)
(*                                                                         *)
(* A byte is known by its number in the order of encoding and by whether   *)
(* it begins or ends a frame, that is a length prefix and its message.     *)
(* Sizes are scaled down: the constants name the real ones.                *)
(***************************************************************************)
EXTENDS Ordering, FiniteSets

CONSTANTS
  PrefixLen,  \* bytes of the length prefix (4)
  Sizes,      \* lengths of encoded messages
  BufCap,     \* capacity of the BufWriter (256 KB)
  MaxBytes,   \* bound on the bytes encoded
  MaxStarts,  \* bound on the number of starts of the daemon
  IoMayFail   \* whether opening and writing the file can fail

ASSUME CommitLogAssumption ==
  /\ PrefixLen \in Nat \ {0} /\ BufCap \in Nat /\ PrefixLen < BufCap
  /\ Sizes \subseteq Nat
  /\ MaxBytes \in Nat /\ MaxStarts \in Nat /\ IoMayFail \in BOOLEAN

Byte == [id : Nat \ {0}, first : BOOLEAN, last : BOOLEAN]

VARIABLES
  starts,    \* how often the daemon has been started
  phase,     \* writer: down, open, recv, prefix, payload, direct, last, drop, ended
  flushing,  \* the BufWriter is in flush_buf
  encoded,   \* how many bytes have been encoded
  todo,      \* bytes of the frame at hand that the BufWriter has not got yet
  buf,       \* bytes in the BufWriter
  file,      \* bytes in 00000001.ldpb
  failed     \* how many calls of the BufWriter have failed

vars == <<starts, phase, flushing, encoded, todo, buf, file, failed>>

Init ==
  /\ starts = 0 /\ encoded = 0 /\ failed = 0
  /\ phase = "down" /\ flushing = FALSE
  /\ todo = << >> /\ buf = << >> /\ file = << >>

\* The daemon is started and spawns the thread.
Start ==
  /\ phase = "down" /\ starts < MaxStarts
  /\ starts' = starts + 1
  /\ phase' = "open"
  /\ UNCHANGED <<flushing, encoded, todo, buf, file, failed>>

\* The file is opened for appending: what is in it stays.
Open ==
  /\ phase = "open"
  /\ phase' = "recv"
  /\ UNCHANGED <<starts, flushing, encoded, todo, buf, file, failed>>

\* expect panics; there is no BufWriter yet.
OpenFails ==
  /\ phase = "open" /\ IoMayFail
  /\ phase' = "ended"
  /\ UNCHANGED <<starts, flushing, encoded, todo, buf, file, failed>>

\* The bytes of a frame with a message of n bytes.
Frame(n) ==
  [k \in 1 .. PrefixLen + n |->
     [id |-> encoded + k, first |-> k = 1, last |-> k = PrefixLen + n]]

\* Faulty variant: the message is a byte shorter than proto_len says.
Recv_Short(n) ==
  /\ phase = "recv" /\ encoded + PrefixLen + n <= MaxBytes
  /\ todo' = SubSeq(Frame(n), 1, PrefixLen + n - 1)
  /\ encoded' = encoded + PrefixLen + n
  /\ phase' = "prefix"
  /\ UNCHANGED <<starts, flushing, buf, file, failed>>

\* A message is received and encoded into proto_buffer, which is cleared
\* first.  Encoding into a Vec does not fail.
Recv(n) ==
  /\ phase = "recv" /\ encoded + PrefixLen + n <= MaxBytes
  /\ todo' = Frame(n)
  /\ encoded' = encoded + PrefixLen + n
  /\ phase' = "prefix"
  /\ UNCHANGED <<starts, flushing, buf, file, failed>>

-----------------------------------------------------------------------------
(* The BufWriter (std::io, external), as write_all and flush use it.       *)

\* How many bytes the call at hand is to write.
Part == IF phase = "prefix" THEN PrefixLen ELSE Len(todo)

Fits == Len(buf) + Part <= BufCap

\* Faulty variant: the length is not written.
Put_NoLength ==
  /\ phase \in {"prefix", "payload"} /\ ~flushing /\ Fits /\ Part < BufCap
  /\ buf' = IF phase = "prefix" THEN buf ELSE buf \o SubSeq(todo, 1, Part)
  /\ todo' = SubSeq(todo, Part + 1, Len(todo))
  /\ phase' = IF phase = "prefix" THEN "payload" ELSE "recv"
  /\ UNCHANGED <<starts, flushing, encoded, file, failed>>

\* write_all of the length, and_then of the message, into the buffer.
Put ==
  /\ phase \in {"prefix", "payload"} /\ ~flushing /\ Fits /\ Part < BufCap
  /\ buf' = buf \o SubSeq(todo, 1, Part)
  /\ todo' = SubSeq(todo, Part + 1, Len(todo))
  /\ phase' = IF phase = "prefix" THEN "payload" ELSE "recv"
  /\ UNCHANGED <<starts, flushing, encoded, file, failed>>

MustFlush ==
  /\ phase \in {"prefix", "payload"} /\ ~flushing /\ ~Fits /\ buf # << >>
  /\ flushing' = TRUE
  /\ UNCHANGED <<starts, phase, encoded, todo, buf, file, failed>>

\* Faulty variant: the bytes written are not forgotten.
FlushSome_Keeps(n) ==
  /\ flushing
  /\ file' = file \o SubSeq(buf, 1, n)
  /\ UNCHANGED <<starts, phase, flushing, encoded, todo, buf, failed>>

\* One write to the file takes n bytes; they leave the buffer.
FlushSome(n) ==
  /\ flushing
  /\ file' = file \o SubSeq(buf, 1, n)
  /\ buf' = SubSeq(buf, n + 1, Len(buf))
  /\ UNCHANGED <<starts, phase, flushing, encoded, todo, failed>>

FlushDone ==
  /\ flushing /\ buf = << >>
  /\ flushing' = FALSE
  /\ phase' = IF phase \in {"last", "drop"} THEN "ended" ELSE phase
  /\ UNCHANGED <<starts, encoded, todo, buf, file, failed>>

\* A write fails.  What was not written stays in the buffer, what was to be
\* added is not, and the record is given up with an error message; if it was
\* the message that did not fit, its length is in the buffer or the file.
\* After the last flush the BufWriter is dropped, which tries once more.
FlushFails ==
  /\ flushing /\ buf # << >> /\ IoMayFail
  /\ flushing' = (phase = "last")
  /\ failed' = failed + 1
  /\ phase' = CASE phase = "last" -> "drop"
                [] phase = "drop" -> "ended"
                [] OTHER -> "recv"
  /\ todo' = << >>
  /\ UNCHANGED <<starts, encoded, buf, file>>

\* A message as large as the whole buffer does not go through it.
GoDirect ==
  /\ phase = "payload" /\ ~flushing /\ buf = << >> /\ Part >= BufCap
  /\ phase' = "direct"
  /\ UNCHANGED <<starts, flushing, encoded, todo, buf, file, failed>>

\* One write to the file takes n bytes of it.
DirectSome(n) ==
  /\ phase = "direct"
  /\ file' = file \o SubSeq(todo, 1, n)
  /\ todo' = SubSeq(todo, n + 1, Len(todo))
  /\ phase' = IF n = Len(todo) THEN "recv" ELSE "direct"
  /\ UNCHANGED <<starts, flushing, encoded, buf, failed>>

\* The rest is given up.
DirectFails ==
  /\ phase = "direct" /\ IoMayFail
  /\ phase' = "recv"
  /\ failed' = failed + 1
  /\ todo' = << >>
  /\ UNCHANGED <<starts, flushing, encoded, buf, file>>

BufWriter ==
  \/ Put \/ MustFlush \/ FlushDone \/ FlushFails
  \/ \E n \in 1 .. Len(buf) : FlushSome(n)
  \/ GoDirect \/ DirectFails
  \/ \E n \in 1 .. Len(todo) : DirectSome(n)

-----------------------------------------------------------------------------

\* recv_ref() is None: the last flush.
Close ==
  /\ phase = "recv"
  /\ phase' = "last"
  /\ flushing' = TRUE
  /\ UNCHANGED <<starts, encoded, todo, buf, file, failed>>

\* The process ends: nobody waits for the thread, so it may be anywhere.
Exit ==
  /\ phase # "down"
  /\ phase' = "down"
  /\ flushing' = FALSE
  /\ todo' = << >> /\ buf' = << >>
  /\ UNCHANGED <<starts, encoded, file, failed>>

Next ==
  \/ Start \/ Open \/ OpenFails
  \/ \E n \in Sizes : Recv(n)
  \/ BufWriter \/ Close \/ Exit

Spec == Init /\ [][Next]_vars

-----------------------------------------------------------------------------
(* Properties.                                                             *)

\* Type correctness.
TypeOK ==
  /\ starts \in Nat /\ encoded \in Nat /\ failed \in Nat
  /\ phase \in {"down", "open", "recv", "prefix", "payload", "direct", "last", "drop",
                "ended"}
  /\ flushing \in BOOLEAN
  /\ todo \in Seq(Byte) /\ buf \in Seq(Byte) /\ file \in Seq(Byte)

Stream == file \o buf \o todo

\* No byte is written twice and none overtakes another, whatever fails on the
\* way and however often the daemon is restarted.
BytesInOrder == Numbered(Stream, encoded)

\* b may come right after a: it goes on with a's frame or begins a new one.
Follows(a, b) == IF a.last THEN b.first ELSE b.id = a.id + 1

\* Where a frame breaks off and other bytes go on.
Tears(s) == {i \in 1 .. Len(s) - 1 : ~Follows(s[i], s[i + 1])}

\* A failed write and the end of a process tear the log in one place at most
\* each, and nothing else does.
TearsExplained ==
  Cardinality(Tears(file \o buf)) <= failed + (IF starts > 1 THEN starts - 1 ELSE 0)

\* While no write has failed and the daemon has been started only once, the
\* log is one frame after the other, the last one possibly incomplete.
FramedInOneRun ==
  failed = 0 /\ starts <= 1 =>
    /\ file # << >> => file[1].first
    /\ Tears(file) = {}

\* docs/userspace_architecture.md: "Each entry is prefixed by a 4-byte
\* big-endian unsigned integer indicating the byte length of the serialized
\* message": after an entry comes the prefix of the next.
EveryEntryFramed == Tears(file) = {}
=============================================================================
