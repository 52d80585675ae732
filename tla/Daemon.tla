------------------------------- MODULE Daemon --------------------------------
(***************************************************************************)
(* main of cilium-mini-rs/src/main.rs around the pipeline: the startup     *)
(* sequence with its error paths, the hook, the wait for Ctrl-C.  The hook *)
(* is attached before anybody reads the ring, and the pipeline's stages    *)
(* exist only once assembly_processing_topology has spawned them.          *)
(***************************************************************************)
EXTENDS Pipeline

VARIABLES
  boot,  \* where main is: a step of Startup, up, alone or failed
  hook   \* the classifier is attached

bootVars == <<boot, hook>>
daemonVars == <<vars, bootVars>>

\* The calls of main in their order; "maps" stands for take_map, the policy
\* engine and take_map again.
Startup == <<"rlimit", "load", "logging", "attach", "maps", "topology">>

\* An error in one of these ends main; one of the logger or of the topology
\* is a warning.
Fatal == {"rlimit", "load", "attach", "maps"}

DaemonInit == Init /\ boot = Startup[1] /\ hook = FALSE

-----------------------------------------------------------------------------

\* A call succeeds, or it is the logger's, whose failure main does not mind.
Proceed ==
  \E i \in 1 .. Len(Startup) - 1 :
    /\ boot = Startup[i]
    /\ boot' = Startup[i + 1]
    /\ hook' = (hook \/ boot = "attach")
    /\ UNCHANGED vars

\* The process ends with what is in the ring; the hook goes with ebpf.
Leave ==
  /\ main' = "exited"
  /\ hook' = FALSE
  /\ ring' = << >>
  /\ lost' = lost + Len(ring)
  /\ UNCHANGED <<arrived, reader, raw, parserVars, dns, writerVars>>

StartupFails ==
  /\ boot \in Fatal
  /\ boot' = "failed"
  /\ Leave

\* Both channels and the three stages.
Assemble ==
  /\ boot = "topology"
  /\ boot' = "up"
  /\ UNCHANGED <<hook, vars>>

\* No RingBuf or no AsyncFd: "Ingestor error", and main goes on to wait for
\* Ctrl-C with the hook attached and no stage to read the ring.
AssembleFails ==
  /\ boot = "topology"
  /\ boot' = "alone"
  /\ UNCHANGED <<hook, vars>>

Boot == Proceed \/ StartupFails \/ Assemble \/ AssembleFails

-----------------------------------------------------------------------------

Capture(k) == hook /\ Arrive(k) /\ UNCHANGED bootVars

ReaderRuns == boot = "up" /\ Reader /\ UNCHANGED bootVars
ParserRuns == boot = "up" /\ Parser /\ UNCHANGED bootVars
WriterRuns == boot = "up" /\ Writer /\ UNCHANGED bootVars

\* signal::ctrl_c() returns, main too, and ebpf is dropped.
Interrupt ==
  /\ boot \in {"up", "alone"}
  /\ CtrlC
  /\ hook' = FALSE
  /\ UNCHANGED boot

\* The runtime goes: with the tasks if there are any.
RuntimeDrop ==
  \/ boot = "up" /\ Shutdown /\ UNCHANGED bootVars
  \/ boot = "alone" /\ main = "stopping" /\ Leave /\ UNCHANGED boot

DaemonNext ==
  \/ Boot
  \/ \E k \in Kinds : Capture(k)
  \/ ReaderRuns \/ ParserRuns \/ WriterRuns
  \/ Interrupt \/ RuntimeDrop

\* main runs on to its await and the runtime polls the reader.  Nothing is
\* assumed of the other stages, events need not arrive and Ctrl-C need not come.
DaemonSpec ==
  /\ DaemonInit /\ [][DaemonNext]_daemonVars
  /\ WF_daemonVars(Boot) /\ WF_daemonVars(ReaderRuns)

\* The runtime polls the parser too, the kernel schedules the writer thread,
\* and a shutdown that began goes on.
OthersRun ==
  WF_daemonVars(ParserRuns) /\ WF_daemonVars(WriterRuns) /\ WF_daemonVars(RuntimeDrop)

-----------------------------------------------------------------------------

\* docs/userspace_architecture.md: the reader drops "to keep the kernel ring
\* buffer drained".  An event captured at any time since the hook was attached,
\* also before the reader exists, leaves the ring even if no other stage ever
\* takes a step, unless the topology could not be set up or the reader is gone
\* because the stages behind it are.
Served == ring # << >> ~> (ring = << >> \/ boot = "alone" \/ reader = "exited")

\* No stage waits for another for ever: whatever has entered the channels
\* ends up with the BufWriter, in the file or dropped.
ChannelsEmpty ==
  OthersRun =>
    (Len(raw) + Len(job) + Len(dns) + Len(entry) > 0 ~>
       Len(raw) + Len(job) + Len(dns) + Len(entry) = 0)

\* After Ctrl-C the process exits, with or without stages.
Stops == OthersRun => (main = "stopping" ~> main = "exited")

Parsable(s) == \E i \in DOMAIN s : s[i].kind # "bad"

\* A dead stage does not go unnoticed: once the writer is gone, a parsable event
\* in the parser's hands or channel ends the parser, and once the parser is
\* gone an event in the ring ends the reader, whatever else is queued and
\* whether or not Ctrl-C comes meanwhile.  Neither goes on for ever handling
\* events for a stage that is not there.
DeathSpreads ==
  OthersRun =>
    /\ (writer = "exited" /\ Parsable(job \o raw)) ~> parser = "exited"
    /\ (parser = "exited" /\ ring # << >>) ~> reader = "exited"

\* No event is unaccounted for or out of order, wherever startup fails.
AccountedAndInOrder == Accounted /\ InOrder
=============================================================================
