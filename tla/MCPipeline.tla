----------------------------- MODULE MCPipeline -----------------------------
(***************************************************************************)
(* Small instances of the pipeline.                                        *)
(***************************************************************************)
EXTENDS Pipeline, TLC

CONSTANTS a1, a2
MCAddrs == {a1, a2}

\* The addresses are interchangeable.
AddrSymmetry == Permutations(MCAddrs)
=============================================================================
