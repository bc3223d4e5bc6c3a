--------------------------- MODULE MCOrchestrator ---------------------------
(***************************************************************************)
(* main() for TLC: one sample rate (chunks of 2 in windows of 20), a       *)
(* deadline of one window, two cell ids; a 4-bit int and limits 0 and 3   *)
(* (an unlimited campaign runs until the signal or the error abort).       *)
(***************************************************************************)
EXTENDS Orchestrator

MCIntBits == 4
MCMaxBursts == {0, 3}
MCIntervals == {0, 500}
MCSrates == {2000}
MCDurations == {12}
MCPcis == {1, 2}
=============================================================================
