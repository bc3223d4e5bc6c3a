------------------------------ MODULE MCScanner ------------------------------
(***************************************************************************)
(* Scanner instantiated for TLC.  Sample rates are scaled down to a few    *)
(* kHz so that a 10 ms window is a handful of 1 ms chunks: 2000 Hz gives    *)
(* chunks of 2 in windows of 20, 2500 Hz chunks of 2 in windows of 25, so   *)
(* the last chunk of a window does not fit whole.  The deadline of 24 ms    *)
(* lets two windows be searched, and 500 Hz gives chunks of 0 samples.      *)
(***************************************************************************)
EXTENDS Scanner

MCSrates == {2000, 2500}
MCSratesTiny == {500, 2000}
MCDurations == {24}
MCPcis == {1, 2}
==============================================================================
