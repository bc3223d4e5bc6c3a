----------------------------- MODULE FileAnalyzer -----------------------------
(***************************************************************************)
(* The offline SSB file analyzer: main() of                                *)
(* src/ssb-spoofer/src/ssb_file_analyzer.cpp (lines 163-318) with          *)
(* parse_args and load_samples.  After the arguments, the capture and the  *)
(* codec are set up, the capture is searched in windows of window_samples  *)
(* samples that overlap by half.                                           *)
(*                                                                         *)
(* A capture is its number of samples; a window is the pair of sample      *)
(* positions it covers.  The search outcome of a window only feeds the     *)
(* counters and the summary that are printed, so it is left out.  offset   *)
(* and window_samples are uint32_t, and keep their width UintBits.         *)
(***************************************************************************)
EXTENDS Integers

CONSTANTS
    UintBits,           \* width of uint32_t (32 on the target)
    FileSampleValues,   \* samples in the input file (file_size / 8)
    MaxSampleValues,    \* values of --max-samples (0 = all)
    WindowValues        \* window_samples = srate * window_ms / 1000 as uint32

UintMod == 2 ^ UintBits

\* The second conjunct is arithmetic (2^UintBits >= 2), stated for the
\* provers, which cannot expand ^ on a symbolic exponent.
ASSUME FileAnalyzerAssumption ==
    /\ UintBits \in Nat \ {0}
    /\ UintMod \in Nat /\ UintMod >= 2
    /\ FileSampleValues \subseteq Nat
    /\ MaxSampleValues \subseteq 0..(UintMod - 1)
    /\ WindowValues \subseteq 0..(UintMod - 1)

VARIABLES
    pc,                 \* where main() is
    exit_code,          \* the value main() returns (-1 while it runs)
    file_samples,       \* samples in the input file
    max_samples,        \* args.max_samples
    window_samples,     \* uint32_t window_samples
    num_samples,        \* samples.size() after load_samples
    offset,             \* the loop's uint32_t offset
    scanned             \* (ghost) the sample range of the last window searched

vars == <<pc, exit_code, file_samples, max_samples, window_samples,
          num_samples, offset, scanned>>

TypeOK ==
    /\ pc \in {"args", "load", "init", "scan", "done"}
    /\ exit_code \in {-1, 0, 1}
    /\ file_samples \in FileSampleValues
    /\ max_samples \in MaxSampleValues
    /\ window_samples \in WindowValues
    /\ num_samples \in 0..file_samples
    /\ offset \in 0..(UintMod - 1)
    /\ scanned \in Nat \X Nat
-----------------------------------------------------------------------------
(***************************************************************************)
(* Mutants: plausible coding errors of the analyzer.                       *)
(***************************************************************************)
\* --max-samples replaces the file size even when it is larger.
NumSamplesMaxOnly(file, max) == IF max > 0 THEN max ELSE file
\* The windows overlap by three quarters.
AdvanceQuarter(o) == (o + window_samples \div 4) % UintMod
-----------------------------------------------------------------------------
\* load_samples: num_samples = file_size / 8, cut to max_samples when
\* 0 < max_samples < num_samples.
NumSamples(file, max) == IF max > 0 /\ max < file THEN max ELSE file

\* offset + window_samples <= samples.size(): the sum is a uint32.
WindowFits == (offset + window_samples) % UintMod <= num_samples

\* offset += window_samples / 2, in uint32.
Advance(o) == (o + window_samples \div 2) % UintMod

Init ==
    /\ pc = "args"
    /\ exit_code = -1
    /\ file_samples \in FileSampleValues
    /\ max_samples \in MaxSampleValues
    /\ window_samples \in WindowValues
    /\ num_samples = 0
    /\ offset = 0
    /\ scanned = <<0, 0>>

\* return 1 from main().
Fail ==
    /\ pc' = "done"
    /\ exit_code' = 1
    /\ UNCHANGED <<file_samples, max_samples, window_samples, num_samples,
                   offset, scanned>>

\* parse_args: no argument, -h, an unknown option, or a missing -f, -s or
\* -c make it return false, and main() prints the usage and returns 1.
ParseArgs ==
    /\ pc = "args"
    /\ \/ Fail
       \/ /\ pc' = "load"
          /\ UNCHANGED <<exit_code, file_samples, max_samples, window_samples,
                         num_samples, offset, scanned>>

\* load_samples: the file cannot be opened, or the read fails, and main()
\* returns 1; otherwise samples holds num_samples samples.
LoadSamples ==
    /\ pc = "load"
    /\ \/ Fail
       \/ /\ pc' = "init"
          /\ num_samples' = NumSamples(file_samples, max_samples)
          /\ UNCHANGED <<exit_code, file_samples, max_samples, window_samples,
                         offset, scanned>>

\* SsbProcessor::init fails and main() returns 1, or the search starts at
\* offset 0 with window_samples computed from the arguments.
ProcInit ==
    /\ pc = "init"
    /\ \/ Fail
       \/ /\ pc' = "scan"
          /\ offset' = 0
          /\ UNCHANGED <<exit_code, file_samples, max_samples, window_samples,
                         num_samples, scanned>>

\* One iteration: ssb_proc.scan(&samples[offset], window_samples, target),
\* then offset advances by half a window.
ScanWindow ==
    /\ pc = "scan"
    /\ WindowFits
    /\ scanned' = <<offset, offset + window_samples>>
    /\ offset' = Advance(offset)
    /\ UNCHANGED <<pc, exit_code, file_samples, max_samples, window_samples,
                   num_samples>>

\* The loop condition fails: the summary is printed and main() returns 0.
ScanEnd ==
    /\ pc = "scan"
    /\ ~WindowFits
    /\ pc' = "done"
    /\ exit_code' = 0
    /\ UNCHANGED <<file_samples, max_samples, window_samples, num_samples,
                   offset, scanned>>

Analyze == ParseArgs \/ LoadSamples \/ ProcInit \/ ScanWindow \/ ScanEnd

Terminated ==
    /\ pc = "done"
    /\ UNCHANGED vars

Next == Analyze \/ Terminated

\* One thread of control; every codec call returns.
Spec == Init /\ [][Next]_vars /\ WF_vars(Analyze)
-----------------------------------------------------------------------------
(***************************************************************************)
(* Properties                                                              *)
(***************************************************************************)

\* The analyzer always finishes its pass over the capture and returns.
AnalyzerTerminates == <>(pc = "done")
=============================================================================
