------------------------------- MODULE Scanner -------------------------------
(***************************************************************************)
(* The acquisition scanner of the SSB spoofer: scan_for_ssb() in          *)
(* src/ssb-spoofer/src/main.cpp (lines 57-212), with the calls it makes:   *)
(* RfHandler::start_rx/receive/stop_rx (rf_handler.cc) and                 *)
(* SsbProcessor::scan (its cell-id filter).                                *)
(*                                                                         *)
(* Samples are counted, not stored: a window is the number of samples it   *)
(* holds (search_buffer_pos).  Time is the monotonic clock in ms since     *)
(* start_time; a blocking receive of a 1 ms chunk takes 1 ms, an error     *)
(* adds the 10 ms back-off.  Beyond the deadline only "past it" matters,   *)
(* so the clock saturates one iteration after it.                          *)
(***************************************************************************)
EXTENDS Integers

CONSTANTS
    SrateValues,        \* values of rf.srate_hz (Hz) read from the config
    DurationValues,     \* values of operation.scan_duration_sec, in ms
    PciValues,          \* cell ids the codec may decode (subset of 0..1007)
    NoCell              \* the codec's search found no decodable SSB

ASSUME ScannerAssumption ==
    /\ SrateValues \subseteq Nat \ {0}
    /\ DurationValues \subseteq Nat
    /\ PciValues \subseteq 0..1007
    /\ NoCell \notin PciValues

\* main.cpp:131, sleep_for(milliseconds(10)) after a failed receive
BackoffMs == 10

\* the longest loop iteration: a receive, then the back-off
IterMs == 1 + BackoffMs

\* uint32_t samples_per_iter = srate_hz * 0.001;  search_buffer_size = srate_hz * 0.01
SamplesPerIter(srate) == srate \div 1000
SearchBufferSize(srate) == srate \div 100

MinOf(a, b) == IF a <= b THEN a ELSE b

VARIABLES
    pc,                 \* where scan_for_ssb is
    running,            \* the global std::atomic<bool> running
    conf,               \* the configuration fields the scan reads
    sink_open,          \* sample_file.is_open()
    rx_streaming,       \* the RX stream is started and not stopped
    clock,              \* ms since start_time (saturating)
    search_buffer_pos,  \* samples in the current search window
    received,           \* (ghost) samples received since start_time
    searched,           \* (ghost) samples handed to the codec in full windows
    result,             \* the SsbSearchResult out-parameter
    ret                 \* the bool returned by scan_for_ssb

vars == <<pc, running, conf, sink_open, rx_streaming, clock, search_buffer_pos,
          received, searched, result, ret>>

ScanConfig == [srate_hz : SrateValues,
               scan_duration_ms : DurationValues,
               save_samples : BOOLEAN,
               scan_for_target : BOOLEAN,
               target_pci : PciValues]

SearchResult == [found : BOOLEAN, pci : PciValues \cup {0}]

Chunk == SamplesPerIter(conf.srate_hz)
Window == SearchBufferSize(conf.srate_hz)

\* the clock reading after d more ms, saturated past the deadline
Later(d) == MinOf(clock + d, conf.scan_duration_ms + IterMs + 1)

TypeOK ==
    /\ pc \in {"open_sink", "start_rx", "loop", "done"}
    /\ running \in BOOLEAN
    /\ conf \in ScanConfig
    /\ sink_open \in BOOLEAN
    /\ rx_streaming \in BOOLEAN
    /\ clock \in 0..(conf.scan_duration_ms + IterMs + 1)
    /\ search_buffer_pos \in 0..Window
    /\ received \in Nat
    /\ searched \in Nat
    /\ result \in SearchResult
    /\ ret \in BOOLEAN
-----------------------------------------------------------------------------
(***************************************************************************)
(* Mutants: plausible coding errors, used to show that the properties     *)
(* below can detect a wrong scanner.                                       *)
(***************************************************************************)
TimedOutLate == clock >= conf.scan_duration_ms + 1 + IterMs
-----------------------------------------------------------------------------
Init ==
    /\ pc = "open_sink"
    /\ running = TRUE
    /\ conf \in ScanConfig
    /\ sink_open = FALSE
    /\ rx_streaming = FALSE
    /\ clock = 0
    /\ search_buffer_pos = 0
    /\ received = 0
    /\ searched = 0
    /\ result = [found |-> FALSE, pci |-> 0]
    /\ ret = FALSE

\* With save_samples, sample_file.open(); a failure is only a warning.
OpenSink ==
    /\ pc = "open_sink"
    /\ pc' = "start_rx"
    /\ IF conf.save_samples THEN sink_open' \in BOOLEAN ELSE sink_open' = FALSE
    /\ UNCHANGED <<running, conf, rx_streaming, clock, search_buffer_pos,
                   received, searched, result, ret>>

\* Leaving scan_for_ssb: the ofstream is closed (explicitly or by its
\* destructor) and the function returns.
Return(value) ==
    /\ pc' = "done"
    /\ sink_open' = FALSE
    /\ ret' = value

\* rf.start_rx() fails: "Failed to start RX stream", return false.
StartRxFail ==
    /\ pc = "start_rx"
    /\ Return(FALSE)
    /\ UNCHANGED <<running, conf, rx_streaming, clock, search_buffer_pos,
                   received, searched, result>>

\* rf.start_rx() succeeds; 500 ms settle, ten chunks are read and discarded,
\* then start_time is taken.
StartRxOk ==
    /\ pc = "start_rx"
    /\ pc' = "loop"
    /\ rx_streaming' = TRUE
    /\ clock' = 0
    /\ UNCHANGED <<running, conf, sink_open, search_buffer_pos, received,
                   searched, result, ret>>

\* if (elapsed_sec > scan_duration_sec) break;
TimedOut == clock > conf.scan_duration_ms

\* SsbProcessor::scan: a decoded cell passes the optional target filter.
CellMatches(pci) == ~conf.scan_for_target \/ pci = conf.target_pci

\* rf.stop_rx() on the way out of the loop.
StopRx == rx_streaming' = FALSE

\* while (running) is false, or the deadline has passed: stop_rx, return false.
ScanExit ==
    /\ pc = "loop"
    /\ ~running \/ TimedOut
    /\ StopRx
    /\ Return(FALSE)
    /\ UNCHANGED <<running, conf, clock, search_buffer_pos, received,
                   searched, result>>

\* Mutant of RecvError: elapsed time is derived from the samples received
\* (as the file-sink summary computes it), so a failed receive takes none.
RecvErrorUntimed ==
    /\ pc = "loop"
    /\ running /\ ~TimedOut
    /\ UNCHANGED <<pc, running, conf, sink_open, rx_streaming, clock,
                   search_buffer_pos, received, searched, result, ret>>

\* rf.receive() returned nrecv <= 0: sleep 10 ms and continue.
RecvError ==
    /\ pc = "loop"
    /\ running /\ ~TimedOut
    /\ clock' = Later(IterMs)
    /\ UNCHANGED <<pc, running, conf, sink_open, rx_streaming,
                   search_buffer_pos, received, searched, result, ret>>

\* Mutant of Copied: the whole chunk is copied into the window.
CopiedWhole(nrecv) == nrecv

\* The samples of a receive of nrecv > 0 samples that fit in the window.
Copied(nrecv) == MinOf(nrecv, Window - search_buffer_pos)

\* A receive of nrecv in 1..Chunk samples (short reads included) that leaves
\* the window below full; the chunk goes to the sink if it is open.
RecvChunk ==
    /\ pc = "loop"
    /\ running /\ ~TimedOut
    /\ \E nrecv \in 1..Chunk :
          /\ search_buffer_pos + Copied(nrecv) < Window
          /\ search_buffer_pos' = search_buffer_pos + Copied(nrecv)
          /\ received' = received + nrecv
    /\ clock' = Later(1)
    /\ UNCHANGED <<pc, running, conf, sink_open, rx_streaming, searched,
                   result, ret>>

\* A receive that fills the window; ssb_proc.scan() on the full window.
\* No decodable SSB, or a cell other than the target: reset the window.
SearchMiss ==
    /\ pc = "loop"
    /\ running /\ ~TimedOut
    /\ \E nrecv \in 1..Chunk :
          /\ search_buffer_pos + Copied(nrecv) >= Window
          /\ received' = received + nrecv
    /\ \E cell \in PciValues \cup {NoCell} :
          /\ cell = NoCell \/ ~CellMatches(cell)
    /\ result' = [found |-> FALSE, pci |-> 0]
    /\ search_buffer_pos' = 0
    /\ searched' = searched + Window
    /\ clock' = Later(1)
    /\ UNCHANGED <<pc, running, conf, sink_open, rx_streaming, ret>>

\* Mutant of SearchFound: the early return on a found cell skips rf.stop_rx().
SearchFoundKeepsRx ==
    /\ pc = "loop"
    /\ running /\ ~TimedOut
    /\ \E nrecv \in 1..Chunk :
          /\ search_buffer_pos + Copied(nrecv) >= Window
          /\ search_buffer_pos' = search_buffer_pos + Copied(nrecv)
          /\ received' = received + nrecv
    /\ \E cell \in PciValues :
          /\ CellMatches(cell)
          /\ result' = [found |-> TRUE, pci |-> cell]
    /\ Return(TRUE)
    /\ UNCHANGED <<running, conf, clock, searched, rx_streaming>>

\* The window's search decodes a matching cell: stop_rx, return true.
SearchFound ==
    /\ pc = "loop"
    /\ running /\ ~TimedOut
    /\ \E nrecv \in 1..Chunk :
          /\ search_buffer_pos + Copied(nrecv) >= Window
          /\ search_buffer_pos' = search_buffer_pos + Copied(nrecv)
          /\ received' = received + nrecv
    /\ \E cell \in PciValues :
          /\ CellMatches(cell)
          /\ result' = [found |-> TRUE, pci |-> cell]
    /\ StopRx
    /\ Return(TRUE)
    /\ UNCHANGED <<running, conf, clock, searched>>

\* signal_handler(): SIGINT or SIGTERM may arrive at any moment.
Cancel ==
    /\ running
    /\ running' = FALSE
    /\ UNCHANGED <<pc, conf, sink_open, rx_streaming, clock, search_buffer_pos,
                   received, searched, result, ret>>

Scan ==
    \/ OpenSink \/ StartRxFail \/ StartRxOk \/ ScanExit
    \/ RecvError \/ RecvChunk \/ SearchMiss \/ SearchFound

Terminated ==
    /\ pc = "done"
    /\ UNCHANGED vars

Next == Scan \/ Cancel \/ Terminated

\* The single thread of control always takes its next step; every blocking
\* receive returns (the transport is assumed not to hang).
Spec == Init /\ [][Next]_vars /\ WF_vars(Scan)
-----------------------------------------------------------------------------
(***************************************************************************)
(* Properties                                                              *)
(***************************************************************************)

\* The scan never runs more than one loop iteration past its deadline
\* (spec: "returns found=false at or shortly after the deadline").
ScanDeadline ==
    pc = "loop" => clock <= conf.scan_duration_ms + IterMs

\* scan_for_ssb always returns, whatever the radio delivers.
ScanTerminates == <>(pc = "done")

\* The RX stream runs only between a successful start_rx and the stop_rx
\* on the way out of the loop, and the sample sink is closed on every
\* return (the stream facts main() relies on before transmitting).
StreamsInv ==
    /\ pc \in {"open_sink", "start_rx"} => ~rx_streaming
    /\ pc = "open_sink" => ~sink_open
    /\ pc = "done" => ~rx_streaming /\ ~sink_open

\* Every sample received since start_time is either in the current window or
\* was searched in a full window: none is silently dropped
\* (spec: a short read "does not reset or corrupt window state").
NoSampleLost ==
    received = searched + search_buffer_pos
=============================================================================
