---------------------------- MODULE Orchestrator ----------------------------
(***************************************************************************)
(* The SSB spoofer's main() (src/ssb-spoofer/src/main.cpp, lines 437-524): *)
(* argument parsing, configuration load, RfHandler::init, SsbProcessor::   *)
(* init, then the scanner and the transmitter one after the other, and the *)
(* exit code.  The two stages are the modules Scanner and Transmitter,     *)
(* instantiated over disjoint copies of their variables and sharing the    *)
(* cancellation flag `running`.  The RF device's life cycle (open, close on *)
(* an init failure, close by ~RfHandler at exit) is kept; the streams are  *)
(* the stages' own variables.                                              *)
(***************************************************************************)
EXTENDS Integers

CONSTANTS
    IntBits, MaxBurstsValues, IntervalValues,            \* of Transmitter
    SrateValues, DurationValues, PciValues, NoCell       \* of Scanner

VARIABLES
    stage,              \* the step of main() being executed
    exit_code,          \* the value main() returns (-1 while it runs)
    device,             \* the srsran_rf_t of RfHandler: closed, open, initialized
    running,            \* the global std::atomic<bool> running
    \* the scanner's variables
    s_pc, conf, sink_open, rx_streaming, clock, search_buffer_pos, received,
    searched, ssb_result, s_ret,
    \* the transmitter's variables
    t_pc, attack, tx_count, consecutive_errors, sent, sob_sent, burst_open,
    exit_reason, t_result

S == INSTANCE Scanner WITH pc <- s_pc, result <- ssb_result, ret <- s_ret

T == INSTANCE Transmitter WITH pc <- t_pc, result <- t_result

\* main() runs both stages on the one configuration: its value sets are
\* those the scanner and the transmitter assume.
ASSUME OrchestratorAssumption == S!ScannerAssumption /\ T!ConstantsAssumption

svars == <<s_pc, conf, sink_open, rx_streaming, clock, search_buffer_pos,
           received, searched, ssb_result, s_ret>>
tvars == <<t_pc, attack, tx_count, consecutive_errors, sent, sob_sent,
           burst_open, exit_reason, t_result>>
vars == <<stage, exit_code, device, running, svars, tvars>>

Stage == {"args", "load", "rf_init", "proc_init", "scan", "transmit", "exited"}

TypeOK ==
    /\ stage \in Stage
    /\ exit_code \in {-1, 0, 1}
    /\ device \in {"closed", "open", "initialized"}
    /\ S!TypeOK
    /\ T!TypeOK

\* Outcomes of RfHandler::init: srsran_rf_open fails; set_rx_gain fails;
\* set_tx_gain fails; success (sample rates and frequencies are unchecked).
RfInitOutcome == {"open_fail", "rx_gain_fail", "tx_gain_fail", "ok"}
-----------------------------------------------------------------------------
\* Mutant of RfInit: the TX-gain failure path returns without srsran_rf_close.
RfInitLeaksOnTxGain ==
    /\ stage = "rf_init"
    /\ \E outcome \in RfInitOutcome :
          /\ device' = CASE outcome = "ok"           -> "initialized"
                         [] outcome = "tx_gain_fail" -> "open"
                         [] OTHER                    -> "closed"
          /\ IF outcome = "ok"
                THEN stage' = "proc_init" /\ UNCHANGED exit_code
                ELSE stage' = "exited" /\ exit_code' = 1
    /\ UNCHANGED <<running, svars, tvars>>
-----------------------------------------------------------------------------
Init ==
    /\ stage = "args"
    /\ exit_code = -1
    /\ device = "closed"
    /\ S!Init
    /\ T!Init

\* return from main(): locals are destroyed, ~RfHandler closes an
\* initialised device (~SsbProcessor frees the codec).
Exit(code) ==
    /\ stage' = "exited"
    /\ exit_code' = code
    /\ device' = IF device = "initialized" THEN "closed" ELSE device

\* Command line: --help returns 0, an unknown option or a -c without its
\* argument returns 1; otherwise the signal handlers are installed.
ParseArgs ==
    /\ stage = "args"
    /\ \/ Exit(0)
       \/ Exit(1)
       \/ stage' = "load" /\ UNCHANGED <<exit_code, device>>
    /\ UNCHANGED <<running, svars, tvars>>

\* ConfigParser::load_from_file, which parses and validates; the values it
\* yields are the ones S!Init and T!Init chose.
LoadConfig ==
    /\ stage = "load"
    /\ \/ Exit(1)
       \/ stage' = "rf_init" /\ UNCHANGED <<exit_code, device>>
    /\ UNCHANGED <<running, svars, tvars>>

\* RfHandler::init: a failure after srsran_rf_open closes the device again.
RfInit ==
    /\ stage = "rf_init"
    /\ \E outcome \in RfInitOutcome :
          /\ device' = IF outcome = "ok" THEN "initialized" ELSE "closed"
          /\ IF outcome = "ok"
                THEN stage' = "proc_init" /\ UNCHANGED exit_code
                ELSE stage' = "exited" /\ exit_code' = 1
    /\ UNCHANGED <<running, svars, tvars>>

\* SsbProcessor::init (srsran_ssb_init, then configure): failure returns 1.
ProcInit ==
    /\ stage = "proc_init"
    /\ \/ Exit(1)
       \/ stage' = "scan" /\ UNCHANGED <<exit_code, device>>
    /\ UNCHANGED <<running, svars, tvars>>

\* A step of scan_for_ssb.
ScanStep ==
    /\ stage = "scan"
    /\ S!Scan
    /\ UNCHANGED <<stage, exit_code, device, tvars>>

\* scan_for_ssb returned: on false, "Failed to find target SSB", return 1.
ScanDone ==
    /\ stage = "scan"
    /\ s_pc = "done"
    /\ IF s_ret THEN stage' = "transmit" /\ UNCHANGED <<exit_code, device>>
                ELSE Exit(1)
    /\ UNCHANGED <<running, svars, tvars>>

\* A step of transmit_spoofed_ssb.
TxStep ==
    /\ stage = "transmit"
    /\ T!Transmit
    /\ UNCHANGED <<stage, exit_code, device, svars>>

\* transmit_spoofed_ssb returned: false gives 1, true gives 0.
TxDone ==
    /\ stage = "transmit"
    /\ t_pc = "done"
    /\ Exit(IF t_result THEN 0 ELSE 1)
    /\ UNCHANGED <<running, svars, tvars>>

\* signal_handler(), installed once the arguments are parsed.
Cancel ==
    /\ stage \notin {"args", "exited"}
    /\ running
    /\ running' = FALSE
    /\ UNCHANGED <<stage, exit_code, device, svars, tvars>>

Main ==
    \/ ParseArgs \/ LoadConfig \/ RfInit \/ ProcInit
    \/ ScanStep \/ ScanDone \/ TxStep \/ TxDone

Terminated ==
    /\ stage = "exited"
    /\ UNCHANGED vars

Next == Main \/ Cancel \/ Terminated

\* One thread of control, which always takes its next step.
Spec == Init /\ [][Next]_vars /\ WF_vars(Main)
-----------------------------------------------------------------------------
(***************************************************************************)
(* Properties                                                              *)
(***************************************************************************)

\* Every way out of main() -- failure, timeout, cancellation or success --
\* leaves the RF device closed, the RX stream stopped and the sample sink
\* closed (spec: "every terminal state performs the same cleanup").
CleanExit ==
    stage = "exited" => device = "closed" /\ ~rx_streaming /\ ~sink_open

\* Acquisition is over before any transmission: the RX stream is stopped
\* whenever the transmitter runs (spec: "once transmitting, no further
\* acquisition occurs").
RxStoppedBeforeTx ==
    stage = "transmit" => ~rx_streaming

\* The order of main()'s stages: the scanner has not started before its
\* stage and has returned before the transmitter's; the device is
\* initialised exactly between a successful RfHandler::init and the exit.
StageOrder ==
    /\ stage \in {"args", "load", "rf_init", "proc_init"} => s_pc = "open_sink"
    /\ stage \in {"args", "load", "rf_init"} => device = "closed"
    /\ stage \in {"proc_init", "scan", "transmit"} => device = "initialized"
    /\ stage = "transmit" => s_pc = "done"
    /\ stage = "exited" => device = "closed" /\ s_pc \in {"open_sink", "done"}

\* Inductive invariant behind CleanExit and RxStoppedBeforeTx: the order of
\* the stages, and the scanner's stream facts.
StageInv == StageOrder /\ S!StreamsInv

\* A campaign aborted after ten consecutive transmit errors ends the process
\* with exit code 1 (spec: the abort is fatal; exit 1 on any transmission
\* failure).
AbortExitsNonZero ==
    (stage = "exited" /\ exit_reason = "abort") => exit_code = 1

\* The refinement mapping onto Campaign: main()'s set-up stages are the
\* idle phase, the scanner's and the transmitter's stages the scanning and
\* transmitting phases; the radio is held while the device is not closed.
CampaignPhase ==
    CASE stage \in {"args", "load", "rf_init", "proc_init"} -> "idle"
      [] stage = "scan"     -> "scanning"
      [] stage = "transmit" -> "transmitting"
      [] stage = "exited"   -> "ended"

C == INSTANCE Campaign
       WITH phase <- CampaignPhase, radio <- device # "closed",
            rx <- rx_streaming, sink <- sink_open

\* main() implements the campaign: every step of it is a step of the
\* abstract orchestrator or leaves the abstract state alone (spec 4.4: one
\* campaign, phases never re-entered, acquisition over before transmission,
\* the same cleanup on every exit, the device released last).
CampaignRefinement == C!Spec
=============================================================================
