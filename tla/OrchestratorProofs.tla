--------------------------- MODULE OrchestratorProofs ---------------------------
(***************************************************************************)
(* Proofs about main() (Orchestrator.tla): type correctness of the         *)
(* composition, the clean exit and the end of acquisition before           *)
(* transmission, for every configuration allowed by the assumptions of    *)
(* the scanner and of the transmitter.                                     *)
(*                                                                         *)
(* The stages' own step lemmas are reused: SP and TP instantiate their     *)
(* proof modules over the orchestrator's copies of their variables, and    *)
(* ScannerSame/TransmitterSame identify these instances with the           *)
(* orchestrator's S and T.                                                 *)
(***************************************************************************)
EXTENDS Orchestrator, TLAPS

SP == INSTANCE ScannerProofs WITH pc <- s_pc, result <- ssb_result, ret <- s_ret
TP == INSTANCE TransmitterProofs WITH pc <- t_pc, result <- t_result

\* The assumptions of the stages' proof modules hold for main()'s constants.
LEMMA StageAssumptions == SP!ScannerAssumption /\ TP!ConstantsAssumption
  BY OrchestratorAssumption DEF T!IntMod, TP!IntMod

\* The orchestrator's scanner is the scanner of ScannerProofs.
LEMMA ScannerSame ==
    /\ S!TypeOK = SP!TypeOK
    /\ S!Init = SP!Init
    /\ S!Next = SP!Next
    /\ S!vars = SP!vars
    /\ S!StreamsInv = SP!StreamsInv
    /\ S!TypeOK' = SP!TypeOK'
    /\ S!StreamsInv' = SP!StreamsInv'
  BY DEF S!TypeOK, SP!TypeOK, S!Window, SP!Window, S!IterMs, SP!IterMs,
         S!ScanConfig, SP!ScanConfig, S!SearchResult, SP!SearchResult,
         S!SearchBufferSize, SP!SearchBufferSize, S!BackoffMs, SP!BackoffMs,
         S!Init, SP!Init, S!Next, SP!Next, S!vars, SP!vars,
         S!Scan, SP!Scan, S!Cancel, SP!Cancel, S!Terminated, SP!Terminated,
         S!OpenSink, SP!OpenSink, S!Return, SP!Return, S!StartRxFail,
         SP!StartRxFail, S!StartRxOk, SP!StartRxOk, S!ScanExit, SP!ScanExit,
         S!StopRx, SP!StopRx, S!TimedOut, SP!TimedOut, S!RecvError,
         SP!RecvError, S!Later, SP!Later, S!MinOf, SP!MinOf, S!RecvChunk,
         SP!RecvChunk, S!Copied, SP!Copied, S!Chunk, SP!Chunk,
         S!SamplesPerIter, SP!SamplesPerIter, S!SearchMiss, SP!SearchMiss,
         S!CellMatches, SP!CellMatches, S!SearchFound, SP!SearchFound,
         S!StreamsInv, SP!StreamsInv

\* The orchestrator's transmitter is the transmitter of TransmitterProofs.
LEMMA TransmitterSame ==
    /\ T!TypeOK = TP!TypeOK
    /\ T!Init = TP!Init
    /\ T!Next = TP!Next
    /\ T!vars = TP!vars
    /\ T!TypeOK' = TP!TypeOK'
  BY DEF T!TypeOK, TP!TypeOK, T!PC, TP!PC, T!ExitReason, TP!ExitReason,
         T!AttackConfig, TP!AttackConfig, T!IntMin, TP!IntMin, T!IntMax,
         TP!IntMax, T!IntMod, TP!IntMod, T!Init, TP!Init, T!Next, TP!Next,
         T!vars, TP!vars, T!Transmit, TP!Transmit, T!Cancel, TP!Cancel,
         T!Terminated, TP!Terminated, T!EncodeMib, TP!EncodeMib, T!Fail,
         TP!Fail, T!GenerateSsb, TP!GenerateSsb, T!StartTx, TP!StartTx,
         T!LoopCond, TP!LoopCond, T!CastToInt, TP!CastToInt, T!IsStart,
         TP!IsStart, T!IsEnd, TP!IsEnd, T!ErrorLimitReached,
         TP!ErrorLimitReached, T!MaxConsecutiveErrors, TP!MaxConsecutiveErrors,
         T!TxSuccess, TP!TxSuccess, T!IntInc, TP!IntInc, T!TxError,
         TP!TxError, T!TxAbort, TP!TxAbort, T!LoopExit, TP!LoopExit,
         T!SingleTxOk, TP!SingleTxOk, T!SingleTxFail, TP!SingleTxFail,
         T!StopTx, TP!StopTx, T!GhostInc, TP!GhostInc, T!SentCap, TP!SentCap,
         T!SobCap, TP!SobCap

\* Only the signal writes the shared flag: no step of a stage changes it.
LEMMA ScanKeepsRunning == S!Scan => UNCHANGED running
  BY DEF S!Scan, S!OpenSink, S!StartRxFail, S!StartRxOk, S!ScanExit,
         S!RecvError, S!RecvChunk, S!SearchMiss, S!SearchFound

LEMMA TransmitKeepsRunning == T!Transmit => UNCHANGED running
  BY DEF T!Transmit, T!EncodeMib, T!GenerateSsb, T!StartTx, T!TxSuccess,
         T!TxError, T!TxAbort, T!LoopExit, T!SingleTxOk, T!SingleTxFail,
         T!StopTx

\* Each step of main() is a step or a stutter of each stage: the stage
\* that runs takes one of its own steps, the signal is the stages' Cancel,
\* and every other step leaves the stages' variables alone.
LEMMA StagesStep ==
    ASSUME [Next]_vars
    PROVE  /\ [S!Next]_(S!vars)
           /\ [T!Next]_(T!vars)
<1>1. CASE ScanStep
  BY <1>1, ScanKeepsRunning DEF ScanStep, S!Next, T!vars, tvars
<1>2. CASE TxStep
  BY <1>2, TransmitKeepsRunning DEF TxStep, T!Next, S!vars, svars
<1>3. CASE Cancel
  BY <1>3 DEF Cancel, S!Next, S!Cancel, T!Next, T!Cancel, svars, tvars
<1>4. CASE ParseArgs \/ LoadConfig \/ RfInit \/ ProcInit \/ ScanDone \/ TxDone
  BY <1>4 DEF ParseArgs, LoadConfig, RfInit, ProcInit, ScanDone, TxDone,
              S!vars, T!vars, svars, tvars
<1>5. CASE Terminated \/ UNCHANGED vars
  BY <1>5 DEF Terminated, vars, S!vars, T!vars, svars, tvars
<1>6. QED
  BY <1>1, <1>2, <1>3, <1>4, <1>5 DEF Next, Main

-----------------------------------------------------------------------------
\* Every reachable state of main() is well typed, the stages' variables
\* included, for every configuration.
THEOREM OrchestratorTypeCorrect == Spec => []TypeOK
<1>1. Init => TypeOK
  <2> SUFFICES ASSUME Init PROVE TypeOK
    OBVIOUS
  <2>1. S!TypeOK
    BY SP!ScannerTypeInit, ScannerSame, StageAssumptions DEF Init
  <2>2. T!TypeOK
    BY TP!TypeInit, TransmitterSame, StageAssumptions DEF Init
  <2>3. QED
    BY <2>1, <2>2 DEF Init, TypeOK, Stage
<1>2. TypeOK /\ [Next]_vars => TypeOK'
  <2> SUFFICES ASSUME TypeOK, [Next]_vars PROVE TypeOK'
    OBVIOUS
  <2>1. S!TypeOK'
    <3>1. [SP!Next]_(SP!vars)
      BY StagesStep, ScannerSame DEF S!vars, SP!vars
    <3>2. QED
      BY <3>1, SP!ScannerTypeStep, ScannerSame, StageAssumptions DEF TypeOK
  <2>2. T!TypeOK'
    <3>1. [TP!Next]_(TP!vars)
      BY StagesStep, TransmitterSame DEF T!vars, TP!vars
    <3>2. QED
      BY <3>1, TP!TypeStep, TransmitterSame, StageAssumptions DEF TypeOK
  <2>3. /\ stage' \in Stage
        /\ exit_code' \in {-1, 0, 1}
        /\ device' \in {"closed", "open", "initialized"}
    BY DEF TypeOK, Next, Main, ParseArgs, LoadConfig, RfInit, ProcInit,
           ScanStep, ScanDone, TxStep, TxDone, Cancel, Terminated, Exit,
           Stage, vars
  <2>4. QED
    BY <2>1, <2>2, <2>3 DEF TypeOK
<1>3. QED
  BY <1>1, <1>2, PTL DEF Spec

-----------------------------------------------------------------------------
\* StageInv holds initially and is preserved by every step.
LEMMA StageInit == Init => StageInv
  BY DEF Init, StageInv, StageOrder, S!Init, S!StreamsInv

LEMMA StageStep == StageInv /\ [Next]_vars => StageInv'
<1> SUFFICES ASSUME StageInv, [Next]_vars PROVE StageInv'
  OBVIOUS
<1>1. S!StreamsInv'
  <2>1. [SP!Next]_(SP!vars)
    BY StagesStep, ScannerSame DEF S!vars, SP!vars
  <2>2. QED
    BY <2>1, SP!StreamsStep, ScannerSame, StageAssumptions DEF StageInv
<1>2. StageOrder'
  <2>1. CASE ParseArgs \/ LoadConfig \/ RfInit \/ ProcInit
    BY <2>1 DEF ParseArgs, LoadConfig, RfInit, ProcInit, Exit, StageInv,
                StageOrder, svars
  <2>2. CASE ScanStep \/ ScanDone
    BY <2>2 DEF ScanStep, ScanDone, Exit, StageInv, StageOrder, svars
  <2>3. CASE TxStep \/ TxDone
    BY <2>3 DEF TxStep, TxDone, Exit, StageInv, StageOrder, svars
  <2>4. CASE Cancel \/ Terminated \/ UNCHANGED vars
    BY <2>4 DEF Cancel, Terminated, vars, StageInv, StageOrder, svars
  <2>5. QED
    BY <2>1, <2>2, <2>3, <2>4 DEF Next, Main
<1>3. QED
  BY <1>1, <1>2 DEF StageInv

\* Every way out of main() -- a failed argument, configuration, device or
\* codec setup, a failed scan, or a finished campaign -- leaves the RF
\* device closed, the RX stream stopped and the sample sink closed, for
\* every configuration.
THEOREM CleanExitCorrect == Spec => []CleanExit
<1>1. StageInv => CleanExit
  BY DEF StageInv, StageOrder, CleanExit, S!StreamsInv
<1>2. QED
  BY <1>1, StageInit, StageStep, PTL DEF Spec

\* The RX stream is stopped whenever the transmitter runs: acquisition is
\* over before transmission begins, for every configuration.
THEOREM RxStoppedBeforeTxCorrect == Spec => []RxStoppedBeforeTx
<1>1. StageInv => RxStoppedBeforeTx
  BY DEF StageInv, StageOrder, RxStoppedBeforeTx, S!StreamsInv
<1>2. QED
  BY <1>1, StageInit, StageStep, PTL DEF Spec

-----------------------------------------------------------------------------
\* The steps of the scanner seen through the refinement mapping: opening
\* the sink, starting the stream and stopping acquisition are campaign
\* steps, the receive steps leave the abstract state alone.
LEMMA ScanStepRefines ==
    ASSUME TypeOK, StageInv, ScanStep
    PROVE  [C!Next]_C!cvars
<1> USE DEF ScanStep, CampaignPhase, C!cvars
<1>1. CASE S!OpenSink
  <2>1. s_pc = "open_sink" /\ ~rx_streaming /\ ~sink_open
    BY <1>1 DEF S!OpenSink, StageInv, S!StreamsInv
  <2>2. sink_open \in BOOLEAN /\ sink_open' \in BOOLEAN
    BY <1>1, Zenon DEF S!OpenSink, TypeOK, S!TypeOK
  <2>3. CASE sink_open'
    BY <1>1, <2>1, <2>3, Zenon DEF S!OpenSink, C!Next, C!OpenSink
  <2>4. CASE ~sink_open'
    BY <1>1, <2>1, <2>2, <2>4 DEF S!OpenSink
  <2>5. QED
    BY <2>2, <2>3, <2>4
<1>2. CASE S!StartRxOk
  <2>1. ~rx_streaming
    BY <1>2 DEF S!StartRxOk, StageInv, S!StreamsInv
  <2>2. QED
    BY <1>2, <2>1, Zenon DEF S!StartRxOk, C!Next, C!RxOn
<1>3. CASE S!StartRxFail
  <2>1. ~rx_streaming
    BY <1>3 DEF S!StartRxFail, StageInv, S!StreamsInv
  <2>2. QED
    BY <1>3, <2>1 DEF S!StartRxFail, S!Return, C!Next, C!StopAcquisition
<1>4. CASE S!ScanExit \/ S!SearchFound
  BY <1>4 DEF S!ScanExit, S!SearchFound, S!Return, S!StopRx,
              C!Next, C!StopAcquisition
<1>5. CASE S!RecvError \/ S!RecvChunk \/ S!SearchMiss
  BY <1>5 DEF S!RecvError, S!RecvChunk, S!SearchMiss
<1>6. QED
  BY <1>1, <1>2, <1>3, <1>4, <1>5 DEF S!Scan

\* Every step of main() is a step of the campaign or a stutter of it.
LEMMA StepRefines ==
    ASSUME TypeOK, StageInv, [Next]_vars
    PROVE  [C!Next]_C!cvars
<1> USE DEF CampaignPhase, C!cvars
<1>1. CASE ParseArgs \/ LoadConfig
  <2>1. stage \in {"args", "load"} /\ device = "closed"
        /\ ~rx_streaming /\ ~sink_open
    BY <1>1 DEF ParseArgs, LoadConfig, StageInv, StageOrder, S!StreamsInv
  <2>2. QED
    BY <1>1, <2>1 DEF ParseArgs, LoadConfig, Exit, svars, C!Next, C!End
<1>2. CASE RfInit
  <2>1. device = "closed" /\ ~rx_streaming /\ ~sink_open
    BY <1>2 DEF RfInit, StageInv, StageOrder, S!StreamsInv
  <2>2. QED
    BY <1>2, <2>1 DEF RfInit, svars, C!Next, C!Acquire, C!End
<1>3. CASE ProcInit
  <2>1. device = "initialized" /\ ~rx_streaming /\ ~sink_open
    BY <1>3 DEF ProcInit, StageInv, StageOrder, S!StreamsInv
  <2>2. QED
    BY <1>3, <2>1 DEF ProcInit, Exit, svars, C!Next, C!StartScan, C!End
<1>4. CASE ScanStep
  BY <1>4, ScanStepRefines
<1>5. CASE ScanDone
  <2>1. device = "initialized" /\ ~rx_streaming /\ ~sink_open
    BY <1>5 DEF ScanDone, StageInv, StageOrder, S!StreamsInv
  <2>2. s_ret \in BOOLEAN
    BY DEF TypeOK, S!TypeOK
  <2>3. QED
    BY <1>5, <2>1, <2>2 DEF ScanDone, Exit, svars, C!Next, C!StartTx, C!End
<1>6. CASE TxStep
  BY <1>6 DEF TxStep, svars
<1>7. CASE TxDone
  <2>1. device = "initialized" /\ ~rx_streaming /\ ~sink_open
    BY <1>7 DEF TxDone, StageInv, StageOrder, S!StreamsInv
  <2>2. QED
    BY <1>7, <2>1 DEF TxDone, Exit, svars, C!Next, C!End
<1>8. CASE Cancel \/ Terminated \/ UNCHANGED vars
  BY <1>8 DEF Cancel, Terminated, vars, svars
<1>9. QED
  BY <1>1, <1>2, <1>3, <1>4, <1>5, <1>6, <1>7, <1>8 DEF Next, Main

\* main() implements the abstract campaign under the refinement mapping:
\* set-up, one scan, one transmission and a single terminal step that
\* finds acquisition over and releases the device, for every configuration.
THEOREM CampaignRefinementCorrect == Spec => CampaignRefinement
<1>1. Init => C!Init
  BY DEF Init, S!Init, C!Init, CampaignPhase
<1>2. QED
  BY <1>1, StepRefines, OrchestratorTypeCorrect, StageInit, StageStep, PTL
     DEF Spec, CampaignRefinement, C!Spec
=============================================================================
