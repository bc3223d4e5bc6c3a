# TLA+ models of the SSB spoofer

This directory holds TLA+ specifications of the attack-orchestration core of
`src/ssb-spoofer`, the TLC configurations that model-check them, and TLAPS
proofs. The core is the acquisition scanner, the MIB mutator, the burst
transmitter and `main()`, which sequences them. The physical-layer codec
(srsRAN's SSB search, PBCH encode/decode, waveform synthesis), the radio driver
and the key:value file reader are external collaborators: they appear only
through the outcomes their calls return.

## 1. The system

| Part | Code | State | Operations |
|---|---|---|---|
| Orchestrator | `main()` (main.cpp:437-524) | stage, exit code, RF device life cycle | parse args, load config, `RfHandler::init`, `SsbProcessor::init`, scan, transmit, exit |
| Acquisition scanner | `scan_for_ssb` (main.cpp:57-212), `RfHandler::start_rx/receive/stop_rx`, `SsbProcessor::scan` | sample sink, RX stream, window position, monotonic clock, `result` | open sink, start RX (+flush), timeout/cancel exit, failed receive (10 ms back-off), receive a chunk, search a full window (miss/found) |
| MIB mutator | `SsbProcessor::decode_mib` as `scan` calls it, `SsbProcessor::modify_mib`, the attack checks of `ConfigParser::validate` | decoded MIB, forged MIB | decode, modify |
| Burst transmitter | `transmit_spoofed_ssb` (main.cpp:214-435), `RfHandler::transmit/stop_tx` | `tx_count` (C `int`), `consecutive_errors`, start/end-of-burst flags | encode, generate, start TX, send OK / send error / tenth error, loop exit, single shot, stop TX |
| Burst buffer | `transmit_spoofed_ssb` lines 240-280 | `base_samples`, `burst_length`, `total_samples` (all `uint32_t`), `tx_buffer`, loop index | generate (fail/ok), copy one repeat (in bounds/overrun), normalise |
| File analyzer | `ssb_file_analyzer.cpp` `main`, `parse_args`, `load_samples` | loaded sample count, `uint32_t` window offset and size | parse args, load, init codec, search one window, end of loop, each `return 1` |
| Cancellation | `running`, `signal_handler` (main.cpp:29-35) | one atomic flag | the signal sets it at any time; the loops poll it |

The program has a single thread. Its concurrency is the asynchronous signal,
which may set `running` between any two steps of the thread. Besides that,
the hard behaviours are:
- transport results: short reads, failed receives, failed sends;
- the decode outcomes of the codec;
- the monotonic deadline;
- the fixed-width counters and casts of the burst loop;
- the cleanup on each of the seven ways out of `main()`.

## 2. Modules

| Module | Models | Notes |
|---|---|---|
| `Transmitter` | `transmit_spoofed_ssb` | `IntBits` is the width of `int`. `IntInc` is `++` with the build's wraparound, and `CastToInt` is `(int)` of a `uint64`. Ghost variables count the accepted bursts (`sent`), those with start-of-burst (`sob_sent`), whether the last one left the burst open (`burst_open`), and why the loop ended (`exit_reason`). |
| `Scanner` | `scan_for_ssb` | Samples are counted, not stored. The clock is in ms since `start_time`: a receive takes 1 ms and a failed one adds the 10 ms back-off. The clock saturates one iteration past the deadline. Chunk and window sizes are the code's `srate*0.001` and `srate*0.01`, with the rate in Hz. |
| `Mutator` | decode and modify of the MIB | `ModifyMib` is the rule table exactly as coded. The inputs are every MIB and every validated rule table over small value sets. |
| `Orchestrator` | `main()` | It composes `Scanner` and `Transmitter` with `INSTANCE ... WITH`, over disjoint copies of their variables; they share `running`. `RfHandler`'s device is closed, open or initialized. `Exit` runs `~RfHandler`. |
| `Campaign` | spec 4.4 and 5 (abstract) | What the orchestrator promises, with no code behind it: `phase` (idle, scanning, transmitting, ended), `radio`, `rx` and `sink`. The sink opens and RX starts only while scanning. They stop together. Transmission starts only with both closed. One `End` step, from any phase, finds them closed and releases the radio. |
| `BurstBuffer` | the burst construction in `transmit_spoofed_ssb` | A sample is the index of the subframe sample it copies (`Zero` if never written). `UintMul` is `uint32` multiplication with width `UintBits`. An overrunning `memcpy` goes to `pc = "overflow"`. Normalisation is abstracted to whether the RMS reaches the target or is 0/0 (`"nan"`). |
| `FileAnalyzer` | the offline analyzer | A capture is its sample count. The window condition `offset + window_samples <= samples.size()` and the advance `offset += window_samples / 2` keep their `uint32` width. `scanned` (ghost) is the range of the last window searched; the search outcome only feeds printed counters and is left out. |
| `TransmitterProofs` | proofs | `EXTENDS Transmitter, TLAPS`. |
| `ScannerProofs` | proofs | `EXTENDS Scanner, TLAPS`. |
| `FileAnalyzerProofs` | proofs | `EXTENDS FileAnalyzer, TLAPS`. |
| `MutatorProofs` | proofs | `EXTENDS Mutator, TLAPS`. |
| `BurstBufferProofs` | proofs | `EXTENDS BurstBuffer, TLAPS`. |
| `OrchestratorProofs` | proofs | `EXTENDS Orchestrator, TLAPS`. It instantiates `ScannerProofs` and `TransmitterProofs` with the same substitutions as `Orchestrator`, so it can reuse their lemmas. |
| `MC*` | TLC instances | They give the constants their small values. |

Every action models a whole step of the code: its guards, its early returns
and the calls that change state. `PROJECT.json` ("map") gives the source
lines of every definition.

Configuration values are chosen in `Init` from constant sets and never change.
This matches `Config`, which is loaded once and passed by `const&`.
`Cancel` (the signal) is enabled in every state until the function returns.

## 3. Runs

| Run | Expect | What it shows |
|---|---|---|
| `transmitter` | pass | The exact burst count for limits that fit in an `int`. Start-of-burst only on the first send, including past the `int` overflow of `tx_count`, until the counter has gone once round the range (`SingleStartBeforeWrap`). No send after the tenth consecutive error. A campaign that is cancelled, limited or single-shot ends (`CampaignTerminates`); an unlimited one runs until the signal. |
| `transmitter_eob` | violation | With a gap of 0, no send carries end-of-burst and `stop_tx` sends none. |
| `scanner` | pass | The scan overruns its deadline by at most one iteration (11 ms), and always returns. |
| `scanner_loss` | violation | A short read shifts the window, and the chunk that fills the window loses its excess samples. |
| `orchestrator` | pass | Every way out of `main()` closes the device, stops RX and closes the sink. RX is stopped before TX starts. `main()` refines `Campaign` (`CampaignRefinement`). |
| `orchestrator_abort` | violation | An aborted campaign exits with status 0. |
| `mutator` | pass | `modify_mib` is idempotent in every reachable state; validate keeps the forged indices in their 4-bit fields. |
| `mutator_selective` | violation | Spec 8 says an enabled `intra_freq_reselection` rule sets the field to its configured value; `modify_mib` never writes the field, and an enabled `cell_barred` rule sets it to true whatever `cell_barred_value` says. |
| `mutator_decode` | violation | A failed MIB unpack yields a forged beacon with frame number 0 and offset 0. |
| `burst_buffer` | pass | A burst that reaches the transmitter is `burst_length_ms` whole copies of the subframe, with `nsamples = base_samples * burst_length_ms`. This holds even when the `uint32` product wraps, because a wrapped size always makes a later copy overrun first. |
| `burst_buffer_wrap` | violation | When `base_samples * burst_length_ms` wraps, the copy loop's `memcpy` writes past the end of `tx_buffer`. |
| `file_analyzer` | pass | The analyzer is well typed and always returns, for windows of 2 or more samples. |

Each property of a passing run has a mutant in `PROJECT.json`. A mutant is a
plausible coding error in the mapped definition, and TLC finds it violating
the property.

**Bounds.**
- *Transmitter.* A 4-bit `int` (-8..7) puts the overflow of `tx_count` within
  reach. Limits are 0 and 3. An unlimited campaign runs as long as the code
  lets it: the send step has no bound. The ghost counts are capped instead
  (`GhostInc`): `sent` stops at `SentCap = 2^IntBits + 1`, one burst past
  the return of `tx_count` to 0, and `sob_sent` at `SobCap = 2`. Above the
  caps the properties no longer tell counts apart, and the caps keep the
  state graph finite for the liveness check. TLC reaches the return to 0
  (the 17th burst of the 4-bit instance is marked start-of-burst again), which
  is why the checked property carries the `NoCounterReturn` hypothesis; on
  the target the return takes 2^32 bursts, and it is a hazard in
  `PROJECT.json`. A limit above `INT_MAX` (the `(int)` cast)
  is a hazard in `PROJECT.json`, and `ExactBurstCountCorrect` states the
  fits-in-an-int hypothesis that the cast needs. Intervals are 0 and 500 µs. The 10-error threshold is the code's own constant.
- *Scanner.* Sample rates are scaled to kHz: 2000 Hz gives chunks of 2 in
  windows of 20, and 500 Hz gives chunks of 0. A 2500 Hz rate in the loss run
  gives windows of 25. The 24 ms deadline lets two windows be searched, and the
  error back-off still overruns it. Two cell ids are enough for the filter to
  both match and miss.
- *Mutator.* Two values per MIB field, and config indices {0, 12, 16}.
- *Burst buffer.* A 4-bit `uint32` (0..15), subframe sizes {0, 1, 3, 4} and
  lengths 1..7. Some products fit (3*4 = 12) and some wrap (3*7 = 21 -> 5), so
  both the copy and the overrun happen.
  A burst length of 0, which `validate` accepts, reaches the 0/0
  normalisation; it is a hazard in `PROJECT.json` and left out of the pass
  run, whose lengths start at 1.
- *File analyzer.* A 4-bit `uint32`, files of 0, 5 and 9 samples, limits
  {0, 4, 7} (off, below and above the file size), windows {2, 3, 4}.
  Windows of 0 or 1 sample never advance the offset; that hazard is listed
  in `PROJECT.json`, and the mutant `AdvanceQuarter` shows that
  `AnalyzerTerminates` catches such an error. A capture within one window
  of 2^32 samples (32 GiB) wraps `offset + window_samples`, and a window
  past the end of the samples is then searched: the model reaches it with a
  15-sample file, and it is a hazard in `PROJECT.json`.

**Fairness.** Only the program's own thread is weakly fair:
`WF_vars(Transmit)`, `WF_vars(Scan)`, `WF_vars(Main)` and
`WF_vars(Analyze)`. `BurstBuffer` states only safety and has no fairness. Its next step is
always enabled until it returns, because every blocking call in the model
returns. The signal is the environment's and gets no fairness. `ScanTerminates`
therefore rests on the driver's blocking receive returning, which is an
assumption of the model (see the hazards).

## 4. Proofs (TLAPS)

`TransmitterProofs` proves, for every `IntBits >= 2` and all constant sets
allowed by `ConstantsAssumption`:
- `TypeCorrect`: `Spec => []TypeOK`, by the usual induction (`Init => TypeOK`,
  then one case per action), with the lemma `IntIncType`.
- `ExactBurstCountCorrect`: `Spec => [](FitsInInt => ExactBurstCount)`.
  `ExactBurstCount` alone is not inductive. The strengthening `BurstCountInv`
  says:
  - outside `stop_tx`/`done` the exit reason is still `"none"`;
  - `pc` agrees with the mode;
  - in a limited continuous campaign, `tx_count = sent <= max_bursts`, and
    a `"limit"` exit has `sent = max_bursts`.

  `BurstCountStep` shows it is preserved, given `TypeOK`. `CastSmall` gives
  `CastToInt(u) = u` for `u` in `0..IntMax`, and that is where the hypothesis
  `FitsInInt` enters. TLC checked `BurstCountInv` on the `transmitter`
  instance before it was proved.

`ScannerProofs` proves, for every configuration set allowed by
`ScannerAssumption` (positive sample rates, natural deadlines, cell ids in
0..1007):
- `ScannerTypeCorrect`: `Spec => []TypeOK`. `TypeOK` bounds
  `search_buffer_pos` by the window size, so this is the proof that the
  `memcpy` into the search buffer (main.cpp:157) never writes past it. The
  lemma `CopiedBounds` says a copy of `min(nrecv, room)` never overfills the
  window; `LaterBounds` keeps the saturated clock in range.
- `ScanDeadlineCorrect`: `Spec => []ScanDeadline`. It is inductive together
  with `TypeOK`: every loop step starts before the deadline and adds at most
  `IterMs`.
- `StreamsStep` proves that `StreamsInv` is preserved. `StreamsInv` says the
  RX stream and the sink are closed before they are opened and again after
  the return. It is not a run property of its own. The orchestrator's proofs
  use it.

`FileAnalyzerProofs` proves, for every width and every set of files,
limits and windows allowed by `FileAnalyzerAssumption`:
- `AnalyzerTypeCorrect`: `Spec => []TypeOK`. In particular the loaded count
  never exceeds the file (lemma `NumSamplesRange`).

`MutatorProofs` proves, for every value set allowed by `MutatorAssumption`:
- `MutationIdempotentCorrect`: `Spec => []MutationIdempotent`. It rests on
  the invariant `ModifiedInv` (lemma `ModifiedInvariant`): once modified, the
  forged MIB is `ModifyMib` of the decoded one, and both MIBs are MIBs.
  The lemmas `ModifyFields` and `ModifyIdempotent` state what `ModifyMib`
  does to each field. TLC checked `ModifiedInv` on the `mutator` instance.
- `MutatorTypeCorrect`: `Spec => []TypeOK`. `ModifiedInv` also records that
  the rule table passed `validate` (`AttackValid`), and that the forged MIB
  is all zeros before `modify_mib`. The lemma `ModifyOK` then puts the
  forged indices in 0..15.

`TransmitterProofs` also proves:
- `SingleStartOfBurstCorrect`: `Spec => []SingleStartBeforeWrap`, that is
  `[](NoCounterReturn => SingleStartOfBurst)`. The hypothesis says at most
  `2^IntBits` bursts have been sent. It is exact: the next burst finds the
  `int` counter back at 0, and `tx_count == 0` marks another start-of-burst
  (see the bounds above). Past the hypothesis `sent` may sit at its
  cap, so the proof only uses `sent' = sent + 1` while `sent` is below it.
  - The strengthening is `SobInv`. In continuous mode `tx_count` is `sent`,
    seen through the wraparound, and `sob_sent` is 1 after the first burst.
    A single shot sends at most once. Before `start_tx` nothing is sent.
  - The lemma `IntIncImage` says `IntInc` on the wrapped image of `n` gives
    the image of `n + 1`.
- `NoSendAfterAbortCorrect`: the action property `NoSendAfterAbort`. It
  follows from the invariant `ErrorsBelowLimit` (in the loop,
  `consecutive_errors < MaxConsecutiveErrors`), because every error step
  starts in the loop.

`BurstBufferProofs` proves, for every width `UintBits` and all subframe
sizes and burst lengths below `2^UintBits`:
- `BurstBufferTypeCorrect`: `Spec => []TypeOK`.
- `BurstRepeatsCorrect`: `Spec => []BurstRepeats`. The strengthening
  `RepeatInv` says that while copying, the first `i * base_samples`
  elements hold `k % base_samples`, the rest are still zero, and
  `i * base_samples <= total_samples`. That bound is what shows the `uint32`
  offset `i * base_samples` has not wrapped (lemma `UintMulExact`). When the
  loop ends, `burst_length * base_samples <= total_samples <=` the exact
  product, so `total_samples` did not wrap either. In other words, a
  wrapped product always ends in `CopyOverrun` first, which is the
  `burst_buffer_wrap` violation. `ModInRepeat` is the arithmetic fact
  `k % b = k - q * b` for `k` in the `q`-th repeat.

`OrchestratorProofs` proves, for every configuration allowed by
`OrchestratorAssumption`:
- `OrchestratorTypeCorrect`: `Spec => []TypeOK`, the type facts the other
  proofs rest on (not a run property: it repeats the stages' own).
- `CleanExitCorrect`: `Spec => []CleanExit`.
- `RxStoppedBeforeTxCorrect`: `Spec => []RxStoppedBeforeTx`.
- `CampaignRefinementCorrect`: `Spec => C!Spec`, where `C` is `Campaign`
  under the refinement mapping `CampaignPhase` (the four set-up stages are
  `idle`, `scan` is `scanning`, `transmit` is `transmitting`, `exited` is
  `ended`), with `radio <- device # "closed"`, `rx <- rx_streaming` and
  `sink <- sink_open`.

How these proofs are built:
- The proofs are compositional. `StagesStep` shows that every step of
  `main()` is a step or a stutter of the scanner and of the transmitter.
  The stages' lemmas (`ScannerTypeStep`, `TypeStep`, `StreamsStep`) then
  apply to their copies of the variables.
- An instantiated module's lemma can only be used when its `ASSUME`s hold
  for the substituted constants. That is why `Orchestrator` states
  `OrchestratorAssumption` (the stages' assumptions), and why the lemma
  `StageAssumptions` derives the instantiated assumptions from it.
- The invariant `StageInv` is `StageOrder` together with the scanner's
  `StreamsInv`. `StageOrder` says:
  - the scanner has not started before its stage and has returned before
    the transmitter's;
  - the device is initialised exactly between a successful
    `RfHandler::init` and the exit.

  TLC checked it on the `orchestrator` instance before it was proved.
- The refinement rests on `TypeOK` and `StageInv`. `StepRefines` maps each
  step of `main()` to a step of `Campaign` or to a stutter:
  - a successful `RfHandler::init` is `Acquire`, and a failed one is `End`;
  - a successful `SsbProcessor::init` is `StartScan`;
  - `ScanDone` is `StartTx` or `End`;
  - `TxDone` and every `Exit` are `End`;
  - the signal, the transmitter's steps and the scanner's receive steps
    are stutters.

  `ScanStepRefines` maps the scanner's own steps:
  - opening the sink is `OpenSink`, or a stutter when the open fails;
  - `StartRxOk` is `RxOn`;
  - the three returns are `StopAcquisition`.

  `StreamsInv` and `StageOrder` supply each guard, for example "RX is off
  and the sink closed when the stage is left". The mutant that leaks the
  device on the TX-gain failure breaks the `End` step.

`ConstantsAssumption` states `2^IntBits >= 4` and that `2^IntBits` is even,
and `BurstBufferAssumption` states that `2^UintBits` is a positive natural.
They are stated as arithmetic because the provers cannot expand `^` with a
symbolic exponent. TLC evaluates both on every run.

Out of the provers' reach, and left to TLC:
- liveness (`CampaignTerminates`, `ScanTerminates`, `AnalyzerTerminates`);
- the violation runs, whose properties are false by design;
- properties about what a recursive definition computes (there is none yet).

## 5. Not modelled, and what comes next

- The sample sink's writes (their failure is benign by the spec).
- `parse_config_file`/`get_value` (string parsing), the codec's DSP, the
  normalisation arithmetic beyond its 0/0 case, and the statistics display.

Every safety property of a passing run is now proved, and so is the
refinement of `Campaign` by `main()`. `Campaign` is stated without fairness,
so the refinement covers safety only. Termination stays with TLC, through
the liveness properties of the stage runs (`CampaignTerminates`,
`ScanTerminates`).
