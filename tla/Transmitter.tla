----------------------------- MODULE Transmitter -----------------------------
(***************************************************************************)
(* The burst transmitter of the SSB spoofer: transmit_spoofed_ssb() in     *)
(* src/ssb-spoofer/src/main.cpp (lines 214-435), together with the        *)
(* process-wide cancellation flag `running` set by signal_handler().       *)
(*                                                                         *)
(* The waveform itself (MIB bits, samples, amplitude) is abstracted away:  *)
(* what is kept is the control of the function -- the codec and RF calls  *)
(* that may fail, the continuous loop with its burst limit, its            *)
(* consecutive-error counter, the start/end-of-burst flags handed to the   *)
(* transport, and the value the function returns.  The C++ `int`          *)
(* counter tx_count and the cast (int)max_bursts keep their width IntBits. *)
(***************************************************************************)
EXTENDS Integers

CONSTANTS
    IntBits,            \* width of the C++ `int` (32 on the target)
    MaxBurstsValues,    \* values of attack.max_bursts (uint64) read from the config
    IntervalValues      \* values of attack.burst_interval_us (uint32)

\* main.cpp:319, const int max_consecutive_errors = 10
MaxConsecutiveErrors == 10

IntMod == 2 ^ IntBits
IntMax == IntMod \div 2 - 1
IntMin == -(IntMod \div 2)

\* The second conjunct is arithmetic (2^IntBits is even and >= 4 for IntBits >= 2),
\* stated for the provers, which cannot expand ^ on a symbolic exponent.
ASSUME ConstantsAssumption ==
    /\ IntBits \in Nat \ {0, 1}
    /\ IntMod \in Nat /\ IntMod >= 4 /\ IntMod % 2 = 0
    /\ MaxBurstsValues \subseteq Nat
    /\ IntervalValues \subseteq Nat

\* Mutant of IntInc: ++ as on an unbounded integer.
IntIncUnbounded(x) == x + 1

\* ++ on an int: signed overflow is undefined; the build wraps around.
IntInc(x) == IF x = IntMax THEN IntMin ELSE x + 1

\* (int)u for an unsigned value u: the low IntBits bits, read as two's complement.
CastToInt(u) == IF (u % IntMod) > IntMax THEN (u % IntMod) - IntMod ELSE u % IntMod

\* The ghost counts stop where the properties stop telling counts apart:
\* `sent` is exact up to 2^IntBits + 1, one burst past tx_count's return to
\* 0, and `sob_sent` up to 2.  They keep an unlimited campaign finite.
SentCap == IntMod + 1
SobCap == 2
GhostInc(n, cap) == IF n < cap THEN n + 1 ELSE n

VARIABLES
    pc,                 \* where transmit_spoofed_ssb is
    running,            \* the global std::atomic<bool> running
    attack,             \* the attack section of the configuration (immutable)
    tx_count,           \* int tx_count, successful bursts as the code counts them
    consecutive_errors, \* int consecutive_errors
    sent,               \* (ghost) bursts the transport accepted
    sob_sent,           \* (ghost) accepted bursts that carried start_of_burst
    burst_open,         \* (ghost) the transport holds a burst without end_of_burst
    exit_reason,        \* (ghost) why the continuous loop was left
    result              \* the bool returned by transmit_spoofed_ssb

vars == <<pc, running, attack, tx_count, consecutive_errors, sent, sob_sent,
          burst_open, exit_reason, result>>

PC == {"encode", "generate", "start_tx", "loop", "single", "stop_tx", "done"}
ExitReason == {"none", "limit", "cancel", "abort"}
AttackConfig == [max_bursts : MaxBurstsValues,
                 burst_interval_us : IntervalValues,
                 continuous_tx : BOOLEAN]

TypeOK ==
    /\ pc \in PC
    /\ running \in BOOLEAN
    /\ attack \in AttackConfig
    /\ tx_count \in IntMin..IntMax
    /\ consecutive_errors \in Nat
    /\ sent \in Nat
    /\ sob_sent \in Nat
    /\ burst_open \in BOOLEAN
    /\ exit_reason \in ExitReason
    /\ result \in BOOLEAN
-----------------------------------------------------------------------------
(***************************************************************************)
(* Mutants: plausible coding errors, used to show that the properties     *)
(* below can detect a wrong loop.                                          *)
(***************************************************************************)
LoopCondOffByOne ==
    running /\ (attack.max_bursts = 0 \/ tx_count <= CastToInt(attack.max_bursts))
LoopCondIgnoresCancel ==
    attack.max_bursts = 0 \/ tx_count < CastToInt(attack.max_bursts)
IsStartNoError == consecutive_errors = 0
ErrorLimitReachedLate(n) == n > MaxConsecutiveErrors
-----------------------------------------------------------------------------
Init ==
    /\ pc = "encode"
    /\ running = TRUE
    /\ attack \in AttackConfig
    /\ tx_count = 0
    /\ consecutive_errors = 0
    /\ sent = 0
    /\ sob_sent = 0
    /\ burst_open = FALSE
    /\ exit_reason = "none"
    /\ result = FALSE

\* return false: the function gives up before any transmission.
Fail ==
    /\ pc' = "done"
    /\ result' = FALSE

\* modify_mib() then encode_mib(); the codec may reject the MIB.
EncodeMib ==
    /\ pc = "encode"
    /\ \/ pc' = "generate" /\ UNCHANGED result
       \/ Fail
    /\ UNCHANGED <<running, attack, tx_count, consecutive_errors, sent,
                   sob_sent, burst_open, exit_reason>>

\* generate_ssb() (0 samples is a failure), then the burst is built by
\* repetition and amplitude normalisation (data only).
GenerateSsb ==
    /\ pc = "generate"
    /\ \/ pc' = "start_tx" /\ UNCHANGED result
       \/ Fail
    /\ UNCHANGED <<running, attack, tx_count, consecutive_errors, sent,
                   sob_sent, burst_open, exit_reason>>

\* rf.start_tx() succeeds on an initialised handler, which main() guarantees;
\* then the mode is chosen by attack.continuous_tx.
StartTx ==
    /\ pc = "start_tx"
    /\ pc' = IF attack.continuous_tx THEN "loop" ELSE "single"
    /\ UNCHANGED <<running, attack, tx_count, consecutive_errors, sent,
                   sob_sent, burst_open, exit_reason, result>>

\* The condition of the continuous while loop.
LoopCond ==
    running /\ (attack.max_bursts = 0 \/ tx_count < CastToInt(attack.max_bursts))

\* bool is_start = (tx_count == 0);
IsStart == tx_count = 0

\* bool is_end = (config.attack.burst_interval_us > 0);
IsEnd == attack.burst_interval_us > 0

\* if (consecutive_errors >= max_consecutive_errors)
ErrorLimitReached(n) == n >= MaxConsecutiveErrors

\* rf.transmit() returned nsent >= 0 (a short send counts as a burst).
TxSuccess ==
    /\ pc = "loop"
    /\ LoopCond
    /\ consecutive_errors' = 0
    /\ tx_count' = IntInc(tx_count)
    /\ sent' = GhostInc(sent, SentCap)
    /\ sob_sent' = IF IsStart THEN GhostInc(sob_sent, SobCap) ELSE sob_sent
    /\ burst_open' = ~IsEnd
    /\ UNCHANGED <<pc, running, attack, exit_reason, result>>

\* rf.transmit() returned nsent < 0, below the threshold: back off, continue.
TxError ==
    /\ pc = "loop"
    /\ LoopCond
    /\ ~ErrorLimitReached(consecutive_errors + 1)
    /\ consecutive_errors' = consecutive_errors + 1
    /\ UNCHANGED <<pc, running, attack, tx_count, sent, sob_sent, burst_open,
                   exit_reason, result>>

\* The tenth consecutive failure: "FATAL: Too many transmission errors!", break.
TxAbort ==
    /\ pc = "loop"
    /\ LoopCond
    /\ ErrorLimitReached(consecutive_errors + 1)
    /\ consecutive_errors' = consecutive_errors + 1
    /\ pc' = "stop_tx"
    /\ exit_reason' = "abort"
    /\ UNCHANGED <<running, attack, tx_count, sent, sob_sent, burst_open, result>>

\* The loop condition is false: cancelled, or the burst limit is reached.
LoopExit ==
    /\ pc = "loop"
    /\ ~LoopCond
    /\ pc' = "stop_tx"
    /\ exit_reason' = IF running THEN "limit" ELSE "cancel"
    /\ UNCHANGED <<running, attack, tx_count, consecutive_errors, sent,
                   sob_sent, burst_open, result>>

\* Single shot: rf.transmit(tx_buffer, nsamples, true, true) returns nsent >= 0.
SingleTxOk ==
    /\ pc = "single"
    /\ pc' = "stop_tx"
    /\ sent' = sent + 1
    /\ sob_sent' = sob_sent + 1
    /\ burst_open' = FALSE
    /\ UNCHANGED <<running, attack, tx_count, consecutive_errors, exit_reason,
                   result>>

\* Single shot, nsent < 0: "Transmission failed", return false (no stop_tx).
SingleTxFail ==
    /\ pc = "single"
    /\ Fail
    /\ UNCHANGED <<running, attack, tx_count, consecutive_errors, sent,
                   sob_sent, burst_open, exit_reason>>

\* rf.stop_tx() only prints on an initialised handler; return true.
StopTx ==
    /\ pc = "stop_tx"
    /\ pc' = "done"
    /\ result' = TRUE
    /\ UNCHANGED <<running, attack, tx_count, consecutive_errors, sent,
                   sob_sent, burst_open, exit_reason>>

\* signal_handler(): SIGINT or SIGTERM may arrive at any moment.
Cancel ==
    /\ running
    /\ running' = FALSE
    /\ UNCHANGED <<pc, attack, tx_count, consecutive_errors, sent, sob_sent,
                   burst_open, exit_reason, result>>

Transmit ==
    \/ EncodeMib \/ GenerateSsb \/ StartTx
    \/ TxSuccess \/ TxError \/ TxAbort \/ LoopExit
    \/ SingleTxOk \/ SingleTxFail \/ StopTx

\* The function has returned; the process goes on to exit.
Terminated ==
    /\ pc = "done"
    /\ UNCHANGED vars

Next == Transmit \/ Cancel \/ Terminated

\* The single thread of control always takes its next step; the signal is
\* the environment's and need never come.
Spec == Init /\ [][Next]_vars /\ WF_vars(Transmit)
-----------------------------------------------------------------------------
(***************************************************************************)
(* Properties                                                              *)
(***************************************************************************)

\* With a burst limit N > 0 (spec: "sends exactly N bursts and stops"), a
\* continuous campaign that leaves its loop because of the limit -- neither
\* cancelled nor aborted -- has had exactly N bursts accepted by the radio.
\* The loop compares the int tx_count with (int)max_bursts.
ExactBurstCount ==
    (exit_reason = "limit" /\ attack.max_bursts > 0) => sent = attack.max_bursts

\* The configured limit is representable as an int (the theorem's hypothesis).
FitsInInt == attack.max_bursts <= IntMax

\* Inductive strengthening of ExactBurstCount: while the limit fits in an
\* int, tx_count never wraps and counts exactly the accepted bursts.
BurstCountInv ==
    /\ pc \notin {"stop_tx", "done"} => exit_reason = "none"
    /\ pc = "loop" => attack.continuous_tx
    /\ pc = "single" => ~attack.continuous_tx
    /\ ~attack.continuous_tx => exit_reason = "none"
    /\ (attack.continuous_tx /\ attack.max_bursts \in 1..IntMax) =>
          /\ tx_count = sent
          /\ sent <= attack.max_bursts
          /\ exit_reason = "limit" => sent = attack.max_bursts

\* Start-of-burst is asserted on the first accepted transmission of the
\* campaign and on no other one (spec 4.3: "only on the very first
\* transmission of the campaign"; the code tests is_start = (tx_count == 0)).
SingleStartOfBurst ==
    sob_sent = IF sent > 0 THEN 1 ELSE 0

\* The campaign has not sent more than 2^IntBits bursts, so the int tx_count
\* has not come back to 0.
NoCounterReturn == sent <= IntMod

\* Start-of-burst marks the first accepted burst and no other one for as
\* long as tx_count has not gone once round the int range: the errors in
\* between, the limit and the wrap through INT_MIN do not disturb it.
SingleStartBeforeWrap == NoCounterReturn => SingleStartOfBurst

\* Inductive strengthening of SingleStartOfBurst: before the transmission
\* nothing is sent; a single shot sends at most once with start-of-burst;
\* in a continuous campaign tx_count is sent in two's complement, so it is
\* 0 only before the first burst, until 2^IntBits bursts have been sent.
SobInv ==
    /\ pc = "loop" => attack.continuous_tx
    /\ pc = "single" => ~attack.continuous_tx
    /\ pc \in {"encode", "generate", "start_tx", "single"} =>
          sent = 0 /\ tx_count = 0
    /\ ~attack.continuous_tx => tx_count = 0 /\ sent <= 1 /\ sob_sent = sent
    /\ (attack.continuous_tx /\ NoCounterReturn) =>
          /\ tx_count = IF sent <= IntMax THEN sent ELSE sent - IntMod
          /\ sob_sent = IF sent > 0 THEN 1 ELSE 0

\* Inductive invariant behind NoSendAfterAbort: the error counter starts at
\* 0 and the loop runs only while it is below the threshold.
ErrorsBelowLimit ==
    /\ pc \in {"encode", "generate", "start_tx"} => consecutive_errors = 0
    /\ pc = "loop" => consecutive_errors < MaxConsecutiveErrors

\* The transport is never called again once ten consecutive transmissions
\* have failed: the abort really stops the campaign.
NoSendAfterAbort ==
    [][pc = "loop" /\ consecutive_errors' > consecutive_errors
         => consecutive_errors < MaxConsecutiveErrors]_vars

\* Once cancellation is signalled, or when the burst limit is non-zero,
\* transmit_spoofed_ssb eventually returns.
CampaignTerminates ==
    (~running \/ attack.max_bursts # 0 \/ ~attack.continuous_tx) ~> pc = "done"

\* When transmit_spoofed_ssb returns, the transport holds no open burst:
\* the last accepted transmission carried end_of_burst (stop_tx's comment
\* says it sends end-of-burst to flush the TX buffer).
BurstClosedAtStop ==
    pc = "done" => ~burst_open
=============================================================================
