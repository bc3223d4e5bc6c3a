------------------------------ MODULE BurstBuffer ------------------------------
(***************************************************************************)
(* Construction of the burst buffer in transmit_spoofed_ssb()              *)
(* (src/ssb-spoofer/src/main.cpp, lines 240-280): generate_ssb() writes    *)
(* one subframe of base_samples samples, the burst is that subframe        *)
(* repeated burst_length_ms times by memcpy into tx_buffer, and the whole  *)
(* burst is rescaled to the RMS amplitude 0.7.                             *)
(*                                                                         *)
(* A sample is the index j of the subframe sample it copies (Zero for an   *)
(* element the vector value-initialised), so "each repeat is identical to  *)
(* the subframe" is a statement about indices.  The uint32 arithmetic of   *)
(* total_samples and of the copy offset keeps its width UintBits.          *)
(***************************************************************************)
EXTENDS Integers

CONSTANTS
    UintBits,           \* width of uint32_t (32 on the target)
    BaseValues,         \* values generate_ssb() may return (sf_size, or 0 on failure)
    LengthValues        \* values of attack.burst_length_ms (uint32) read from the config

UintMod == 2 ^ UintBits

\* UintMod is a positive natural; it is stated because the provers do not
\* evaluate 2 ^ UintBits.
ASSUME BurstBufferAssumption ==
    /\ UintBits \in Nat \ {0}
    /\ UintMod \in Nat \ {0}
    /\ BaseValues \subseteq 0..(UintMod - 1)
    /\ LengthValues \subseteq 0..(UintMod - 1)

\* a * b on uint32_t operands: the product modulo 2^32.
UintMul(a, b) == (a * b) % UintMod

\* std::complex<float>(0, 0), the value of an element never written.
Zero == -1

VARIABLES
    pc,                 \* where the construction is
    base_samples,       \* uint32_t base_samples, returned by generate_ssb()
    burst_length,       \* uint32_t burst_length = config.attack.burst_length_ms
    total_samples,      \* uint32_t total_samples = base_samples * burst_length
    tx_buffer,          \* std::vector tx_buffer(total_samples): index -> sample
    i,                  \* the copy loop's uint32_t i
    nsamples,           \* uint32_t nsamples = total_samples
    amplitude           \* the RMS amplitude after normalisation

vars == <<pc, base_samples, burst_length, total_samples, tx_buffer, i,
          nsamples, amplitude>>

Sample == (0..(UintMod - 1)) \cup {Zero}

TypeOK ==
    /\ pc \in {"generate", "copy", "ready", "failed", "overflow"}
    /\ base_samples \in BaseValues \cup {0}
    /\ burst_length \in LengthValues
    /\ total_samples \in 0..(UintMod - 1)
    /\ tx_buffer \in [0..(total_samples - 1) -> Sample]
    /\ \A k \in DOMAIN tx_buffer :
          tx_buffer[k] = Zero \/ tx_buffer[k] \in 0..(base_samples - 1)
    /\ i \in 0..burst_length
    /\ nsamples \in 0..(UintMod - 1)
    /\ amplitude \in {"none", "target", "nan"}
-----------------------------------------------------------------------------
(***************************************************************************)
(* Mutants: plausible coding errors of the construction.                   *)
(***************************************************************************)
\* The copy loop runs while i <= burst_length.
CopyMoreOffByOne == i <= burst_length
\* The offset of the i-th repeat is taken as i, not i * base_samples.
OffsetUnscaled(n) == n
\* The element at position k gets the buffer index k, not the subframe index.
SampleOfAbsolute(k, off) == k
-----------------------------------------------------------------------------
\* for (uint32_t i = 0; i < burst_length; i++)
CopyMore == i < burst_length

\* &tx_buffer[i * base_samples]: the uint32 offset of the i-th repeat.
Offset(n) == UintMul(n, base_samples)

\* memcpy of the subframe to offset off puts subframe sample k - off at k.
SampleOf(k, off) == k - off

Init ==
    /\ pc = "generate"
    /\ base_samples = 0
    /\ burst_length \in LengthValues
    /\ total_samples = 0
    /\ tx_buffer = [k \in {} |-> Zero]
    /\ i = 0
    /\ nsamples = 0
    /\ amplitude = "none"

\* generate_ssb() returns 0 (uninitialised codec, sf_size 0 or srsran_ssb_add
\* failing): " FAILED!", return false.
GenerateFail ==
    /\ pc = "generate"
    /\ 0 \in BaseValues
    /\ pc' = "failed"
    /\ UNCHANGED <<base_samples, burst_length, total_samples, tx_buffer, i,
                   nsamples, amplitude>>

\* generate_ssb() returns sf_size > 0; total_samples = base_samples *
\* burst_length in uint32, and tx_buffer(total_samples) is value-initialised.
Generate ==
    /\ pc = "generate"
    /\ \E b \in BaseValues \ {0} :
          /\ base_samples' = b
          /\ total_samples' = UintMul(b, burst_length)
          /\ tx_buffer' = [k \in 0..(total_samples' - 1) |-> Zero]
    /\ pc' = "copy"
    /\ i' = 0
    /\ UNCHANGED <<burst_length, nsamples, amplitude>>

\* One iteration of the copy loop whose memcpy stays inside tx_buffer.
CopyRepeat ==
    /\ pc = "copy"
    /\ CopyMore
    /\ Offset(i) + base_samples <= total_samples
    /\ tx_buffer' = [k \in DOMAIN tx_buffer |->
                       IF Offset(i) <= k /\ k < Offset(i) + base_samples
                          THEN SampleOf(k, Offset(i)) ELSE tx_buffer[k]]
    /\ i' = i + 1
    /\ UNCHANGED <<pc, base_samples, burst_length, total_samples, nsamples,
                   amplitude>>

\* An iteration whose memcpy runs past the end of tx_buffer: a heap
\* overflow, after which the behaviour of the program is undefined.
CopyOverrun ==
    /\ pc = "copy"
    /\ CopyMore
    /\ Offset(i) + base_samples > total_samples
    /\ pc' = "overflow"
    /\ UNCHANGED <<base_samples, burst_length, total_samples, tx_buffer, i,
                   nsamples, amplitude>>

\* The loop is done: nsamples = total_samples, check_power is summed over
\* the burst and every sample is scaled by 0.7 / (sqrt(power / nsamples) +
\* 1e-12).  The generated subframe carries the PSS, so a non-empty burst has
\* power and reaches the target; for nsamples = 0 power / nsamples is 0/0.
Normalise ==
    /\ pc = "copy"
    /\ ~CopyMore
    /\ pc' = "ready"
    /\ nsamples' = total_samples
    /\ amplitude' = IF total_samples > 0 THEN "target" ELSE "nan"
    /\ UNCHANGED <<base_samples, burst_length, total_samples, tx_buffer, i>>

\* The buffer is handed to the transmission, the function returned false,
\* or the heap is corrupted: nothing more happens to the buffer.
Terminated ==
    /\ pc \in {"ready", "failed", "overflow"}
    /\ UNCHANGED vars

Next == GenerateFail \/ Generate \/ CopyRepeat \/ CopyOverrun \/ Normalise
        \/ Terminated

Spec == Init /\ [][Next]_vars
-----------------------------------------------------------------------------
(***************************************************************************)
(* Properties (spec: "BurstBuffer", "Burst repetition", "Burst             *)
(* normalization")                                                         *)
(***************************************************************************)

\* Inductive invariant behind BurstRepeats: while the loop copies and once
\* the burst is ready, the i repeats copied so far fill the first
\* i * base_samples elements without the uint32 offset having wrapped, and
\* every later element is still value-initialised.
RepeatInv ==
    /\ pc \in {"copy", "ready"} =>
          /\ base_samples > 0
          /\ total_samples = UintMul(base_samples, burst_length)
          /\ i * base_samples <= total_samples
          /\ \A k \in DOMAIN tx_buffer :
                tx_buffer[k] = IF k < i * base_samples THEN k % base_samples
                                                      ELSE Zero
    /\ pc = "ready" => i = burst_length /\ nsamples = total_samples

\* Every memcpy of the copy loop stays inside tx_buffer: the uint32 sizes
\* total_samples and i * base_samples never make a repeat land past the end
\* of the vector.
CopyInBounds == pc # "overflow"

\* When the burst is handed to the transmitter, it is burst_length_ms whole
\* copies of the subframe: nsamples = base_samples * burst_length_ms (in
\* unbounded arithmetic) and sample k is subframe sample k mod base_samples.
BurstRepeats ==
    pc = "ready" =>
        /\ nsamples = base_samples * burst_length
        /\ \A k \in DOMAIN tx_buffer : tx_buffer[k] = k % base_samples
=============================================================================
