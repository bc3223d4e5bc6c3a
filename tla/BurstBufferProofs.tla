--------------------------- MODULE BurstBufferProofs ---------------------------
(***************************************************************************)
(* Proofs about the burst construction of transmit_spoofed_ssb()          *)
(* (BurstBuffer.tla): the state stays well typed, and a burst handed to   *)
(* the transmitter is burst_length_ms whole copies of the subframe, for   *)
(* every uint width and every set of subframe sizes and burst lengths     *)
(* allowed by BurstBufferAssumption.                                      *)
(***************************************************************************)
EXTENDS BurstBuffer, TLAPS

\* The value sets of the constants are sets of naturals below 2^UintBits.
LEMMA ConstantRanges ==
    /\ UintMod \in Nat \ {0}
    /\ \A b \in BaseValues : b \in 0..(UintMod - 1)
    /\ \A n \in LengthValues : n \in 0..(UintMod - 1)
  BY BurstBufferAssumption

\* A uint32 product lies in 0 .. 2^32 - 1 and never exceeds the exact one.
LEMMA UintMulRange ==
    ASSUME NEW a \in Nat, NEW b \in Nat
    PROVE  /\ UintMul(a, b) \in 0..(UintMod - 1)
           /\ UintMul(a, b) <= a * b
  BY ConstantRanges DEF UintMul

\* A uint32 product that fits in 32 bits is the exact product.
LEMMA UintMulExact ==
    ASSUME NEW a \in Nat, NEW b \in Nat, a * b < UintMod
    PROVE  UintMul(a, b) = a * b
  BY ConstantRanges DEF UintMul

\* An element of the q-th repeat of a b-sample subframe is subframe sample
\* k - q * b, which is k mod b.
LEMMA ModInRepeat ==
    ASSUME NEW b \in Nat \ {0}, NEW q \in Nat, NEW k \in Nat,
           q * b <= k, k < q * b + b
    PROVE  k % b = k - q * b
<1> DEFINE r == k - q * b
<1>1. r \in 0..(b - 1) /\ k = q * b + r
  OBVIOUS
<1> HIDE DEF r
<1>2. (q * b + r) % b = r
  BY <1>1, Z3
<1>3. QED
  BY <1>1, <1>2

\* The samples of a subframe of at most 2^32 - 1 samples are samples.
LEMMA SubframeSamples ==
    \A b \in Nat : b <= UintMod - 1 => 0..(b - 1) \subseteq Sample
  BY ConstantRanges DEF Sample

-----------------------------------------------------------------------------
LEMMA TypeInit == Init => TypeOK
<1> SUFFICES ASSUME Init PROVE TypeOK
  OBVIOUS
<1>1. burst_length \in Nat
  BY ConstantRanges DEF Init
<1>2. QED
  BY <1>1, ConstantRanges DEF Init, TypeOK, Sample

LEMMA TypeStep == TypeOK /\ [Next]_vars => TypeOK'
<1> SUFFICES ASSUME TypeOK, [Next]_vars PROVE TypeOK'
  OBVIOUS
<1>1. /\ base_samples \in Nat
      /\ burst_length \in Nat
  BY ConstantRanges DEF TypeOK
<1>2. CASE GenerateFail
  BY <1>2 DEF GenerateFail, TypeOK
<1>3. CASE Generate
  <2>1. PICK b \in BaseValues \ {0} :
              /\ base_samples' = b
              /\ total_samples' = UintMul(b, burst_length)
              /\ tx_buffer' = [k \in 0..(total_samples' - 1) |-> Zero]
    BY <1>3 DEF Generate
  <2>2. b \in Nat
    BY ConstantRanges
  <2>3. total_samples' \in 0..(UintMod - 1)
    BY <1>1, <2>1, <2>2, UintMulRange
  <2>4. QED
    BY <1>1, <1>3, <2>1, <2>3 DEF Generate, TypeOK, Sample
<1>4. CASE CopyRepeat
  <2> DEFINE off == Offset(i)
  <2>1. /\ i \in Nat
        /\ off \in 0..(UintMod - 1)
    <3>1. i \in Nat
      BY DEF TypeOK
    <3>2. UintMul(i, base_samples) \in 0..(UintMod - 1)
      BY <3>1, <1>1, UintMulRange
    <3>3. QED
      BY <3>1, <3>2 DEF Offset
  <2>2. base_samples <= UintMod - 1
    BY ConstantRanges DEF TypeOK
  <2>3. \A k \in DOMAIN tx_buffer :
           off <= k /\ k < off + base_samples =>
              SampleOf(k, off) \in 0..(base_samples - 1)
    BY <1>1, <2>1 DEF TypeOK, SampleOf
  <2> HIDE DEF off
  <2>4. tx_buffer' = [k \in DOMAIN tx_buffer |->
                       IF off <= k /\ k < off + base_samples
                          THEN SampleOf(k, off) ELSE tx_buffer[k]]
    BY <1>4 DEF CopyRepeat, off
  <2>5. /\ tx_buffer' \in [0..(total_samples - 1) -> Sample]
        /\ \A k \in DOMAIN tx_buffer' :
              tx_buffer'[k] = Zero \/ tx_buffer'[k] \in 0..(base_samples - 1)
    <3>1. DOMAIN tx_buffer = 0..(total_samples - 1)
      BY DEF TypeOK
    <3>2. \A k \in DOMAIN tx_buffer :
             /\ tx_buffer'[k] \in Sample
             /\ tx_buffer'[k] = Zero \/ tx_buffer'[k] \in 0..(base_samples - 1)
      <4> SUFFICES ASSUME NEW k \in DOMAIN tx_buffer
                   PROVE  /\ tx_buffer'[k] \in Sample
                          /\ \/ tx_buffer'[k] = Zero
                             \/ tx_buffer'[k] \in 0..(base_samples - 1)
        OBVIOUS
      <4>1. CASE off <= k /\ k < off + base_samples
        <5>1. tx_buffer'[k] \in 0..(base_samples - 1)
          BY <4>1, <2>3, <2>4
        <5>2. QED
          BY <5>1, <1>1, <2>2, SubframeSamples, Zenon
      <4>2. CASE ~(off <= k /\ k < off + base_samples)
        <5>1. tx_buffer'[k] = tx_buffer[k]
          BY <4>2, <2>4
        <5>2. QED
          BY <5>1, <3>1 DEF TypeOK
      <4>3. QED
        BY <4>1, <4>2
    <3>3. QED
      BY <3>1, <3>2, <2>4
  <2>6. i + 1 \in 0..burst_length
    BY <1>1, <1>4, <2>1 DEF CopyRepeat, CopyMore, TypeOK
  <2>7. QED
    BY <1>4, <2>5, <2>6 DEF CopyRepeat, TypeOK
<1>5. CASE CopyOverrun
  BY <1>5 DEF CopyOverrun, TypeOK
<1>6. CASE Normalise
  BY <1>6 DEF Normalise, TypeOK
<1>7. CASE Terminated \/ UNCHANGED vars
  BY <1>7 DEF Terminated, vars, TypeOK
<1>8. QED
  BY <1>2, <1>3, <1>4, <1>5, <1>6, <1>7 DEF Next

\* Every reachable state of the construction is well typed: the uint32
\* sizes stay below 2^32, the loop index within 0 .. burst_length_ms, and
\* every element of tx_buffer is zero or a sample of the subframe.
THEOREM BurstBufferTypeCorrect == Spec => []TypeOK
  BY TypeInit, TypeStep, PTL DEF Spec
-----------------------------------------------------------------------------
LEMMA RepeatInit == Init => RepeatInv
  BY DEF Init, RepeatInv

LEMMA RepeatStep == TypeOK /\ RepeatInv /\ [Next]_vars => RepeatInv'
<1> SUFFICES ASSUME TypeOK, RepeatInv, [Next]_vars PROVE RepeatInv'
  OBVIOUS
<1>1. /\ base_samples \in Nat
      /\ burst_length \in Nat
      /\ i \in Nat
  BY ConstantRanges DEF TypeOK
<1>2. CASE GenerateFail
  BY <1>2 DEF GenerateFail, RepeatInv
<1>3. CASE Generate
  <2>1. PICK b \in BaseValues \ {0} :
              /\ base_samples' = b
              /\ total_samples' = UintMul(b, burst_length)
              /\ tx_buffer' = [k \in 0..(total_samples' - 1) |-> Zero]
    BY <1>3 DEF Generate
  <2>2. b \in Nat \ {0}
    BY ConstantRanges
  <2>3. total_samples' \in Nat
    BY <1>1, <2>1, <2>2, UintMulRange
  <2>4. QED
    BY <1>3, <2>1, <2>2, <2>3 DEF Generate, RepeatInv
<1>4. CASE CopyRepeat
  <2> DEFINE q == i * base_samples
  <2>1. /\ q \in Nat
        /\ (i + 1) * base_samples = q + base_samples
    BY <1>1
  <2> HIDE DEF q
  <2>2. /\ pc = "copy"
        /\ base_samples \in Nat \ {0}
        /\ q <= total_samples
    BY <1>1, <1>4 DEF CopyRepeat, RepeatInv, q
  <2>3. \A k \in DOMAIN tx_buffer :
           tx_buffer[k] = IF k < q THEN k % base_samples ELSE Zero
    BY <1>4 DEF CopyRepeat, RepeatInv, q
  <2>4. q < UintMod
    <3>1. total_samples \in 0..(UintMod - 1)
      BY DEF TypeOK
    <3>2. QED
      BY <2>1, <2>2, <3>1, ConstantRanges
  <2>5. Offset(i) = q
    BY <1>1, <2>4, UintMulExact DEF Offset, q
  <2>6. q + base_samples <= total_samples
    BY <1>4, <2>5 DEF CopyRepeat
  <2>7. tx_buffer' = [k \in DOMAIN tx_buffer |->
                        IF q <= k /\ k < q + base_samples THEN k - q
                                                          ELSE tx_buffer[k]]
    BY <1>4, <2>5 DEF CopyRepeat, SampleOf
  <2>8. \A k \in DOMAIN tx_buffer :
           tx_buffer'[k] = IF k < q + base_samples THEN k % base_samples
                                                   ELSE Zero
    <3> SUFFICES ASSUME NEW k \in DOMAIN tx_buffer
                 PROVE  tx_buffer'[k] = IF k < q + base_samples
                                           THEN k % base_samples ELSE Zero
      OBVIOUS
    <3>1. k \in Nat
      BY DEF TypeOK
    <3>2. CASE q <= k /\ k < q + base_samples
      <4>1. k % base_samples = k - q
        BY <1>1, <2>2, <3>1, <3>2, ModInRepeat DEF q
      <4>2. QED
        BY <2>7, <3>2, <4>1
    <3>3. CASE k < q
      BY <2>1, <2>2, <2>3, <2>7, <3>1, <3>3
    <3>4. CASE k >= q + base_samples
      BY <2>1, <2>2, <2>3, <2>7, <3>1, <3>4
    <3>5. QED
      BY <2>1, <2>2, <3>1, <3>2, <3>3, <3>4
  <2>9. QED
    BY <1>4, <2>1, <2>2, <2>6, <2>8 DEF CopyRepeat, RepeatInv
<1>5. CASE CopyOverrun
  BY <1>5 DEF CopyOverrun, RepeatInv
<1>6. CASE Normalise
  BY <1>1, <1>6 DEF Normalise, CopyMore, RepeatInv, TypeOK
<1>7. CASE Terminated \/ UNCHANGED vars
  BY <1>7 DEF Terminated, vars, RepeatInv
<1>8. QED
  BY <1>2, <1>3, <1>4, <1>5, <1>6, <1>7 DEF Next

\* When the burst is handed to the transmitter it is burst_length_ms whole
\* copies of the subframe, for every uint width: a product total_samples
\* that wrapped would have sent the copy loop past the end of tx_buffer
\* (CopyOverrun) before the loop could finish.
THEOREM BurstRepeatsCorrect == Spec => []BurstRepeats
<1>1. TypeOK /\ RepeatInv => BurstRepeats
  <2> SUFFICES ASSUME TypeOK, RepeatInv, pc = "ready"
               PROVE  BurstRepeats
    BY DEF BurstRepeats
  <2>1. /\ base_samples \in Nat
        /\ burst_length \in Nat
    BY ConstantRanges DEF TypeOK
  <2> DEFINE n == base_samples * burst_length
  <2>2. /\ n \in Nat
        /\ burst_length * base_samples = n
    BY <2>1
  <2> HIDE DEF n
  <2>3. /\ total_samples = UintMul(base_samples, burst_length)
        /\ n <= total_samples
        /\ nsamples = total_samples
    BY <2>2 DEF RepeatInv
  <2>4. \A k \in DOMAIN tx_buffer :
           tx_buffer[k] = IF k < n THEN k % base_samples ELSE Zero
    BY <2>2 DEF RepeatInv
  <2>5. total_samples <= n
    BY <2>1, <2>3, UintMulRange DEF n
  <2>6. total_samples = n
    <3>1. total_samples \in Nat
      BY DEF TypeOK
    <3>2. QED
      BY <2>2, <2>3, <2>5, <3>1
  <2>7. \A k \in DOMAIN tx_buffer : k < n
    BY <2>2, <2>6 DEF TypeOK
  <2>8. QED
    BY <2>3, <2>4, <2>6, <2>7 DEF BurstRepeats, n
<1>2. QED
  BY <1>1, TypeInit, TypeStep, RepeatInit, RepeatStep, PTL DEF Spec
=============================================================================
