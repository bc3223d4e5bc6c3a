-------------------------- MODULE TransmitterProofs --------------------------
(***************************************************************************)
(* Proofs about the burst transmitter (Transmitter.tla): type correctness *)
(* and the exact burst count of a limited continuous campaign, for every   *)
(* int width and every configuration whose max_bursts fits in an int.     *)
(***************************************************************************)
EXTENDS Transmitter, TLAPS

USE ConstantsAssumption

\* The bounds of the int type are ordered, and INT_MAX + 1 = IntMod / 2.
LEMMA IntRange ==
    /\ IntMax \in Nat
    /\ IntMin \in Int
    /\ IntMin < 0
    /\ IntMin <= IntMax
  BY DEF IntMax, IntMin

\* ++ on an int stays an int.
LEMMA IntIncType ==
    ASSUME NEW x \in IntMin..IntMax
    PROVE  IntInc(x) \in IntMin..IntMax
  BY IntRange DEF IntInc

\* The cast of an unsigned value that fits in an int is that value.
LEMMA CastSmall ==
    ASSUME NEW u \in 0..IntMax
    PROVE  CastToInt(u) = u
  <1>1. u % IntMod = u
    BY DEF IntMax
  <1>2. QED
    BY <1>1, IntRange DEF CastToInt

\* A capped ghost count stays a natural, and counts one more below its cap.
LEMMA GhostIncNat ==
    ASSUME NEW n \in Nat, NEW cap \in Nat
    PROVE  /\ GhostInc(n, cap) \in Nat
           /\ n < cap => GhostInc(n, cap) = n + 1
           /\ GhostInc(n, cap) >= n
  BY DEF GhostInc

-----------------------------------------------------------------------------
\* The initial states of the transmitter are well typed.
LEMMA TypeInit == Init => TypeOK
<1> SUFFICES ASSUME Init PROVE TypeOK
  OBVIOUS
<1>1. tx_count \in IntMin..IntMax
  BY IntRange DEF Init
<1>2. pc \in PC /\ exit_reason \in ExitReason
  BY DEF Init, PC, ExitReason
<1>3. QED
  BY <1>1, <1>2 DEF Init, TypeOK

\* Every step of the transmitter, the signal included, preserves TypeOK.
LEMMA TypeStep == TypeOK /\ [Next]_vars => TypeOK'
<1> SUFFICES ASSUME TypeOK, [Next]_vars PROVE TypeOK'
  OBVIOUS
<1>1. CASE EncodeMib
  BY <1>1 DEF EncodeMib, Fail, TypeOK, PC
<1>2. CASE GenerateSsb
  BY <1>2 DEF GenerateSsb, Fail, TypeOK, PC
<1>3. CASE StartTx
  BY <1>3 DEF StartTx, TypeOK, PC
<1>4. CASE TxSuccess
  <2>1. SentCap \in Nat /\ SobCap \in Nat
    BY DEF SentCap, SobCap
  <2>2. QED
    BY <1>4, <2>1, IntIncType, GhostIncNat DEF TxSuccess, TypeOK
<1>5. CASE TxError
  BY <1>5 DEF TxError, TypeOK
<1>6. CASE TxAbort
  BY <1>6 DEF TxAbort, TypeOK, PC, ExitReason
<1>7. CASE LoopExit
  BY <1>7 DEF LoopExit, TypeOK, PC, ExitReason
<1>8. CASE SingleTxOk
  <2>1. pc' \in PC
    BY <1>8 DEF SingleTxOk, PC
  <2>4. sent' \in Nat /\ sob_sent' \in Nat
    BY <1>8 DEF SingleTxOk, TypeOK
  <2>5. burst_open' \in BOOLEAN
    BY <1>8 DEF SingleTxOk
  <2>2. UNCHANGED <<running, attack, tx_count, consecutive_errors, exit_reason,
                    result>>
    BY <1>8 DEF SingleTxOk
  <2>3. QED
    BY <2>1, <2>2, <2>4, <2>5 DEF TypeOK
<1>13. CASE SingleTxFail
  BY <1>13 DEF SingleTxFail, Fail, TypeOK, PC
<1>9. CASE StopTx
  BY <1>9 DEF StopTx, TypeOK, PC
<1>10. CASE Cancel
  BY <1>10 DEF Cancel, TypeOK
<1>11. CASE Terminated \/ UNCHANGED vars
  BY <1>11 DEF Terminated, vars, TypeOK
<1>12. QED
  BY <1>1, <1>2, <1>3, <1>4, <1>5, <1>6, <1>7, <1>8, <1>9, <1>10, <1>11,
     <1>13
     DEF Next, Transmit

\* Every reachable state is well typed.
THEOREM TypeCorrect == Spec => []TypeOK
  BY TypeInit, TypeStep, PTL DEF Spec

-----------------------------------------------------------------------------
\* A step preserves BurstCountInv.  Only the loop's actions touch tx_count,
\* sent and exit_reason, and the loop is entered in continuous mode only.
LEMMA BurstCountStep ==
    TypeOK /\ BurstCountInv /\ [Next]_vars => BurstCountInv'
<1> SUFFICES ASSUME TypeOK, BurstCountInv, [Next]_vars
             PROVE  BurstCountInv'
  OBVIOUS
<1> DEFINE Limited == attack.continuous_tx /\ attack.max_bursts \in 1..IntMax
<1>1. attack' = attack
  BY DEF Next, Transmit, Terminated, vars, EncodeMib, GenerateSsb, StartTx,
         TxSuccess, TxError, TxAbort, LoopExit, SingleTxOk, SingleTxFail, StopTx,
         Cancel, Fail
<1>2. Limited => CastToInt(attack.max_bursts) = attack.max_bursts
  BY CastSmall
<1>3. CASE TxSuccess
  <2>1. attack.continuous_tx
    BY <1>3 DEF TxSuccess, BurstCountInv
  <2>2. Limited => tx_count < attack.max_bursts
    BY <1>2, <1>3 DEF TxSuccess, LoopCond
  <2>3. Limited => tx_count' = tx_count + 1
    BY <1>3, <2>2 DEF TxSuccess, IntInc, BurstCountInv, TypeOK
  <2>4. pc' = "loop" /\ exit_reason' = "none"
    BY <1>3 DEF TxSuccess, BurstCountInv
  <2>5. Limited => sent' = sent + 1
    <3>1. SentCap \in Nat /\ IntMax < SentCap
      BY IntRange DEF SentCap, IntMax
    <3>2. Limited => sent < SentCap
      <4> SUFFICES ASSUME Limited PROVE sent < SentCap
        OBVIOUS
      <4>1. tx_count = sent /\ attack.max_bursts <= IntMax
        BY DEF BurstCountInv
      <4>2. QED
        BY <2>2, <3>1, <4>1, IntRange DEF TypeOK
    <3>3. QED
      BY <1>3, <3>1, <3>2, GhostIncNat DEF TxSuccess, TypeOK
  <2>6. Limited => sent' = tx_count' /\ sent' <= attack.max_bursts
    BY <1>3, <2>2, <2>3, <2>5 DEF TxSuccess, BurstCountInv, TypeOK
  <2>7. QED
    BY <1>1, <2>1, <2>4, <2>6 DEF BurstCountInv
<1>4. CASE LoopExit
  <2>1. attack.continuous_tx
    BY <1>4 DEF LoopExit, BurstCountInv
  <2>2. Limited /\ running => ~(tx_count < attack.max_bursts)
    BY <1>2, <1>4 DEF LoopExit, LoopCond
  <2>3. QED
    BY <1>1, <1>4, <2>1, <2>2 DEF LoopExit, BurstCountInv, TypeOK
<1>5. CASE TxError \/ TxAbort
  BY <1>1, <1>5 DEF TxError, TxAbort, BurstCountInv
<1>6. CASE SingleTxOk
  <2>1. ~attack.continuous_tx
    BY <1>6 DEF SingleTxOk, BurstCountInv
  <2>2. pc' # "loop" /\ pc' # "single" /\ exit_reason' = exit_reason
    BY <1>6 DEF SingleTxOk
  <2>3. QED
    BY <1>1, <2>1, <2>2 DEF BurstCountInv
<1>11. CASE SingleTxFail
  BY <1>1, <1>11 DEF SingleTxFail, Fail, BurstCountInv
<1>7. CASE StartTx
  BY <1>1, <1>7 DEF StartTx, BurstCountInv
<1>8. CASE EncodeMib \/ GenerateSsb \/ StopTx \/ Cancel
  BY <1>1, <1>8 DEF EncodeMib, GenerateSsb, StopTx, Cancel, Fail, BurstCountInv
<1>9. CASE Terminated \/ UNCHANGED vars
  BY <1>9 DEF Terminated, vars, BurstCountInv
<1>10. QED
  BY <1>3, <1>4, <1>5, <1>6, <1>7, <1>8, <1>9, <1>11 DEF Next, Transmit

\* A continuous campaign whose limit N fits in an int and which leaves its
\* loop because of that limit has sent exactly N bursts: the comparison of
\* tx_count with (int)max_bursts in main.cpp:330 is correct for such N.
THEOREM ExactBurstCountCorrect == Spec => [](FitsInInt => ExactBurstCount)
<1>1. Init => BurstCountInv
  BY IntRange DEF Init, BurstCountInv
<1>2. TypeOK /\ BurstCountInv => (FitsInInt => ExactBurstCount)
  <2> SUFFICES ASSUME TypeOK, BurstCountInv, FitsInInt,
                      exit_reason = "limit", attack.max_bursts > 0
               PROVE  sent = attack.max_bursts
    BY DEF ExactBurstCount
  <2>1. attack.max_bursts \in Nat
    BY DEF TypeOK, AttackConfig
  <2>4. attack.max_bursts \in 1..IntMax
    BY <2>1, IntRange DEF FitsInInt
  <2>2. attack.continuous_tx
    BY DEF BurstCountInv
  <2>3. QED
    BY <2>4, <2>2 DEF BurstCountInv
<1>3. QED
  BY <1>1, <1>2, BurstCountStep, TypeCorrect, PTL DEF Spec

-----------------------------------------------------------------------------
\* The int arithmetic the start-of-burst proof needs: INT_MIN is
\* INT_MAX + 1 - 2^IntBits, because 2^IntBits is even.
LEMMA IntMinWrap == IntMin = IntMax + 1 - IntMod
  BY DEF IntMin, IntMax

\* ++ on the two's-complement image of a count n below 2^IntBits is the
\* image of n + 1.
LEMMA IntIncImage ==
    ASSUME NEW n \in 0..(IntMod - 1)
    PROVE  IntInc(IF n <= IntMax THEN n ELSE n - IntMod)
             = IF n + 1 <= IntMax THEN n + 1 ELSE n + 1 - IntMod
  <1>1. CASE n = IntMax
    BY <1>1, IntMinWrap, IntRange DEF IntInc
  <1>2. CASE n < IntMax
    BY <1>2, IntRange DEF IntInc
  <1>3. CASE n > IntMax
    <2>1. n - IntMod # IntMax
      BY <1>3, IntRange
    <2>2. QED
      BY <1>3, <2>1, IntRange DEF IntInc
  <1>4. QED
    BY <1>1, <1>2, <1>3, IntRange

\* The two's-complement image of a count below 2^IntBits is 0 only for 0.
LEMMA ImageZero ==
    ASSUME NEW n \in 0..(IntMod - 1)
    PROVE  (IF n <= IntMax THEN n ELSE n - IntMod) = 0 <=> n = 0
  BY IntRange

\* SobInv holds initially and is preserved by every step.
LEMMA SobInit == Init => SobInv
  BY IntRange DEF Init, SobInv, NoCounterReturn

LEMMA SobStep == TypeOK /\ SobInv /\ [Next]_vars => SobInv'
<1> SUFFICES ASSUME TypeOK, SobInv, [Next]_vars PROVE SobInv'
  OBVIOUS
<1>0. sent \in Nat /\ sob_sent \in Nat /\ attack.continuous_tx \in BOOLEAN
  BY DEF TypeOK, AttackConfig
<1>1. CASE TxSuccess
  <2>1. attack.continuous_tx /\ pc' = "loop" /\ attack' = attack
    BY <1>1 DEF TxSuccess, SobInv, NoCounterReturn
  <2>2. /\ sent' = GhostInc(sent, SentCap)
        /\ tx_count' = IntInc(tx_count)
        /\ sob_sent' = IF tx_count = 0 THEN GhostInc(sob_sent, SobCap)
                                      ELSE sob_sent
    BY <1>1 DEF TxSuccess, IsStart
  <2>3. CASE sent + 1 <= IntMod
    <3>1. sent \in 0..(IntMod - 1)
      BY <2>3, <1>0
    <3>2. /\ tx_count = IF sent <= IntMax THEN sent ELSE sent - IntMod
          /\ sob_sent = IF sent > 0 THEN 1 ELSE 0
      BY <2>1, <3>1, <1>0 DEF SobInv, NoCounterReturn
    <3>7. sent' = sent + 1
      BY <2>2, <2>3, <1>0, GhostIncNat DEF SentCap
    <3>3. tx_count' = IF sent + 1 <= IntMax THEN sent + 1 ELSE sent + 1 - IntMod
      <4>1. IntInc(IF sent <= IntMax THEN sent ELSE sent - IntMod)
              = IF sent + 1 <= IntMax THEN sent + 1 ELSE sent + 1 - IntMod
        BY <3>1, IntIncImage
      <4>2. QED
        BY <2>2, <3>2, <4>1
    <3>4. tx_count = 0 <=> sent = 0
      BY <3>1, <3>2, ImageZero
    <3>5. sob_sent' = 1
      <4>1. sob_sent < SobCap
        BY <1>0, <3>2 DEF SobCap
      <4>2. QED
        BY <1>0, <2>2, <3>2, <3>4, <4>1 DEF GhostInc
    <3>6. QED
      BY <2>1, <3>7, <3>3, <3>5, <1>0 DEF SobInv, NoCounterReturn
  <2>4. CASE ~(sent + 1 <= IntMod)
    <3>1. sent' \in Nat /\ sent' > IntMod
      <4>1. sent' = GhostInc(sent, IntMod + 1)
        BY <2>2 DEF SentCap
      <4>2. sent >= IntMod
        BY <2>4, <1>0
      <4>3. QED
        BY <4>1, <4>2, <1>0 DEF GhostInc
    <3>2. ~NoCounterReturn'
      BY <3>1 DEF NoCounterReturn
    <3>3. QED
      BY <2>1, <3>2 DEF SobInv
  <2>5. QED
    BY <2>3, <2>4
<1>2. CASE SingleTxOk
  <2>1. ~attack.continuous_tx
    BY <1>2 DEF SingleTxOk, SobInv, NoCounterReturn
  <2>2. sent = 0 /\ tx_count = 0 /\ sob_sent = 0
    BY <1>2, <2>1 DEF SingleTxOk, SobInv, NoCounterReturn
  <2>3. QED
    BY <1>2, <2>1, <2>2 DEF SingleTxOk, SobInv, NoCounterReturn
<1>3. CASE StartTx
  BY <1>3 DEF StartTx, SobInv, NoCounterReturn
<1>4. CASE EncodeMib \/ GenerateSsb \/ SingleTxFail
  BY <1>4 DEF EncodeMib, GenerateSsb, SingleTxFail, Fail, SobInv, NoCounterReturn
<1>5. CASE TxError \/ TxAbort \/ LoopExit \/ StopTx
  BY <1>5 DEF TxError, TxAbort, LoopExit, StopTx, SobInv, NoCounterReturn
<1>6. CASE Cancel \/ Terminated \/ UNCHANGED vars
  BY <1>6 DEF Cancel, Terminated, vars, SobInv, NoCounterReturn
<1>7. QED
  BY <1>1, <1>2, <1>3, <1>4, <1>5, <1>6 DEF Next, Transmit

\* Start-of-burst is asserted on the first accepted transmission and on no
\* other one, for every int width, as long as the campaign has not sent
\* 2^IntBits bursts (past that, is_start = (tx_count == 0) is true again:
\* the hypothesis is exactly the code's limit).
THEOREM SingleStartOfBurstCorrect == Spec => []SingleStartBeforeWrap
<1>1. TypeOK /\ SobInv => SingleStartBeforeWrap
  BY DEF TypeOK, AttackConfig, SobInv, SingleStartBeforeWrap,
         SingleStartOfBurst, NoCounterReturn
<1>2. QED
  BY <1>1, SobInit, SobStep, TypeInit, TypeStep, PTL DEF Spec

-----------------------------------------------------------------------------
\* ErrorsBelowLimit holds initially and is preserved by every step.
LEMMA ErrorsInit == Init => ErrorsBelowLimit
  BY DEF Init, ErrorsBelowLimit

LEMMA ErrorsStep ==
    TypeOK /\ ErrorsBelowLimit /\ [Next]_vars => ErrorsBelowLimit'
<1> SUFFICES ASSUME TypeOK, ErrorsBelowLimit, [Next]_vars
             PROVE  ErrorsBelowLimit'
  OBVIOUS
<1>1. CASE TxError
  BY <1>1 DEF TxError, ErrorLimitReached, ErrorsBelowLimit,
              MaxConsecutiveErrors, TypeOK
<1>2. CASE StartTx
  BY <1>2 DEF StartTx, ErrorsBelowLimit, MaxConsecutiveErrors
<1>3. CASE TxSuccess
  BY <1>3 DEF TxSuccess, ErrorsBelowLimit, MaxConsecutiveErrors
<1>4. CASE EncodeMib \/ GenerateSsb \/ SingleTxFail \/ SingleTxOk
  BY <1>4 DEF EncodeMib, GenerateSsb, SingleTxFail, SingleTxOk, Fail,
              ErrorsBelowLimit
<1>5. CASE TxAbort \/ LoopExit \/ StopTx
  BY <1>5 DEF TxAbort, LoopExit, StopTx, ErrorsBelowLimit
<1>6. CASE Cancel \/ Terminated \/ UNCHANGED vars
  BY <1>6 DEF Cancel, Terminated, vars, ErrorsBelowLimit
<1>7. QED
  BY <1>1, <1>2, <1>3, <1>4, <1>5, <1>6 DEF Next, Transmit

\* No step of the loop counts an eleventh consecutive error: once ten
\* consecutive transmissions have failed the loop is left and the
\* transport is not called again, for every configuration.
THEOREM NoSendAfterAbortCorrect == Spec => NoSendAfterAbort
<1>1. ErrorsBelowLimit =>
        [pc = "loop" /\ consecutive_errors' > consecutive_errors
           => consecutive_errors < MaxConsecutiveErrors]_vars
  BY DEF ErrorsBelowLimit
<1>2. QED
  BY <1>1, ErrorsInit, ErrorsStep, TypeInit, TypeStep, PTL
     DEF Spec, NoSendAfterAbort
=============================================================================
