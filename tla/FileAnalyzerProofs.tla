--------------------------- MODULE FileAnalyzerProofs ---------------------------
(***************************************************************************)
(* Proofs about the file analyzer (FileAnalyzer.tla): its type invariant,  *)
(* with the uint32 offset kept in range by the wrap of its advance, for    *)
(* every width and every set of captures, cuts and window sizes.           *)
(***************************************************************************)
EXTENDS FileAnalyzer, TLAPS

\* A uint32 value below 2^UintBits is its own residue.
LEMMA ModSmall ==
    ASSUME NEW a \in Nat, a < UintMod
    PROVE  a % UintMod = a
  BY FileAnalyzerAssumption

\* A residue modulo 2^UintBits is a uint32 value.
LEMMA ModRange ==
    ASSUME NEW a \in Nat
    PROVE  a % UintMod \in 0..(UintMod - 1)
  BY FileAnalyzerAssumption

\* The cut of load_samples never exceeds the file.
LEMMA NumSamplesRange ==
    ASSUME NEW file \in Nat, NEW max \in Nat
    PROVE  NumSamples(file, max) \in 0..file
  BY DEF NumSamples

-----------------------------------------------------------------------------
\* Every reachable state of the analyzer is well typed; in particular
\* samples.size() never exceeds the file and the uint32 offset stays a
\* uint32.
THEOREM AnalyzerTypeCorrect == Spec => []TypeOK
<1>1. Init => TypeOK
  BY FileAnalyzerAssumption DEF Init, TypeOK
<1>2. TypeOK /\ [Next]_vars => TypeOK'
  <2> SUFFICES ASSUME TypeOK, [Next]_vars PROVE TypeOK'
    OBVIOUS
  <2>0. /\ file_samples \in Nat /\ max_samples \in Nat
        /\ window_samples \in Nat /\ offset \in Nat
    BY FileAnalyzerAssumption DEF TypeOK
  <2>1. CASE ParseArgs
    BY <2>1 DEF ParseArgs, Fail, TypeOK
  <2>2. CASE LoadSamples
    BY <2>2, <2>0, NumSamplesRange DEF LoadSamples, Fail, TypeOK
  <2>3. CASE ProcInit
    BY <2>3, FileAnalyzerAssumption DEF ProcInit, Fail, TypeOK
  <2>4. CASE ScanWindow
    <3>1. offset' \in 0..(UintMod - 1)
      BY <2>4, <2>0, ModRange DEF ScanWindow, Advance
    <3>2. scanned' \in Nat \X Nat
      BY <2>4, <2>0 DEF ScanWindow
    <3>3. QED
      BY <2>4, <3>1, <3>2 DEF ScanWindow, TypeOK
  <2>5. CASE ScanEnd
    BY <2>5 DEF ScanEnd, TypeOK
  <2>6. CASE Terminated \/ UNCHANGED vars
    BY <2>6 DEF Terminated, vars, TypeOK
  <2>7. QED
    BY <2>1, <2>2, <2>3, <2>4, <2>5, <2>6 DEF Next, Analyze
<1>3. QED
  BY <1>1, <1>2, PTL DEF Spec

=============================================================================
