----------------------------- MODULE MutatorProofs -----------------------------
(***************************************************************************)
(* Proofs about the MIB mutator (Mutator.tla): modify_mib is idempotent    *)
(* in every reachable state and the forged MIB fits its fields, for every  *)
(* set of frame numbers, offsets and index values of MutatorAssumption.    *)
(***************************************************************************)
EXTENDS Mutator, TLAPS

\* What modify_mib does to each field of a MIB, for any rule table.
LEMMA ModifyFields ==
    ASSUME NEW m \in Mib, NEW a \in AttackConfig
    PROVE  LET r == ModifyMib(m, a) IN
             /\ r \in [sfn : SfnValues \cup {0},
                       ssb_offset : OffsetValues \cup {0},
                       dmrs_typeA_pos : {0, 1}, cell_barred : BOOLEAN,
                       coreset0_idx : IdxValues \cup CfgIdxValues,
                       ss0_idx : IdxValues \cup CfgIdxValues,
                       intra_freq_reselection : BOOLEAN]
             /\ Timing(r) = Timing(m)
             /\ r.cell_barred = IF a.modify_cell_barred THEN TRUE
                                ELSE m.cell_barred
             /\ r.coreset0_idx = IF a.modify_coreset0_idx
                                    THEN a.coreset0_idx_value
                                    ELSE m.coreset0_idx
             /\ r.ss0_idx = IF a.modify_ss0_idx THEN a.ss0_idx_value
                            ELSE m.ss0_idx
             /\ r.intra_freq_reselection = m.intra_freq_reselection
  BY DEF ModifyMib, Mib, AttackConfig, Timing

\* Applying modify_mib a second time with the same rule table changes nothing.
LEMMA ModifyIdempotent ==
    ASSUME NEW m \in Mib, NEW a \in AttackConfig
    PROVE  ModifyMib(ModifyMib(m, a), a) = ModifyMib(m, a)
  BY DEF ModifyMib, Mib, AttackConfig

-----------------------------------------------------------------------------
\* ModifiedInv holds initially and is preserved by every step.
LEMMA ModifiedInvariant == Spec => []ModifiedInv
<1>1. Init => ModifiedInv
  <2> SUFFICES ASSUME Init PROVE ModifiedInv
    OBVIOUS
  <2>1. ZeroMib \in Mib
    BY MutatorAssumption DEF ZeroMib, Mib
  <2>2. QED
    BY <2>1 DEF Init, ModifiedInv, AttackValid
<1>2. ModifiedInv /\ [Next]_vars => ModifiedInv'
  <2> SUFFICES ASSUME ModifiedInv, [Next]_vars PROVE ModifiedInv'
    OBVIOUS
  <2>1. CASE DecodeMib
    <3>1. ZeroMib \in Mib
      BY MutatorAssumption DEF ZeroMib, Mib
    <3>2. QED
      BY <2>1, <3>1 DEF DecodeMib, ModifiedInv
  <2>2. CASE Modify
    BY <2>2 DEF Modify, ModifiedInv
  <2>3. CASE Terminated \/ UNCHANGED vars
    BY <2>3 DEF Terminated, vars, ModifiedInv
  <2>4. QED
    BY <2>1, <2>2, <2>3 DEF Next
<1>3. QED
  BY <1>1, <1>2, PTL DEF Spec

\* In every reachable state, a forged MIB is left unchanged by a second
\* modify_mib with the same configuration (SsbProcessor::modify_mib's rules
\* are unconditional sets).
THEOREM MutationIdempotentCorrect == Spec => []MutationIdempotent
<1>1. ModifiedInv => MutationIdempotent
  BY ModifyIdempotent DEF ModifiedInv, MutationIdempotent
<1>2. QED
  BY <1>1, ModifiedInvariant, PTL

-----------------------------------------------------------------------------
\* A MIB over the assumed value sets has its fields in their 38.331 ranges.
LEMMA MibIsOK ==
    ASSUME NEW m \in Mib
    PROVE  MibOK(m)
<1>1. /\ m.sfn \in SfnValues \cup {0}
      /\ m.ssb_offset \in OffsetValues \cup {0}
      /\ m.dmrs_typeA_pos \in {0, 1}
      /\ m.coreset0_idx \in IdxValues
      /\ m.ss0_idx \in IdxValues
  BY Zenon DEF Mib
<1>2. /\ m.cell_barred \in BOOLEAN
      /\ m.intra_freq_reselection \in BOOLEAN
  BY Zenon DEF Mib
<1>3. /\ m.sfn \in 0..1023
      /\ m.ssb_offset \in 0..31
      /\ m.coreset0_idx \in 0..15
      /\ m.ss0_idx \in 0..15
  <2>1. \A x \in SfnValues \cup {0} : x \in 0..1023
    BY MutatorAssumption
  <2>2. \A x \in OffsetValues \cup {0} : x \in 0..31
    BY MutatorAssumption
  <2>3. \A x \in IdxValues : x \in 0..15
    BY MutatorAssumption
  <2>4. m.sfn \in 0..1023
    BY <1>1, <2>1, SMTT(15)
  <2>5. m.ssb_offset \in 0..31
    BY <1>1, <2>2
  <2>6. m.coreset0_idx \in 0..15 /\ m.ss0_idx \in 0..15
    BY <1>1, <2>3
  <2>7. QED
    BY <2>4, <2>5, <2>6
<1>4. QED
  BY <1>1, <1>2, <1>3 DEF MibOK

\* modify_mib under a validated rule table keeps a MIB within its ranges.
LEMMA ModifyOK ==
    ASSUME NEW m \in Mib, NEW a \in AttackConfig, AttackValid(a)
    PROVE  MibOK(ModifyMib(m, a))
<1> DEFINE r == ModifyMib(m, a)
<1>1. MibOK(m)
  BY MibIsOK
<1>2. /\ Timing(r) = Timing(m)
      /\ r.coreset0_idx = IF a.modify_coreset0_idx
                             THEN a.coreset0_idx_value
                             ELSE m.coreset0_idx
      /\ r.ss0_idx = IF a.modify_ss0_idx THEN a.ss0_idx_value
                     ELSE m.ss0_idx
  BY ModifyFields
<1>2a. /\ r.cell_barred \in BOOLEAN
       /\ r.intra_freq_reselection \in BOOLEAN
  <2>1. /\ r.cell_barred = IF a.modify_cell_barred THEN TRUE
                           ELSE m.cell_barred
        /\ r.intra_freq_reselection = m.intra_freq_reselection
    BY ModifyFields
  <2>2. m.cell_barred \in BOOLEAN /\ m.intra_freq_reselection \in BOOLEAN
    BY Zenon DEF Mib
  <2>3. QED
    BY <2>1, <2>2, Zenon
<1>3. /\ r.sfn = m.sfn
      /\ r.ssb_offset = m.ssb_offset
      /\ r.dmrs_typeA_pos = m.dmrs_typeA_pos
  BY <1>2 DEF Timing
<1>4. /\ a.coreset0_idx_value \in CfgIdxValues
      /\ a.ss0_idx_value \in CfgIdxValues
      /\ a.modify_coreset0_idx \in BOOLEAN
      /\ a.modify_ss0_idx \in BOOLEAN
  BY Zenon DEF AttackConfig
<1>5. /\ a.coreset0_idx_value \in 0..15
      /\ a.ss0_idx_value \in 0..15
  <2>1. \A x \in CfgIdxValues : x <= 15 => x \in 0..15
    BY MutatorAssumption
  <2>2. QED
    BY <1>4, <2>1 DEF AttackValid
<1>6. /\ m.sfn \in 0..1023
      /\ m.ssb_offset \in 0..31
      /\ m.dmrs_typeA_pos \in {0, 1}
      /\ m.coreset0_idx \in 0..15
      /\ m.ss0_idx \in 0..15
  BY <1>1 DEF MibOK
<1>7. r.coreset0_idx \in 0..15
  <2>1. r.coreset0_idx = IF a.modify_coreset0_idx THEN a.coreset0_idx_value
                         ELSE m.coreset0_idx
    BY <1>2
  <2>2. CASE a.modify_coreset0_idx
    BY <2>1, <2>2, <1>5
  <2>3. CASE ~a.modify_coreset0_idx
    <3>1. r.coreset0_idx = m.coreset0_idx
      BY <2>1, <2>3, <1>4, Zenon
    <3>2. m.coreset0_idx \in 0..15
      BY <1>6
    <3>3. QED
      BY <3>1, <3>2
  <2>4. QED
    BY <2>2, <2>3
<1>8. r.ss0_idx \in 0..15
  <2>1. r.ss0_idx = IF a.modify_ss0_idx THEN a.ss0_idx_value ELSE m.ss0_idx
    BY <1>2
  <2>2. CASE a.modify_ss0_idx
    BY <2>1, <2>2, <1>5
  <2>3. CASE ~a.modify_ss0_idx
    <3>1. r.ss0_idx = m.ss0_idx
      BY <2>1, <2>3, <1>4, Zenon
    <3>2. m.ss0_idx \in 0..15
      BY <1>6
    <3>3. QED
      BY <3>1, <3>2
  <2>4. QED
    BY <2>2, <2>3
<1>9. /\ r.sfn \in 0..1023
      /\ r.ssb_offset \in 0..31
      /\ r.dmrs_typeA_pos \in {0, 1}
  <2>1. r.sfn \in 0..1023
    <3>1. r.sfn = m.sfn
      BY <1>3
    <3>2. m.sfn \in 0..1023
      BY <1>6
    <3>3. QED
      BY <3>1, <3>2
  <2>2. r.ssb_offset \in 0..31
    <3>1. r.ssb_offset = m.ssb_offset
      BY <1>3
    <3>2. m.ssb_offset \in 0..31
      BY <1>6
    <3>3. QED
      BY <3>1, <3>2
  <2>3. r.dmrs_typeA_pos \in {0, 1}
    <3>1. r.dmrs_typeA_pos = m.dmrs_typeA_pos
      BY <1>3
    <3>2. m.dmrs_typeA_pos \in {0, 1}
      BY <1>6, SMTT(15)
    <3>3. QED
      BY <3>1, <3>2
  <2>4. QED
    BY <2>1, <2>2, <2>3
<1>10. /\ r.sfn \in 0..1023
       /\ r.ssb_offset \in 0..31
       /\ r.dmrs_typeA_pos \in {0, 1}
       /\ r.cell_barred \in BOOLEAN
       /\ r.coreset0_idx \in 0..15
       /\ r.ss0_idx \in 0..15
       /\ r.intra_freq_reselection \in BOOLEAN
  BY <1>2a, <1>7, <1>8, <1>9
<1>11. QED
  BY <1>10 DEF MibOK

\* Every reachable state is well typed: in particular the forged MIB's
\* CORESET0 and SearchSpace0 indices fit their 4-bit fields, because
\* validate rejects a configured value above 15.
THEOREM MutatorTypeCorrect == Spec => []TypeOK
<1>1. ModifiedInv => TypeOK
  <2> SUFFICES ASSUME ModifiedInv PROVE TypeOK
    OBVIOUS
  <2>1. MibOK(mib)
    BY MibIsOK DEF ModifiedInv
  <2>2. MibOK(modified_mib)
    <3>1. CASE stage = "modified"
      BY <3>1, ModifyOK DEF ModifiedInv
    <3>2. CASE stage # "modified"
      <4>1. modified_mib = ZeroMib
        BY <3>2 DEF ModifiedInv
      <4>2. ZeroMib \in Mib
        BY MutatorAssumption DEF ZeroMib, Mib
      <4>3. QED
        BY <4>1, <4>2, MibIsOK
    <3>3. QED
      BY <3>1, <3>2
  <2>3. QED
    BY <2>1, <2>2 DEF ModifiedInv, TypeOK
<1>2. QED
  BY <1>1, ModifiedInvariant, PTL
=============================================================================
