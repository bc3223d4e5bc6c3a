------------------------------- MODULE Mutator -------------------------------
(***************************************************************************)
(* The system-information mutator of the SSB spoofer and the MIB it works  *)
(* on: SsbProcessor::scan decodes the MIB of the found cell (decode_mib),  *)
(* transmit_spoofed_ssb copies it and applies SsbProcessor::modify_mib     *)
(* with the attack section of the configuration, then encodes the result   *)
(* (src/ssb-spoofer/src/ssb_file_analyzer.cpp, main.cpp:220-237).          *)
(*                                                                         *)
(* A MIB is a record of the fields the rules and the timing refer to; the  *)
(* inputs are every MIB and every attack configuration over small sets of  *)
(* field values, so one run checks the rule engine on all combinations.    *)
(***************************************************************************)
EXTENDS Naturals

CONSTANTS
    SfnValues,          \* system frame numbers (0..1023)
    OffsetValues,       \* ssb_offset values (k_SSB, 0..31)
    IdxValues,          \* CORESET0 / SearchSpace0 indices of a decoded MIB
    CfgIdxValues        \* coreset0_idx_value / ss0_idx_value read from the file

ASSUME MutatorAssumption ==
    /\ SfnValues \subseteq 0..1023
    /\ OffsetValues \subseteq 0..31
    /\ IdxValues \subseteq 0..15
    /\ 0 \in IdxValues
    /\ CfgIdxValues \subseteq Nat

\* The fields of srsran_mib_nr_t the attack and the timing refer to;
\* dmrs_typeA_pos is 0 for position 2 and 1 for position 3.
Mib == [sfn : SfnValues \cup {0}, ssb_offset : OffsetValues \cup {0},
        dmrs_typeA_pos : {0, 1}, cell_barred : BOOLEAN,
        coreset0_idx : IdxValues, ss0_idx : IdxValues,
        intra_freq_reselection : BOOLEAN]

\* The value ranges of the MIB fields (38.331 MIB: 10-bit SFN, 5-bit
\* k_SSB, two 4-bit indices of pdcch-ConfigSIB1).
MibOK(m) ==
    /\ m.sfn \in 0..1023
    /\ m.ssb_offset \in 0..31
    /\ m.dmrs_typeA_pos \in {0, 1}
    /\ m.cell_barred \in BOOLEAN
    /\ m.coreset0_idx \in 0..15
    /\ m.ss0_idx \in 0..15
    /\ m.intra_freq_reselection \in BOOLEAN

\* The MIB rule table of AttackConfig, as load_from_file reads it.
AttackConfig == [modify_cell_barred : BOOLEAN, cell_barred_value : BOOLEAN,
                 modify_coreset0_idx : BOOLEAN, coreset0_idx_value : CfgIdxValues,
                 modify_ss0_idx : BOOLEAN, ss0_idx_value : CfgIdxValues,
                 modify_intra_freq_resel : BOOLEAN,
                 intra_freq_resel_value : BOOLEAN]

\* SsbSearchResult result = {}: the MIB of a value-initialised result.
ZeroMib == [sfn |-> 0, ssb_offset |-> 0, dmrs_typeA_pos |-> 0,
            cell_barred |-> FALSE, coreset0_idx |-> 0, ss0_idx |-> 0,
            intra_freq_reselection |-> FALSE]

\* The fields that fix the beacon's timing.
Timing(m) == <<m.sfn, m.ssb_offset, m.dmrs_typeA_pos>>

VARIABLES
    stage,              \* "captured", "decoded", "modified"
    air_mib,            \* the MIB the found cell broadcasts
    attack,             \* the attack section of the configuration
    mib,                \* result.mib handed over by the scanner
    modified_mib        \* the MIB given to encode_mib

vars == <<stage, air_mib, attack, mib, modified_mib>>

TypeOK ==
    /\ stage \in {"captured", "decoded", "modified"}
    /\ air_mib \in Mib
    /\ attack \in AttackConfig
    /\ MibOK(mib)
    /\ MibOK(modified_mib)
-----------------------------------------------------------------------------
(***************************************************************************)
(* Mutants of ModifyMib: plausible coding errors of the rule engine.       *)
(***************************************************************************)
ModifyMibToggles(m, a) ==
    [m EXCEPT !.cell_barred = IF a.modify_cell_barred THEN ~@ ELSE @,
              !.coreset0_idx = IF a.modify_coreset0_idx
                                  THEN a.coreset0_idx_value ELSE @,
              !.ss0_idx = IF a.modify_ss0_idx THEN a.ss0_idx_value ELSE @]

\* Mutant of AttackValid: the SearchSpace0 bound is not checked.
AttackValidNoSs0Bound(a) == a.coreset0_idx_value <= 15
-----------------------------------------------------------------------------
\* The checks of ConfigParser::validate on the MIB rule table; a file that
\* fails them is rejected by load_from_file.
AttackValid(a) ==
    /\ a.coreset0_idx_value <= 15
    /\ a.ss0_idx_value <= 15

\* SsbProcessor::modify_mib: cell_barred is forced to true (the configured
\* cell_barred_value is not read); CORESET0 and SearchSpace0 get their
\* configured values; there is no rule for intra_freq_reselection; the
\* timing fields are only printed.
ModifyMib(m, a) ==
    [m EXCEPT !.cell_barred = IF a.modify_cell_barred THEN TRUE ELSE @,
              !.coreset0_idx = IF a.modify_coreset0_idx
                                  THEN a.coreset0_idx_value ELSE @,
              !.ss0_idx = IF a.modify_ss0_idx THEN a.ss0_idx_value ELSE @]

Init ==
    /\ stage = "captured"
    /\ air_mib \in Mib
    /\ attack \in {a \in AttackConfig : AttackValid(a)}
    /\ mib = ZeroMib
    /\ modified_mib = ZeroMib

\* In SsbProcessor::scan, after a CRC-valid PBCH matched the filter:
\* decode_mib(result.pbch_msg, result.mib); its result is not checked, so
\* when srsran_pbch_msg_nr_mib_unpack fails result.mib stays zero and the
\* scan still reports found = true.
DecodeMib ==
    /\ stage = "captured"
    /\ stage' = "decoded"
    /\ mib' \in {air_mib, ZeroMib}
    /\ UNCHANGED <<air_mib, attack, modified_mib>>

\* transmit_spoofed_ssb: modified_mib = original_ssb.mib, then modify_mib;
\* its return value only selects the message printed.
Modify ==
    /\ stage = "decoded"
    /\ stage' = "modified"
    /\ modified_mib' = ModifyMib(mib, attack)
    /\ UNCHANGED <<air_mib, attack, mib>>

Terminated ==
    /\ stage = "modified"
    /\ UNCHANGED vars

Next == DecodeMib \/ Modify \/ Terminated

Spec == Init /\ [][Next]_vars
-----------------------------------------------------------------------------
(***************************************************************************)
(* Properties (spec section 4.2 and its test properties)                   *)
(***************************************************************************)

\* Idempotence: modify_mib applied again to its own output with the same
\* configuration changes nothing -- every rule is an unconditional set.
MutationIdempotent ==
    stage = "modified" => ModifyMib(modified_mib, attack) = modified_mib

\* Selectivity (spec 8): a field whose rule is off passes through, a field
\* whose rule is on holds its configured value exactly, the configured
\* cell_barred_value and intra_freq_resel_value included, and the timing
\* fields are never touched.
MutationSelective ==
    stage = "modified" =>
        /\ Timing(modified_mib) = Timing(mib)
        /\ modified_mib.cell_barred =
              IF attack.modify_cell_barred THEN attack.cell_barred_value
              ELSE mib.cell_barred
        /\ modified_mib.coreset0_idx =
              IF attack.modify_coreset0_idx THEN attack.coreset0_idx_value
              ELSE mib.coreset0_idx
        /\ modified_mib.ss0_idx =
              IF attack.modify_ss0_idx THEN attack.ss0_idx_value
              ELSE mib.ss0_idx
        /\ modified_mib.intra_freq_reselection =
              IF attack.modify_intra_freq_resel THEN attack.intra_freq_resel_value
              ELSE mib.intra_freq_reselection

\* Inductive invariant behind MutationIdempotent and TypeOK: the
\* decoded MIB is a MIB, the configuration passed validate, and the forged
\* MIB is zero until modify_mib, then modify_mib of the decoded one.
ModifiedInv ==
    /\ stage \in {"captured", "decoded", "modified"}
    /\ air_mib \in Mib
    /\ mib \in Mib
    /\ attack \in AttackConfig
    /\ AttackValid(attack)
    /\ stage # "modified" => modified_mib = ZeroMib
    /\ stage = "modified" => modified_mib = ModifyMib(mib, attack)

\* The forged MIB keeps the timing of the cell that was found (spec: frame
\* number, beacon offset and DMRS position are preserved, and a codec
\* decode rejection is fatal, never a silent substitute).
ForgedTimingMatchesCell ==
    stage = "modified" => Timing(modified_mib) = Timing(air_mib)
=============================================================================
