----------------------------- MODULE MCMutator -----------------------------
(* Every MIB and every MIB rule table over two values per field: a frame   *)
(* number and an offset that differ from the zero MIB, two indices, and    *)
(* for the configuration also an index that validate must reject.         *)
EXTENDS Mutator

MCSfns == {7}
MCOffsets == {3}
MCIdx == {0, 12}

\* configured indices: valid ones and one that validate must reject
MCCfgIdx == {0, 12, 16}
=============================================================================
