---------------------------- MODULE MCBurstBuffer ----------------------------
(* Small instances of the burst construction for TLC.  With a 4-bit uint   *)
(* bursts of up to 7 repeats of subframes of 1, 3 and 4 samples include    *)
(* products that fit (4 * 3 = 12) and products that wrap (3 * 6 = 18 -> 2, *)
(* 4 * 4 = 16 -> 0).                                                       *)
EXTENDS BurstBuffer

\* generate_ssb: failure (0) and subframes of 1, 3 and 4 samples
MCBases == {0, 1, 3, 4}

\* burst_length_ms: 1..7 repeats
MCLengths == 1..7

\* a 4-bit uint32_t (0..15)
MCUintBits == 4
=============================================================================
