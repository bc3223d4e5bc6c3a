---------------------------- MODULE MCTransmitter ----------------------------
(* Small instances of the transmitter for TLC.  A 4-bit int (-8..7) keeps  *)
(* the overflow of tx_count and of (int)max_bursts within reach.           *)
EXTENDS Transmitter

MCIntBits == 4

\* max_bursts: unlimited, a limit that fits in an int
MCMaxBursts == {0, 3}

\* burst_interval_us: back-to-back, and the default 500 us
MCIntervals == {0, 500}
=============================================================================
