---------------------------- MODULE MCFileAnalyzer ----------------------------
(* Small instances of the file analyzer for TLC, with a 4-bit uint32_t      *)
(* (0..15).                                                                 *)
EXTENDS FileAnalyzer

MCUintBits == 4

\* captures of 0, 5 and 9 samples, all well below 2^4
MCFiles == {0, 5, 9}

\* --max-samples: all, a cut below and one above some capture sizes
MCMaxSamples == {0, 4, 7}

\* windows of 2, 3 and 4 samples (steps of 1, 1 and 2)
MCWindows == {2, 3, 4}
=============================================================================
