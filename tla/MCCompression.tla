---------------------------- MODULE MCCompression ----------------------------
(* Messages a 16-byte window compresses well, badly and not at all.         *)
EXTENDS Compression

\* Repetition of period bytes, with a run of new bytes from position odd.
Mixed(period, len, odd) ==
    [i \in 1..len |-> IF i >= odd THEN 20 + i ELSE i % period]

MCBytes == 0..99
MCInputs == {Mixed(p, len, odd) : p \in {1, 5, 8},
                len \in {9, 15, 16, 17, 24, 31, 32, 33, 48},
                odd \in {1, 3, 9, 12, 16, 20, 24, 28, 36, 40, 99}}
==============================================================================
