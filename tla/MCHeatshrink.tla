----------------------------- MODULE MCHeatshrink -----------------------------
(* Heatshrink with the smallest window (16) and lookahead (8) alloc takes.  *)
EXTENDS Heatshrink

\* Periodic data with one byte changed: matches that overlap themselves, reach
\* into the zeros before the data, end at the lookahead or the end of input.
Wave(period, len, odd) ==
    [i \in 1..len |-> IF i = odd THEN 7 ELSE IF i % period = 0 THEN 0 ELSE 1 + (i % period)]

MCBytes == 0..9
MCInputs == {Wave(p, len, odd) : p \in {1, 3, 9}, len \in {15, 16, 17, 41}, odd \in {0, 1, 13, 15, 16, 18}}
===============================================================================
