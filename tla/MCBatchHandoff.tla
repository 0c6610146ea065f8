--------------------------- MODULE MCBatchHandoff ---------------------------
(***************************************************************************)
(* Instance for TLC: batches of four payloads in two groups, so that an    *)
(* upload advances, and up to two payloads per FIFO as on the device.      *)
(***************************************************************************)
EXTENDS BatchHandoff
=============================================================================
