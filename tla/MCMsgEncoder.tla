----------------------------- MODULE MCMsgEncoder -----------------------------
(***************************************************************************)
(* Instance for TLC: the device's sizes divided by eight, the widths at    *)
(* their extremes, and the buffers no larger than SizesAssumption asks.    *)
(* Messages reach 30 triples, so that the array header takes a second      *)
(* byte.                                                                   *)
(***************************************************************************)
EXTENDS MsgEncoder
=============================================================================
