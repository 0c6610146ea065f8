----------------------------- MODULE MCCoapUpload -----------------------------
(***************************************************************************)
(* Instance for TLC.  MCCoapUpload.cfg: one upload of two groups of two    *)
(* payloads, two failures tried again.  MCCoapUploadAgain.cfg: three       *)
(* uploads one after the other, each given up or restarted at the first    *)
(* failure, so that answers of one reach the next, to a server that tells  *)
(* their payloads apart.  MCCoapUploadLive.cfg: groups of three, so that a *)
(* bitmap has gaps, with the device's limit of three tries.                *)
(* MCCoapUploadStale.cfg: two uploads to a server that tells their         *)
(* payloads apart.                                                         *)
(***************************************************************************)
EXTENDS CoapUpload
=============================================================================
