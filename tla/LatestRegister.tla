--------------------------- MODULE LatestRegister ---------------------------
(***************************************************************************)
(* What the double buffer between the acquisition and the upload promises: *)
(* a register that holds one complete batch, the latest.  Publishing       *)
(* replaces it as a whole, taking yields it as a whole, a batch that was   *)
(* replaced before it was taken is gone, and the latest one is taken in    *)
(* the end unless a restart of the device wipes it.                        *)
(***************************************************************************)
EXTENDS Naturals

VARIABLES published,    \* the number of the latest complete batch
          taken         \* the batch the last upload took

regvars == <<published, taken>>

Init == published = 0 /\ taken = 0

Publish == published' = published + 1 /\ UNCHANGED taken

Take == taken' = published /\ UNCHANGED published

Restart == published' = 0 /\ taken' = 0

Next == Publish \/ Take \/ Restart

Safety == Init /\ [][Next]_regvars

Spec == Safety /\ WF_regvars(Take)
=============================================================================
