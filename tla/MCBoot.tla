-------------------------------- MODULE MCBoot --------------------------------
(* The specification has no constants: the run explores it as it is.        *)
EXTENDS Boot
==============================================================================
