------------------------------ MODULE MCAdxl362 ------------------------------
(* A FIFO of 11 samples read in 9, for 512 read in 510.                     *)
EXTENDS Adxl362

MCSettings == [s \in {"activity_threshold", "activity_time",
                      "inactivity_threshold", "inactivity_time"} |->
                  IF s = "activity_threshold" THEN 1000 ELSE 100]
MCThresholds == {-1, 2048, 2047}
MCScales == {-1, 2, 3, 8, 9}
MCSamples == {-2048, -1, 0, 2047}
==============================================================================
