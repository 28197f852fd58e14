----------------------------- MODULE MCVuMeter -----------------------------
(* VuMeter with 16-bit ints, so that the product overflows at 33 seconds   *)
(* (with 32-bit ints: at 2147484 seconds).                                 *)
EXTENDS VuMeter

ShortDurations == {-1, 0, 1, 2}
LongDurations == {32, 33}
=============================================================================
