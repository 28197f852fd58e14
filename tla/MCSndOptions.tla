---------------------------- MODULE MCSndOptions ----------------------------
(* SndOptions with an int of 24 bits, in which the samples of 20 seconds   *)
(* at 44100 Hz fit for 9 channels and not for 10.  11025 Hz has a frame    *)
(* that is not a whole number of samples.  -1 is the default device's      *)
(* number, and makes a negative product.                                   *)
EXTENDS SndOptions

SmallInt == 8388607
FewValues == {-1, 0, 10, 11025, 2 * SmallInt + 4}
=============================================================================
