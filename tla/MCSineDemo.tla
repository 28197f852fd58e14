----------------------------- MODULE MCSineDemo -----------------------------
(* Frames of 0 to 9 samples reach every parity of the frame and of the     *)
(* half frame; 219 and 439 are what 11025 Hz gives, mono and stereo.       *)
EXTENDS SineDemo

SmallAndReal == (0..9) \cup {219, 439}
=============================================================================
