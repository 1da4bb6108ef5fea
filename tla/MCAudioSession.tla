--------------------------- MODULE MCAudioSession ---------------------------
(* AudioSession with the model values of the configurations.                *)
EXTENDS AudioSession
=============================================================================
