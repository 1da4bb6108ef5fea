------------------------- MODULE MCCapturerDataPath -------------------------
(* CapturerDataPath with a buffer of three spans.                           *)
EXTENDS CapturerDataPath
=============================================================================
