------------------------- MODULE MCAudioBufferSpsc -------------------------
(* AudioBufferSpsc on a buffer of three frames, so that every position      *)
(* range crosses the end of the data area and several laps are made.        *)
EXTENDS AudioBufferSpsc

=============================================================================
