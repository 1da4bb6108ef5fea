-------------------------- MODULE MCAudioEndpoint --------------------------
(* Two streams that come, go, start, stop and die, and a device that may fail. *)
EXTENDS AudioEndpoint
=============================================================================
