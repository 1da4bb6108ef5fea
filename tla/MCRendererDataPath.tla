------------------------- MODULE MCRendererDataPath -------------------------
(* RendererDataPath with a ring of three frames, callback buffers of two.   *)
EXTENDS RendererDataPath
=============================================================================
