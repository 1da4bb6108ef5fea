------------------------ MODULE MCRendererHandshake ------------------------
(* RendererHandshake with two client threads.                               *)
EXTENDS RendererHandshake
=============================================================================
