--------------------------- MODULE MCFutexSignal ---------------------------
(* FutexSignal with two wakers: the server's SetCurReadFrame and a control  *)
(* call of the client.                                                      *)
EXTENDS FutexSignal
=============================================================================
