--------------------------- MODULE MCRequestPool ---------------------------
(* Instances of RequestPool for TLC: more threads than connections, as in  *)
(* production, and one request more than threads.                          *)
EXTENDS RequestPool, TLC
=============================================================================
