--------------------------- MODULE MCCallbackQueue ---------------------------
(* CallbackQueue with two producers and a pool of one or two threads.      *)
EXTENDS CallbackQueue, TLC
=============================================================================
