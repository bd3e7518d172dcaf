--------------------------- MODULE MCDecryptQueue ---------------------------
(* A small instance of DecryptQueue: the bounds are all in its configuration.  *)
EXTENDS DecryptQueue
=============================================================================
