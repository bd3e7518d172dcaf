--------------------------- MODULE MCFileTransfer ---------------------------
(* Small instances of FileTransfer: the bounds are all in the configurations. *)
EXTENDS FileTransfer
=============================================================================
