------------------------------- MODULE MCRsync -------------------------------
(* Small instances of Rsync.                                               *)
EXTENDS Rsync, TLC
=============================================================================
