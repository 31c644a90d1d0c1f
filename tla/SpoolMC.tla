------------------------------- MODULE SpoolMC -------------------------------
(* Small instances of Spool. *)
EXTENDS Spool
=============================================================================
