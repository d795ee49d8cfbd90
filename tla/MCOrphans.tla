----------------------------- MODULE MCOrphans ------------------------------
(* Orphans, for TLC. *)
EXTENDS Orphans
=============================================================================
