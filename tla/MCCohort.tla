------------------------------ MODULE MCCohort ------------------------------
(* Cohort, for TLC. *)
EXTENDS Cohort

\* More than half of the shorter session, on a clock of few units.
MCOverlap == <<2, 3>>
=============================================================================
