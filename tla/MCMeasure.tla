------------------------------- MODULE MCMeasure -------------------------------
(* A small instance of Measure for TLC. *)
EXTENDS Measure

MCValues == {-1, 1, 2}
=============================================================================
