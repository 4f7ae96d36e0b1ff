---------------------------- MODULE MCAcquisition ----------------------------
(***************************************************************************)
(* Two overlapping commands and two samples of different size; the budget  *)
(* of one command is reached by the smaller.                               *)
(***************************************************************************)
EXTENDS Acquisition

CONSTANTS c1, c2, small, large

MCCohort == <<small, large>>
MCSize == [s \in {small, large} |-> IF s = small THEN 1 ELSE 3]

=============================================================================
