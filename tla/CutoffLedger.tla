---------------------------- MODULE CutoffLedger ----------------------------
(***************************************************************************)
(* What an experiment over cutoffs promises: a plan of cutoffs is fixed    *)
(* with the data, the cutoffs are accounted for one by one in the order of *)
(* the plan, and the account is closed - an outcome exists - only when     *)
(* every cutoff of the plan is in it.                                      *)
(***************************************************************************)
EXTENDS Naturals, Sequences

VARIABLES plan,      \* the sequence of cutoffs the data admit
          examined,  \* the cutoffs accounted for, fitted or not
          closed     \* an outcome is recorded

vars == <<plan, examined, closed>>

Init == examined = <<>> /\ closed = FALSE

Examine ==
  /\ ~ closed /\ Len(examined) < Len(plan)
  /\ examined' = Append(examined, plan[Len(examined) + 1])
  /\ UNCHANGED <<plan, closed>>

Close ==
  /\ ~ closed /\ examined = plan
  /\ closed' = TRUE
  /\ UNCHANGED <<plan, examined>>

Spec == Init /\ [][Examine \/ Close]_vars

=============================================================================
