----------------------------- MODULE Hardening -----------------------------
(***************************************************************************)
(* Which epoch of a hardening run is kept (learning/hardening.py).  A run  *)
(* is the sequence of its detector heads, the unhardened one first; an     *)
(* epoch is [objective, missed]: the combined validation objective and the *)
(* samples the head scores as benign.  Losses and gradients are not        *)
(* modelled.  Constant-level definitions only.                             *)
(***************************************************************************)
EXTENDS Integers, FiniteSets, Sequences

CONSTANTS Scale,            \* a rate is its numerator times Scale over its denominator
          MaxDegradation,   \* maximum_clean_fnr_degradation_percentage_points, scaled
          TieTolerance      \* projection_tie_tolerance, in units of the objective

ASSUME HardeningAssumption ==
  Scale \in Nat \ {0} /\ MaxDegradation \in Nat /\ TieTolerance \in Nat

NoRate == -1

Rate(part, total) == IF total = 0 THEN NoRate ELSE (Scale * part) \div total

\* The false-negative rate over rows with a label; none without a malicious one.
FalseNegativeRate(rows, missed) ==
  LET malicious == {r \in rows : r.label = "malicious"}
  IN  Rate(Cardinality({r \in malicious : r.id \in missed}), Cardinality(malicious))

\* Zero when the validation population has no malicious sample.
CleanFalseNegativeRate(validation, missed) ==
  LET rate == FalseNegativeRate(validation, missed) IN IF rate = NoRate THEN 0 ELSE rate

\* The baseline is the head the run started from.
Degradation(run, validation, epoch) ==
  LET increase == CleanFalseNegativeRate(validation, run[epoch].missed)
                    - CleanFalseNegativeRate(validation, run[1].missed)
  IN  IF increase > 0 THEN increase ELSE 0

EligibleEpochs(run, validation) ==
  {e \in DOMAIN run : Degradation(run, validation, e) <= MaxDegradation}

\* A bug CleanCostIsWithinLimit excludes: the limit is compared after the choice.
SelectEpochUngated(run, validation) ==
  LET best[e \in DOMAIN run] ==
        IF e = 1 THEN 1
        ELSE IF run[e].objective < run[best[e - 1]].objective - TieTolerance
             THEN e ELSE best[e - 1]
  IN  best[Len(run)]

\* A bug HardenedIsNearBest excludes: an epoch is compared with the one before it.
SelectEpochByDescent(run, validation) ==
  LET best[e \in DOMAIN run] ==
        IF e = 1 THEN 1
        ELSE IF /\ e \in EligibleEpochs(run, validation)
                /\ run[e].objective < run[e - 1].objective - TieTolerance
             THEN e ELSE best[e - 1]
  IN  best[Len(run)]

\* The unhardened head is always eligible; a later one replaces the best so far
\* when it is better by more than the tolerance.
SelectEpoch(run, validation) ==
  LET best[e \in DOMAIN run] ==
        IF e = 1 THEN 1
        ELSE IF /\ e \in EligibleEpochs(run, validation)
                /\ run[e].objective < run[best[e - 1]].objective - TieTolerance
             THEN e ELSE best[e - 1]
  IN  best[Len(run)]

=============================================================================
