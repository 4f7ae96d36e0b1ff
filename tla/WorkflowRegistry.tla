-------------------------- MODULE WorkflowRegistry --------------------------
(***************************************************************************)
(* The static tables the `fedact` command works from: which workflows      *)
(* exist, in which order, on which workflows each depends                  *)
(* (experiments/registry.py), and, read off the branches of                *)
(* workflow.py, which scientific outcomes the body of each may record and  *)
(* what the body does after it has recorded one.                           *)
(*                                                                         *)
(* Names are the values of ExecutableWorkflowName and ScientificOutcome.   *)
(***************************************************************************)
EXTENDS Integers, Sequences

CONSTANT MinimumPairedCutoffs   \* statistics.minimum_paired_cutoffs
ASSUME MinimumPairedCutoffsAssumption == MinimumPairedCutoffs \in Nat

Row(name, dependencies, optional) ==
  [name |-> name, dependencies |-> dependencies, optional |-> optional]

\* WORKFLOW_REGISTRY, in its order.
Registry ==
  << Row("preprocess", <<>>, FALSE),
     Row("smoke", <<>>, FALSE),
     Row("math-verification", <<>>, FALSE),
     Row("synthetic-geometry", <<"math-verification", "smoke">>, FALSE),
     Row("baseline-parity", <<"preprocess">>, FALSE),
     Row("nested-calibration", <<"preprocess", "baseline-parity">>, FALSE),
     Row("action-certificate-validation",
         <<"preprocess", "baseline-parity", "nested-calibration">>, FALSE),
     Row("prospective-evaluation", <<"action-certificate-validation">>, FALSE),
     Row("ablations", <<"prospective-evaluation">>, FALSE),
     Row("federation", <<"prospective-evaluation">>, FALSE),
     Row("failure-boundaries", <<"prospective-evaluation">>, FALSE),
     Row("cross-corpus",
         <<"preprocess", "prospective-evaluation", "failure-boundaries">>, FALSE),
     Row("client-selection", <<"federation">>, TRUE),
     Row("statistical-synthesis",
         <<"action-certificate-validation", "prospective-evaluation", "ablations",
           "federation", "failure-boundaries", "cross-corpus">>, FALSE) >>

Registered == {Registry[i].name : i \in DOMAIN Registry}

\* registered_workflow(name): the position and the row of a name.
RegistryIndex(name) == CHOOSE i \in DOMAIN Registry : Registry[i].name = name

RegistryDependencies(name) == Registry[RegistryIndex(name)].dependencies

\* confirmatory_outcome_for_cutoffs
ConfirmatoryOutcome(pairs) ==
  IF pairs < MinimumPairedCutoffs THEN "INSUFFICIENT_EVIDENCE" ELSE "PASS"

\* paired_action_cutoffs is the literal 0 in run_cross_corpus_generalization.
CrossCorpusPairs == 0

\* The outcomes a body can hand to _persist.
BodyOutcomes(name) ==
  CASE name = "preprocess" -> {"PASS"}
    [] name \in {"smoke", "math-verification", "synthetic-geometry",
                 "baseline-parity"} -> {"PASS", "FAIL"}
    [] name = "cross-corpus" ->
         {"INSUFFICIENT_EVIDENCE", ConfirmatoryOutcome(CrossCorpusPairs)}
    [] name = "statistical-synthesis" -> {"PASS", "FAIL", "INSUFFICIENT_EVIDENCE"}
    [] OTHER -> {"PASS", "INSUFFICIENT_EVIDENCE"}

\* The bodies that record FAIL and then leave by an exception.
BodiesRaisingOnFailure ==
  {"smoke", "math-verification", "synthetic-geometry", "baseline-parity"}

\* The body that writes further artifacts after it has recorded its outcome.
BodiesWithTrailingDiagnostics == {"prospective-evaluation"}

=============================================================================
