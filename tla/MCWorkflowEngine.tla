-------------------------- MODULE MCWorkflowEngine --------------------------
(***************************************************************************)
(* Instances of WorkflowEngine on slices of the registry.  A slice is      *)
(* closed under dependencies, so its workflows behave in it exactly as in  *)
(* the whole registry.                                                     *)
(***************************************************************************)
EXTENDS WorkflowEngine, WorkflowRegistry

ProspectiveSlice ==
  {"preprocess", "baseline-parity", "nested-calibration",
   "action-certificate-validation", "prospective-evaluation"}

CalibrationSlice == {"preprocess", "baseline-parity", "nested-calibration"}

SliceDependencies == [w \in Workflow |-> RegistryDependencies(w)]
SlicePosition == [w \in Workflow |-> RegistryIndex(w)]
SliceOutcomes == [w \in Workflow |-> BodyOutcomes(w)]
SliceRaising == Workflow \cap BodiesRaisingOnFailure
SliceTrailing == Workflow \cap BodiesWithTrailingDiagnostics

=============================================================================
