--------------------------- MODULE WorkflowLedger ---------------------------
(***************************************************************************)
(* What the engine of workflow.py promises about the files                 *)
(* results/<workflow>/result.json, whoever runs which command when:        *)
(* outcomes enter the ledger one at a time, and only for a workflow each   *)
(* of whose dependencies has passed, or has passed and was later run again *)
(* without success.  Nothing is ever taken out of the ledger.              *)
(***************************************************************************)
EXTENDS Sequences

CONSTANTS Workflow, Dependencies, RecordableOutcomes, NoOutcome

VARIABLES result,      \* [Workflow -> outcome recorded, or NoOutcome]
          regressed    \* workflows whose PASS has been overwritten by another outcome

ledger == <<result, regressed>>

DependenciesOf(w) == {Dependencies[w][i] : i \in DOMAIN Dependencies[w]}

Settled(d) == result[d] = "PASS" \/ d \in regressed

Init ==
  /\ result = [w \in Workflow |-> NoOutcome]
  /\ regressed = {}

Record(w, outcome) ==
  /\ \A d \in DependenciesOf(w) : Settled(d)
  /\ result' = [result EXCEPT ![w] = outcome]
  /\ regressed' = IF result[w] = "PASS" /\ outcome # "PASS"
                    THEN regressed \cup {w} ELSE regressed

Next == \E w \in Workflow : \E outcome \in RecordableOutcomes[w] : Record(w, outcome)

Spec == Init /\ [][Next]_ledger

(***************************************************************************)
(* A recorded outcome rests on dependencies that passed: for every         *)
(* workflow with a result file, each dependency has a PASS on file or once *)
(* had one that a later run replaced.                                      *)
(***************************************************************************)
ClosedUnlessRegressed ==
  \A w \in Workflow :
    result[w] # NoOutcome => \A d \in DependenciesOf(w) : Settled(d)

=============================================================================
