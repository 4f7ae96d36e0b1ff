---------------------------- MODULE ArtifactFlow ----------------------------
(***************************************************************************)
(* The artifact files that nested-calibration, action-certificate-         *)
(* validation and prospective-evaluation hand to one another: which body   *)
(* reads, writes and leaves which file (experiments/validation.py,         *)
(* experiments/generalization.py).                                         *)
(*                                                                         *)
(* A file is what it was made from.  The inputs of the pipeline (the       *)
(* calibration observations, the release, the acquired APKs, the           *)
(* configuration) have a version that may change between two commands.     *)
(* The Android SDK and the emulator are no part of it: under any version a *)
(* generation may be skipped, or be ended by an exception half way.        *)
(* Commands do not overlap; each may be killed or raise between any two    *)
(* writes.  A body starts only when its dependency has a PASS on file:     *)
(* that is DependencyGate of WorkflowEngine.                               *)
(***************************************************************************)
EXTENDS Integers

CONSTANTS
  Version,       \* versions of the inputs
  Observed,      \* versions with calibration candidates
  Selecting,     \* ... one of which meets the validity requirements
  Prepared,      \* versions that bring an actions.json prepared by hand
  Challenging,   \* ... with challenge embeddings in some action
  Generating,    \* versions under which generation finds an eligible source
  NoFile,        \* no file on disk
  NoOutcome      \* no result on file

Outcome == {"PASS", "INSUFFICIENT_EVIDENCE"}

\* actions.json: prepared by hand, a part that a generation has written so far,
\* or what a generation that ended has written.
ActionFile == [of : Version, kind : {"prepared", "part", "generated"}]
Prepare(v) == [of |-> v, kind |-> "prepared"]

Basis == [actions : ActionFile, selected : Version]
Comparison == [decisions : Basis, challenges : ActionFile \cup {NoFile}, data : Version]

ASSUME FlowAssumption ==
  /\ Selecting \subseteq Observed /\ Observed \subseteq Version
  /\ Challenging \subseteq Prepared /\ Prepared \subseteq Version
  /\ Generating \subseteq Version
  /\ NoFile \notin Version \cup ActionFile \cup Basis \cup Comparison
  /\ NoOutcome \notin Outcome

VARIABLES
  inputs,        \* the version a command would read now
  actions,       \* actions.json
  selected,      \* selected.json
  challenges,    \* challenges.json
  decisions,     \* certificate-decisions.json
  pattern,       \* central-pattern.json
  comparisons,   \* cutoff-comparisons.json
  result,        \* [Workflow -> recorded outcome]
  fresh,         \* history: workflows that passed under `inputs`, in order
  generated,     \* history: the last generation ended, under `inputs`
  run            \* the process: workflow, stage and outcome to be recorded

evidence == <<actions, selected, challenges, decisions, pattern>>
history == <<fresh, generated>>
vars == <<inputs, evidence, comparisons, result, history, run>>

Workflow == {"nested-calibration", "action-certificate-validation", "prospective-evaluation"}

\* The dependency within the chain, the only one asked for its outcome.
Dependencies(w) ==
  CASE w = "nested-calibration" -> {}
    [] w = "action-certificate-validation" -> {"nested-calibration"}
    [] w = "prospective-evaluation" -> {"action-certificate-validation"}

\* All workflows before `w` in the chain.
Before(w) ==
  CASE w = "nested-calibration" -> {}
    [] w = "action-certificate-validation" -> {"nested-calibration"}
    [] w = "prospective-evaluation" -> {"nested-calibration", "action-certificate-validation"}

Stage == {"idle", "calibrate", "generate", "generating", "judge", "challenge", "decide",
          "pattern", "evaluate", "record"}

Run == [wf : Workflow, stage : Stage, outcome : Outcome \cup {NoOutcome}]

\* Between two bodies; `wf` has no meaning then.
Idle == [wf |-> "nested-calibration", stage |-> "idle", outcome |-> NoOutcome]
Doing(stage) == run.stage = stage
Continue(stage) == run' = [run EXCEPT !.stage = stage]
Ends(outcome) == run' = [run EXCEPT !.stage = "record", !.outcome = outcome]

FirstStage(w) ==
  CASE w = "nested-calibration" -> "calibrate"
    [] w = "action-certificate-validation" -> "generate"
    [] w = "prospective-evaluation" -> "evaluate"

Init ==
  /\ inputs \in Version
  /\ actions = IF inputs \in Prepared THEN Prepare(inputs) ELSE NoFile
  /\ selected = NoFile /\ challenges = NoFile
  /\ decisions = NoFile /\ pattern = NoFile
  /\ comparisons = NoFile
  /\ result = [w \in Workflow |-> NoOutcome]
  /\ fresh = {} /\ generated = FALSE
  /\ run = Idle

\* Other data, another configuration; a prepared actions.json arrives with them.
ChangeInputs(v) ==
  /\ Doing("idle") /\ v # inputs
  /\ inputs' = v
  /\ actions' = IF v \in Prepared THEN Prepare(v) ELSE actions
  /\ fresh' = {} /\ generated' = FALSE
  /\ UNCHANGED <<selected, challenges, decisions, pattern, comparisons, result, run>>

\* A body starts: named on the command line or as a dependency.
Begin(w) ==
  /\ Doing("idle")
  /\ \A d \in Dependencies(w) : result[d] = "PASS"
  /\ run' = [wf |-> w, stage |-> FirstStage(w), outcome |-> NoOutcome]
  /\ fresh' = fresh \cap Before(w)
  /\ generated' = (generated /\ w # "action-certificate-validation")
  /\ UNCHANGED <<inputs, evidence, comparisons, result>>

-----------------------------------------------------------------------------
(* run_nested_calibration.                                                 *)

\* No observations: `return ()`.
CalibrateNothing ==
  /\ Doing("calibrate") /\ inputs \notin Observed
  /\ Ends("INSUFFICIENT_EVIDENCE")
  /\ UNCHANGED <<inputs, evidence, comparisons, result, history>>

\* No candidate is valid: they are returned, and the selection is not written.
CalibrateInvalid ==
  /\ Doing("calibrate") /\ inputs \in Observed \ Selecting
  /\ Ends("PASS")
  /\ UNCHANGED <<inputs, evidence, comparisons, result, history>>

Select ==
  /\ Doing("calibrate") /\ inputs \in Selecting
  /\ selected' = inputs
  /\ Ends("PASS")
  /\ UNCHANGED <<inputs, actions, challenges, decisions, pattern, comparisons, result, history>>

-----------------------------------------------------------------------------
(* The body of action-certificate-validation.                              *)

\* No APK acquired, no SDK, no emulator in time, or no eligible source: nothing
\* is written, and what is on disk is judged.
SkipGeneration ==
  /\ Doing("generate")
  /\ Continue("judge")
  /\ UNCHANGED <<inputs, evidence, comparisons, result, history>>

\* The loop over the endpoints, before and after its first action.
IsGenerating == inputs \in Generating /\ run.stage \in {"generate", "generating"}

\* _persist_written after an action: the file is replaced by a part.
WriteAction ==
  /\ IsGenerating
  /\ actions' = [of |-> inputs, kind |-> "part"]
  /\ Continue("generating")
  /\ UNCHANGED <<inputs, selected, challenges, decisions, pattern, comparisons, result, history>>

\* Variant: at the end of the loop, actions that are there are kept.
FinishGenerationOnce ==
  /\ IsGenerating
  /\ actions' = IF actions = NoFile THEN [of |-> inputs, kind |-> "generated"] ELSE actions
  /\ generated' = TRUE
  /\ Continue("judge")
  /\ UNCHANGED <<inputs, selected, challenges, decisions, pattern, comparisons, result, fresh>>

\* The last _persist_written, whatever was written before.
FinishGeneration ==
  /\ IsGenerating
  /\ actions' = [of |-> inputs, kind |-> "generated"]
  /\ generated' = TRUE
  /\ Continue("judge")
  /\ UNCHANGED <<inputs, selected, challenges, decisions, pattern, comparisons, result, fresh>>

\* Variant: the calibration selection is not asked for.
JudgeableUncalibrated == actions # NoFile

\* Both files are there, whatever wrote them and when.
Judgeable == actions # NoFile /\ selected # NoFile

JudgeNothing ==
  /\ Doing("judge") /\ ~Judgeable
  /\ Ends("INSUFFICIENT_EVIDENCE")
  /\ UNCHANGED <<inputs, evidence, comparisons, result, history>>

\* The loop over the actions collects statuses, decisions and challenge sets.
Judge ==
  /\ Doing("judge") /\ Judgeable
  /\ Continue("challenge")
  /\ UNCHANGED <<inputs, evidence, comparisons, result, history>>

\* Generated actions carry no challenge embeddings.
HasChallenges(file) == file.kind = "prepared" /\ file.of \in Challenging

\* write_challenge_sets, only when some action has challenges.
WriteChallenges ==
  /\ Doing("challenge")
  /\ challenges' = IF HasChallenges(actions) THEN actions ELSE challenges
  /\ Continue("decide")
  /\ UNCHANGED <<inputs, actions, selected, decisions, pattern, comparisons, result, history>>

ReadBasis == [actions |-> actions, selected |-> selected]

WriteDecisions ==
  /\ Doing("decide")
  /\ decisions' = ReadBasis
  /\ Continue("pattern")
  /\ UNCHANGED <<inputs, actions, selected, challenges, pattern, comparisons, result, history>>

\* Variant: a central pattern that is there is kept.
WritePatternOnce ==
  /\ Doing("pattern")
  /\ pattern' = IF pattern = NoFile THEN ReadBasis ELSE pattern
  /\ \E outcome \in Outcome : Ends(outcome)
  /\ UNCHANGED <<inputs, actions, selected, challenges, decisions, comparisons, result, history>>

\* PASS when the central pattern is supported.
WritePattern ==
  /\ Doing("pattern")
  /\ pattern' = ReadBasis
  /\ \E outcome \in Outcome : Ends(outcome)
  /\ UNCHANGED <<inputs, actions, selected, challenges, decisions, comparisons, result, history>>

-----------------------------------------------------------------------------
(* The body of prospective-evaluation.                                     *)

\* Variant: an evaluation of nothing passes.
EvaluateNothingPassing ==
  /\ Doing("evaluate")
  /\ Ends("PASS")
  /\ UNCHANGED <<inputs, evidence, comparisons, result, history>>

\* No decisions, no population, no eligible cutoff or no scored record.
EvaluateNothing ==
  /\ Doing("evaluate")
  /\ Ends("INSUFFICIENT_EVIDENCE")
  /\ UNCHANGED <<inputs, evidence, comparisons, result, history>>

\* Every cutoff is scored, hardened with the challenge sets that are there.
Evaluate ==
  /\ Doing("evaluate") /\ decisions # NoFile
  /\ comparisons' = [decisions |-> decisions, challenges |-> challenges, data |-> inputs]
  /\ \E outcome \in Outcome : Ends(outcome)
  /\ UNCHANGED <<inputs, evidence, result, history>>

-----------------------------------------------------------------------------
\* _persist
Record ==
  /\ Doing("record")
  /\ result' = [result EXCEPT ![run.wf] = run.outcome]
  /\ fresh' = IF run.outcome = "PASS" /\ Before(run.wf) \subseteq fresh
                THEN fresh \cup {run.wf} ELSE fresh
  /\ run' = Idle
  /\ UNCHANGED <<inputs, evidence, comparisons, generated>>

\* An exception or a kill: what is written stays.
Kill ==
  /\ ~Doing("idle")
  /\ run' = Idle
  /\ UNCHANGED <<inputs, evidence, comparisons, result, history>>

Body ==
  \/ CalibrateNothing \/ CalibrateInvalid \/ Select
  \/ SkipGeneration \/ WriteAction \/ FinishGeneration
  \/ JudgeNothing \/ Judge \/ WriteChallenges \/ WriteDecisions \/ WritePattern
  \/ EvaluateNothing \/ Evaluate \/ Record

Next ==
  \/ \E v \in Version : ChangeInputs(v)
  \/ \E w \in Workflow : Begin(w)
  \/ Body
  \/ Kill

Spec == Init /\ [][Next]_vars

-----------------------------------------------------------------------------
TypeOK ==
  /\ inputs \in Version
  /\ {actions, challenges} \subseteq ActionFile \cup {NoFile}
  /\ selected \in Version \cup {NoFile}
  /\ {decisions, pattern} \subseteq Basis \cup {NoFile}
  /\ comparisons \in Comparison \cup {NoFile}
  /\ result \in [Workflow -> Outcome \cup {NoOutcome}]
  /\ fresh \subseteq Workflow /\ generated \in BOOLEAN
  /\ run \in Run

(***************************************************************************)
(* What a later workflow relies on when it reads a file without asking how *)
(* its writer ended: a PASS on file of action-certificate-validation has   *)
(* decisions and a central pattern beside it, one of prospective-          *)
(* evaluation has comparisons, however often either was run again, failed  *)
(* or was killed in between.  So statistical synthesis always finds the    *)
(* two files it pairs.                                                     *)
(***************************************************************************)
PassHasEvidence ==
  /\ result["action-certificate-validation"] = "PASS" =>
       decisions # NoFile /\ pattern # NoFile
  /\ result["prospective-evaluation"] = "PASS" => comparisons # NoFile

(***************************************************************************)
(* What running the chain again, until each workflow has passed in order   *)
(* under the inputs of now, replaces of what earlier versions and killed   *)
(* commands have left.  The selection, when a calibration candidate is     *)
(* valid; the actions, when the last generation ended or a prepared file   *)
(* is among the inputs; the challenge sets, when the actions carry some;   *)
(* and always all that is derived: decisions, central pattern and          *)
(* comparisons rest on the files that are on disk, none on a file that has *)
(* been replaced.  A generation that is skipped, or a calibration that     *)
(* selects nothing, leaves the older file in the renewed chain.            *)
(***************************************************************************)
SelectionRenewed == inputs \in Selecting => selected = inputs

ActionsRenewed ==
  /\ generated => actions = [of |-> inputs, kind |-> "generated"]
  /\ inputs \in Prepared => actions.of = inputs
  /\ HasChallenges(actions) => challenges = actions

RenewalRefreshes ==
  /\ "nested-calibration" \in fresh => SelectionRenewed
  /\ "action-certificate-validation" \in fresh =>
       ActionsRenewed /\ decisions = ReadBasis /\ pattern = ReadBasis
  /\ "prospective-evaluation" \in fresh =>
       comparisons = [decisions |-> ReadBasis, challenges |-> challenges, data |-> inputs]

(***************************************************************************)
(* When action-certificate-validation records PASS, the decisions and the  *)
(* central pattern on disk are those of the actions and the calibration on *)
(* disk, whatever mixture a killed command had left before.                *)
(***************************************************************************)
RecordedPassIsOfFiles ==
  [][Record /\ run.wf = "action-certificate-validation" /\ run.outcome = "PASS"
       => decisions = ReadBasis /\ pattern = ReadBasis]_vars

=============================================================================
