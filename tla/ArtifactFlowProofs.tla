------------------------- MODULE ArtifactFlowProofs -------------------------
(***************************************************************************)
(* PassHasEvidence, RenewalRefreshes and RecordedPassIsOfFiles for any set *)
(* of versions of the inputs.  The invariant says, for each stage of a     *)
(* body, which files it has found or written.                              *)
(***************************************************************************)
EXTENDS ArtifactFlow, TLAPS

\* Each stage belongs to one workflow.
StageOfWorkflow ==
  /\ run.stage = "calibrate" => run.wf = "nested-calibration"
  /\ run.stage \in {"generate", "generating", "judge", "challenge", "decide", "pattern"} =>
       run.wf = "action-certificate-validation"
  /\ run.stage = "evaluate" => run.wf = "prospective-evaluation"
  /\ run.stage = "record" => run.outcome \in Outcome

\* After the test at `judge`, the two files that are read are there.
ReadsFiles == run.stage \in {"challenge", "decide", "pattern"} => Judgeable

\* The three ways an actions.json comes about.
LEMMA ActionFiles ==
  ASSUME NEW v \in Version
  PROVE  /\ Prepare(v) \in ActionFile
         /\ [of |-> v, kind |-> "part"] \in ActionFile
         /\ [of |-> v, kind |-> "generated"] \in ActionFile
BY DEF Prepare, ActionFile

\* With both inputs there, what the certificate body reads is a pair of versions.
LEMMA ReadBasisIsBasis ==
  ASSUME TypeOK, Judgeable
  PROVE  ReadBasis \in Basis /\ ReadBasis # NoFile
  BY FlowAssumption DEF TypeOK, Judgeable, ReadBasis, Basis

\* A comparison made of decisions and data is not the missing file.
LEMMA ComparisonIsFile ==
  ASSUME NEW b \in Basis, NEW c \in ActionFile \cup {NoFile}, NEW v \in Version
  PROVE  /\ [decisions |-> b, challenges |-> c, data |-> v] \in Comparison
         /\ [decisions |-> b, challenges |-> c, data |-> v] # NoFile
  <1>1. [decisions |-> b, challenges |-> c, data |-> v] \in Comparison
    BY DEF Comparison
  <1> QED BY <1>1, FlowAssumption

-----------------------------------------------------------------------------
(***************************************************************************)
(* Every reachable state is typed: no command leaves a file made from a    *)
(* missing one (the tests at the start of                                  *)
(* run_action_certificate_validation and of the prospective evaluation).   *)
(***************************************************************************)
Shape == TypeOK /\ StageOfWorkflow /\ ReadsFiles

\* Every step keeps the types and the place of each stage.
LEMMA ShapeStep ==
  ASSUME Shape, [Next]_vars
  PROVE  Shape'
<1> USE DEF Shape, history
<1>1. ASSUME NEW v \in Version, ChangeInputs(v) PROVE Shape'
  BY <1>1, ActionFiles DEF ChangeInputs, TypeOK, StageOfWorkflow, ReadsFiles, Judgeable, Doing
<1>2. ASSUME NEW w \in Workflow, Begin(w) PROVE Shape'
  BY <1>2 DEF Begin, TypeOK, StageOfWorkflow, ReadsFiles, Judgeable, Doing, evidence,
              FirstStage, Workflow, Run, Stage, Outcome
<1>3. CASE CalibrateNothing \/ CalibrateInvalid
  BY <1>3 DEF CalibrateNothing, CalibrateInvalid, TypeOK, StageOfWorkflow, ReadsFiles,
              Judgeable, Doing, Ends, evidence, Run, Stage, Outcome
<1>4. CASE Select
  BY <1>4 DEF Select, TypeOK, StageOfWorkflow, ReadsFiles, Judgeable, Doing, Ends, Run, Stage,
              Outcome
<1>5. CASE SkipGeneration \/ WriteAction \/ FinishGeneration
  <2>1. actions' \in ActionFile \cup {NoFile}
    BY <1>5, ActionFiles DEF SkipGeneration, WriteAction, FinishGeneration, evidence, TypeOK
  <2> QED
    BY <1>5, <2>1 DEF SkipGeneration, WriteAction, FinishGeneration, IsGenerating, TypeOK,
                      StageOfWorkflow, ReadsFiles, Judgeable, Doing, Continue, evidence, Run, Stage
<1>6. CASE JudgeNothing \/ Judge
  BY <1>6 DEF JudgeNothing, Judge, TypeOK, StageOfWorkflow, ReadsFiles, Judgeable, Doing, Ends,
              Continue, evidence, Run, Stage, Outcome
<1>7. CASE WriteChallenges
  BY <1>7 DEF WriteChallenges, TypeOK, StageOfWorkflow, ReadsFiles, Judgeable, Doing, Continue,
              Run, Stage
<1>8. CASE WriteDecisions
  <2>1. ReadBasis \in Basis
    BY <1>8, ReadBasisIsBasis DEF WriteDecisions, Doing, ReadsFiles
  <2> QED
    BY <1>8, <2>1 DEF WriteDecisions, TypeOK, StageOfWorkflow, ReadsFiles, Judgeable, Doing,
                      Continue, Run, Stage
<1>9. CASE WritePattern
  <2>1. ReadBasis \in Basis
    BY <1>9, ReadBasisIsBasis DEF WritePattern, Doing, ReadsFiles
  <2> QED
    BY <1>9, <2>1 DEF WritePattern, TypeOK, StageOfWorkflow, ReadsFiles, Judgeable, Doing,
                      Ends, Run, Stage, Outcome
<1>10. CASE EvaluateNothing
  BY <1>10 DEF EvaluateNothing, TypeOK, StageOfWorkflow, ReadsFiles, Judgeable, Doing, Ends,
               evidence, Run, Stage, Outcome
<1>11. CASE Evaluate
  <2>1. [decisions |-> decisions, challenges |-> challenges, data |-> inputs] \in Comparison
    BY <1>11, ComparisonIsFile DEF Evaluate, TypeOK
  <2> QED
    BY <1>11, <2>1 DEF Evaluate, TypeOK, StageOfWorkflow, ReadsFiles, Judgeable, Doing, Ends,
                       evidence, Run, Stage, Outcome
<1>12. CASE Record
  BY <1>12 DEF Record, TypeOK, StageOfWorkflow, ReadsFiles, Judgeable, Doing, Idle, evidence,
               Run, Stage, Outcome, Workflow
<1>13. CASE Kill
  BY <1>13 DEF Kill, TypeOK, StageOfWorkflow, ReadsFiles, Judgeable, Idle, evidence, Run, Stage,
               Outcome, Workflow
<1>14. CASE UNCHANGED vars
  BY <1>14 DEF vars, evidence, TypeOK, StageOfWorkflow, ReadsFiles, Judgeable
<1> QED
  BY <1>1, <1>2, <1>3, <1>4, <1>5, <1>6, <1>7, <1>8, <1>9, <1>10, <1>11, <1>12, <1>13, <1>14
  DEF Next, Body

\* Without files and without a command, all is typed.
LEMMA ShapeInit == Init => Shape
<1> SUFFICES ASSUME Init PROVE Shape
  OBVIOUS
<1>1. /\ actions \in ActionFile \cup {NoFile} /\ inputs \in Version
      /\ generated = FALSE /\ challenges = NoFile
  BY ActionFiles DEF Init
<1> QED
  BY <1>1 DEF Init, Shape, TypeOK, StageOfWorkflow, ReadsFiles, Idle, Run, Stage, Outcome,
     Workflow

\* At every moment of any sequence of commands, files and stages are as Shape says.
THEOREM ShapeInvariant == Spec => []Shape
<1> QED BY ShapeInit, ShapeStep, PTL DEF Spec

\* Whatever is rerun, replaced or killed, no body leaves a file made from a missing one.
THEOREM TypeCorrect == Spec => []TypeOK
<1>1. Shape => TypeOK
  BY DEF Shape
<1> QED BY <1>1, ShapeInvariant, PTL

-----------------------------------------------------------------------------
(***************************************************************************)
(* What a body that is about to record PASS has written.                   *)
(***************************************************************************)
Passing(w) == run.stage = "record" /\ run.outcome = "PASS" /\ run.wf = w

PassWritten ==
  /\ run.stage = "pattern" => decisions = ReadBasis
  /\ Passing("action-certificate-validation") =>
       Judgeable /\ decisions = ReadBasis /\ pattern = ReadBasis
  /\ Passing("prospective-evaluation") =>
       /\ decisions \in Basis
       /\ comparisons = [decisions |-> decisions, challenges |-> challenges, data |-> inputs]

Backed == Shape /\ PassWritten /\ PassHasEvidence

\* A body has written the files of its PASS before it records it.
LEMMA BackedStep ==
  ASSUME Backed, [Next]_vars
  PROVE  Backed'
<1>1. Shape /\ Shape'
  BY ShapeStep DEF Backed
<1> SUFFICES PassWritten' /\ PassHasEvidence'
  BY <1>1 DEF Backed
<1> USE DEF Backed, PassWritten, PassHasEvidence, Passing
<1>2. ASSUME NEW v \in Version, ChangeInputs(v) PROVE PassWritten' /\ PassHasEvidence'
  BY <1>2 DEF ChangeInputs, Doing
<1>3. ASSUME NEW w \in Workflow, Begin(w) PROVE PassWritten' /\ PassHasEvidence'
  BY <1>3 DEF Begin, evidence, FirstStage, Workflow
<1>4. CASE CalibrateNothing \/ CalibrateInvalid
  BY <1>1, <1>4 DEF CalibrateNothing, CalibrateInvalid, Doing, Ends, evidence, Shape, TypeOK, Run,
                    StageOfWorkflow
<1>5. CASE Select
  BY <1>1, <1>5 DEF Select, Doing, Ends, Shape, TypeOK, Run, StageOfWorkflow
<1>6. CASE SkipGeneration \/ WriteAction \/ FinishGeneration
  BY <1>1, <1>6 DEF SkipGeneration, WriteAction, FinishGeneration, evidence, Continue, Shape,
                    TypeOK, Run
<1>7. CASE JudgeNothing \/ Judge
  BY <1>1, <1>7 DEF JudgeNothing, Judge, Ends, Continue, evidence, Shape, TypeOK, Run
<1>8. CASE WriteChallenges
  BY <1>1, <1>8 DEF WriteChallenges, Continue, Shape, TypeOK, Run
<1>9. CASE WriteDecisions
  <2>1. ReadBasis # NoFile /\ ReadBasis' = ReadBasis /\ decisions' = ReadBasis
    BY <1>1, <1>9, ReadBasisIsBasis DEF WriteDecisions, Doing, Shape, ReadsFiles, ReadBasis
  <2>2. run'.stage = "pattern"
    BY <1>1, <1>9 DEF WriteDecisions, Continue, Shape, TypeOK, Run
  <2> QED BY <1>9, <2>1, <2>2 DEF WriteDecisions
<1>10. CASE WritePattern
  <2>1. /\ ReadBasis # NoFile /\ ReadBasis' = ReadBasis
        /\ decisions' = ReadBasis /\ pattern' = ReadBasis
    BY <1>1, <1>10, ReadBasisIsBasis DEF WritePattern, Doing, Shape, ReadsFiles, ReadBasis
  <2>2. /\ run'.stage = "record" /\ run'.wf = "action-certificate-validation"
        /\ Judgeable'
    BY <1>1, <1>10 DEF WritePattern, Ends, Doing, Shape, TypeOK, Run, StageOfWorkflow, ReadsFiles,
                       Judgeable
  <2> QED BY <1>10, <2>1, <2>2 DEF WritePattern
<1>11. CASE EvaluateNothing
  BY <1>1, <1>11 DEF EvaluateNothing, Ends, evidence, Shape, TypeOK, Run
<1>12. CASE Evaluate
  <2>1. /\ comparisons' = [decisions |-> decisions, challenges |-> challenges, data |-> inputs]
        /\ decisions \in Basis /\ comparisons' # NoFile
    BY <1>1, <1>12, ComparisonIsFile DEF Evaluate, Shape, TypeOK
  <2>2. run'.stage = "record" /\ run'.wf = "prospective-evaluation"
    BY <1>1, <1>12 DEF Evaluate, Ends, Doing, Shape, TypeOK, Run, StageOfWorkflow
  <2> QED BY <1>12, <2>1, <2>2 DEF Evaluate, evidence
<1>13. CASE Record
  <2>1. run'.stage = "idle"
    BY <1>13 DEF Record, Idle
  <2>2. Passing("action-certificate-validation") => decisions # NoFile /\ pattern # NoFile
    BY <1>1, ReadBasisIsBasis DEF Shape
  <2>3. Passing("prospective-evaluation") => comparisons # NoFile
    BY <1>1, ComparisonIsFile DEF Shape, TypeOK
  <2>4. \A w \in Workflow : result'[w] = "PASS" => result[w] = "PASS" \/ Passing(w)
    BY <1>1, <1>13 DEF Record, Doing, Shape, TypeOK
  <2> QED BY <1>13, <2>1, <2>2, <2>3, <2>4 DEF Record, evidence, Workflow
<1>14. CASE Kill
  BY <1>14 DEF Kill, Idle, evidence
<1>15. CASE UNCHANGED vars
  BY <1>15 DEF vars, evidence, ReadBasis, Judgeable
<1> QED
  BY <1>2, <1>3, <1>4, <1>5, <1>6, <1>7, <1>8, <1>9, <1>10, <1>11, <1>12, <1>13, <1>14, <1>15
  DEF Next, Body

\* Before the first command there is no PASS to back.
LEMMA BackedInit == Init => Backed
  BY ShapeInit, FlowAssumption DEF Init, Backed, PassWritten, PassHasEvidence, Passing, Idle,
                                   Workflow, Outcome

THEOREM BackedInvariant == Spec => []Backed
<1> QED BY BackedInit, BackedStep, PTL DEF Spec

(***************************************************************************)
(* A recorded PASS has its files beside it, however often the body was run *)
(* again, failed or was killed since (_persist after the writes of         *)
(* validation.py and generalization.py).                                   *)
(***************************************************************************)
THEOREM EvidenceCorrect == Spec => []PassHasEvidence
<1>1. Backed => PassHasEvidence
  BY DEF Backed
<1> QED BY <1>1, BackedInvariant, PTL

(***************************************************************************)
(* action-certificate-validation records PASS only for the actions and the *)
(* calibration that are on disk.                                           *)
(***************************************************************************)
THEOREM RecordCorrect == Spec => RecordedPassIsOfFiles
<1>1. Backed /\ [Next]_vars =>
        [Record /\ run.wf = "action-certificate-validation" /\ run.outcome = "PASS"
           => decisions = ReadBasis /\ pattern = ReadBasis]_vars
  BY DEF Backed, PassWritten, Passing, Record, Doing
<1> QED BY <1>1, BackedInvariant, PTL DEF Spec, RecordedPassIsOfFiles

-----------------------------------------------------------------------------
(***************************************************************************)
(* What a body has renewed so far, in a chain that is passed again.        *)
(***************************************************************************)
FreshBeforeRun == run.stage # "idle" => fresh \subseteq Before(run.wf)

RunRenewed ==
  /\ Passing("nested-calibration") => SelectionRenewed
  /\ run.stage \in {"decide", "pattern"} \/ Passing("action-certificate-validation") =>
       (HasChallenges(actions) => challenges = actions)

GeneratedIsOfInputs ==
  /\ generated => actions = [of |-> inputs, kind |-> "generated"]
  /\ inputs \in Prepared => actions # NoFile /\ actions.of = inputs
  /\ run.stage \in {"generate", "generating"} => ~generated

Renewed == Backed /\ GeneratedIsOfInputs /\ FreshBeforeRun /\ RunRenewed /\ RenewalRefreshes

\* The process after each way of going on.
LEMMA RunSteps ==
  ASSUME Shape, NEW stage \in Stage, NEW outcome \in Outcome
  PROVE  /\ Continue(stage) =>
              run'.stage = stage /\ run'.wf = run.wf /\ run'.outcome = run.outcome
         /\ Ends(outcome) =>
              run'.stage = "record" /\ run'.wf = run.wf /\ run'.outcome = outcome
BY DEF Continue, Ends, Shape, TypeOK, Run

\* The actions are those of the inputs, when a generation or a hand has made them.
LEMMA GeneratedStep ==
  ASSUME Shape, GeneratedIsOfInputs, [Next]_vars
  PROVE  GeneratedIsOfInputs'
<1> USE DEF GeneratedIsOfInputs
<1>1. ASSUME NEW v \in Version, ChangeInputs(v) PROVE GeneratedIsOfInputs'
  <2>1. Prepare(v) # NoFile /\ Prepare(v).of = v
    BY FlowAssumption DEF Prepare, ActionFile
  <2> QED
    BY <1>1, <2>1 DEF ChangeInputs, Doing
<1>2. ASSUME NEW w \in Workflow, Begin(w) PROVE GeneratedIsOfInputs'
  BY <1>2 DEF Begin, evidence, FirstStage, Workflow, Shape, TypeOK
<1>3. CASE WriteAction
  <2>1. [of |-> inputs, kind |-> "part"] # NoFile /\ inputs \in Version
    BY FlowAssumption DEF ActionFile, Shape, TypeOK
  <2>2. ~generated'
    BY <1>3 DEF WriteAction, IsGenerating, history
  <2> QED
    BY <1>3, <2>1, <2>2 DEF WriteAction
<1>4. CASE FinishGeneration
  <2>1. [of |-> inputs, kind |-> "generated"] # NoFile /\ inputs \in Version
    BY FlowAssumption DEF ActionFile, Shape, TypeOK
  <2>2. run'.stage = "judge"
    BY <1>4, RunSteps DEF FinishGeneration, Stage, Outcome
  <2> QED
    BY <1>4, <2>1, <2>2 DEF FinishGeneration
<1>5. CASE Record \/ Kill
  BY <1>5 DEF Record, Kill, Idle, evidence, history
<1>6. CASE CalibrateNothing \/ CalibrateInvalid \/ Select \/ SkipGeneration \/ JudgeNothing
           \/ Judge \/ WriteChallenges \/ WriteDecisions \/ WritePattern
           \/ EvaluateNothing \/ Evaluate
  <2>1. UNCHANGED <<inputs, actions, generated>>
    BY <1>6 DEF CalibrateNothing, CalibrateInvalid, Select, SkipGeneration, JudgeNothing, Judge,
       WriteChallenges, WriteDecisions, WritePattern, EvaluateNothing, Evaluate, evidence, history
  <2>2. run'.stage \notin {"generate", "generating"}
    BY <1>6, RunSteps DEF CalibrateNothing, CalibrateInvalid, Select, SkipGeneration,
       JudgeNothing, Judge, WriteChallenges, WriteDecisions, WritePattern, EvaluateNothing,
       Evaluate, Stage, Outcome
  <2> QED
    BY <2>1, <2>2
<1>7. CASE UNCHANGED vars
  BY <1>7 DEF vars, evidence, history
<1> QED
  BY <1>1, <1>2, <1>3, <1>4, <1>5, <1>6, <1>7 DEF Next, Body

\* Every step of a chain that is passed again renews what comes next in it.
LEMMA RenewedStep ==
  ASSUME Renewed, [Next]_vars
  PROVE  Renewed'
<1>1. Backed /\ Backed' /\ Shape /\ Shape' /\ GeneratedIsOfInputs'
  BY BackedStep, GeneratedStep DEF Renewed, Backed
<1> DEFINE Goal == FreshBeforeRun' /\ RunRenewed' /\ RenewalRefreshes'
<1> SUFFICES Goal
  BY <1>1 DEF Renewed
<1> USE DEF FreshBeforeRun, RunRenewed, RenewalRefreshes, SelectionRenewed, Passing
<1>2. run.stage # "idle" => fresh \subseteq Before(run.wf)
  BY DEF Renewed
<1>3. ASSUME NEW v \in Version, ChangeInputs(v) PROVE Goal
  BY <1>3 DEF ChangeInputs, Doing
<1>4. ASSUME NEW w \in Workflow, Begin(w) PROVE Goal
  <2>1. run'.stage \in {"calibrate", "generate", "evaluate"} /\ run'.wf = w
    BY <1>4 DEF Begin, FirstStage, Workflow
  <2>2. /\ fresh' = fresh \cap Before(w) /\ UNCHANGED <<inputs, evidence, comparisons>>
        /\ generated' => generated
    BY <1>4 DEF Begin
  <2> QED
    BY <2>1, <2>2 DEF Renewed, ActionsRenewed, ReadBasis, HasChallenges, evidence
<1>5. CASE CalibrateNothing \/ CalibrateInvalid \/ Select
  <2>1. run.wf = "nested-calibration" /\ run.stage # "idle" /\ fresh = {}
    BY <1>1, <1>2, <1>5 DEF CalibrateNothing, CalibrateInvalid, Select, Doing, Shape,
       StageOfWorkflow, Before
  <2>2. run'.stage = "record" /\ run'.wf = "nested-calibration" /\ fresh' = {}
    BY <1>1, <1>5, <2>1, RunSteps DEF CalibrateNothing, CalibrateInvalid, Select, history,
       Stage, Outcome
  <2>3. Passing("nested-calibration")' => SelectionRenewed'
    BY <1>1, <1>5, RunSteps DEF CalibrateNothing, CalibrateInvalid, Select, Outcome, Stage,
       evidence
  <2> QED
    BY <2>2, <2>3
<1>6. CASE \/ SkipGeneration \/ WriteAction \/ FinishGeneration \/ JudgeNothing \/ Judge
           \/ WriteChallenges \/ WriteDecisions \/ WritePattern
  <2>1. /\ run.wf = "action-certificate-validation" /\ run.stage # "idle"
        /\ fresh \subseteq {"nested-calibration"}
    BY <1>1, <1>2, <1>6 DEF SkipGeneration, WriteAction, FinishGeneration, IsGenerating,
       JudgeNothing, Judge, WriteChallenges, WriteDecisions, WritePattern, Doing, Shape,
       StageOfWorkflow, Before
  <2>2. /\ fresh' = fresh /\ run'.wf = "action-certificate-validation"
        /\ UNCHANGED <<inputs, selected>>
    BY <1>6, <1>1, <2>1, RunSteps
    DEF SkipGeneration, WriteAction, FinishGeneration, JudgeNothing, Judge, WriteChallenges,
        WriteDecisions, WritePattern, history, evidence, Stage, Outcome
  <2>3. FreshBeforeRun' /\ RenewalRefreshes'
    BY <2>1, <2>2 DEF Renewed, Before
  <2>4. RunRenewed'
    <3>1. CASE SkipGeneration \/ WriteAction \/ FinishGeneration \/ Judge
      <4>1. run'.stage \in {"generating", "judge", "challenge"}
        BY <1>1, <3>1, RunSteps DEF SkipGeneration, WriteAction, FinishGeneration, Judge, Stage,
           Outcome
      <4> QED
        BY <4>1
    <3>2. CASE JudgeNothing
      <4>1. run'.stage = "record" /\ run'.outcome = "INSUFFICIENT_EVIDENCE"
        BY <1>1, <3>2, RunSteps DEF JudgeNothing, Stage, Outcome
      <4> QED
        BY <4>1
    <3>3. CASE WriteChallenges
      <4>1. /\ actions' = actions
            /\ challenges' = IF HasChallenges(actions) THEN actions ELSE challenges
        BY <3>3 DEF WriteChallenges
      <4>2. HasChallenges(actions)' => challenges' = actions'
        BY <4>1 DEF HasChallenges
      <4> QED
        BY <2>2, <4>2
    <3>4. CASE WriteDecisions \/ WritePattern
      <4>1. UNCHANGED <<actions, challenges>> /\ run.stage \in {"decide", "pattern"}
        BY <3>4 DEF WriteDecisions, WritePattern, Doing
      <4>2. HasChallenges(actions) => challenges = actions
        BY <4>1 DEF Renewed
      <4>3. HasChallenges(actions)' => challenges' = actions'
        BY <4>1, <4>2 DEF HasChallenges
      <4> QED
        BY <2>2, <4>3
    <3> QED
      BY <1>6, <3>1, <3>2, <3>3, <3>4
  <2> QED
    BY <2>3, <2>4
<1>7. CASE EvaluateNothing \/ Evaluate
  <2>1. /\ run.wf = "prospective-evaluation" /\ run.stage # "idle"
        /\ "prospective-evaluation" \notin fresh
    BY <1>1, <1>2, <1>7 DEF EvaluateNothing, Evaluate, Doing, Shape, StageOfWorkflow, Before
  <2>2. /\ UNCHANGED <<inputs, evidence, history>>
        /\ run'.stage = "record" /\ run'.wf = "prospective-evaluation"
    BY <1>1, <1>7, <2>1, RunSteps DEF EvaluateNothing, Evaluate, evidence, Stage, Outcome
  <2> QED
    BY <1>2, <2>1, <2>2
    DEF Renewed, ActionsRenewed, ReadBasis, HasChallenges, evidence, history
<1>8. CASE Record
  <2>1. /\ run'.stage = "idle" /\ UNCHANGED <<inputs, evidence, comparisons, generated>>
        /\ run.stage = "record"
    BY <1>8 DEF Record, Idle, Doing
  <2>2. \A w \in Workflow : w \in fresh' =>
          w \in fresh \/ (Passing(w) /\ Before(w) \subseteq fresh)
    BY <1>1, <1>8 DEF Record, Doing, Shape, TypeOK
  <2>3. "nested-calibration" \in fresh' => SelectionRenewed
    BY <2>2 DEF Renewed, Workflow
  <2>4. "action-certificate-validation" \in fresh' =>
          ActionsRenewed /\ decisions = ReadBasis /\ pattern = ReadBasis
    BY <1>1, <2>2
    DEF Renewed, Workflow, Backed, PassWritten, ActionsRenewed, GeneratedIsOfInputs
  <2>5. "prospective-evaluation" \in fresh' =>
          comparisons = [decisions |-> ReadBasis, challenges |-> challenges, data |-> inputs]
    BY <1>1, <2>2 DEF Renewed, Workflow, Before, Backed, PassWritten
  <2> QED
    BY <2>1, <2>3, <2>4, <2>5 DEF evidence, ActionsRenewed, ReadBasis, HasChallenges
<1>9. CASE Kill
  BY <1>9 DEF Kill, Idle, evidence, history, Renewed, ActionsRenewed, ReadBasis, HasChallenges
<1>10. CASE UNCHANGED vars
  BY <1>10 DEF vars, evidence, history, Renewed, ActionsRenewed, ReadBasis, HasChallenges
<1> QED
  BY <1>3, <1>4, <1>5, <1>6, <1>7, <1>8, <1>9, <1>10 DEF Next, Body

\* Before the first command nothing counts as renewed.
LEMMA RenewedInit == Init => Renewed
<1> SUFFICES ASSUME Init PROVE Renewed
  OBVIOUS
<1>1. inputs \in Prepared => actions # NoFile /\ actions.of = inputs
  BY FlowAssumption DEF Init, Prepare, ActionFile
<1> QED
  BY <1>1, BackedInit DEF Init, Renewed, GeneratedIsOfInputs, FreshBeforeRun, RunRenewed,
     RenewalRefreshes, Passing, Idle

(***************************************************************************)
(* Passing the chain in order again leaves nothing that was derived from a *)
(* replaced file, and of the files it is derived from only those that      *)
(* calibration and generation, selecting nothing or being skipped, have    *)
(* not written anew (validation.py, generalization.py, workflow.py).       *)
(***************************************************************************)
THEOREM RenewalCorrect == Spec => []RenewalRefreshes
<1>1. Renewed => RenewalRefreshes
  BY DEF Renewed
<1> QED BY <1>1, RenewedInit, RenewedStep, PTL DEF Spec

=============================================================================
