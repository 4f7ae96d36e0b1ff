--------------------------- MODULE WorkflowEngine ---------------------------
(***************************************************************************)
(* The workflow engine of workflow.py: `fedact run <workflow>` first       *)
(* materializes the dependencies of the workflow, recursively and in       *)
(* registry order, then executes the body of the workflow and persists its *)
(* outcome.  Every invocation is an operating-system process; nothing      *)
(* locks the outputs/ and results/ trees, so several may run at once.      *)
(*                                                                         *)
(* The call stack of a process is the sequence frames[p].  A frame is one  *)
(* activation of _materialize_dependencies followed by the execution of    *)
(* the same workflow.  Its stages:                                         *)
(*   "materialize"  at the head of the loop, `next` is the dependency      *)
(*   "refresh"      the frame above executes dependency `next`; when it    *)
(*                  has returned, the plan is read again                   *)
(*   "body"         the dependencies are done, the body computes           *)
(*   "record"       evidence.json is written, result.json is not           *)
(*   "diagnose"     recorded, the trailing diagnostics are still computed  *)
(* An exception or a kill ends the process: the stack is gone, the files   *)
(* stay.  Both are the action Abort.                                       *)
(***************************************************************************)
EXTENDS Integers, Sequences

CONSTANTS
  Process,                  \* invocations of `fedact` that may overlap
  Workflow,                 \* names in WORKFLOW_REGISTRY
  Dependencies,             \* [Workflow -> Seq(Workflow)]
  Position,                 \* [Workflow -> Nat], the order of WORKFLOW_REGISTRY
  RecordableOutcomes,       \* [Workflow -> outcomes the body can persist]
  RaisesOnFailure,          \* workflows whose body raises once FAIL is persisted
  TrailingDiagnostics,      \* workflows that write more artifacts after persisting
  NoOutcome                 \* no file on disk

Outcome == {"PASS", "FAIL", "INSUFFICIENT_EVIDENCE"}

ASSUME EngineAssumption ==
  /\ Dependencies \in [Workflow -> Seq(Workflow)]
  /\ RecordableOutcomes \in [Workflow -> SUBSET Outcome]
  /\ RaisesOnFailure \subseteq Workflow
  /\ TrailingDiagnostics \subseteq Workflow
  /\ NoOutcome \notin Outcome

\* A row of WORKFLOW_REGISTRY depends on earlier rows only.
ASSUME RegistryOrderAssumption ==
  /\ Position \in [Workflow -> Nat]
  /\ \A w \in Workflow : \A i \in DOMAIN Dependencies[w] :
       Position[Dependencies[w][i]] < Position[w]

VARIABLES
  evidence,      \* [Workflow -> outcome in outputs/experiments/<w>/evidence.json]
  result,        \* [Workflow -> outcome in results/<w>/result.json]
  diagnostics,   \* workflows whose trailing diagnostics have been written
  frames,        \* [Process -> call stack]
  regressed      \* history: workflows whose PASS was overwritten by another outcome

vars == <<evidence, result, diagnostics, frames, regressed>>

Stage == {"materialize", "refresh", "body", "record", "diagnose"}

Frame == [wf : Workflow, next : Nat \ {0}, stage : Stage, outcome : Outcome \cup {NoOutcome}]

\* Variant: the loop index starts at 0.
FreshFrameFromZero(w) ==
  [wf |-> w, next |-> 0, stage |-> "materialize", outcome |-> NoOutcome]

FreshFrame(w) == [wf |-> w, next |-> 1, stage |-> "materialize", outcome |-> NoOutcome]

-----------------------------------------------------------------------------
(* The plan.                                                               *)

DependenciesOf(w) == {Dependencies[w][i] : i \in DOMAIN Dependencies[w]}

\* _evaluate_dependency_blockers
Blockers(w) == {d \in DependenciesOf(w) : result[d] # "PASS"}

\* Variant: any recorded outcome counts as completion.
StatusRecordedIsCompleted(w) ==
  CASE result[w] # NoOutcome -> "COMPLETED"
    [] result[w] = NoOutcome /\ Blockers(w) = {} -> "NOT_STARTED"
    [] OTHER -> "BLOCKED"

\* Variant: a PASS counts only while every dependency still has its PASS.
StatusNeedsPassingParents(w) ==
  CASE result[w] = "PASS" /\ Blockers(w) = {} -> "COMPLETED"
    [] result[w] = "PASS" /\ Blockers(w) # {} -> "BLOCKED"
    [] result[w] \notin {"PASS", NoOutcome} -> "INVALID"
    [] result[w] = NoOutcome /\ Blockers(w) = {} -> "NOT_STARTED"
    [] OTHER -> "BLOCKED"

\* _build_entry_for_workflow: RUNNING is never the status of an entry.
Status(w) ==
  CASE result[w] = "PASS" -> "COMPLETED"
    [] result[w] \notin {"PASS", NoOutcome} -> "INVALID"
    [] result[w] = NoOutcome /\ Blockers(w) = {} -> "NOT_STARTED"
    [] OTHER -> "BLOCKED"

-----------------------------------------------------------------------------
(* The call stack.                                                         *)

Running(p) == frames[p] # <<>>
Depth(p) == Len(frames[p])
Top(p) == frames[p][Depth(p)]
NextDependency(p) == Dependencies[Top(p).wf][Top(p).next]
\* Variant: the loop leaves out the last dependency.
MoreDependenciesButLast(p) == Top(p).next < Len(Dependencies[Top(p).wf])
MoreDependencies(p) == Top(p).next <= Len(Dependencies[Top(p).wf])

WithTop(p, frame) == [frames[p] EXCEPT ![Depth(p)] = frame]
Popped(p) == SubSeq(frames[p], 1, Depth(p) - 1)

-----------------------------------------------------------------------------
Init ==
  /\ evidence = [w \in Workflow |-> NoOutcome]
  /\ result = [w \in Workflow |-> NoOutcome]
  /\ diagnostics = {}
  /\ frames = [p \in Process |-> <<>>]
  /\ regressed = {}

\* run_experiment(w); preprocess and smoke have no dependencies, so their direct
\* calls of run_preprocess and run_smoke are this too.
Command(p, w) ==
  /\ ~Running(p)
  /\ frames' = [frames EXCEPT ![p] = <<FreshFrame(w)>>]
  /\ UNCHANGED <<evidence, result, diagnostics, regressed>>

\* The loop of _materialize_dependencies, `continue` on a COMPLETED dependency.
SkipCompleted(p) ==
  /\ Running(p)
  /\ Top(p).stage = "materialize" /\ MoreDependencies(p)
  /\ Status(NextDependency(p)) = "COMPLETED"
  /\ frames' = [frames EXCEPT ![p] = WithTop(p, [Top(p) EXCEPT !.next = @ + 1])]
  /\ UNCHANGED <<evidence, result, diagnostics, regressed>>

\* Variant: a completed dependency may be executed again.
DescendUnconditionally(p) ==
  /\ Running(p)
  /\ Top(p).stage = "materialize" /\ MoreDependencies(p)
  /\ frames' = [frames EXCEPT ![p] =
       Append(WithTop(p, [Top(p) EXCEPT !.stage = "refresh"]),
              FreshFrame(NextDependency(p)))]
  /\ UNCHANGED <<evidence, result, diagnostics, regressed>>

\* ... and otherwise the recursive call, followed by _execute_dependency.
Descend(p) ==
  /\ Running(p)
  /\ Top(p).stage = "materialize" /\ MoreDependencies(p)
  /\ Status(NextDependency(p)) # "COMPLETED"
  /\ frames' = [frames EXCEPT ![p] =
       Append(WithTop(p, [Top(p) EXCEPT !.stage = "refresh"]),
              FreshFrame(NextDependency(p)))]
  /\ UNCHANGED <<evidence, result, diagnostics, regressed>>

\* Variant: the plan is not read again after the dependency returned.
RefreshWithoutCheck(p) ==
  /\ Running(p)
  /\ Top(p).stage = "refresh"
  /\ frames' = [frames EXCEPT ![p] =
       WithTop(p, [Top(p) EXCEPT !.stage = "materialize", !.next = @ + 1])]
  /\ UNCHANGED <<evidence, result, diagnostics, regressed>>

\* Variant: a dependency that did not complete is tried again.
RefreshRetrying(p) ==
  /\ Running(p)
  /\ Top(p).stage = "refresh"
  /\ frames' = [frames EXCEPT ![p] =
       IF Status(NextDependency(p)) = "COMPLETED"
         THEN WithTop(p, [Top(p) EXCEPT !.stage = "materialize", !.next = @ + 1])
         ELSE WithTop(p, [Top(p) EXCEPT !.stage = "materialize"])]
  /\ UNCHANGED <<evidence, result, diagnostics, regressed>>

\* The dependency has returned; `refreshed` must be COMPLETED or the command raises.
Refresh(p) ==
  /\ Running(p)
  /\ Top(p).stage = "refresh"
  /\ frames' = [frames EXCEPT ![p] =
       IF Status(NextDependency(p)) = "COMPLETED"
         THEN WithTop(p, [Top(p) EXCEPT !.stage = "materialize", !.next = @ + 1])
         ELSE <<>>]
  /\ UNCHANGED <<evidence, result, diagnostics, regressed>>

StartBody(p) ==
  /\ Running(p)
  /\ Top(p).stage = "materialize" /\ ~MoreDependencies(p)
  /\ frames' = [frames EXCEPT ![p] = WithTop(p, [Top(p) EXCEPT !.stage = "body"])]
  /\ UNCHANGED <<evidence, result, diagnostics, regressed>>

\* Variant: evidence already on disk is kept.
WriteEvidenceOnce(p, outcome) ==
  /\ Running(p)
  /\ Top(p).stage = "body"
  /\ evidence' = [evidence EXCEPT ![Top(p).wf] = IF @ = NoOutcome THEN outcome ELSE @]
  /\ frames' = [frames EXCEPT ![p] =
       WithTop(p, [Top(p) EXCEPT !.stage = "record", !.outcome = outcome])]
  /\ UNCHANGED <<result, diagnostics, regressed>>

\* Variant: the result is written before the evidence.
WriteEvidenceLast(p, outcome) ==
  /\ Running(p)
  /\ Top(p).stage = "body"
  /\ result' = [result EXCEPT ![Top(p).wf] = outcome]
  /\ frames' = [frames EXCEPT ![p] =
       WithTop(p, [Top(p) EXCEPT !.stage = "record", !.outcome = outcome])]
  /\ UNCHANGED <<evidence, diagnostics, regressed>>

\* The body has an outcome; _persist begins with write_workflow_evidence.
WriteEvidence(p, outcome) ==
  /\ Running(p)
  /\ Top(p).stage = "body"
  /\ evidence' = [evidence EXCEPT ![Top(p).wf] = outcome]
  /\ frames' = [frames EXCEPT ![p] =
       WithTop(p, [Top(p) EXCEPT !.stage = "record", !.outcome = outcome])]
  /\ UNCHANGED <<result, diagnostics, regressed>>

\* The body of the workflow on top ends with one of the outcomes it can record.
Compute(p) ==
  /\ Running(p)
  /\ \E outcome \in RecordableOutcomes[Top(p).wf] : WriteEvidence(p, outcome)

\* What follows write_workflow_result: raise, trailing diagnostics, or return.
AfterRecord(p) ==
  IF Top(p).wf \in RaisesOnFailure /\ Top(p).outcome = "FAIL" THEN <<>>
  ELSE IF Top(p).wf \in TrailingDiagnostics
         THEN WithTop(p, [Top(p) EXCEPT !.stage = "diagnose"])
         ELSE Popped(p)

WriteResult(p) ==
  LET w == Top(p).wf IN
  /\ Running(p)
  /\ Top(p).stage = "record"
  /\ result' = [result EXCEPT ![w] = Top(p).outcome]
  /\ regressed' = IF result[w] = "PASS" /\ Top(p).outcome # "PASS"
                    THEN regressed \cup {w} ELSE regressed
  /\ frames' = [frames EXCEPT ![p] = AfterRecord(p)]
  /\ UNCHANGED <<evidence, diagnostics>>

\* run_lamda_identification_diagnostics and run_lamda_temporal_dynamics_ablation.
Diagnose(p) ==
  /\ Running(p)
  /\ Top(p).stage = "diagnose"
  /\ diagnostics' = diagnostics \cup {Top(p).wf}
  /\ frames' = [frames EXCEPT ![p] = Popped(p)]
  /\ UNCHANGED <<evidence, result, regressed>>

\* An exception of a body, or a kill, at any point of a command.
Abort(p) ==
  /\ Running(p)
  /\ frames' = [frames EXCEPT ![p] = <<>>]
  /\ UNCHANGED <<evidence, result, diagnostics, regressed>>

Work(p) ==
  \/ SkipCompleted(p)
  \/ Descend(p)
  \/ Refresh(p)
  \/ StartBody(p)
  \/ Compute(p)
  \/ WriteResult(p)
  \/ Diagnose(p)

Next ==
  \E p \in Process :
    \/ \E w \in Workflow : Command(p, w)
    \/ Work(p)
    \/ Abort(p)

Spec == Init /\ [][Next]_vars

\* A process that is not killed keeps executing: bodies are finite computations.
FairSpec == Spec /\ \A p \in Process : WF_vars(Work(p))

-----------------------------------------------------------------------------
(* Properties of any number of overlapping commands.                       *)

TypeOK ==
  /\ evidence \in [Workflow -> Outcome \cup {NoOutcome}]
  /\ result \in [Workflow -> Outcome \cup {NoOutcome}]
  /\ diagnostics \subseteq Workflow
  /\ frames \in [Process -> Seq(Frame)]
  /\ regressed \subseteq Workflow

(***************************************************************************)
(* _persist writes the evidence first, so wherever a command is killed and *)
(* however two commands interleave, a result file never exists without     *)
(* the evidence file of the same workflow.                                 *)
(***************************************************************************)
ResultHasEvidence ==
  \A w \in Workflow : result[w] # NoOutcome => evidence[w] # NoOutcome

(***************************************************************************)
(* What _materialize_dependencies gives a recorded outcome even when       *)
(* another command rewrites the dependencies meanwhile: each dependency    *)
(* has its PASS, or had it and lost it to a later run.                     *)
(***************************************************************************)
Settled(d) == result[d] = "PASS" \/ d \in regressed

ClosedUnlessRegressed ==
  \A w \in Workflow :
    result[w] # NoOutcome => \A d \in DependenciesOf(w) : Settled(d)

(***************************************************************************)
(* Why: what a call stack knows.  Every frame, buried or not, has settled  *)
(* the dependencies its loop has passed, a body has settled all of them,   *)
(* and a frame about to write a result has written the evidence.           *)
(***************************************************************************)
FrameOK(f) ==
  /\ \A k \in DOMAIN Dependencies[f.wf] : k < f.next => Settled(Dependencies[f.wf][k])
  /\ f.stage = "refresh" => f.next \in DOMAIN Dependencies[f.wf]
  /\ f.stage \in {"body", "record"} => \A d \in DependenciesOf(f.wf) : Settled(d)
  /\ f.stage = "record" =>
       evidence[f.wf] # NoOutcome /\ f.outcome \in RecordableOutcomes[f.wf]

FramesOK == \A p \in Process : \A i \in 1..Len(frames[p]) : FrameOK(frames[p][i])

\* The result files, seen alone, behave as the ledger WorkflowLedger specifies.
Ledger == INSTANCE WorkflowLedger WITH result <- result, regressed <- regressed
ImplementsLedger == Ledger!Spec

(***************************************************************************)
(* A command that is not killed ends, even while other commands keep       *)
(* taking its dependencies back: _materialize_dependencies gives up on a   *)
(* dependency that did not complete instead of trying it again.            *)
(***************************************************************************)
CommandTerminates == \A p \in Process : Running(p) ~> ~Running(p)

-----------------------------------------------------------------------------
(* Properties of commands that do not overlap (one process).               *)

(***************************************************************************)
(* While a body computes, and until its outcome is recorded, every         *)
(* dependency of its workflow is COMPLETED: executing the later            *)
(* dependencies has not taken back an earlier one.                         *)
(***************************************************************************)
DependencyGate ==
  \A p \in Process :
    Running(p) /\ Top(p).stage \in {"body", "record"} => Blockers(Top(p).wf) = {}

(***************************************************************************)
(* Materializing dependencies reuses what has passed: a body that starts   *)
(* as a dependency has no PASS on file, although the dependency graph is   *)
(* not a tree and the decision to run it was taken before its own          *)
(* dependencies were executed.  So a command runs no body twice.           *)
(***************************************************************************)
CompletedIsReused ==
  [][\A p \in Process :
       Running(p) /\ Top(p).stage = "materialize"
         /\ frames'[p] # <<>> /\ frames'[p][Len(frames'[p])].stage = "body"
         => Depth(p) = 1 \/ result[Top(p).wf] # "PASS"]_vars

(***************************************************************************)
(* A PASS is taken back only by the body of the very workflow the operator *)
(* named on the command line, never by materializing dependencies for a    *)
(* later workflow.                                                         *)
(***************************************************************************)
UpstreamNeverInvalidated ==
  [][\A w \in Workflow :
       result[w] = "PASS" /\ result'[w] # "PASS"
         => \E p \in Process : Depth(p) = 1 /\ frames[p][1].wf = w]_vars

(***************************************************************************)
(* When a result file changes, the evidence on disk is that of the same    *)
(* outcome.                                                                *)
(***************************************************************************)
EvidenceMatchesResult ==
  [][\A w \in Workflow : result'[w] # result[w] => result'[w] = evidence'[w]]_vars

=============================================================================
