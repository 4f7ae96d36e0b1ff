# FedACT: TLA+ models of its workflow engine, its experiments and its files

FedACT (`src/src/fedact`) is a research program run as a command line tool:
`fedact run <workflow>` executes one of fourteen registered workflows after
materializing the workflows it depends on; `fedact acquire` and `fedact
preprocess` bring in the data. What survives a command is a file below
`outputs/`, `results/` or the data directory, and (by accident) an emulator
process. There are no threads and no locks. Two things are hard here: what
happens between commands - one killed at any point, run again, run while
another is running, or run after the data have changed - and what happens inside
an experiment that walks over months of a release, where a window, a support
count or a tie decides what a number is about.

Paths and line numbers are those of the repository; paths without a directory
are below `src/src/fedact`. `PROJECT.json` maps every definition to its lines.

## Inventory

| part | state it keeps | operations | interacts with | what is hard | what makes it correct | module |
|---|---|---|---|---|---|---|
| Registry and plan (`experiments/registry.py`, `workflow.py`) | none; read off the result files | `resolve_execution_plan`, `_build_entry_for_workflow` | results of all workflows | a status is out of date as soon as it is read | COMPLETED means: may be relied on | `WorkflowRegistry`, `WorkflowEngine` |
| Workflow engine (`workflow.py`) | call stack of a command | `run_experiment`, `_materialize_dependencies`, `_execute_dependency`, `_persist` | plan, bodies, result files | recursion over a diamond-shaped graph with checks that age; overlapping commands; kills | a body starts only on completed dependencies, nothing completed is run again or taken back | `WorkflowEngine` |
| Result and evidence files (`artifacts.py`) | `result.json`, `evidence.json` per workflow | `write_workflow_evidence`, `write_workflow_result`, `write_bytes_atomically` | engine, synthesis, report | kill between two files; two writers share a staging name | no result without evidence, no torn file | `WorkflowEngine`, `AtomicFile` |
| Acquisition (`data/androzoo.py`, `run_acquire`) | one APK per sample, its staging file | scan, verify, download, replace, byte budget | generation | budget at its limit, interrupted and overlapping downloads | only verified files; the cohort is acquired in the end | `Acquisition` |
| Preparation (`data/records.py`, `data/splits.py`, `run_preprocess`) | retained samples, split, eligible cutoffs | chronology audit, deduplication, split | every experiment | boundaries of months and gaps, conflicting duplicates | what is offered as a history was observed; no sample on both sides | `Preparation`, `Chronology` |
| Identification on LAMDA (`experiments/identification.py`, `data/lamda.py`) | loop variables, diagnostics | cutoff diagnostics, three stresses, dynamics ablation | splits, client procedure | many early returns, two copies of one support rule, choices made on the whole release | nothing but the choice of cohort and columns looks ahead; every cutoff accounted for | `Identification` |
| Identification on EMBER2024 (`experiments/ember2024_identification.py`, `data/ember2024.py`) | the same | cutoff diagnostics | cross-corpus | a second implementation of the same fit | it is the same procedure | `Ember2024Identification` |
| Action generation (`experiments/lamda_action_generation.py`) | `endpoint_fit_cache.json`, `actions.json`, loop variables | endpoint loop, cache of rejections, incremental write | emulator, acquired APKs, certification | interruption, resumption from a cache with a coarse key, changed inputs | a resumed run omits at most what the cache knows as rejected | `ActionGeneration` |
| Emulator session (`data/lamda_apk_emulator.py`) | an operating-system process | `ensure_avd`, `boot_emulator`, `shutdown_emulator` | generation | two time limits, exceptions on every path | every emulator alive is held or accounted for | `ActionGeneration` |
| Certificate validation (`experiments/validation.py`, `certification/certificate.py`, `calibration.py`) | decisions, central pattern, challenges, selected calibration | calibrate, decide, match at random, compare | actions.json, hardening, synthesis | artifacts of older runs; ties and thresholds; draws without replacement | decisions rest on the current calibration; comparators are matched | `ArtifactFlow`, `Certification` |
| Prospective evaluation and synthesis (`experiments/generalization.py`, `experiments/synthesis.py`, `learning/hardening.py`, `analysis/comparisons.py`) | cutoff comparisons, outcome | train, harden, score, compare, pair | decisions, challenges | outcome variable overwritten in sequence; tolerance of a running best; an exception for one cutoff | an outcome stands for the whole plan | `Prospective`, `Hardening`, `ArtifactFlow` |
| Client subsets and contraction (`certification/selection.py`, `experiments/robustness.py`) | selections, episodes | greedy, largest, contraction, random selection | uncertainty radii | a greedy choice one client ahead; one loop over the budgets | nested, best of its size | `ClientSelection` |
| Federated training, representation, detector, scoring, bootstrap statistics | network weights, arrays | training, sampling | evaluation | numerical | - | - |
| Reporting, loaders, APK tools, configuration, tests | files read | parsing, external tools | all | pure I/O and numerics | - | - |

`PROJECT.json` "components" lists all of them with what is modelled, "hazards"
the places where this code is hard to test and the properties that are about them.

## Modules

| module | what it is |
|---|---|
| `WorkflowRegistry` | the static tables: workflows, dependencies, the outcomes each body can hand to `_persist`, which bodies raise after FAIL, which write more after recording |
| `WorkflowLedger` | abstract: outcomes are recorded one at a time, only on settled dependencies, and never removed |
| `WorkflowEngine` | any number of commands, each with the call stack of `_materialize_dependencies`, over shared files; implements `WorkflowLedger` |
| `ActionGeneration` | the generation part of `action-certificate-validation`: emulator session and loop, over any number of commands and changes of setting |
| `ArtifactFlow` | the files three workflows hand to one another, over reruns, changed inputs and kills |
| `AtomicFile` | a file written through a staging name: inodes, names and open handles |
| `VerifiedStore` | abstract: a sample appears whole, at once; a contended one is named as such |
| `Acquisition` | extends `AtomicFile`: overlapping acquisition commands; implements `VerifiedStore` |
| `Chronology` | months, windows, gaps, rolling cutoffs, the label rule, the most common family |
| `Preparation` | `fedact preprocess` |
| `CutoffLedger` | abstract: a plan of cutoffs, accounted for one by one in order, closed when all are |
| `Identification` | five bodies over the LAMDA release; the diagnostics implement `CutoffLedger` |
| `Ember2024Identification` | the diagnostics over EMBER2024; implements `Identification` |
| `Certification` | calibration, decisions and the central pattern |
| `Hardening` | which epoch of a hardening run is kept |
| `Prospective` | extends `Chronology` and `Hardening`: the evaluation, cutoff by cutoff, and the synthesis; implements `CutoffLedger` |
| `ClientSelection` | the comparison of client selectors over budgets |
| `WorkflowEngineProofs`, `ActionGenerationProofs`, `ArtifactFlowProofs`, `DataProofs` (of `Acquisition` and `Preparation`), `IdentificationProofs`, `ProspectiveProofs`, `CertificationProofs` | their theorems |
| `CountingLemmas` | least and greatest numbers, sums over finite sets and ranks in a strict order, for the proofs that count |
| `MC*` | the instances for TLC |

The modules are views of the same commands at different depths. `WorkflowEngine`
decides when a body starts and records its outcome, with bodies as single steps.
`ArtifactFlow` opens the file traffic of three bodies, with the engine's
`DependencyGate` as the guard of `Begin`. `ActionGeneration`, `Certification`,
`Identification`, `Prospective` and `ClientSelection` each open what one body
computes; `Acquisition` and `Preparation` are the commands that come before.

### WorkflowEngine

`result` and `evidence` are the outcomes in `results/<w>/result.json` and
`outputs/experiments/<w>/evidence.json`, `diagnostics` the workflows whose
trailing diagnostics are on disk, `frames[p]` the Python call stack of process
`p`, one frame per activation of `_materialize_dependencies` together with the
execution of the same workflow that follows it. `regressed` is a history
variable: workflows whose PASS was overwritten.

| code (`workflow.py`) | action |
|---|---|
| `run_experiment` 992 | `Command` |
| loop head, `continue` 981-984 | `SkipCompleted` |
| recursive call 985 and `_execute_dependency` 986 | `Descend` |
| `refreshed = ...`, raise 987-989 | `Refresh` |
| loop ends, body starts 960 | `StartBody` |
| the body, then `write_workflow_evidence` 634 | `Compute`, `WriteEvidence` |
| `write_workflow_result` 635, then raise, diagnose or return | `WriteResult` |
| diagnostics of prospective-evaluation 809-819 | `Diagnose` |
| any exception, `typer.Exit`, kill | `Abort` |

`Status` is evaluated from the result files at the moment of the step, as
`application.plan()` is. Abstracted: the numbers in a result record, `--overwrite`
(it only prints), and torn files: a write is one step here and several in
`AtomicFile`.

### ActionGeneration

A `Setting` stands for everything generation reads: the release, the acquired
APKs, the configuration. Under it the fitting rejects the endpoints
`Rejected[s]`, and the valid candidates of the others are `Valid[s]`; both are
functions because the code is deterministic in its inputs. `CacheKey[s]` is the
pair of cohort and record count, all that `_load_endpoint_fit_cache` compares
(129): settings may have one key and reject different endpoints, as `before` and
`retuned` of the instance do. History variables: `origin` (setting and completion
of the run that made `actions.json`), `tried` (the settings a loop has loaded the
cache under), `abandoned` (emulators left by a kill or by an adb call that did not
answer). The set written replaces the list. Emulators are counted, not identified.
What belongs to a candidate and is external (`apksigner`, the emulator's
behaviour, ClamAV) is in `Valid`.

### ArtifactFlow

A file is represented by what it was made from: `selected` by a version of the
inputs, `actions` and `challenges` by a version and by how they came about
(`prepared` by hand, a `part` a generation has written so far, `generated` when its
loop ended), `decisions` and `pattern` by the actions and the selection they were
computed from, `comparisons` by decisions, challenge sets and data. Which inputs
yield a file at all is the constants `Observed`, `Selecting`, `Prepared`,
`Challenging`, `Generating`. The Android SDK and the emulator are no input: a
generation may be skipped under any version, and may stop after any action.
History: `fresh`, the workflows that have passed, in order, since the inputs last
changed; `generated`, that the last generation ended, under the inputs of now.

| code | action |
|---|---|
| `run_nested_calibration` (`validation.py` 417-480) | `CalibrateNothing`, `CalibrateInvalid`, `Select` |
| `_run_lamda_action_generation_if_acquired` (`workflow.py` 713-750), its early returns | `SkipGeneration` |
| `_persist_written` after an action, and at the end of the loop (`lamda_action_generation.py` 607, 609) | `WriteAction`, `FinishGeneration` |
| `run_action_certificate_validation` (`validation.py` 316-414) | `JudgeNothing`, `Judge`, `WriteChallenges`, `WriteDecisions`, `WritePattern` |
| `run_prospective_fedact_evaluation` (`generalization.py` 946-1140) | `EvaluateNothing`, `Evaluate` |
| `_persist` (`workflow.py` 633-635) | `Record` |
| any exception or kill | `Kill` |

Generation never attaches challenge embeddings, so only an `actions.json`
prepared by hand has them (`Challenging` is a part of `Prepared`). Commands do
not overlap here.

### AtomicFile and Acquisition

`final` and `staging` map a destination and its staging name to an inode,
`whole` are the inodes with complete content, `handle` is the inode a writer has
open. The staging name is a function of the destination, so opening it truncates
the inode another writer may be filling, and replacing it moves whatever it
points to. `pc`, `outstanding`, `sample` and `spent` are the loop of one
command; `contended` is history.

| code | action |
|---|---|
| `run_acquire`, scan of the present files | `Start` (no step while the scan raises) |
| the loop, `_verified_local_apk`, the budget test (`androzoo.py` 129) | `NextSample`, `Done` |
| `acquire_lamda_apk`, second look | `FetchCached` |
| the download and its verification | `Download`, `DownloadFails` |
| `staging.write_bytes`, `os.replace` (103) | `Open`, `Fill`, `Replace`, `ReplaceRaises` |
| kill | `Kill` |
| "remove ... and re-acquire", as the exception says | `RemoveUnverified`, by the user, when no command runs |

### Chronology and Preparation

Months are integers. `IsIntervalOverlappingGap` and `IsIntervalObservable` are the
boundary tests of `splits.py`, `EnumerateRollingCutoffs` the cutoffs it offers.
`Preparation` runs over the datasets in the order of the selector: `Preprocess`
(the command), `Audit` and `AuditRaises` (cutoffs of a dataset, or an exception),
`Prepare` (feasibility, deduplication and exclusions, the split, made from the
rows as loaded), `Persist`, and between commands `Acquire`.

### Identification

`job` is the body, `stage`, `endpoint` and `context` its place, `entries` the
diagnostics recorded, `results` the entries of a stress. What linear algebra
decides (stable, weak or unstable rank; a zero control; centers without variation)
is `verdicts`, one choice per run; everything the code decides by counting
records in windows is computed. An entry keeps the months of the rows that were
computed with at its cutoff (`FitRows`: training of the encoder, windows, replicates,
history) apart from those counted to choose what is studied (`ChoiceMonths`: the
cohort, and the feature columns of `filter_low_variance_features`, from all rows).

| code (`identification.py`) | action |
|---|---|
| cutoff diagnostics | `StartDiagnostics`, `CutoffFitted`, `CutoffAbstains`, `WriteDiagnostics` |
| weak-eigengap stress | `StartWeakEigengap`, `SearchWindow`, `SearchExhausted`, `EmbedWindow`, `StressNoise` |
| sparse-control and allowance stress | `StartLocate`, `Locate`, `LocateExhausted`, `StressSparse`, `RefitAllowances`, `WriteStress` |
| dynamics ablation | `StartDynamics`, `CollectCenter`, `FitDynamics` |

`Ember2024Identification` has its own loop (`Begin`, `Examine`, `GiveUp`,
`WriteDiagnostics`) and its own transition functions, translated from its own
source; its variables map to those of `Identification` with `job` diagnostics.

### Certification

`Calibrate` (`run_nested_calibration`), `Judge` (`certify_action_interval` per
action), `WriteDecisions` (and the status per sample), then per cutoff
`GroupCutoff`, per seed `DrawMatch` and `EndSeed` (`_sample_matched_random_valid`,
with any candidate of the level as the draw), `RecordCutoff`, and `Conclude`
(`_central_pattern_supported`). Bounds, scores and rates are integers over `Scale`.
Actions are named by their place in the file: the group of a cutoff, its certified
actions and its pool are sets of places, the draws a function from certified actions.

### Hardening and Prospective

Training is not modelled: a run of heads, each with an objective and the samples
it misses, is any of `Runs`. `SelectEpoch` is the loop of `harden_detector_head`
as a recursive function. `SkipCutoff`, `EvaluateCutoff` and `RaiseInForecast` are
one turn of the loop of `run_prospective_fedact_evaluation`: nothing to train on,
the comparison with every baseline that its history supports, or the exception of
`fit_scalar_model` that nothing there catches. `Conclude` is the outcome,
`Synthesize` the statistical synthesis, in the order in which its outcome variable
is overwritten; `SynthesisRaises` is its reader of the central pattern, which
rejects any record the validation writes, so that there is an outcome only without one.

A record has a row identity `id`, its place in the file, and a `sample`, its hash.
The loaders keep all rows of a hash (`lamda_population.py` 52-71), certificates are
matched by hash (1005), and the dictionaries over rows keep the last (`LastRow`): the
family of a sample in the evaluation (829), its month in the generation
(`lamda_action_generation.py` 325). `IsGenerated` constrains the decision files to
those generation leads to: an action at an endpoint of the cohort is made for a
sample with a malicious row there, of which the last row is older than the endpoint.

### ClientSelection

A client has an information value per direction; a selector adds clients one at a
time (`PickGlobal`, `PickContraction`) or at once (`SelectLargest`, `DrawRandom`), and
`RecordGlobal`, `RecordContraction` and `VerifyRound` close a round of one budget. The radius of
an intersection is the sum of its clients' radii, as in `uncertainty.py` 293.
`Refuse` is the body without two clients and an action to judge them by
(`IsComparable`), or without a budget: its loop then has no round, and no outcome of
one to record.

## Runs

| run | instance | checks | what it shows |
|---|---|---|---|
| `sequential` | 1 process, the five workflows up to prospective-evaluation | `TypeOK`, `DependencyGate`, `CompletedIsReused`, `UpstreamNeverInvalidated`, `EvidenceMatchesResult` | what the recursion guarantees when commands do not overlap; all four are false for two overlapping commands |
| `overlapping` | 2 processes, the three workflows below nested-calibration | `ResultHasEvidence`, `ClosedUnlessRegressed`, `ImplementsLedger`, `CommandTerminates` | what survives overlapping, and that a command that is not killed ends |
| `generation` | 3 endpoints, 2 candidates, 4 settings, two of which share a key and disagree, at most 2 emulators | `TypeOK`, `ResumedOmitsOnlyCached`, `EmulatorsAccountedFor`, `RejectionsKept` | what a resumed run may lack, and which emulators are left, under kills and exceptions everywhere |
| `flow` | 4 versions: prepared actions with challenges, sources to generate from, prepared actions without challenges and without a valid calibration, nothing | `TypeOK`, `PassHasEvidence`, `RenewalRefreshes`, `RecordedPassIsOfFiles` | which artifacts of an older version can be behind a PASS |
| `acquisition` | 2 commands, 2 samples of 1 and 3 bytes, budget 1, 4 inodes, 1 kill | `ImplementsStore`, `ContentionHeals`, `BudgetBoundsDownloads`, `EventuallyAcquired` | the staging protocol with two writers; acquisition ends |
| `preparation` | two sources with gaps over nine months, releases with duplicates and conflicts, 2 commands | `HistoriesAreObserved`, `RetainedInOnePartition` | interval arithmetic against a month-by-month reading |
| `identification` | releases of up to a dozen records over ten months, windows of 2, history 4 | `TypeOK`, `LooksAheadOnlyByChoice`, `WindowsExist`, `SupportRulesAgree`, `StressKeepsItsBaseline`, `ImplementsCutoffLedger` | where the diagnostics look ahead and where not, and no lost cutoff |
| `ember` | the same releases without detection counts | `ImplementsLamda` | the second implementation is the first |
| `certification` | files of up to four actions at two cutoffs, 2 seeds, `Scale` 24 | `NarrowingKeepsDecision`, `MatchesAreExact`, `PatternNeedsSeparation`, `EqualWidthsCertifyByPoint` | the decision rule, the draws, and what the central pattern can show |
| `prospective` | 9 releases, two with a repeated hash, 6 decision files, hardening runs of up to 3 heads, windows of 2, history 6, horizon 2 | `OnlyRepeatedRowsArePast`, `HardenedIsNearBest`, `CleanCostIsWithinLimit`, `ImplementsCutoffLedger` | the evaluation accounts for its plan, and on what its PASS rests |
| `selection` | 3 clients, 2 directions, budgets of 1 to 3, 2 seeds | `ContractionIsOptimal`, `SelectionsAreNested` | one client at a time is optimal here; rounds are independent |
| `added_clients` | as `selection` | `AddedClientsNeverWiden`, violated | finding: a client more can widen the interval, against `src/docs/Roadmap.md:564` |

Bounds. A slice of the registry is closed under dependencies, so its workflows behave in
it as in the whole; five workflows contain every shape the recursion meets (a shared
dependency, one reached directly and through another, a stack of depth five). Two
processes are the smallest number that interleave. Three endpoints give one before, one at
and one after an interruption; two candidates give an endpoint with a part of its actions
on disk. With four versions each file can be left by one version, be replaced under
another and stay under a third; one version with challenges is enough, since a generated
file has none and `challenges.json` then stays (8 million states, a minute and a half). In
`acquisition` four inodes are two more than there are samples, so that both commands can
hold a new one; sizes on both sides of the budget make it reached with and without an
excess, and one kill is enough for a staging file nobody owns. Windows of two months are
the shortest with an inside; releases over ten months give a first cutoff, one in the
middle, and one after the data of the cohort end. Four actions at two cutoffs give a
certified action two rivals for its match. Counters are bounded by `MaxEmulators`,
`MaxKills`, `MaxCommands` and `Inodes` only.

Fairness. `FairSpec` of `WorkflowEngine` assumes weak fairness of the work of each
process: a command that is not killed goes on, because every body is a finite
computation. That of `Acquisition` assumes weak fairness of a command's steps
(the user repeats it), strong fairness of `Download` (a download tried again and
again succeeds once) and weak fairness of `RemoveUnverified` (the user does what
the exception says). Nothing assumes that a body passes or that no kill occurs.
`EventuallyAcquired` rests on the budget being tested before a download: a command
always takes at least one file. All other runs check safety only.

Deadlock is checked in `sequential`, `overlapping`, `generation` and `flow`, where a new
command is always possible. The others model one analysis, or commands up to a
bound or to a complete directory, and end.

## Proofs

TLAPS checks the following for all values of the constants: any acyclic registry,
any number of processes, any corpus, release, windows, budget and run length. The
assumptions are those named `...Assumption`: `EngineAssumption`,
`RegistryOrderAssumption`, `GenerationAssumption`, `FlowAssumption`, `InodeAssumption`,
`AcquisitionAssumption`, `LabelRuleAssumption`, `PreparationAssumption`,
`StudyAssumption` and `ReleaseAssumption` (a release is a finite set of records with
months in Nat and one record per row identity; hashes may repeat), their counterparts
`EmberStudyAssumption`
and `EmberReleaseAssumption` (no record has a detection count), `HardeningAssumption`,
`ProspectiveAssumption`, `ClientSelectionAssumption` (a radius is positive and shrinks
with the information), `CertificationAssumption` (scores and later
improvements are integers over `Scale`, samples numbers in the order of their names) and
`OneValidityAssumption` (the
actions of one sample are all valid or all invalid: generation writes valid ones
only, a file prepared by hand has one action per sample; `MatchesAreExact` rests on
it, since the status kept per sample is that of its last action). TLC evaluates each
of them on every instance.

`WorkflowEngineProofs`. `ClosedUnlessRegressed` is not inductive: a result is
written by a frame that checked its dependencies long before. The strengthening
is `FramesOK`: every frame, buried or on top, has *settled* the dependencies its
loop has passed, and a frame about to write a result has written the evidence.
Settled (passes now, or is in `regressed`) is the notion that survives other
processes' writes; COMPLETED is not, which is why the ledger promises no more.
From `InductiveInvariant` follow `ClosedCorrect`, `EvidenceCorrect`, the refinement
`LedgerCorrect`, and `NeverRecorded`: no workflow is ever recorded one of whose
dependencies cannot record PASS. Applied to cross-corpus, whose pair count is a
literal zero, this says that statistical-synthesis is never recorded.

Its last section is about one process. There COMPLETED does survive. `StackOK` says
that the dependencies a loop has passed still have their PASS, that the workflows
of a stack come in descending position, and that one executed as a dependency has
no PASS until its own is recorded; the descending positions are what keeps a
nested execution from overwriting what an outer loop relies on. From it
`GateCorrect`, `ReuseCorrect`, `UpstreamCorrect`, `RecordedEvidenceCorrect`.

`ActionGenerationProofs`. `EmulatorCorrect` needs that a session holds an emulator
exactly in the phases between launch and shutdown; `RejectionsCorrect` that the loop
starts with what the cache of its key knows. `ResumedCorrect` is the main result, for
any keys: a finished `actions.json` is that of a fresh run but for endpoints a run of
its key has rejected, and an unfinished one is a part of it. The invariant is `CacheOK`
(the cache of a key holds only endpoints rejected under some setting tried with that
key) and `LoopOK` (what is written is what is produced before the place of the loop and
not cached). `ResumedUnderOneSetting` is the case in which nothing may be missing.

`ArtifactFlowProofs`. Three layers, each inductive given the one before: `Shape` (types,
which stage belongs to which workflow, and that what is judged is on disk); `Backed` adds
what a body about to record PASS has written; `Renewed` adds which files the running body
has renewed so far and that a run only counts as renewing what comes before it.

`DataProofs`, of acquisition. `StoreCorrect`, the refinement to `VerifiedStore`: of a sample
that is not contended, whatever inode is at its final name is whole unless it was
never verified, and at most one command holds or is about to replace its staging
inode; a staging file left by a kill is truncated by the next writer, never
published. `HealingCorrect` adds that a broken contended file has a writer that
will fill it, as long as nobody is killed. `BudgetCorrect`.

`DataProofs`, of preparation. `HistoriesCorrect`: the boundary test of an interval and a gap
holds exactly when they share a month (`OverlapIsSharedMonth`), so that the cutoffs
enumerated are those a reading month by month finds. `RetainedCorrect`: a retained
identity has one row value, and the partition depends on the month alone.

`IdentificationProofs`. `InductiveInvariant` says of each stage what the data and the
loop variable are (`LoopsOK`), that every entry is sound (`EntriesOK`: its rows are
earlier, its choice is not, its verdict agrees with the support before training), and that a stress
with a baseline has supports for it (`BaselineOK`, `ResultsOK`). `SupportCorrect`
rests on the two support rules being one sum of windows; `BaselineCorrect` on the
floor of one sample in the sparse retention. For `LedgerCorrect` the plan is shown
to be the arithmetic series of the loop, and the number of entries the number of
steps it has made. Least and greatest elements of sets of months are those of
`CountingLemmas`. The last sections prove the refinement `ImplementsLamda`
(`EmberCorrect`) for the releases without detection counts. An audit that keeps every
label gives both studies one cohort (`EmberCohort`); a window pair has no month in
common, so that counting both in one pass is counting each (`EmberSupport`); the
cutoff that LAMDA abstains from for want of a history and EMBER2024 for want of support
does not exist (`SupportSuffices`); and the replicate with the largest support found by
a sort is the one no other beats (`BestIsEarliest`, which needs that ratios compared by
cross products are transitive). `EmberInv` is the invariant: while cutoffs are examined
there is a cohort.

`ProspectiveProofs`. `CertificatesCorrect`: a scored row is in a month from the cutoff on,
generation took its hash from a row before the endpoint of its action; either that row is
another one of the same hash, or the endpoint is later than the cutoff. `HardenedCorrect`:
the running best is never worse than an admissible epoch by more than the tolerance
(`RunningBest`) - small improvements do not add up, since each is compared with the best
so far and not with its predecessor. The loop is a recursive function; that it exists for
every length (`BestExists`) is shown by its least failure. `LedgerCorrect`: the evaluation
implements the cutoff ledger. `CleanCostCorrect`: the kept epoch of a comparison is an
admitted one or the head the run started from, so its cost is within the limit
(`KeptEpochIsWithinLimit`); `CostInv` keeps this for every comparison and says that a
written artifact has them all; the sum of costs within the limit is within the limit times
their number (`SumMonotone`).

`CertificationProofs`. `NarrowingCorrect`: every status is that of its action under
the selected thresholds (`Judged`), and none exists before they are selected
(`Staged`). `MatchesCorrect`: `Drawn` accounts for the pool of a seed, which is what
it began with less the matches, each of the exact key of the certified action it was
drawn for. So the pool cannot be short of a key (`MatchRemains`): a valid action
leaves it only for a certified one of the same key that is itself valid, and one
such is still waiting, so fewer have left than there were. `PatternInv` says of
every record of the central pattern that its precisions are those the decisions on file
give its cutoff, and of the verdict that it is that of the records. `SeparationCorrect`
follows by contradiction: if every valid action that is not certified is borne out,
whatever is selected by the point instead of the certified misses no more than they do
(`Misses`, `PointIsNoWorse`), cutoff by cutoff, hence in the sum.
`EqualWidthsCorrect`: where the widths of a cutoff are one, the certified actions are
those of the pool with the largest scores, an initial part of its ranking, and the
first so many by rank are they (`FirstOfPool`); precision is compared with itself. A
rank is the number of those before, and that ranks count without a gap is
`RankIsBijection`.

`CertificationProofs`, of the client selection: for any clients, information matrices,
budgets and draws. `SelectionInv` says that the running comparator has picked by its
rule (`RunningOK`), that the picks of the contraction are the clients of smallest
radius, and that an episode of a finished comparator holds such picks (`EpisodesOK`).
`ContractionCorrect`: a selector that looks one client ahead is optimal because the
width is a sum with one term per client - the next pick is the client with the smallest
radius left, whatever was picked before (`ContractionPickIsCheapest`), and of two sets
of one size the cheapest has the smaller sum: the clients only it has are not larger
than those the other has instead (`CheapestIsLeast`, `CheapestReducesMost`). The draws
are compared in their sum (`TotalIsNoMore`). `NestingCorrect`: the next pick is a
function of those before it, so that two rounds agree as far as the shorter one goes
(`OneRule`); this needs the accumulated information to start at zero in each round
(`RunningAnew`) and a strict order of supports (`SupportIsStrict`: ratios are compared
by cross products, and these are transitive).

`CountingLemmas`. Sums and products are those of the community module `Functions`, folds
over a set chosen element by element. That a fold exists (`FoldsExist`), and that a sum
does not depend on the order (`SumOfChosen`, `SumOfMember`), is shown by the least size of
a set that fails, in the same way as `LeastNatural` from the well-foundedness of Nat, since
induction as a theorem about an operator cannot be instantiated.

Only model-checked: the liveness properties `CommandTerminates` and
`EventuallyAcquired`, which are out of the prover's reach, and the refutation of
`AddedClientsNeverWiden`, a counterexample. Every other property of the runs is stated
by a theorem.

## Where code and documents disagree

The finding listed in `PROJECT.json` has a run. The following were met while
translating; the models follow the code, and properties are stated so as to be
true of it. Documents are `src/docs/Roadmap.md` unless named.

Engine and files:
- A workflow stays COMPLETED when a parent no longer passes (`workflow.py:240`;
  5284 invalidates descendants). This is what `regressed` names.
- The trailing diagnostics of prospective-evaluation run after its PASS is recorded
  and are never made up for (`workflow.py:790`; 5163-5167); ablations asks for the
  PASS only, so that it can measure on comparisons of the present inputs and on
  diagnostics of earlier ones (`robustness.py:209`; 4161: "compatible upstream
  artifacts").
- cross-corpus is called with zero pairs, so that statistical-synthesis is never
  recorded (5502; theorem `NeverRecorded`).
- `preprocess --dataset` for one dataset records the PASS of all (`workflow.py:514`).
- A nested calibration without a valid candidate passes and leaves an older
  selection in place (`validation.py:463`; 5102); the same holds of
  `challenges.json` when the next actions carry no challenges.

Generation:
- A partial `actions.json` is judged like a finished one (`validation.py:325`; 3221).
- A time-out of adb during the boot leaves the emulator
  (`data/lamda_apk_emulator.py:169`; 5700).
- Rejections are cached under cohort and record count only
  (`experiments/lamda_action_generation.py:129`). A changed configuration or release
  that leaves both as they are skips endpoints it would not reject, although a cache
  must never change the result (5239). `ResumedOmitsOnlyCached` bounds what is lost.
- Generation is skipped when the SDK or the emulator is not there
  (`workflow.py:717-739`), and an older `actions.json` is judged under the new inputs:
  a renewed PASS may rest on it (5102). `RenewalRefreshes` says when it does not.

Certification:
- The status is kept per sample, the last action wins (`validation.py:360`; 4031).
- Generated files have one interval width per cutoff, so certifying and selecting
  by the point are the same choice and the central pattern cannot be supported
  (`EqualWidthsCertifyByPoint`; 25.4, 26.6).
- A decision used at a cutoff is of a later one (`generalization.py:1005`,
  `lamda_action_generation.py:528-529`; 604), except where the release repeats a hash:
  then the decision may be a past one of another row (`OnlyRepeatedRowsArePast`).

Experiments:
- The cohort is chosen with the labels of the whole release
  (`identification.py:679`; 1643), and the feature columns by their variance over the
  whole release (`identification.py:573-581`, `lamda.py:103-112`; 1640, 1702).
- The split is made from the rows as loaded (`splits.py:390`), conflicts are counted
  per identity (1788), features are empty at that point so that the exclusion of
  nonfinite ones never applies.
- The LAMDA chronology always meets its 2015 gap, so the audit says UNUSABLE, and
  the outcome is PASS all the same; `gap_start_exclusive` is inclusive.
- `eligible_cutoffs` asks neither for a full history nor for the gaps.
- The synthesis takes the certification rate for the coverage, asks for the clean
  cost although no epoch beyond it is ever kept (`CleanCostIsWithinLimit`), lets PASS
  overwrite INSUFFICIENT_EVIDENCE, and computes effect directions and p-values that
  decide nothing.
- The synthesis reads the central pattern with a record that lacks
  `mean_certified_action_width` and forbids unknown fields (`generalization.py:109`),
  while the writer always writes it (`validation.py:86-92`); the ablations' copy has it
  (`robustness.py:98`). One record is enough to raise (`SynthesisRaises`), so that the
  contrast with random selection is never formed. Today the body is never reached.
- A `ValueError` of one forecast ends the whole evaluation (`generalization.py:558`).
- Contraction gives a tie to the largest position, `verified` decides nothing about
  the outcome, and no code writes the `clients.json` that the body reads.

## Not modelled, and why

- Numerical code: projectors, bootstrap radii, federated and detector training,
  the linear programs of action displacements, dynamics models. Where it decides
  the course of a body, the decision is a choice (`verdicts`, `Valid`, `Runs`,
  `RadiusOf`); the numbers themselves are floating point.
- Parsing of external data, vectorization, APK mutation, signature scanning,
  configuration, reporting: they keep no state across steps.
- `run_dynamic_smoke`: its verdict is in `Valid`.
- The bodies of baselines, failure boundaries, federation outcomes, verification and cross-corpus,
  beyond the outcomes they can record (`BodyOutcomes`): several of the inputs they
  read (calibration observations, stress measurements) are
  written by no code, so that there is no protocol to follow.
- Two overlapping commands of action generation: they share the emulator port and
  partial files; what sharing a staging name does is shown for samples.
- Truncated JSON from the in-place writes: their reader raises, which is `Kill` of
  `ArtifactFlow`.

## Plan

Done, in this order: `WorkflowRegistry`, `WorkflowLedger`, `WorkflowEngine`,
`ActionGeneration`, `ArtifactFlow` with their proofs; `AtomicFile`, `VerifiedStore`,
`Acquisition`; `Chronology`, `Preparation`; `CutoffLedger`, `Identification`,
`Ember2024Identification`; `Certification`, `Hardening`, `Prospective`,
`ClientSelection`; the proofs for one process, of acquisition, preparation,
identification with its second implementation, the prospective evaluation, the
certification with its central pattern, and the client selection.

Left: two overlapping commands in `ActionGeneration`; the failure-boundary and
cross-corpus bodies when something writes their inputs.
