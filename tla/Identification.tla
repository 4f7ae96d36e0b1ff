--------------------------- MODULE Identification ---------------------------
(***************************************************************************)
(* The identification experiments on LAMDA (experiments/identification.py):*)
(* the diagnostics that fit a client constraint at every cutoff, and the   *)
(* four analyses built on the same fit: weak-eigengap, sparse-control and  *)
(* allowance stress, and the temporal-dynamics ablation.                   *)
(*                                                                         *)
(* Embeddings, covariances, bootstrap terms and radii are not modelled;    *)
(* what a fit does with them is a verdict: which ranks are weak or         *)
(* unstable, which control displacements are zero.  Verdicts are fixed for *)
(* a run because every random draw is seeded from the configuration.       *)
(* Supports, windows, loops and early returns are those of the code.       *)
(***************************************************************************)
EXTENDS Chronology

CONSTANTS Releases,        \* the record sets a release directory may hold
          NoRelease,       \* the directory does not exist
          Verdicts,        \* [rank: endpoint -> RankVerdict, zero: set of endpoints,
                           \*  flat: BOOLEAN] numerical verdicts of one run
          Fractions,       \* sequence of <<numerator, denominator>>: control_support_fractions,
                           \* as many as there are noise multipliers
          History, Interval, Horizon, Step,
          MinSupport,      \* minimum_support_per_class
          MinReplicates,   \* minimum_control_transition_replicates
          MinResiduals,    \* minimum_history_residuals
          MinPairs         \* minimum_consecutive_pairs

ASSUME StudyAssumption ==
  /\ {History, Interval, Horizon, Step, MinSupport, MinReplicates, MinResiduals, MinPairs}
       \subseteq Nat \ {0}
  /\ Fractions \in Seq(Nat \X (Nat \ {0}))

ASSUME ReleaseAssumption == \A records \in Releases : IsRelease(records)

RankVerdict == {"stable", "weak", "unstable"}

Jobs == {"diagnostics", "weak_eigengap", "sparse_control", "allowance", "dynamics"}

VARIABLES job, release, verdicts,   \* what runs, on which data
          stage,      \* "start", "cutoffs", "search", "locate", "stress", "refit", "done", "raised"
          endpoint,   \* the loop variable of the current loop
          entries,    \* records_list of the diagnostics
          context,    \* the endpoint a stress is built on, or NoContext
          results,    \* results of a stress
          outcome,    \* scientific_outcome, or "none"
          lost        \* a stress gave up after its baseline had been found

vars == <<job, release, verdicts, stage, endpoint, entries, context, results,
          outcome, lost>>

NoContext == -1

-----------------------------------------------------------------------------
\* Who counts as malicious, who as a control, and which cohort is studied.

Malicious(records) == {r \in records : AuditedLabel(r) = "malicious"}
Controls == {r \in release : AuditedLabel(r) = "benign"}

DominantMaliciousFamilyCohort == MostCommonFamily(Malicious(release))
CohortRecords == {r \in release : r.family = DominantMaliciousFamilyCohort}
CohortMalicious == Malicious(CohortRecords)

-----------------------------------------------------------------------------
\* Supports of one endpoint.

Support(records, window) == Cardinality(InWindow(records, window))

\* A bug SupportRulesAgree excludes: window bounds taken as inclusive.
SupportOfInclusiveWindows(e) ==
  /\ Support(CohortMalicious, (e - 2 * Interval) .. (e - Interval)) >= MinSupport
  /\ Support(CohortMalicious, (e - Interval) .. e) >= MinSupport

CohortHasSufficientMaliciousSupport(e) ==
  /\ Support(CohortMalicious, Months(e - 2 * Interval, e - Interval)) >= MinSupport
  /\ Support(CohortMalicious, Months(e - Interval, e)) >= MinSupport

\* malicious_transition_displacement is None without support on both sides.
IsTransitionSupported(e) ==
  LET before == Support(CohortMalicious, BeforeWindow(e, Interval))
      after  == Support(CohortMalicious, AfterWindow(e, Interval))
  IN  before > 0 /\ after > 0 /\ before >= MinSupport /\ after >= MinSupport

ControlTransitionReplicates(endpoints) ==
  {e \in endpoints : /\ Support(Controls, BeforeWindow(e, Interval)) > 0
                     /\ Support(Controls, AfterWindow(e, Interval)) > 0}

\* round of Python: to the nearest, halves to the even neighbour.
Rounded(numerator, denominator) ==
  LET down == numerator \div denominator
      twice == 2 * (numerator % denominator)
  IN  IF twice > denominator \/ (twice = denominator /\ down % 2 = 1) THEN down + 1 ELSE down

\* A bug StressKeepsItsBaseline excludes: a small window keeps no sample at all.
RetainedSupportRounded(support, numerator, denominator) ==
  Rounded(support * numerator, denominator)

\* _retained_sample_mask: the share of a nonempty window's samples, at least one.
RetainedSupport(support, numerator, denominator) ==
  LET rounded == Rounded(support * numerator, denominator)
  IN  IF support = 0 THEN 0 ELSE IF rounded > 1 THEN rounded ELSE 1

SparseControlTransitionReplicates(endpoints, numerator, denominator) ==
  {e \in endpoints :
     /\ RetainedSupport(Support(Controls, BeforeWindow(e, Interval)), numerator, denominator) > 0
     /\ RetainedSupport(Support(Controls, AfterWindow(e, Interval)), numerator, denominator) > 0}

\* A bug WindowsExist excludes: the history reaches back before the first endpoint.
HistoryStartUnclamped(earliest, e) == e - History

HistoryStart(earliest, e) == IF earliest > e - History THEN earliest ELSE e - History
HistoricalEndpoints(earliest, e) == Months(HistoryStart(earliest, e), e)
EarlierMaliciousEndpoints(earliest, e) == Months(HistoryStart(earliest, e), e - 1)

Residuals(earliest, e) ==
  Cardinality({x \in EarlierMaliciousEndpoints(earliest, e) : IsTransitionSupported(x)})

\* private_transition_term_single_client is None below two transitions.
HasPrivateTerm(earliest, e) ==
  Residuals(earliest, e) >= MinResiduals /\ Residuals(earliest, e) >= 2

-----------------------------------------------------------------------------
\* The three fits: "fitted" or the reason to abstain.

FitClientConstraint(earliest, e, replicates, rank) ==
  IF ~ IsTransitionSupported(e) THEN "malicious_support"
  ELSE IF Cardinality(replicates) < MinReplicates THEN "no_usable_control"
  ELSE IF rank = "weak" THEN "weak_eigengap"
  ELSE IF rank = "unstable" THEN "unstable_rank"
  ELSE IF ~ HasPrivateTerm(earliest, e) THEN "private_history"
  ELSE "fitted"

FitNoControls(earliest, e) ==
  IF ~ IsTransitionSupported(e) THEN "malicious_support"
  ELSE IF ~ HasPrivateTerm(earliest, e) THEN "private_history"
  ELSE "fitted"

\* effective_support is before*after/(before+after); on a tie the earlier endpoint wins.
BestReplicate(replicates) ==
  LET b(x) == Support(Controls, BeforeWindow(x, Interval))
      a(x) == Support(Controls, AfterWindow(x, Interval))
      less(x, y) == a(x) * b(x) * (a(y) + b(y)) < a(y) * b(y) * (a(x) + b(x))
  IN  CHOOSE x \in replicates : \A y \in replicates \ {x} :
        ~ less(x, y) /\ (~ less(y, x) => x < y)

FitOneMatchedControl(earliest, e, replicates) ==
  IF ~ IsTransitionSupported(e) THEN "malicious_support"
  ELSE IF replicates = {} THEN "no_usable_control"
  ELSE IF BestReplicate(replicates) \in verdicts.zero THEN "no_usable_control"
  ELSE IF ~ HasPrivateTerm(earliest, e) THEN "private_history"
  ELSE "fitted"

-----------------------------------------------------------------------------
\* The encoder of a cutoff.

\* A bug LooksAheadOnlyByChoice excludes: the month of the cutoff trains the encoder.
CutoffSafeInclusive(e) == {r \in release : AuditedLabel(r) # "none" /\ r.month <= e}

CutoffSafe(e) == {r \in release : AuditedLabel(r) # "none" /\ r.month < e}

TrainsCutoffRepresentationEncoder(e) ==
  /\ CutoffSafe(e) # {}
  /\ \E r \in CutoffSafe(e) : r.month < Latest(MonthsOf(CutoffSafe(e)))

\* Every month whose rows train the encoder of cutoff e or are averaged in its fit.
FitRows(earliest, e) ==
  MonthsOf(CutoffSafe(e)) \cup TransitionMonths(e, Interval)
    \cup UNION {TransitionMonths(x, Interval) : x \in HistoricalEndpoints(earliest, e)}

\* Every month whose rows are counted, before the loop, to choose what the loop studies: the
\* cohort, and the feature columns kept for their variance (filter_low_variance_features).
ChoiceMonths == MonthsOf(release)

-----------------------------------------------------------------------------

CohortEarliest ==
  EarliestCompleteTransitionEndpoint(Earliest(MonthsOf(CohortRecords)), Interval)
ReleaseEarliest ==
  EarliestCompleteTransitionEndpoint(Earliest(MonthsOf(release)), Interval)
LastMonth == Latest(MonthsOf(release))

FirstCutoff ==
  LET start == Earliest(MonthsOf(CohortRecords)) + 1
  IN  IF CohortEarliest > start THEN CohortEarliest ELSE start
LastCutoff == Latest(MonthsOf(CohortRecords)) - Horizon

Init ==
  /\ job \in Jobs
  /\ release \in Releases \cup {NoRelease}
  /\ verdicts \in Verdicts
  /\ stage = "start"
  /\ endpoint = 0
  /\ entries = <<>>
  /\ context = NoContext
  /\ results = <<>>
  /\ outcome = "none"
  /\ lost = FALSE

Finish(result) ==
  /\ stage' = "done"
  /\ outcome' = result

Inputs == <<job, release, verdicts>>

-----------------------------------------------------------------------------
\* run_lamda_identification_diagnostics.

StartDiagnostics ==
  /\ stage = "start" /\ job = "diagnostics"
  /\ IF release = NoRelease
       THEN Finish("INSUFFICIENT") /\ UNCHANGED endpoint
     ELSE IF DominantMaliciousFamilyCohort = NoFamily
       THEN Finish("INSUFFICIENT") /\ UNCHANGED endpoint
       ELSE stage' = "cutoffs" /\ endpoint' = FirstCutoff /\ UNCHANGED outcome
  /\ UNCHANGED <<Inputs, entries, context, results, lost>>

CutoffEntry(verdict, trained, noControls, oneMatched, rows) ==
  [cutoff |-> endpoint, verdict |-> verdict, trained |-> trained,
   noControls |-> noControls, oneMatched |-> oneMatched, rows |-> rows,
   chosen |-> ChoiceMonths]

RecordCutoff(entry) ==
  /\ entries' = Append(entries, entry)
  /\ endpoint' = endpoint + Step
  /\ UNCHANGED <<Inputs, stage, context, results, outcome, lost>>

AtCutoff == stage = "cutoffs" /\ endpoint <= LastCutoff

DiagnosedReplicates ==
  ControlTransitionReplicates(HistoricalEndpoints(CohortEarliest, endpoint))

\* The first `continue` costs no encoder; the fit runs on its embedding.
CutoffVerdict ==
  CASE ~ CohortHasSufficientMaliciousSupport(endpoint) -> "malicious_support"
    [] /\ CohortHasSufficientMaliciousSupport(endpoint)
       /\ ~ TrainsCutoffRepresentationEncoder(endpoint) -> "temporal_history"
    [] OTHER -> FitClientConstraint(CohortEarliest, endpoint, DiagnosedReplicates,
                                    verdicts.rank[endpoint])

\* Only a cutoff with sufficient support reads the rows of more than its two windows.
CutoffRows ==
  IF CohortHasSufficientMaliciousSupport(endpoint) THEN FitRows(CohortEarliest, endpoint)
  ELSE TransitionMonths(endpoint, Interval)

CutoffFitted ==
  /\ AtCutoff
  /\ CutoffVerdict = "fitted"
  /\ RecordCutoff(CutoffEntry("fitted", TRUE,
       FitNoControls(CohortEarliest, endpoint) = "fitted",
       FitOneMatchedControl(CohortEarliest, endpoint, DiagnosedReplicates) = "fitted",
       CutoffRows))

\* A bug ImplementsCutoffLedger excludes: a cutoff that abstains leaves no entry.
CutoffAbstainsSilently ==
  /\ AtCutoff
  /\ CutoffVerdict # "fitted"
  /\ endpoint' = endpoint + Step
  /\ UNCHANGED <<Inputs, stage, entries, context, results, outcome, lost>>

CutoffAbstains ==
  /\ AtCutoff
  /\ CutoffVerdict # "fitted"
  /\ RecordCutoff(CutoffEntry(CutoffVerdict,
       CohortHasSufficientMaliciousSupport(endpoint) /\ TrainsCutoffRepresentationEncoder(endpoint),
       FALSE, FALSE, CutoffRows))

WriteDiagnostics ==
  /\ stage = "cutoffs" /\ endpoint > LastCutoff
  /\ Finish(IF \E i \in DOMAIN entries : entries[i].verdict = "fitted"
              THEN "PASS" ELSE "INSUFFICIENT")
  /\ UNCHANGED <<Inputs, endpoint, entries, context, results, lost>>

-----------------------------------------------------------------------------
\* run_lamda_weak_eigengap_stress.

ReplicatesAt(e) == ControlTransitionReplicates(HistoricalEndpoints(ReleaseEarliest, e))

\* A bug TypeOK excludes: the search starts one month after the release ends.
StartWeakEigengapLate ==
  /\ stage = "start" /\ job = "weak_eigengap"
  /\ CASE release = NoRelease -> Finish("INSUFFICIENT") /\ UNCHANGED endpoint
       [] release = {}        -> stage' = "raised" /\ UNCHANGED <<endpoint, outcome>>
       [] OTHER -> stage' = "search" /\ endpoint' = LastMonth + 1 /\ UNCHANGED outcome
  /\ UNCHANGED <<Inputs, entries, context, results, lost>>

\* The months of an empty release have no minimum: numpy raises.
StartWeakEigengap ==
  /\ stage = "start" /\ job = "weak_eigengap"
  /\ CASE release = NoRelease -> Finish("INSUFFICIENT") /\ UNCHANGED endpoint
       [] release = {}        -> stage' = "raised" /\ UNCHANGED <<endpoint, outcome>>
       [] OTHER -> stage' = "search" /\ endpoint' = LastMonth /\ UNCHANGED outcome
  /\ UNCHANGED <<Inputs, entries, context, results, lost>>

SearchWindow ==
  /\ stage = "search" /\ endpoint >= ReleaseEarliest
  /\ IF Cardinality(ReplicatesAt(endpoint)) >= MinReplicates
       THEN stage' = "embed" /\ context' = endpoint /\ UNCHANGED endpoint
       ELSE endpoint' = endpoint - 1 /\ UNCHANGED <<stage, context>>
  /\ UNCHANGED <<Inputs, entries, results, outcome, lost>>

SearchExhausted ==
  /\ stage = "search" /\ endpoint < ReleaseEarliest
  /\ Finish("INSUFFICIENT")
  /\ UNCHANGED <<Inputs, endpoint, entries, context, results, lost>>

EmbedWindow ==
  /\ stage = "embed"
  /\ CASE ~ TrainsCutoffRepresentationEncoder(context) ->
              Finish("INSUFFICIENT") /\ UNCHANGED lost
       [] /\ TrainsCutoffRepresentationEncoder(context)
          /\ Cardinality(ReplicatesAt(context)) < MinReplicates ->
              Finish("INSUFFICIENT") /\ lost' = TRUE
       [] OTHER -> stage' = "stress" /\ UNCHANGED <<outcome, lost>>
  /\ UNCHANGED <<Inputs, endpoint, entries, context, results>>

\* Noise changes the displacements, so the rank verdict, but no support.
StressNoise ==
  /\ stage = "stress" /\ job = "weak_eigengap" /\ Len(results) < Len(Fractions)
  /\ \E rank \in RankVerdict :
       results' = Append(results,
         IF DominantMaliciousFamilyCohort = NoFamily THEN "no_cohort"
         ELSE FitClientConstraint(ReleaseEarliest, context, ReplicatesAt(context), rank))
  /\ UNCHANGED <<Inputs, stage, endpoint, entries, context, outcome, lost>>

-----------------------------------------------------------------------------
\* _locate_baseline_identification_context and the stresses that use it.

StartLocate ==
  /\ stage = "start" /\ job \in {"sparse_control", "allowance"}
  /\ IF release = NoRelease
       THEN Finish("INSUFFICIENT") /\ UNCHANGED endpoint
     ELSE IF \/ DominantMaliciousFamilyCohort = NoFamily
             \/ ~ TrainsCutoffRepresentationEncoder(LastMonth + 1)
       THEN Finish("INSUFFICIENT") /\ UNCHANGED endpoint
       ELSE stage' = "locate" /\ endpoint' = LastMonth /\ UNCHANGED outcome
  /\ UNCHANGED <<Inputs, entries, context, results, lost>>

BaselineFit(e) == FitClientConstraint(ReleaseEarliest, e, ReplicatesAt(e), verdicts.rank[e])

Locate ==
  /\ stage = "locate" /\ endpoint >= ReleaseEarliest
  /\ IF BaselineFit(endpoint) = "fitted"
       THEN /\ context' = endpoint
            /\ stage' = IF job = "allowance" THEN "refit" ELSE "stress"
            /\ UNCHANGED endpoint
       ELSE endpoint' = endpoint - 1 /\ UNCHANGED <<stage, context>>
  /\ UNCHANGED <<Inputs, entries, results, outcome, lost>>

LocateExhausted ==
  /\ stage = "locate" /\ endpoint < ReleaseEarliest
  /\ Finish("INSUFFICIENT")
  /\ UNCHANGED <<Inputs, endpoint, entries, context, results, lost>>

\* run_lamda_sparse_control_stress: one refit per fraction of the control samples.
StressSparse ==
  /\ stage = "stress" /\ job = "sparse_control" /\ Len(results) < Len(Fractions)
  /\ \E rank \in RankVerdict :
       LET fraction == Fractions[Len(results) + 1]
           sparse == SparseControlTransitionReplicates(
                       HistoricalEndpoints(ReleaseEarliest, context), fraction[1], fraction[2])
       IN  results' = Append(results,
                             FitClientConstraint(ReleaseEarliest, context, sparse, rank))
  /\ UNCHANGED <<Inputs, stage, endpoint, entries, context, outcome, lost>>

WriteStress ==
  /\ stage = "stress" /\ Len(results) = Len(Fractions)
  /\ Finish(IF results # <<>> THEN "PASS" ELSE "INSUFFICIENT")
  /\ UNCHANGED <<Inputs, endpoint, entries, context, results, lost>>

\* run_lamda_allowance_sensitivity_stress: the same fit again, with more terms.
RefitAllowances ==
  /\ stage = "refit"
  /\ IF BaselineFit(context) = "fitted"
       THEN Finish("PASS") /\ UNCHANGED lost
       ELSE Finish("INSUFFICIENT") /\ lost' = TRUE
  /\ UNCHANGED <<Inputs, endpoint, entries, context, results>>

-----------------------------------------------------------------------------
\* run_lamda_temporal_dynamics_ablation: results holds the endpoints of the centers.

StartDynamics ==
  /\ stage = "start" /\ job = "dynamics"
  /\ IF release = NoRelease
       THEN Finish("INSUFFICIENT") /\ UNCHANGED endpoint
     ELSE IF \/ DominantMaliciousFamilyCohort = NoFamily
             \/ ~ TrainsCutoffRepresentationEncoder(LastMonth + 1)
       THEN Finish("INSUFFICIENT") /\ UNCHANGED endpoint
       ELSE stage' = "centers" /\ endpoint' = ReleaseEarliest /\ UNCHANGED outcome
  /\ UNCHANGED <<Inputs, entries, context, results, lost>>

CollectCenter ==
  /\ stage = "centers" /\ endpoint <= LastMonth
  /\ results' = IF IsTransitionSupported(endpoint) THEN Append(results, endpoint) ELSE results
  /\ endpoint' = endpoint + 1
  /\ UNCHANGED <<Inputs, stage, entries, context, outcome, lost>>

\* fit_scalar_model raises on centers without variation: flat.
FitDynamics ==
  /\ stage = "centers" /\ endpoint > LastMonth
  /\ Finish(IF Len(results) < MinPairs + 1 \/ verdicts.flat THEN "INSUFFICIENT" ELSE "PASS")
  /\ UNCHANGED <<Inputs, endpoint, entries, context, results, lost>>

-----------------------------------------------------------------------------

Next ==
  \/ StartDiagnostics \/ CutoffFitted \/ CutoffAbstains \/ WriteDiagnostics
  \/ StartWeakEigengap \/ SearchWindow \/ SearchExhausted \/ EmbedWindow \/ StressNoise
  \/ StartLocate \/ Locate \/ LocateExhausted \/ StressSparse \/ WriteStress
  \/ RefitAllowances
  \/ StartDynamics \/ CollectCenter \/ FitDynamics

Spec == Init /\ [][Next]_vars

-----------------------------------------------------------------------------
\* Properties.

CutoffEntries ==
  [cutoff: Int, verdict: {"fitted", "malicious_support", "temporal_history",
                          "no_usable_control", "weak_eigengap", "unstable_rank",
                          "private_history"},
   trained: BOOLEAN, noControls: BOOLEAN, oneMatched: BOOLEAN,
   rows: SUBSET Int, chosen: SUBSET Int]

TypeOK ==
  /\ stage \in {"start", "cutoffs", "search", "embed", "locate", "stress", "refit",
                "centers", "done", "raised"}
  /\ endpoint \in Nat
  /\ entries \in Seq(CutoffEntries)
  /\ context = NoContext \/ context \in ReleaseEarliest .. LastMonth
  /\ outcome \in {"none", "PASS", "INSUFFICIENT"}
  /\ lost \in BOOLEAN

(***************************************************************************)
(* The rows computed with at a cutoff - those that train its encoder, of   *)
(* its malicious windows, its control replicates and its residual history  *)
(* - are rows of earlier months only.  What is computed of them is not     *)
(* free of later months: the cohort is the most frequent family of the     *)
(* whole release and the feature columns are those that vary over the      *)
(* whole release, and at every cutoff the release has rows of that month   *)
(* or a later one.  The code looks ahead in these two choices, against     *)
(* docs/Roadmap.md:1640 and 1702, and in nothing else.                     *)
(***************************************************************************)
LooksAheadOnlyByChoice ==
  \A i \in DOMAIN entries :
    /\ \A m \in entries[i].rows : m < entries[i].cutoff
    /\ \E m \in entries[i].chosen : m >= entries[i].cutoff

(***************************************************************************)
(* transition_windows never raises ChronologyError inside an analysis:     *)
(* every endpoint a loop reaches, and every historical endpoint it looks   *)
(* back to, has two complete windows after month 0.                        *)
(***************************************************************************)
WindowsExist ==
  /\ AtCutoff => /\ HasWindows(endpoint, Interval)
                 /\ \A e \in HistoricalEndpoints(CohortEarliest, endpoint) :
                      HasWindows(e, Interval)
  /\ stage \in {"search", "locate"} /\ endpoint >= ReleaseEarliest =>
       \A e \in HistoricalEndpoints(ReleaseEarliest, endpoint) \cup {endpoint} :
         HasWindows(e, Interval)
  /\ stage = "centers" => HasWindows(endpoint, Interval)

(***************************************************************************)
(* The support count made before an encoder is trained and the one inside  *)
(* the fit are two implementations of one rule: a cutoff for which an      *)
(* encoder was trained never abstains for want of malicious support.  And  *)
(* support on both sides is itself history enough for an encoder: its      *)
(* `continue` for temporal history is never taken.                         *)
(***************************************************************************)
SupportRulesAgree ==
  \A i \in DOMAIN entries :
    /\ entries[i].trained => entries[i].verdict # "malicious_support"
    /\ entries[i].verdict # "temporal_history"

(***************************************************************************)
(* The diagnostics implement the cutoff ledger: every cutoff between the   *)
(* first with two complete windows and the last with a horizon is recorded *)
(* exactly once, in ascending order, whichever `continue` it takes, before *)
(* an outcome exists.                                                      *)
(***************************************************************************)
CutoffPlan ==
  IF \/ job # "diagnostics" \/ release = NoRelease
     \/ DominantMaliciousFamilyCohort = NoFamily \/ LastCutoff < FirstCutoff
    THEN <<>>
    ELSE [i \in 1 .. ((LastCutoff - FirstCutoff) \div Step) + 1 |-> FirstCutoff + (i - 1) * Step]

Ledger == INSTANCE CutoffLedger
            WITH plan     <- CutoffPlan,
                 examined <- [i \in DOMAIN entries |-> entries[i].cutoff],
                 closed   <- (outcome # "none")

ImplementsCutoffLedger == Ledger!Spec

(***************************************************************************)
(* A stress that has found its baseline never loses it again: embedding    *)
(* and re-deriving change no support, and a sparse sample of the controls  *)
(* still supports every replicate, so that it can only change the verdict  *)
(* on the rank.                                                            *)
(***************************************************************************)
StressKeepsItsBaseline ==
  /\ ~ lost
  /\ job = "sparse_control" =>
       \A i \in DOMAIN results :
         results[i] \in {"fitted", "weak_eigengap", "unstable_rank"}

=============================================================================
