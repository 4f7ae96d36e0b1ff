---------------------------- MODULE Prospective ----------------------------
(***************************************************************************)
(* The prospective evaluation on LAMDA (run_prospective_fedact_evaluation  *)
(* in experiments/generalization.py): at every eligible cutoff a detector  *)
(* is trained on the past, hardened with the challenge sets if there are   *)
(* any, compared with baselines, and scored on the months after the        *)
(* cutoff; what it misses among certified and other samples makes the      *)
(* outcome.  Then the statistical synthesis (experiments/synthesis.py,     *)
(* analysis/comparisons.py) reads what was written.                        *)
(*                                                                         *)
(* A record is that of Chronology with its sample, the hash by which the   *)
(* certificates and families of samples are looked up; the loaders keep    *)
(* every row of a hash that the release repeats.                           *)
(*                                                                         *)
(* Training is not modelled: a run of heads, each with the rows it misses, *)
(* is any of Runs.  Rates are scaled integers.                             *)
(***************************************************************************)
EXTENDS Chronology, Hardening, SequencesExt

CONSTANTS Populations,    \* contents of the release: sets of records
          NoRelease,
          DecisionFiles,  \* certificate decisions: sequences of [sample, cutoff, positive]
          ChallengeFiles, \* sample sets of the challenges file
          NoFile,
          Runs,           \* hardening runs: sequences of [objective, missed]
          PatternFiles,   \* cutoffs with a record in the central pattern; {} without the file
          History, Interval, Horizon,
          MinSupport, MinReplicates, MinPairs,
          MinPairedCutoffs, MaxMissing,   \* statistics.*; the fraction is scaled
          MaxCoverageDeficit,             \* scaled
          HasCoverageLevels               \* some target coverage is configured

ASSUME ProspectiveAssumption ==
  /\ {History, Interval, Horizon, MinSupport, MinReplicates, MinPairs, MinPairedCutoffs}
       \subseteq Nat \ {0}
  /\ {MaxMissing, MaxCoverageDeficit} \subseteq Nat
  /\ \A records \in Populations : IsRelease(records)
  /\ \A file \in DecisionFiles : \A k \in DOMAIN file : file[k].cutoff \in Nat
  /\ Runs \subseteq Seq([objective : Int, missed : SUBSET Nat]) /\ <<>> \notin Runs

VARIABLES release,      \* the records of the release directory, or NoRelease
          population,   \* the records loaded: those whose label counts, with that label
          plan,         \* the eligible cutoffs in order
          decisions,    \* certificate-decisions.json, or NoFile
          challenges,   \* challenges of the samples, or NoFile
          verdict,      \* [stable, flat]: rank of the controls, no variation of the centers
          pattern,      \* cutoffs of central-pattern.json
          examined,     \* cutoffs of the plan that are done with
          comparisons,  \* one per scored cutoff
          artifact,     \* cutoff-comparisons.json, or NoFile
          outcome,      \* of the evaluation, "none" while it runs
          synthesis     \* of the synthesis, or NoFile

vars == <<release, population, plan, decisions, challenges, verdict, pattern, examined,
          comparisons, artifact, outcome, synthesis>>

Inputs == <<release, population, plan, decisions, challenges, verdict, pattern>>

-----------------------------------------------------------------------------
\* load_lamda_population: the records whose label counts, with that label.

LoadLamdaPopulation(records) ==
  IF records = NoRelease THEN {}
  ELSE {[r EXCEPT !.label = AuditedLabel(r)] : r \in {s \in records : AuditedLabel(s) # "none"}}

OfLabel(rows, label) == {r \in rows : r.label = label}

Historical(cutoff) == InWindow(population, Months(cutoff - History, cutoff))

\* A bug OnlyRepeatedRowsArePast excludes: the month before the cutoff is scored too.
LaterFromMonthBefore(cutoff) == InWindow(population, Months(cutoff - 1, cutoff + Horizon))

Later(cutoff) == InWindow(population, Months(cutoff, cutoff + Horizon))

EligibleCutoffs ==
  IF population = {} THEN {}
  ELSE {cutoff \in Months(Earliest(MonthsOf(population)),
                          Latest(MonthsOf(population)) - Horizon + 1) :
          \A label \in {"malicious", "benign"} :
            /\ Cardinality(OfLabel(Historical(cutoff), label)) >= MinSupport
            /\ OfLabel(Later(cutoff), label) # {}}

\* Nothing is evaluated without decisions or without labelled records.
EligiblePlan ==
  IF decisions = NoFile THEN <<>>
  ELSE SetToSortSeq(EligibleCutoffs, LAMBDA c, d : c < d)

CertifiedSamples == {decisions[k].sample : k \in {j \in DOMAIN decisions : decisions[j].positive}}

-----------------------------------------------------------------------------
\* _score_cutoff_population

ValidationMonth(cutoff) == Latest(MonthsOf(Historical(cutoff)))
Validation(cutoff) == {r \in Historical(cutoff) : r.month = ValidationMonth(cutoff)}
Training(cutoff) == Historical(cutoff) \ Validation(cutoff)

\* The transition of a class within the training months, around an endpoint.
HasDisplacement(rows, endpoint) ==
  /\ InWindow(rows, BeforeWindow(endpoint, Interval)) # {}
  /\ InWindow(rows, AfterWindow(endpoint, Interval)) # {}

\* The rows of a sample, and the one a dictionary over the rows keeps.
RowsOf(records, sample) == {r \in records : r.sample = sample}
LastRow(rows) == CHOOSE r \in rows : \A s \in rows : s.id <= r.id

\* family_by_sample: of the repeated rows of a sample the last decides for all.
FamilyBySample(sample) == LastRow(RowsOf(population, sample)).family

TrainingCohort(cutoff) ==
  LET malicious == {[r EXCEPT !.family = FamilyBySample(r.sample)] :
                      r \in OfLabel(Training(cutoff), "malicious")}
      cohort    == MostCommonFamily(malicious)
  IN  IF cohort = NoFamily THEN {} ELSE {r \in malicious : r.family = cohort}

BaselineEndpoint(cutoff) == ValidationMonth(cutoff) + 1

BaselineHistory(cutoff) ==
  Months(EarliestCompleteTransitionEndpoint(Earliest(MonthsOf(Training(cutoff))), Interval),
         BaselineEndpoint(cutoff))

IsBaselineReached(cutoff) ==
  BaselineEndpoint(cutoff) >= EarliestCompleteTransitionEndpoint(0, Interval)

HasMatchedSubtraction(cutoff) ==
  /\ IsBaselineReached(cutoff)
  /\ HasDisplacement(TrainingCohort(cutoff), BaselineEndpoint(cutoff))
  /\ HasDisplacement(OfLabel(Training(cutoff), "benign"), BaselineEndpoint(cutoff))

HasProjectedPoint(cutoff) ==
  /\ IsBaselineReached(cutoff)
  /\ HasDisplacement(TrainingCohort(cutoff), BaselineEndpoint(cutoff))
  /\ Cardinality({e \in BaselineHistory(cutoff) :
                    HasDisplacement(OfLabel(Training(cutoff), "benign"), e)}) >= MinReplicates
  /\ verdict.stable

HasForecastCenters(cutoff) ==
  /\ IsBaselineReached(cutoff)
  /\ Cardinality({e \in BaselineHistory(cutoff) \cup {BaselineEndpoint(cutoff)} :
                    HasDisplacement(TrainingCohort(cutoff), e)}) >= MinPairs + 1

\* fit_scalar_model raises without variation, and nothing here catches it.
RaisesInForecast(cutoff) == HasForecastCenters(cutoff) /\ verdict.flat

Baselines(cutoff) ==
  {b \in {"matched_subtraction", "projected_point", "forecast"} :
     CASE b = "matched_subtraction" -> HasMatchedSubtraction(cutoff)
       [] b = "projected_point"     -> HasProjectedPoint(cutoff)
       [] b = "forecast"            -> HasForecastCenters(cutoff)}

IsHardened == challenges \notin {NoFile, {}}

\* The epoch of a run whose head scores the later months.
KeptEpoch(cutoff, run) == IF IsHardened THEN SelectEpoch(run, Validation(cutoff)) ELSE 1

Comparison(cutoff, run) ==
  LET later     == Later(cutoff)
      certified == {r \in later : r.sample \in CertifiedSamples}
      epoch     == KeptEpoch(cutoff, run)
      missed    == run[epoch].missed
  IN  [cutoff      |-> cutoff,
       run         |-> run,
       epoch       |-> epoch,
       degradation |-> Degradation(run, Validation(cutoff), epoch),
       rows        |-> Cardinality(later),
       certifiedRows |-> Cardinality(certified),
       certified   |-> FalseNegativeRate(certified, missed),
       ambiguous   |-> FalseNegativeRate(later \ certified, missed),
       static      |-> FalseNegativeRate(later, run[1].missed),
       hardened    |-> FalseNegativeRate(later, missed),
       baselines   |-> Baselines(cutoff)]

-----------------------------------------------------------------------------
\* The evaluation.

CohortOf(records) ==
  LET cohort == MostCommonFamily({r \in records : AuditedLabel(r) = "malicious"})
  IN  IF cohort = NoFamily THEN {} ELSE {r \in records : r.family = cohort}

ActionEndpoints(months) ==
  Months(EarliestCompleteTransitionEndpoint(Earliest(months), Interval),
         Latest(months) - Horizon + 1)

\* Candidate generation (lamda_action_generation.py) writes actions at the endpoints of the
\* cohort, of its malicious samples older than the endpoint; of the repeated rows of a sample
\* the last one tells how old it is.
IsActionOf(records, sample, endpoint) ==
  LET rows == RowsOf(CohortOf(records), sample)
  IN  /\ \E r \in rows : AuditedLabel(r) = "malicious"
      /\ LastRow(rows).month < endpoint
      /\ endpoint \in ActionEndpoints(MonthsOf(CohortOf(records)))

IsGenerated(file) ==
  file # NoFile => \A k \in DOMAIN file :
    release # NoRelease /\ IsActionOf(release, file[k].sample, file[k].cutoff)

Init ==
  /\ release \in Populations \cup {NoRelease}
  /\ population = LoadLamdaPopulation(release)
  /\ decisions \in DecisionFiles \cup {NoFile}
  /\ IsGenerated(decisions)
  /\ plan = EligiblePlan
  /\ challenges \in ChallengeFiles \cup {NoFile}
  /\ verdict \in [stable : BOOLEAN, flat : BOOLEAN]
  /\ pattern \in PatternFiles
  /\ examined = <<>>
  /\ comparisons = <<>>
  /\ artifact = NoFile
  /\ outcome = "none"
  /\ synthesis = NoFile

IsNext(cutoff) ==
  /\ outcome = "none"
  /\ Len(examined) < Len(plan)
  /\ cutoff = plan[Len(examined) + 1]

\* No month is left to train on: the cutoff leaves no trace but a log line.
SkipCutoff ==
  \E cutoff \in EligibleCutoffs :
    /\ IsNext(cutoff)
    /\ Training(cutoff) = {}
    /\ examined' = Append(examined, cutoff)
    /\ UNCHANGED <<Inputs, comparisons, artifact, outcome, synthesis>>

EvaluateCutoff ==
  \E cutoff \in EligibleCutoffs, run \in Runs :
    /\ IsNext(cutoff)
    /\ Training(cutoff) # {}
    /\ ~ RaisesInForecast(cutoff)
    /\ examined' = Append(examined, cutoff)
    /\ comparisons' = Append(comparisons, Comparison(cutoff, run))
    /\ UNCHANGED <<Inputs, artifact, outcome, synthesis>>

RaiseInForecast ==
  \E cutoff \in EligibleCutoffs :
    /\ IsNext(cutoff)
    /\ Training(cutoff) # {}
    /\ RaisesInForecast(cutoff)
    /\ outcome' = "raised"
    /\ UNCHANGED <<Inputs, examined, comparisons, artifact, synthesis>>

\* The sum of a field of some entries.
Total(entries, field, indices) == SumFunction([k \in indices |-> entries[k][field]])

\* The two means are over the cutoffs that have the rate, not the same for both.
IsMechanismSupported ==
  LET certified == {k \in DOMAIN comparisons : comparisons[k].certified # NoRate}
      ambiguous == {k \in DOMAIN comparisons : comparisons[k].ambiguous # NoRate}
  IN  /\ certified # {} /\ ambiguous # {}
      /\ Total(comparisons, "certified", certified) * Cardinality(ambiguous)
           <= Total(comparisons, "ambiguous", ambiguous) * Cardinality(certified)

\* A bug ImplementsCutoffLedger excludes: an outcome after the first comparison.
ConcludeEarly ==
  /\ outcome = "none"
  /\ examined = plan \/ comparisons # <<>>
  /\ artifact' = IF comparisons = <<>> THEN artifact ELSE comparisons
  /\ outcome' = IF comparisons # <<>> /\ IsMechanismSupported THEN "pass" ELSE "insufficient"
  /\ UNCHANGED <<Inputs, examined, comparisons, synthesis>>

Conclude ==
  /\ outcome = "none"
  /\ examined = plan
  /\ artifact' = IF comparisons = <<>> THEN artifact ELSE comparisons
  /\ outcome' = IF comparisons # <<>> /\ IsMechanismSupported THEN "pass" ELSE "insufficient"
  /\ UNCHANGED <<Inputs, examined, comparisons, synthesis>>

-----------------------------------------------------------------------------
\* The synthesis, which the engine runs after an evaluation that passed.

\* build_paired_contrast: a series maps a cutoff to a rate or NoRate.
PairedContrast(a, b) ==
  LET eligible == DOMAIN a \cap DOMAIN b
      missing  == {c \in eligible : NoRate \in {a[c], b[c]}}
      paired   == eligible \ missing
  IN  [differences |-> [c \in paired |-> a[c] - b[c]],
       isSufficient |->
         /\ Cardinality(paired) >= MinPairedCutoffs
         /\ Scale * Cardinality(missing) <= MaxMissing * Cardinality(eligible)]

SeriesOf(field) ==
  [c \in {artifact[k].cutoff : k \in DOMAIN artifact} |->
     artifact[CHOOSE k \in DOMAIN artifact : artifact[k].cutoff = c][field]]

EffectDirection(differences) ==
  LET favourable == Cardinality({c \in DOMAIN differences : differences[c] > 0})
      contrary   == Cardinality({c \in DOMAIN differences : differences[c] < 0})
  IN  CASE favourable > contrary -> "favorable"
        [] contrary > favourable -> "contradictory"
        [] OTHER                 -> "neutral"

\* compute_evaluation_metrics: certified records among all that were scored.
MeanCertificationRate ==
  Rate(Total(artifact, "certifiedRows", DOMAIN artifact),
       Total(artifact, "rows", DOMAIN artifact))

\* The mean degradation against the limit, without the division.
IsCleanCostSatisfied ==
  Total(artifact, "degradation", DOMAIN artifact) <= MaxDegradation * Len(artifact)

\* The certification rate stands for the coverage.
IsCoverageSatisfied == MeanCertificationRate >= Scale - MaxCoverageDeficit

\* In the order of the code: each step may overwrite the outcome of the one before.
SynthesisOutcome ==
  LET contrast == PairedContrast(SeriesOf("certified"), SeriesOf("ambiguous"))
      initial  == IF HasCoverageLevels THEN "fail" ELSE "insufficient"
  IN  IF ~ contrast.isSufficient THEN "insufficient"
      ELSE IF IsCoverageSatisfied /\ IsCleanCostSatisfied THEN "pass"
      ELSE initial

\* read_central_pattern_cutoff_aggregates forbids the width that the validation writes into
\* every record of the pattern (validation.py:86-92): one record is enough to raise.
SynthesisRaises ==
  /\ outcome = "pass" /\ synthesis = NoFile
  /\ pattern # {}
  /\ synthesis' = [outcome |-> "raised"]
  /\ UNCHANGED <<Inputs, examined, comparisons, artifact, outcome>>

\* Read without error, the pattern has no cutoff to contrast with random selection.  The
\* contrast of hardened and static heads is reported and decides nothing.
Synthesize ==
  /\ outcome = "pass" /\ synthesis = NoFile
  /\ pattern = {}
  /\ synthesis' =
       [outcome     |-> SynthesisOutcome,
        isCleanCostSatisfied |-> IsCleanCostSatisfied,
        direction   |-> EffectDirection(
                          PairedContrast(SeriesOf("certified"), SeriesOf("ambiguous")).differences),
        early       |-> PairedContrast(SeriesOf("hardened"), SeriesOf("static"))]
  /\ UNCHANGED <<Inputs, examined, comparisons, artifact, outcome>>

-----------------------------------------------------------------------------

Next ==
  \/ SkipCutoff \/ EvaluateCutoff \/ RaiseInForecast \/ Conclude
  \/ SynthesisRaises \/ Synthesize

Spec == Init /\ [][Next]_vars

-----------------------------------------------------------------------------

\* Every eligible cutoff is scored or skipped, once and in order, before there
\* is an outcome; an exception leaves none (run_prospective_fedact_evaluation).
Ledger == INSTANCE CutoffLedger WITH
  plan <- plan, examined <- examined, closed <- outcome \in {"pass", "insufficient"}

ImplementsCutoffLedger == Ledger!Spec

\* An action is generated for samples of the months before its endpoint, a cutoff scores the
\* samples of the months after it: what counts as certified at a cutoff was decided at a later
\* endpoint, so that every PASS rests on certificates of the future - or it was decided in the
\* past of another row with the same hash, since certificates are matched by hash and nothing
\* removes the rows a release repeats (run_prospective_fedact_evaluation).
OnlyRepeatedRowsArePast ==
  \A k \in DOMAIN comparisons : \A r \in Later(comparisons[k].cutoff) :
    \A j \in DOMAIN decisions :
      decisions[j].sample = r.sample =>
        \/ decisions[j].cutoff > comparisons[k].cutoff
        \/ \E s \in release :
             s.sample = r.sample /\ s.id # r.id /\ s.month < decisions[j].cutoff

\* No epoch the limit admits, the unhardened head included, is better than the
\* kept one by more than the tolerance, although each improvement was only
\* compared with the best so far (harden_detector_head).
HardenedIsNearBest ==
  IsHardened =>
    \A k \in DOMAIN comparisons :
      LET run == comparisons[k].run
      IN  \A e \in EligibleEpochs(run, Validation(comparisons[k].cutoff)) :
            run[comparisons[k].epoch].objective <= run[e].objective + TieTolerance

\* The limit that gates every epoch of every hardening bounds the mean over the cutoffs that
\* the evaluation reports and the synthesis compares with the same limit: neither an early
\* epoch beyond it nor the choice among several may leave a mean above it.
CleanCostIsWithinLimit ==
  artifact # NoFile => IsCleanCostSatisfied

=============================================================================
