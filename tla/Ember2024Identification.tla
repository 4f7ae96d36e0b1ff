----------------------- MODULE Ember2024Identification -----------------------
(***************************************************************************)
(* The identification diagnostics on EMBER2024                             *)
(* (experiments/ember2024_identification.py and the transition functions   *)
(* of data/ember2024.py), a second implementation of what Identification   *)
(* models for LAMDA: the record carries its label, there is no audit of    *)
(* detection counts, and a missing encoder is reported as missing support. *)
(* The two share only data/splits.py and the linear algebra, so that       *)
(* nothing but ImplementsLamda keeps the results of the two corpora, which *)
(* the cross-corpus workflow compares, results of one procedure.           *)
(*                                                                         *)
(* A record is that of Chronology with vt = NoCount.  Verdicts abstract    *)
(* the linear algebra, as in Identification.                               *)
(***************************************************************************)
EXTENDS Chronology

CONSTANTS Releases,    \* the record sets the *.jsonl files may hold
          NoRelease,   \* the directory does not exist
          Verdicts,    \* [rank, zero, flat] numerical verdicts of one run
          History, Interval, Horizon, Step,
          MinSupport, MinReplicates, MinResiduals

ASSUME EmberStudyAssumption ==
  {History, Interval, Horizon, Step, MinSupport, MinReplicates, MinResiduals}
    \subseteq Nat \ {0}

ASSUME EmberReleaseAssumption ==
  \A records \in Releases : IsRelease(records) /\ \A r \in records : r.vt = NoCount

VARIABLES release, verdicts,
          stage,     \* "start", "cutoffs" or "done"
          endpoint,  \* the loop variable
          entries,   \* records_list
          outcome    \* scientific_outcome, or "none"

vars == <<release, verdicts, stage, endpoint, entries, outcome>>

-----------------------------------------------------------------------------
\* data/ember2024.py

\* _labeled_months: the months of one label's records.
Malicious(records) == {r \in records : r.label = "malicious"}
Controls == {r \in release : r.label = "benign"}

Support(records, window) == Cardinality(InWindow(records, window))

\* malicious_transition_displacement
HasDisplacement(records, e) ==
  /\ Support(Malicious(records), BeforeWindow(e, Interval)) > 0
  /\ Support(Malicious(records), AfterWindow(e, Interval)) > 0

\* control_transition_replicates
ReplicatesOf(endpoints) ==
  {e \in endpoints : /\ Support(Controls, BeforeWindow(e, Interval)) > 0
                     /\ Support(Controls, AfterWindow(e, Interval)) > 0}

-----------------------------------------------------------------------------
\* experiments/ember2024_identification.py

DominantMaliciousFamilyCohort == MostCommonFamily(Malicious(release))
CohortRecords == {r \in release : r.family = DominantMaliciousFamilyCohort}

\* The support of both windows counted in one pass over the records.
CohortHasSufficientMaliciousSupport(e) ==
  LET before == BeforeWindow(e, Interval)
      after  == AfterWindow(e, Interval) \ before
  IN  /\ Support(Malicious(CohortRecords), before) >= MinSupport
      /\ Support(Malicious(CohortRecords), after) >= MinSupport

\* Months strictly before the latest one train, the latest one validates.
TrainsCutoffRepresentationEncoder(e) ==
  LET safe == MonthsOf({r \in release : r.label # "none" /\ r.month < e})
  IN  safe # {} /\ {m \in safe : m < Latest(safe)} # {}

IsTransitionSupported(e) ==
  /\ HasDisplacement(CohortRecords, e)
  /\ Support(Malicious(CohortRecords), BeforeWindow(e, Interval)) >= MinSupport
  /\ Support(Malicious(CohortRecords), AfterWindow(e, Interval)) >= MinSupport

EarliestValidEndpoint ==
  EarliestCompleteTransitionEndpoint(Earliest(MonthsOf(CohortRecords)), Interval)

\* max(earliest_valid_endpoint, endpoint - history)
WindowStart(e) == Latest({EarliestValidEndpoint, e - History})
HistoricalEndpoints(e) == Months(WindowStart(e), e)
EarlierMaliciousEndpoints(e) == Months(WindowStart(e), e - 1)

\* Below two earlier transitions the private term itself is None.
LacksPrivateHistory(e) ==
  LET earlier == Cardinality({x \in EarlierMaliciousEndpoints(e) : IsTransitionSupported(x)})
  IN  earlier < MinResiduals \/ earlier < 2

\* A bug ImplementsLamda excludes: the rank is judged before the controls are counted.
FitRankFirst(e) ==
  IF ~ IsTransitionSupported(e) THEN "malicious_support"
  ELSE IF verdicts.rank[e] = "weak" THEN "weak_eigengap"
  ELSE IF verdicts.rank[e] = "unstable" THEN "unstable_rank"
  ELSE IF Cardinality(ReplicatesOf(HistoricalEndpoints(e))) < MinReplicates THEN "no_usable_control"
  ELSE IF LacksPrivateHistory(e) THEN "private_history"
  ELSE "fitted"

FitEmber2024ClientConstraint(e) ==
  IF ~ IsTransitionSupported(e) THEN "malicious_support"
  ELSE IF Cardinality(ReplicatesOf(HistoricalEndpoints(e))) < MinReplicates THEN "no_usable_control"
  ELSE IF verdicts.rank[e] = "weak" THEN "weak_eigengap"
  ELSE IF verdicts.rank[e] = "unstable" THEN "unstable_rank"
  ELSE IF LacksPrivateHistory(e) THEN "private_history"
  ELSE "fitted"

FitEmber2024ClientConstraintNoControls(e) ==
  IsTransitionSupported(e) /\ ~ LacksPrivateHistory(e)

\* The largest effective support b*a/(b+a), then the earliest endpoint.
BestReplicate(e) ==
  LET b(x) == Support(Controls, BeforeWindow(x, Interval))
      a(x) == Support(Controls, AfterWindow(x, Interval))
      AtLeast(x, y) == a(x) * b(x) * (a(y) + b(y)) >= a(y) * b(y) * (a(x) + b(x))
      best == {x \in ReplicatesOf(HistoricalEndpoints(e)) :
                 \A y \in ReplicatesOf(HistoricalEndpoints(e)) : AtLeast(x, y)}
  IN  Earliest(best)

FitEmber2024ClientConstraintOneMatchedControl(e) ==
  /\ IsTransitionSupported(e)
  /\ ReplicatesOf(HistoricalEndpoints(e)) # {}
  /\ BestReplicate(e) \notin verdicts.zero
  /\ ~ LacksPrivateHistory(e)

-----------------------------------------------------------------------------

Init ==
  /\ release \in Releases \cup {NoRelease}
  /\ verdicts \in Verdicts
  /\ stage = "start"
  /\ endpoint = 0
  /\ entries = <<>>
  /\ outcome = "none"

\* No directory, no record and no family: all three end without evidence.
Unusable ==
  IF release \in {NoRelease, {}} THEN TRUE ELSE DominantMaliciousFamilyCohort = NoFamily

FirstCutoff == Latest({EarliestValidEndpoint, Earliest(MonthsOf(CohortRecords)) + 1})
LastCutoff == Latest(MonthsOf(CohortRecords)) - Horizon

GiveUp ==
  /\ stage = "start" /\ Unusable
  /\ stage' = "done"
  /\ outcome' = "INSUFFICIENT"
  /\ UNCHANGED <<release, verdicts, endpoint, entries>>

Begin ==
  /\ stage = "start" /\ ~ Unusable
  /\ stage' = "cutoffs"
  /\ endpoint' = FirstCutoff
  /\ UNCHANGED <<release, verdicts, entries, outcome>>

Verdict ==
  CASE ~ CohortHasSufficientMaliciousSupport(endpoint) -> "malicious_support"
    [] /\ CohortHasSufficientMaliciousSupport(endpoint)
       /\ ~ TrainsCutoffRepresentationEncoder(endpoint) -> "malicious_support"
    [] OTHER -> FitEmber2024ClientConstraint(endpoint)

RowsRead ==
  LET windows(e) == BeforeWindow(e, Interval) \cup AfterWindow(e, Interval)
  IN  IF CohortHasSufficientMaliciousSupport(endpoint)
        THEN MonthsOf({r \in release : r.label # "none" /\ r.month < endpoint})
               \cup UNION {windows(e) : e \in HistoricalEndpoints(endpoint) \cup {endpoint}}
        ELSE windows(endpoint)

\* The cohort is chosen from the whole release; no feature column is left out.
ChoiceMonths == MonthsOf(release)

Examine ==
  /\ stage = "cutoffs" /\ endpoint <= LastCutoff
  /\ entries' = Append(entries,
       [cutoff     |-> endpoint,
        verdict    |-> Verdict,
        trained    |-> CohortHasSufficientMaliciousSupport(endpoint)
                         /\ TrainsCutoffRepresentationEncoder(endpoint),
        noControls |-> Verdict = "fitted" /\ FitEmber2024ClientConstraintNoControls(endpoint),
        oneMatched |-> Verdict = "fitted"
                         /\ FitEmber2024ClientConstraintOneMatchedControl(endpoint),
        rows       |-> RowsRead,
        chosen     |-> ChoiceMonths])
  /\ endpoint' = endpoint + Step
  /\ UNCHANGED <<release, verdicts, stage, outcome>>

WriteDiagnostics ==
  /\ stage = "cutoffs" /\ endpoint > LastCutoff
  /\ stage' = "done"
  /\ outcome' = IF \E i \in DOMAIN entries : entries[i].verdict = "fitted"
                  THEN "PASS" ELSE "INSUFFICIENT"
  /\ UNCHANGED <<release, verdicts, endpoint, entries>>

Next == GiveUp \/ Begin \/ Examine \/ WriteDiagnostics

Spec == Init /\ [][Next]_vars

-----------------------------------------------------------------------------
\* Properties.

(***************************************************************************)
(* On releases without detection counts, where the LAMDA audit keeps every *)
(* label, the EMBER2024 diagnostics take the same steps as those of LAMDA: *)
(* the same cutoffs, the same verdict at each, the same ablations fitted,  *)
(* the rows of the same months, and a choice made from the same months:    *)
(* here of the cohort alone, on LAMDA of the feature columns too.  So that *)
(* everything shown of Identification's diagnostics holds of them.         *)
(***************************************************************************)
Lamda == INSTANCE Identification
           WITH job <- "diagnostics", results <- <<>>, context <- -1, lost <- FALSE,
                Fractions <- <<>>, MinPairs <- 1

ImplementsLamda == Lamda!Spec

=============================================================================
