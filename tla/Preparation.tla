----------------------------- MODULE Preparation -----------------------------
(***************************************************************************)
(* `fedact preprocess` (workflow.py, run_preprocess, over data/splits.py   *)
(* and data/records.py): the rolling cutoffs and the chronology audit of   *)
(* every dataset in scope, and for LAMDA with a release on disk the        *)
(* feasibility audit, the preparation of its rows and their split.         *)
(*                                                                         *)
(* A row of the release is [id, month, label, family].  The features of a  *)
(* prepared sample are always empty in this command, so the exclusion of   *)
(* nonfinite features never applies.  EMBER2024 has no rows here.          *)
(***************************************************************************)
EXTENDS Chronology, FiniteSetsExt, SequencesExt

CONSTANTS Sources,      \* values DATASET_SOURCE_CHRONOLOGY may have
          Releases,     \* sequences of rows of the LAMDA baseline release
          NoRelease,    \* the release directory is missing
          History,      \* temporal.historical_training_window_months
          Horizon,      \* temporal.primary_confirmatory_horizon_months
          Step,         \* temporal.cutoff_step_months
          SplitCutoff,  \* 2023-11
          NoId,         \* a row without a sample identity
          MaxCommands   \* bound: commands of one behaviour

\* DatasetSelector, in its order.
DatasetOrder == <<"lamda", "ember2024">>
Datasets == {"lamda", "ember2024"}

SourceChronology == [first : Nat, last : Nat, gaps : SUBSET [start : Nat, end : Nat]]

ASSUME PreparationAssumption ==
  /\ Sources \subseteq [Datasets -> SourceChronology]
  /\ \A table \in Sources : \A d \in Datasets :
        /\ table[d].first <= table[d].last
        /\ \A gap \in table[d].gaps : gap.start <= gap.end
  /\ {History, Horizon, Step} \subseteq Nat \ {0} /\ SplitCutoff \in Nat
  /\ NoRelease \notin Releases /\ MaxCommands \in Nat

VARIABLES source,    \* DATASET_SOURCE_CHRONOLOGY
          release,   \* a release or NoRelease
          pending,   \* datasets the running command has still to go through
          phase,     \* "idle", "audit", "prepare"
          eligible,  \* [Datasets -> cutoffs], empty until audited
          role,      \* of LAMDA, or "none"
          prepared,  \* [retained, exclusions]
          split,     \* [row -> partition], of the rows of the release
          result,    \* outcome in results/preprocess/result.json, or "none"
          commands

preparationVars ==
  <<source, release, pending, phase, eligible, role, prepared, split, result, commands>>

NothingPrepared == [retained |-> {}, exclusions |-> [r \in {} |-> 0]]

-----------------------------------------------------------------------------
\* Preparation of the rows.

Ids(rows) == {rows[i].id : i \in DOMAIN rows} \ {NoId}

\* The different rows with this identity.
Group(rows, id) == {rows[i] : i \in {j \in DOMAIN rows : rows[j].id = id}}

\* A bug that RetainedInOnePartition excludes: the months of the rows are not compared.
IsConflictingButForMonth(rows, id) ==
  \E r, s \in Group(rows, id) : r.label # s.label \/ r.family # s.family

IsConflicting(rows, id) == \E r, s \in Group(rows, id) : r # s

\* Only a reason that occurred gets a record.
Occurring(counts) == [r \in {q \in DOMAIN counts : counts[q] > 0} |-> counts[r]]

\* min by a key that all rows of a group share; the rows of a group without conflict are equal.
Winner(rows, id) == CHOOSE r \in Group(rows, id) : TRUE

PrepareRecords(rows) ==
  LET conflicting == {id \in Ids(rows) : IsConflicting(rows, id)}
      winners     == {Winner(rows, id) : id \in Ids(rows) \ conflicting}
      unlabelled  == {r \in winners : r.label = "none"}
  IN  [retained   |-> winners \ unlabelled,
       exclusions |-> Occurring(
         [CONFLICTING_DUPLICATE   |-> Cardinality(conflicting),
          MISSING_SAMPLE_IDENTITY |->
            Cardinality({i \in DOMAIN rows : rows[i].id = NoId}),
          MISSING_CHRONOLOGY      |-> Cardinality(unlabelled)])]

Partition(month) ==
  CASE month < SplitCutoff -> "training"
    [] month = SplitCutoff -> "validation"
    [] month > SplitCutoff -> "test"

\* construct_cutoff_split over the rows as loaded, not over the retained ones.
ConstructCutoffSplit(rows) == [i \in DOMAIN rows |-> Partition(rows[i].month)]

\* audit_chronology from the first observed month to the last.
IsChronologyPassing(s) == IsIntervalObservable(s, s.first, s.last + 1)

\* run_feasibility_audit and DatasetEligibilityOutcome.role: LAMDA is a corpus-level client,
\* so the conditions on controls, cohorts and operator artifacts are never met.
Role(s) == IF IsChronologyPassing(s) THEN "DIAGNOSTIC_ONLY" ELSE "UNUSABLE"

-----------------------------------------------------------------------------
\* The command.

PreparationInit ==
  /\ source \in Sources
  /\ release = NoRelease
  /\ pending = <<>> /\ phase = "idle"
  /\ eligible = [d \in Datasets |-> {}] /\ role = "none"
  /\ prepared = NothingPrepared /\ split = <<>>
  /\ result = "none" /\ commands = 0

\* `fedact preprocess [--dataset d]`
Preprocess ==
  /\ phase = "idle" /\ commands < MaxCommands
  /\ \E scope \in {DatasetOrder} \cup {<<d>> : d \in Datasets} : pending' = scope
  /\ phase' = "audit" /\ commands' = commands + 1
  /\ eligible' = [d \in Datasets |-> {}] /\ role' = "none"
  /\ prepared' = NothingPrepared /\ split' = <<>>
  /\ UNCHANGED <<source, release, result>>

Cutoffs(d) == EnumerateRollingCutoffs(source[d], History, Horizon, Step)

\* eligible[0] raises when a source offers no cutoff: nothing is recorded.
AuditRaises ==
  /\ phase = "audit" /\ pending # <<>>
  /\ Cutoffs(Head(pending)) = {}
  /\ phase' = "idle" /\ pending' = <<>>
  /\ UNCHANGED <<source, release, eligible, role, prepared, split, result, commands>>

Audit ==
  /\ phase = "audit" /\ pending # <<>>
  /\ Cutoffs(Head(pending)) # {}
  /\ eligible' = [eligible EXCEPT ![Head(pending)] = Cutoffs(Head(pending))]
  /\ IF Head(pending) = "lamda" /\ release # NoRelease
     THEN phase' = "prepare" /\ pending' = pending
     ELSE phase' = phase /\ pending' = Tail(pending)
  /\ UNCHANGED <<source, release, role, prepared, split, result, commands>>

Prepare ==
  /\ phase = "prepare"
  /\ role' = Role(source["lamda"])
  /\ prepared' = PrepareRecords(release)
  /\ split' = ConstructCutoffSplit(release)
  /\ phase' = "audit" /\ pending' = Tail(pending)
  /\ UNCHANGED <<source, release, eligible, result, commands>>

Persist ==
  /\ phase = "audit" /\ pending = <<>>
  /\ result' = "PASS" /\ phase' = "idle"
  /\ UNCHANGED <<source, release, pending, eligible, role, prepared, split, commands>>

\* A release is put in place between commands.
Acquire ==
  /\ phase = "idle" /\ release = NoRelease
  /\ release' \in Releases
  /\ UNCHANGED <<source, pending, phase, eligible, role, prepared, split, result, commands>>

PreparationNext == Preprocess \/ AuditRaises \/ Audit \/ Prepare \/ Persist \/ Acquire

PreparationSpec == PreparationInit /\ [][PreparationNext]_preparationVars

-----------------------------------------------------------------------------
\* Properties.

\* The months of a source the corpus really covers.
ObservedMonths(s) ==
  (s.first .. s.last) \ UNION {gap.start .. gap.end : gap \in s.gaps}

\* The arithmetic on interval boundaries finds what a month-by-month reading finds: a cutoff
\* is offered exactly when every month of its history is covered, and it is primary exactly
\* when every month of its horizon is.
HistoriesAreObserved ==
  \A d \in Datasets : eligible[d] # {} =>
    LET s == source[d]
        covered(start, end) == Months(start, end) \subseteq ObservedMonths(s)
    IN  eligible[d] =
          {[cutoff |-> c, primary |-> covered(c, c + Horizon)] :
             c \in {e \in (s.first + History) .. (s.last + 1) :
                      /\ (e - s.first - History) % Step = 0
                      /\ covered(e - History, e)}}

\* Preparation and split look at the same rows independently of each other: all the rows of
\* a retained sample are in one partition, so no retained sample is trained and tested on.
RetainedInOnePartition ==
  \A r \in prepared.retained : \A i, j \in DOMAIN split :
    release[i].id = r.id /\ release[j].id = r.id => split[i] = split[j]

=============================================================================
