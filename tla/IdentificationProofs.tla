------------------------ MODULE IdentificationProofs ------------------------
(***************************************************************************)
(* Theorems about Identification for every release, window length, history *)
(* and support threshold, and the refinement of its diagnostics by those   *)
(* of Ember2024Identification.                                             *)
(***************************************************************************)
EXTENDS Identification, CountingLemmas

-----------------------------------------------------------------------------
(* Least and greatest numbers of a set.                                    *)

\* Earliest of Chronology is what it is named for ...
LEMMA EarliestIsLeast ==
  ASSUME NEW M \in SUBSET Nat, M # {}
  PROVE  Earliest(M) \in M /\ \A m \in M : Earliest(M) <= m
  BY LeastNatural DEF Earliest

\* ... and Latest too.
LEMMA LatestIsGreatest ==
  ASSUME NEW M \in SUBSET Nat, IsFiniteSet(M), M # {}
  PROVE  Latest(M) \in M /\ \A m \in M : m <= Latest(M)
  BY GreatestNatural DEF Latest

-----------------------------------------------------------------------------
(* The records of a release.                                               *)

\* A part of a release is one, and its months are finitely many.
LEMMA PartOfRelease ==
  ASSUME NEW records, IsRelease(records), NEW part \in SUBSET records
  PROVE  /\ IsRelease(part)
         /\ MonthsOf(part) \in SUBSET Nat /\ IsFiniteSet(MonthsOf(part))
         /\ part # {} => MonthsOf(part) # {}
<1>1. IsFiniteSet(part)
  BY FS_Subset DEF IsRelease
<1>2. IsFiniteSet(MonthsOf(part))
  <2> DEFINE month == [r \in part |-> r.month]
  <2>1. IsFiniteSet({month[r] : r \in part})
    <3>1. month = [r \in part |-> month[r]]
      OBVIOUS
    <3> HIDE DEF month
    <3> QED
      BY <1>1, <3>1, FiniteRange
  <2>2. {month[r] : r \in part} = MonthsOf(part)
    BY DEF MonthsOf
  <2> QED
    BY <2>1, <2>2
<1> QED
  BY <1>1, <1>2 DEF IsRelease, MonthsOf

\* A support counts the records of a window.
LEMMA SupportIsCount ==
  ASSUME NEW records, IsRelease(records), NEW window
  PROVE  /\ Support(records, window) \in Nat
         /\ Support(records, window) > 0 <=> InWindow(records, window) # {}
<1>1. IsFiniteSet(InWindow(records, window))
  BY FS_Subset DEF IsRelease, InWindow
<1> QED
  BY <1>1, FS_CardinalityType, FS_EmptySet DEF Support

\* The most frequent family is the family of a record: there is a largest count, and a first
\* row among the families that reach it.
LEMMA MostCommonIsAFamily ==
  ASSUME NEW records, IsRelease(records), MostCommonFamily(records) # NoFamily
  PROVE  \E r \in records : r.family = MostCommonFamily(records)
<1> DEFINE named == {r \in records : r.family # NoFamily}
           members(f) == {r \in named : r.family = f}
           first(f) == Earliest({r.id : r \in members(f)})
           families == {r.family : r \in named}
           count == [f \in families |-> Cardinality(members(f))]
           Leads(f) == \A g \in families \ {f} :
             \/ Cardinality(members(f)) > Cardinality(members(g))
             \/ /\ Cardinality(members(f)) = Cardinality(members(g))
                /\ first(f) < first(g)
<1>1. named # {} /\ MostCommonFamily(records) = CHOOSE f \in families : Leads(f)
  BY DEF MostCommonFamily
<1>2. \A f \in families : /\ members(f) # {} /\ IsFiniteSet(members(f))
                          /\ count[f] = Cardinality(members(f)) /\ count[f] \in Nat
  <2> TAKE f \in families
  <2>1. members(f) # {}
    OBVIOUS
  <2>2. IsFiniteSet(members(f))
    <3>1. members(f) \in SUBSET records
      OBVIOUS
    <3> HIDE DEF members
    <3> QED
      BY <3>1, FS_Subset DEF IsRelease
  <2> HIDE DEF members
  <2>3. count[f] = Cardinality(members(f))
    OBVIOUS
  <2> QED
    BY <2>1, <2>2, <2>3, FS_CardinalityType
<1>3. \A f \in families : first(f) \in {r.id : r \in members(f)} /\ first(f) \in Nat
  <2> TAKE f \in families
  <2>1. {r.id : r \in members(f)} \in SUBSET Nat /\ {r.id : r \in members(f)} # {}
    BY <1>2 DEF IsRelease
  <2> QED
    BY <2>1, EarliestIsLeast
<1>4. \A f, g \in families : first(f) = first(g) => f = g
  <2> TAKE f, g \in families
  <2> HAVE first(f) = first(g)
  <2>1. PICK r \in members(f) : r.id = first(f)
    BY <1>3
  <2>2. PICK s \in members(g) : s.id = first(g)
    BY <1>3
  <2>3. r = s
    BY <2>1, <2>2 DEF IsRelease
  <2> QED
    BY <2>3
<1>5. PICK f \in families : \A g \in families : count[g] <= count[f]
  <2>1. IsFiniteSet(families)
    <3> DEFINE family == [r \in named |-> r.family]
    <3>1. IsFiniteSet(named)
      BY FS_Subset DEF IsRelease
    <3>2. family = [r \in named |-> family[r]] /\ families = {family[r] : r \in named}
      OBVIOUS
    <3> HIDE DEF family, named, families
    <3> QED
      BY <3>1, <3>2, FiniteRange
  <2>2. families # {}
    BY <1>1
  <2> DEFINE counts == {count[f] : f \in families}
  <2>3. IsFiniteSet(counts)
    <3>1. count = [f \in families |-> count[f]]
      OBVIOUS
    <3> HIDE DEF count, families
    <3> QED
      BY <2>1, <3>1, FiniteRange
  <2>4. counts \in SUBSET Nat /\ counts # {}
    <3> HIDE DEF count, families
    <3> QED
      BY <1>2, <2>2
  <2>5. PICK n \in counts : \A m \in counts : m <= n
    <3> HIDE DEF counts
    <3> QED
      BY <2>3, <2>4, GreatestNatural
  <2> HIDE DEF count, families
  <2> QED
    BY <2>5
<1>6. PICK h \in families : /\ count[h] = count[f]
                           /\ \A g \in families : count[g] = count[f] => first(h) <= first(g)
  <2> DEFINE firsts == {first(g) : g \in {k \in families : count[k] = count[f]}}
  <2> HIDE DEF count, families, first
  <2>1. firsts \in SUBSET Nat /\ firsts # {}
    BY <1>3
  <2>2. PICK n \in firsts : \A m \in firsts : n <= m
    <3> HIDE DEF firsts
    <3> QED
      BY <2>1, LeastNatural
  <2> QED
    BY <2>2
<1>7. Leads(h)
  <2> SUFFICES ASSUME NEW g \in families \ {h}
               PROVE  \/ Cardinality(members(h)) > Cardinality(members(g))
                      \/ /\ Cardinality(members(h)) = Cardinality(members(g))
                         /\ first(h) < first(g)
    OBVIOUS
  <2> HIDE DEF families, members, first
  <2>1. count[g] <= count[h] /\ count[g] \in Nat /\ count[h] \in Nat
    BY <1>2, <1>5, <1>6
  <2>2. count[g] = count[h] => first(h) <= first(g) /\ first(h) # first(g)
    BY <1>4, <1>5, <1>6
  <2> QED
    BY <1>2, <1>3, <2>1, <2>2
<1>8. MostCommonFamily(records) \in families
  <2> HIDE DEF families, Leads
  <2> QED
    BY <1>1, <1>7
<1> QED
  BY <1>8

-----------------------------------------------------------------------------
(* What stays the same while an analysis runs.                             *)

\* The parameters one by one.
LEMMA Parameters ==
  /\ History \in Nat \ {0} /\ Interval \in Nat \ {0} /\ Horizon \in Nat \ {0}
  /\ Step \in Nat \ {0} /\ MinSupport \in Nat \ {0} /\ MinReplicates \in Nat \ {0}
  /\ MinResiduals \in Nat \ {0} /\ MinPairs \in Nat \ {0}
  BY StudyAssumption

\* The calendar of a release with records.
LEMMA ReleaseCalendar ==
  ASSUME release \in Releases, release # {}
  PROVE  /\ ReleaseEarliest \in Nat /\ ReleaseEarliest >= 2 * Interval
         /\ LastMonth \in Nat
<1>1. MonthsOf(release) \in SUBSET Nat /\ IsFiniteSet(MonthsOf(release)) /\ MonthsOf(release) # {}
  BY ReleaseAssumption, PartOfRelease
<1>2. Earliest(MonthsOf(release)) \in Nat /\ Latest(MonthsOf(release)) \in Nat
  BY <1>1, EarliestIsLeast, LatestIsGreatest
<1> QED
  BY <1>2, Parameters DEF ReleaseEarliest, LastMonth, EarliestCompleteTransitionEndpoint

\* A cohort has records.
LEMMA CohortIsThere ==
  ASSUME release \in Releases, DominantMaliciousFamilyCohort # NoFamily
  PROVE  CohortRecords # {} /\ CohortRecords \in SUBSET release
<1>1. IsRelease(release) /\ Malicious(release) \in SUBSET release
  BY ReleaseAssumption DEF Malicious
<1>2. IsRelease(Malicious(release))
  BY <1>1, PartOfRelease
<1>3. PICK r \in Malicious(release) : r.family = DominantMaliciousFamilyCohort
  BY <1>2, MostCommonIsAFamily DEF DominantMaliciousFamilyCohort
<1> QED
  BY <1>1, <1>3 DEF CohortRecords

\* The calendar of a cohort.
LEMMA CohortCalendar ==
  ASSUME release \in Releases, DominantMaliciousFamilyCohort # NoFamily
  PROVE  /\ release # {}
         /\ Earliest(MonthsOf(CohortRecords)) \in Nat
         /\ CohortEarliest \in Nat /\ CohortEarliest >= 2 * Interval
         /\ FirstCutoff \in Nat /\ FirstCutoff >= CohortEarliest
         /\ LastCutoff \in Int /\ LastCutoff + Horizon \in ChoiceMonths
<1>1. /\ MonthsOf(CohortRecords) \in SUBSET Nat /\ IsFiniteSet(MonthsOf(CohortRecords))
      /\ MonthsOf(CohortRecords) # {}
  BY CohortIsThere, ReleaseAssumption, PartOfRelease
<1>2. /\ Earliest(MonthsOf(CohortRecords)) \in Nat /\ Latest(MonthsOf(CohortRecords)) \in Nat
      /\ Latest(MonthsOf(CohortRecords)) \in MonthsOf(CohortRecords)
  BY <1>1, EarliestIsLeast, LatestIsGreatest
<1>3. Latest(MonthsOf(CohortRecords)) \in ChoiceMonths
  BY <1>2, CohortIsThere DEF ChoiceMonths, MonthsOf
<1> QED
  BY <1>2, <1>3, CohortIsThere, Parameters
  DEF CohortEarliest, FirstCutoff, LastCutoff, EarliestCompleteTransitionEndpoint

\* Everything a verdict depends on comes with the inputs.
LEMMA SameInputs ==
  ASSUME UNCHANGED Inputs
  PROVE  /\ ReleaseEarliest' = ReleaseEarliest /\ LastMonth' = LastMonth
         /\ FirstCutoff' = FirstCutoff /\ LastCutoff' = LastCutoff
         /\ CohortEarliest' = CohortEarliest
         /\ DominantMaliciousFamilyCohort' = DominantMaliciousFamilyCohort
         /\ \A e : ReplicatesAt(e)' = ReplicatesAt(e)
         /\ \A e : BaselineFit(e)' = BaselineFit(e)
<1>1. release' = release /\ verdicts' = verdicts
  BY DEF Inputs
<1>2. DominantMaliciousFamilyCohort' = DominantMaliciousFamilyCohort
  BY <1>1 DEF DominantMaliciousFamilyCohort
<1>3. CohortRecords' = CohortRecords /\ Controls' = Controls
  BY <1>1, <1>2 DEF CohortRecords, Controls
<1>4. CohortMalicious' = CohortMalicious
  BY <1>3 DEF CohortMalicious
<1>5. /\ ReleaseEarliest' = ReleaseEarliest /\ LastMonth' = LastMonth
      /\ CohortEarliest' = CohortEarliest /\ LastCutoff' = LastCutoff
  BY <1>1, <1>3 DEF ReleaseEarliest, LastMonth, CohortEarliest, LastCutoff
<1>6. FirstCutoff' = FirstCutoff
  BY <1>3, <1>5 DEF FirstCutoff
<1>7. \A e : IsTransitionSupported(e)' <=> IsTransitionSupported(e)
  BY <1>4 DEF IsTransitionSupported
<1>8. \A e : ReplicatesAt(e)' = ReplicatesAt(e)
  BY <1>3, <1>5 DEF ReplicatesAt, ControlTransitionReplicates
<1>9. \A earliest, e : HasPrivateTerm(earliest, e)' <=> HasPrivateTerm(earliest, e)
  BY <1>7 DEF HasPrivateTerm, Residuals
<1>10. \A e : BaselineFit(e)' = BaselineFit(e)
  BY <1>1, <1>5, <1>7, <1>8, <1>9 DEF BaselineFit, FitClientConstraint
<1> QED
  BY <1>2, <1>5, <1>6, <1>8, <1>10

-----------------------------------------------------------------------------
(* What a cutoff records.                                                  *)

\* Windows and history of an endpoint lie before it.
LEMMA WindowsLieBefore ==
  ASSUME NEW e \in Int
  PROVE  \A m \in TransitionMonths(e, Interval) : m \in Int /\ m < e
  BY Parameters DEF TransitionMonths, BeforeWindow, AfterWindow, Months

\* So do the rows that train the encoder of a cutoff or are averaged in its fit ...
LEMMA FitRowsLieBefore ==
  ASSUME release \in Releases, NEW earliest \in Nat, NEW e \in Nat
  PROVE  \A m \in FitRows(earliest, e) : m \in Int /\ m < e
<1>1. \A m \in MonthsOf(CutoffSafe(e)) : m \in Int /\ m < e
  BY ReleaseAssumption DEF MonthsOf, CutoffSafe, IsRelease
<1>2. \A x \in HistoricalEndpoints(earliest, e) : x \in Int /\ x < e
  BY Parameters DEF HistoricalEndpoints, HistoryStart, Months
<1>3. \A x \in HistoricalEndpoints(earliest, e) : \A m \in TransitionMonths(x, Interval) :
        m \in Int /\ m < e
  BY <1>2, WindowsLieBefore
<1> QED
  BY <1>1, <1>3, WindowsLieBefore DEF FitRows

\* ... and all rows the diagnostics compute with at it ...
LEMMA CutoffRowsLieBefore ==
  ASSUME release \in Releases, DominantMaliciousFamilyCohort # NoFamily, endpoint \in Nat
  PROVE  \A m \in CutoffRows : m \in Int /\ m < endpoint
  BY CohortCalendar, FitRowsLieBefore, WindowsLieBefore DEF CutoffRows

\* ... while the choices made before the loop have looked past it.
LEMMA ChoiceLooksAhead ==
  ASSUME release \in Releases, DominantMaliciousFamilyCohort # NoFamily,
         endpoint \in Nat, endpoint <= LastCutoff
  PROVE  ChoiceMonths \in SUBSET Int /\ \E m \in ChoiceMonths : m >= endpoint
<1>1. ChoiceMonths \in SUBSET Int
  BY ReleaseAssumption DEF ChoiceMonths, MonthsOf, IsRelease
<1>2. LastCutoff \in Int /\ LastCutoff + Horizon \in ChoiceMonths
  BY CohortCalendar
<1>3. LastCutoff + Horizon >= endpoint
  BY <1>2, Parameters
<1> QED
  BY <1>1, <1>2, <1>3

\* The two rules of malicious support agree, and such support is history enough.
LEMMA SupportSuffices ==
  ASSUME release \in Releases, NEW e \in Nat, CohortHasSufficientMaliciousSupport(e)
  PROVE  IsTransitionSupported(e) /\ TrainsCutoffRepresentationEncoder(e)
<1> DEFINE early == Months(e - 2 * Interval, e - Interval)
           late  == Months(e - Interval, e)
<1>1. IsRelease(release) /\ CohortMalicious \in SUBSET release
  BY ReleaseAssumption DEF CohortMalicious, CohortRecords, Malicious
<1>2. /\ Support(CohortMalicious, early) \in Nat /\ Support(CohortMalicious, early) >= MinSupport
      /\ Support(CohortMalicious, late) \in Nat /\ Support(CohortMalicious, late) >= MinSupport
  BY <1>1, PartOfRelease, SupportIsCount DEF CohortHasSufficientMaliciousSupport
<1>3. IsTransitionSupported(e)
  BY <1>2, Parameters DEF IsTransitionSupported, BeforeWindow, AfterWindow
<1>4. InWindow(CohortMalicious, early) # {} /\ InWindow(CohortMalicious, late) # {}
  BY <1>1, <1>2, PartOfRelease, SupportIsCount, Parameters
<1>5. PICK r \in InWindow(CohortMalicious, early), s \in InWindow(CohortMalicious, late) : TRUE
  BY <1>4
<1>6. r.month < s.month /\ r.month < e /\ s.month < e /\ s.month \in Nat /\ r.month \in Nat
  BY <1>1, <1>5, Parameters DEF InWindow, Months, IsRelease
<1>7. r \in CutoffSafe(e) /\ s \in CutoffSafe(e)
  BY <1>5, <1>6 DEF CutoffSafe, InWindow, CohortMalicious, CohortRecords, Malicious
<1>8. CutoffSafe(e) \in SUBSET release
  BY DEF CutoffSafe
<1>9. s.month <= Latest(MonthsOf(CutoffSafe(e))) /\ Latest(MonthsOf(CutoffSafe(e))) \in Nat
  <2>1. s.month \in MonthsOf(CutoffSafe(e))
    BY <1>7 DEF MonthsOf
  <2>2. /\ MonthsOf(CutoffSafe(e)) \in SUBSET Nat /\ IsFiniteSet(MonthsOf(CutoffSafe(e)))
        /\ MonthsOf(CutoffSafe(e)) # {}
    BY <1>1, <1>7, <1>8, PartOfRelease
  <2> QED
    BY <2>1, <2>2, LatestIsGreatest
<1>10. r.month < Latest(MonthsOf(CutoffSafe(e)))
  BY <1>6, <1>9
<1> QED
  BY <1>3, <1>7, <1>10 DEF TrainsCutoffRepresentationEncoder

\* What a fit answers, and when it is not for want of malicious support.
LEMMA FitAnswers ==
  ASSUME NEW earliest, NEW e, NEW replicates, NEW rank
  PROVE  /\ FitClientConstraint(earliest, e, replicates, rank) \in
               {"fitted", "malicious_support", "no_usable_control", "weak_eigengap",
                "unstable_rank", "private_history"}
         /\ IsTransitionSupported(e) =>
               FitClientConstraint(earliest, e, replicates, rank) # "malicious_support"
         /\ FitClientConstraint(earliest, e, replicates, rank) = "fitted" =>
               /\ IsTransitionSupported(e)
               /\ ~ (Cardinality(replicates) < MinReplicates)
               /\ HasPrivateTerm(earliest, e)
         /\ /\ IsTransitionSupported(e)
            /\ ~ (Cardinality(replicates) < MinReplicates)
            /\ HasPrivateTerm(earliest, e)
            => FitClientConstraint(earliest, e, replicates, rank) \in
                 {"fitted", "weak_eigengap", "unstable_rank"}
  BY DEF FitClientConstraint

\* A cutoff with support for its encoder has support for its fit.
LEMMA CutoffVerdictIsSound ==
  ASSUME release \in Releases, endpoint \in Nat
  PROVE  /\ CutoffVerdict \in {"fitted", "malicious_support", "no_usable_control",
                               "weak_eigengap", "unstable_rank", "private_history"}
         /\ CohortHasSufficientMaliciousSupport(endpoint) =>
               CutoffVerdict # "malicious_support"
         /\ CutoffVerdict = "fitted" => CohortHasSufficientMaliciousSupport(endpoint)
<1>1. CASE ~ CohortHasSufficientMaliciousSupport(endpoint)
  BY <1>1 DEF CutoffVerdict
<1>2. CASE CohortHasSufficientMaliciousSupport(endpoint)
  <2>1. CutoffVerdict = FitClientConstraint(CohortEarliest, endpoint, DiagnosedReplicates,
                                            verdicts.rank[endpoint])
    BY <1>2, SupportSuffices DEF CutoffVerdict
  <2> QED
    BY <1>2, <2>1, SupportSuffices, FitAnswers
<1> QED
  BY <1>1, <1>2

\* One entry of the diagnostics.
IsSound(entry) ==
  /\ entry \in CutoffEntries
  /\ \A m \in entry.rows : m < entry.cutoff
  /\ \E m \in entry.chosen : m >= entry.cutoff
  /\ entry.trained => entry.verdict # "malicious_support"
  /\ entry.verdict # "temporal_history"

\* Either way of recording a cutoff appends one sound entry.
LEMMA RecordedIsSound ==
  ASSUME release \in Releases, DominantMaliciousFamilyCohort # NoFamily, endpoint \in Nat,
         CutoffFitted \/ CutoffAbstains
  PROVE  \E entry : /\ IsSound(entry) /\ entry.cutoff = endpoint
                    /\ entries' = Append(entries, entry)
                    /\ endpoint' = endpoint + Step
                    /\ UNCHANGED <<Inputs, stage, context, results, outcome, lost>>
<1>1. /\ CutoffRows \in SUBSET Int
      /\ \A m \in CutoffRows : m < endpoint
      /\ ChoiceMonths \in SUBSET Int
      /\ \E m \in ChoiceMonths : m >= endpoint
  BY CutoffRowsLieBefore, ChoiceLooksAhead DEF CutoffFitted, CutoffAbstains, AtCutoff
<1>2. CASE CutoffFitted
  <2> DEFINE entry == CutoffEntry("fitted", TRUE,
               FitNoControls(CohortEarliest, endpoint) = "fitted",
               FitOneMatchedControl(CohortEarliest, endpoint, DiagnosedReplicates) = "fitted",
               CutoffRows)
  <2>1. IsSound(entry) /\ entry.cutoff = endpoint
    BY <1>1 DEF IsSound, CutoffEntry, CutoffEntries
  <2>2. /\ entries' = Append(entries, entry) /\ endpoint' = endpoint + Step
        /\ UNCHANGED <<Inputs, stage, context, results, outcome, lost>>
    BY <1>2 DEF CutoffFitted, RecordCutoff
  <2> HIDE DEF entry
  <2> QED
    BY <2>1, <2>2
<1>3. CASE CutoffAbstains
  <2> DEFINE trained == /\ CohortHasSufficientMaliciousSupport(endpoint)
                        /\ TrainsCutoffRepresentationEncoder(endpoint)
             entry == CutoffEntry(CutoffVerdict, trained, FALSE, FALSE, CutoffRows)
  <2>1. trained \in BOOLEAN
    BY DEF CohortHasSufficientMaliciousSupport
  <2>2. IsSound(entry) /\ entry.cutoff = endpoint
    BY <1>1, <2>1, CutoffVerdictIsSound DEF IsSound, CutoffEntry, CutoffEntries
  <2>3. /\ entries' = Append(entries, entry) /\ endpoint' = endpoint + Step
        /\ UNCHANGED <<Inputs, stage, context, results, outcome, lost>>
    BY <1>3 DEF CutoffAbstains, RecordCutoff
  <2> HIDE DEF entry
  <2> QED
    BY <2>2, <2>3
<1> QED
  BY <1>2, <1>3

-----------------------------------------------------------------------------
(* Sparse controls.                                                        *)

\* However small the share, a nonempty window keeps a sample and an empty one none.
LEMMA RetainedKeepsSupport ==
  ASSUME NEW support \in Nat, NEW numerator \in Nat, NEW denominator \in Nat \ {0}
  PROVE  RetainedSupport(support, numerator, denominator) > 0 <=> support > 0
<1>1. Rounded(support * numerator, denominator) \in Int
  <2> DEFINE product == support * numerator
             down == product \div denominator
  <2>1. product \in Nat
    OBVIOUS
  <2>2. down \in Int
    <3> HIDE DEF product
    <3> QED
      BY <2>1
  <2>3. Rounded(product, denominator) \in {down, down + 1}
    <3> HIDE DEF product
    <3> QED
      BY DEF Rounded
  <2> HIDE DEF down
  <2> QED
    BY <2>2, <2>3
<1> DEFINE rounded == Rounded(support * numerator, denominator)
<1>2. RetainedSupport(support, numerator, denominator)
        = IF support = 0 THEN 0 ELSE IF rounded > 1 THEN rounded ELSE 1
  BY DEF RetainedSupport
<1> HIDE DEF rounded
<1>3. rounded \in Int
  BY <1>1 DEF rounded
<1> QED
  BY <1>2, <1>3

\* A sparse sample of the controls supports the same replicates.
LEMMA SparseKeepsReplicates ==
  ASSUME release \in Releases, NEW e, NEW numerator \in Nat, NEW denominator \in Nat \ {0}
  PROVE  SparseControlTransitionReplicates(HistoricalEndpoints(ReleaseEarliest, e),
                                           numerator, denominator) = ReplicatesAt(e)
<1>1. IsRelease(Controls)
  BY ReleaseAssumption, PartOfRelease DEF Controls
<1>2. \A window : Support(Controls, window) \in Nat
  BY <1>1, SupportIsCount
<1>3. \A window : RetainedSupport(Support(Controls, window), numerator, denominator) > 0
                   <=> Support(Controls, window) > 0
  BY <1>2, RetainedKeepsSupport
<1> QED
  BY <1>3 DEF SparseControlTransitionReplicates, ReplicatesAt, ControlTransitionReplicates

\* Replicates are counted over a finite history.
LEMMA ReplicatesAreCounted ==
  ASSUME release \in Releases, release # {}, NEW e \in Nat
  PROVE  Cardinality(ReplicatesAt(e)) \in Nat
<1>1. HistoryStart(ReleaseEarliest, e) \in Int
  BY ReleaseCalendar, Parameters DEF HistoryStart
<1>2. IsFiniteSet(HistoricalEndpoints(ReleaseEarliest, e))
  BY <1>1, FS_Interval DEF HistoricalEndpoints, Months
<1>3. ReplicatesAt(e) \in SUBSET HistoricalEndpoints(ReleaseEarliest, e)
  BY DEF ReplicatesAt, ControlTransitionReplicates
<1> QED
  BY <1>2, <1>3, FS_Subset, FS_CardinalityType

-----------------------------------------------------------------------------
(* The invariant.                                                          *)

TypesOK ==
  /\ release \in Releases \cup {NoRelease}
  /\ stage \in {"start", "cutoffs", "search", "embed", "locate", "stress", "refit",
                "centers", "done", "raised"}
  /\ endpoint \in Nat
  /\ context = NoContext \/ context \in ReleaseEarliest .. LastMonth
  /\ outcome \in {"none", "PASS", "INSUFFICIENT"}

\* Every loop runs on the data it needs, from where its windows are complete.
LoopsOK ==
  /\ stage = "cutoffs" =>
       /\ job = "diagnostics" /\ release \in Releases
       /\ DominantMaliciousFamilyCohort # NoFamily
       /\ endpoint >= FirstCutoff
  /\ stage \in {"search", "embed", "locate", "stress", "refit", "centers"} =>
       release \in Releases /\ release # {}
  /\ stage \in {"search", "locate"} => endpoint <= LastMonth
  /\ stage \in {"search", "embed"} => job = "weak_eigengap"
  /\ stage = "locate" => job \in {"sparse_control", "allowance"}
  /\ stage = "stress" => job \in {"weak_eigengap", "sparse_control"}
  /\ stage = "refit" => job = "allowance"
  /\ stage = "centers" => job = "dynamics" /\ endpoint >= ReleaseEarliest

\* The context a stress is built on has what it was chosen for.
BaselineOK ==
  /\ stage = "embed" => Cardinality(ReplicatesAt(context)) >= MinReplicates
                        /\ context \in Nat
  /\ stage = "refit" \/ (stage = "stress" /\ job = "sparse_control") =>
       BaselineFit(context) = "fitted"
  /\ lost = FALSE

ResultsOK ==
  /\ results \in Seq(Nat \cup {"no_cohort", "fitted", "malicious_support", "no_usable_control",
                               "weak_eigengap", "unstable_rank", "private_history"})
  /\ job = "sparse_control" =>
       \A i \in DOMAIN results : results[i] \in {"fitted", "weak_eigengap", "unstable_rank"}

EntriesOK ==
  /\ entries \in Seq(CutoffEntries)
  /\ \A i \in DOMAIN entries : IsSound(entries[i])

IInv == TypesOK /\ LoopsOK /\ BaselineOK /\ ResultsOK /\ EntriesOK

\* The invariant holds at the start ...
LEMMA InitInv == Init => IInv
<1> SUFFICES ASSUME Init PROVE IInv
  OBVIOUS
<1>1. entries = <<>> /\ results = <<>>
  BY DEF Init
<1>2. EntriesOK /\ ResultsOK
  BY <1>1 DEF EntriesOK, ResultsOK
<1> QED
  BY <1>2 DEF Init, IInv, TypesOK, LoopsOK, BaselineOK

\* ... and the actions of each analysis keep it: the diagnostics,
LEMMA DiagnosticsKeepInv ==
  ASSUME IInv, StartDiagnostics \/ CutoffFitted \/ CutoffAbstains \/ WriteDiagnostics
  PROVE  IInv'
<1> USE DEF IInv
<1>1. UNCHANGED Inputs
  BY DEF StartDiagnostics, CutoffFitted, CutoffAbstains, RecordCutoff, WriteDiagnostics
<1>2. /\ release' = release /\ job' = job
      /\ ReleaseEarliest' = ReleaseEarliest /\ LastMonth' = LastMonth
      /\ FirstCutoff' = FirstCutoff
      /\ DominantMaliciousFamilyCohort' = DominantMaliciousFamilyCohort
  BY <1>1, SameInputs DEF Inputs
<1>3. CASE StartDiagnostics
  <2>1. UNCHANGED <<entries, context, results, lost>> /\ stage = "start" /\ job = "diagnostics"
    BY <1>3 DEF StartDiagnostics
  <2>2. CASE stage' = "cutoffs"
    <3>1. release \in Releases /\ DominantMaliciousFamilyCohort # NoFamily
          /\ endpoint' = FirstCutoff /\ outcome' = outcome
      BY <1>3, <2>2 DEF StartDiagnostics, Finish, TypesOK
    <3>2. endpoint' \in Nat
      BY <3>1, CohortCalendar
    <3> QED
      BY <1>2, <2>1, <2>2, <3>1, <3>2
      DEF TypesOK, LoopsOK, BaselineOK, ResultsOK, EntriesOK
  <2>3. CASE stage' # "cutoffs"
    <3>1. stage' = "done" /\ outcome' = "INSUFFICIENT" /\ endpoint' = endpoint
      BY <1>3, <2>3 DEF StartDiagnostics, Finish
    <3> QED
      BY <1>2, <2>1, <3>1 DEF TypesOK, LoopsOK, BaselineOK, ResultsOK, EntriesOK
  <2> QED
    BY <2>2, <2>3
<1>4. CASE CutoffFitted \/ CutoffAbstains
  <2>1. /\ stage = "cutoffs" /\ release \in Releases /\ endpoint \in Nat
        /\ DominantMaliciousFamilyCohort # NoFamily /\ endpoint >= FirstCutoff
    BY <1>4 DEF CutoffFitted, CutoffAbstains, AtCutoff, LoopsOK, TypesOK
  <2>2. PICK entry : /\ IsSound(entry)
                     /\ entries' = Append(entries, entry)
                     /\ endpoint' = endpoint + Step
                     /\ UNCHANGED <<Inputs, stage, context, results, outcome, lost>>
    BY <1>4, <2>1, RecordedIsSound
  <2>3. EntriesOK'
    <3>1. entry \in CutoffEntries
      BY <2>2 DEF IsSound
    <3>2. entries' \in Seq(CutoffEntries)
      BY <2>2, <3>1 DEF EntriesOK
    <3>3. \A i \in DOMAIN entries' :
            entries'[i] = entry \/ (i \in DOMAIN entries /\ entries'[i] = entries[i])
      BY <2>2, <3>1 DEF EntriesOK
    <3>4. \A i \in DOMAIN entries' : IsSound(entries'[i])
      BY <2>2, <3>3 DEF EntriesOK
    <3> QED
      BY <3>2, <3>4 DEF EntriesOK
  <2>4. endpoint' \in Nat /\ endpoint' >= FirstCutoff
    BY <2>1, <2>2, CohortCalendar, Parameters
  <2> QED
    BY <1>2, <2>1, <2>2, <2>3, <2>4 DEF TypesOK, LoopsOK, BaselineOK, ResultsOK
<1>5. CASE WriteDiagnostics
  <2>1. /\ stage' = "done" /\ outcome' \in {"PASS", "INSUFFICIENT"}
        /\ UNCHANGED <<endpoint, entries, context, results, lost>>
    BY <1>5 DEF WriteDiagnostics, Finish
  <2> QED
    BY <1>2, <2>1 DEF TypesOK, LoopsOK, BaselineOK, ResultsOK, EntriesOK
<1> QED
  BY <1>3, <1>4, <1>5

\* the weak-eigengap stress,
LEMMA WeakEigengapKeepsInv ==
  ASSUME IInv, StartWeakEigengap \/ SearchWindow \/ SearchExhausted \/ EmbedWindow \/ StressNoise
  PROVE  IInv'
<1> USE DEF IInv
<1>1. UNCHANGED Inputs
  BY DEF StartWeakEigengap, SearchWindow, SearchExhausted, EmbedWindow, StressNoise
<1>2. /\ release' = release /\ job' = job
      /\ ReleaseEarliest' = ReleaseEarliest /\ LastMonth' = LastMonth
      /\ \A e : ReplicatesAt(e)' = ReplicatesAt(e)
      /\ \A e : BaselineFit(e)' = BaselineFit(e)
  BY <1>1, SameInputs DEF Inputs
<1>3. CASE StartWeakEigengap
  <2>1. UNCHANGED <<entries, context, results, lost>> /\ stage = "start" /\ job = "weak_eigengap"
    BY <1>3 DEF StartWeakEigengap
  <2>2. CASE stage' = "search"
    <3>1. release \in Releases /\ release # {} /\ endpoint' = LastMonth /\ outcome' = outcome
      BY <1>3, <2>2 DEF StartWeakEigengap, Finish, TypesOK
    <3>2. endpoint' \in Nat
      BY <3>1, ReleaseCalendar
    <3> QED
      BY <1>2, <2>1, <2>2, <3>1, <3>2
      DEF TypesOK, LoopsOK, BaselineOK, ResultsOK, EntriesOK
  <2>3. CASE stage' # "search"
    <3>1. /\ stage' \in {"done", "raised"} /\ endpoint' = endpoint
          /\ outcome' \in {outcome, "INSUFFICIENT"}
      BY <1>3, <2>3 DEF StartWeakEigengap, Finish
    <3> QED
      BY <1>2, <2>1, <3>1 DEF TypesOK, LoopsOK, BaselineOK, ResultsOK, EntriesOK
  <2> QED
    BY <2>2, <2>3
<1>4. CASE SearchWindow
  <2>1. /\ stage = "search" /\ endpoint >= ReleaseEarliest /\ endpoint \in Nat
        /\ UNCHANGED <<entries, results, outcome, lost>>
        /\ release \in Releases /\ release # {} /\ job = "weak_eigengap"
    BY <1>4 DEF SearchWindow, TypesOK, LoopsOK
  <2>2. CASE Cardinality(ReplicatesAt(endpoint)) >= MinReplicates
    <3>1. stage' = "embed" /\ context' = endpoint /\ endpoint' = endpoint
      BY <1>4, <2>2 DEF SearchWindow
    <3>2. endpoint \in ReleaseEarliest .. LastMonth
      BY <2>1, ReleaseCalendar DEF LoopsOK
    <3> QED
      BY <1>2, <2>1, <2>2, <3>1, <3>2
      DEF TypesOK, LoopsOK, BaselineOK, ResultsOK, EntriesOK
  <2>3. CASE ~ (Cardinality(ReplicatesAt(endpoint)) >= MinReplicates)
    <3>1. UNCHANGED <<stage, context>> /\ endpoint' = endpoint - 1
      BY <1>4, <2>3 DEF SearchWindow
    <3>2. endpoint - 1 \in Nat /\ endpoint - 1 <= LastMonth
      BY <2>1, ReleaseCalendar, Parameters DEF LoopsOK
    <3> QED
      BY <1>2, <2>1, <3>1, <3>2 DEF TypesOK, LoopsOK, BaselineOK, ResultsOK, EntriesOK
  <2> QED
    BY <2>2, <2>3
<1>5. CASE SearchExhausted
  BY <1>2, <1>5 DEF SearchExhausted, Finish, TypesOK, LoopsOK, BaselineOK, ResultsOK, EntriesOK
<1>6. CASE EmbedWindow
  <2>1. /\ stage = "embed" /\ release \in Releases /\ release # {} /\ context \in Nat
        /\ job = "weak_eigengap"
        /\ Cardinality(ReplicatesAt(context)) >= MinReplicates
        /\ UNCHANGED <<endpoint, entries, context, results>>
    BY <1>6 DEF EmbedWindow, LoopsOK, BaselineOK
  <2>2. ~ (Cardinality(ReplicatesAt(context)) < MinReplicates)
    BY <2>1, ReplicatesAreCounted, Parameters
  <2>3. \/ stage' = "done" /\ outcome' = "INSUFFICIENT" /\ lost' = lost
        \/ stage' = "stress" /\ outcome' = outcome /\ lost' = lost
    BY <1>6, <2>2 DEF EmbedWindow, Finish
  <2> QED
    BY <1>2, <2>1, <2>3 DEF TypesOK, LoopsOK, BaselineOK, ResultsOK, EntriesOK
<1>7. CASE StressNoise
  <2>1. job = "weak_eigengap" /\ UNCHANGED <<stage, endpoint, entries, context, outcome, lost>>
    BY <1>7 DEF StressNoise
  <2>2. PICK answer \in {"no_cohort", "fitted", "malicious_support", "no_usable_control",
                         "weak_eigengap", "unstable_rank", "private_history"} :
          results' = Append(results, answer)
    BY <1>7, FitAnswers DEF StressNoise
  <2>3. ResultsOK'
    BY <1>2, <2>1, <2>2 DEF ResultsOK
  <2> QED
    BY <1>2, <2>1, <2>3 DEF TypesOK, LoopsOK, BaselineOK, EntriesOK
<1> QED
  BY <1>3, <1>4, <1>5, <1>6, <1>7

\* the stresses built on a baseline,
LEMMA BaselineStressesKeepInv ==
  ASSUME IInv,
         StartLocate \/ Locate \/ LocateExhausted \/ StressSparse \/ WriteStress \/ RefitAllowances
  PROVE  IInv'
<1> USE DEF IInv
<1>1. UNCHANGED Inputs
  BY DEF StartLocate, Locate, LocateExhausted, StressSparse, WriteStress, RefitAllowances
<1>2. /\ release' = release /\ job' = job
      /\ ReleaseEarliest' = ReleaseEarliest /\ LastMonth' = LastMonth
      /\ \A e : ReplicatesAt(e)' = ReplicatesAt(e)
      /\ \A e : BaselineFit(e)' = BaselineFit(e)
  BY <1>1, SameInputs DEF Inputs
<1>3. CASE StartLocate
  <2>1. /\ UNCHANGED <<entries, context, results, lost>> /\ stage = "start"
        /\ job \in {"sparse_control", "allowance"}
    BY <1>3 DEF StartLocate
  <2>2. CASE stage' = "locate"
    <3>1. /\ release \in Releases /\ DominantMaliciousFamilyCohort # NoFamily
          /\ endpoint' = LastMonth /\ outcome' = outcome
      BY <1>3, <2>2 DEF StartLocate, Finish, TypesOK
    <3>2. release # {} /\ endpoint' \in Nat
      BY <3>1, CohortCalendar, ReleaseCalendar
    <3> QED
      BY <1>2, <2>1, <2>2, <3>1, <3>2
      DEF TypesOK, LoopsOK, BaselineOK, ResultsOK, EntriesOK
  <2>3. CASE stage' # "locate"
    <3>1. stage' = "done" /\ outcome' = "INSUFFICIENT" /\ endpoint' = endpoint
      BY <1>3, <2>3 DEF StartLocate, Finish
    <3> QED
      BY <1>2, <2>1, <3>1 DEF TypesOK, LoopsOK, BaselineOK, ResultsOK, EntriesOK
  <2> QED
    BY <2>2, <2>3
<1>4. CASE Locate
  <2>1. /\ stage = "locate" /\ endpoint >= ReleaseEarliest /\ endpoint \in Nat
        /\ UNCHANGED <<entries, results, outcome, lost>>
        /\ release \in Releases /\ release # {} /\ job \in {"sparse_control", "allowance"}
    BY <1>4 DEF Locate, TypesOK, LoopsOK
  <2>2. CASE BaselineFit(endpoint) = "fitted"
    <3>1. /\ stage' = IF job = "allowance" THEN "refit" ELSE "stress"
          /\ context' = endpoint /\ endpoint' = endpoint
      BY <1>4, <2>2 DEF Locate
    <3>2. endpoint \in ReleaseEarliest .. LastMonth
      BY <2>1, ReleaseCalendar DEF LoopsOK
    <3>3. BaselineOK'
      BY <1>2, <2>1, <2>2, <3>1 DEF BaselineOK
    <3>4. ResultsOK' /\ EntriesOK'
      BY <1>2, <2>1 DEF ResultsOK, EntriesOK
    <3> QED
      BY <1>2, <2>1, <3>1, <3>2, <3>3, <3>4 DEF TypesOK, LoopsOK
  <2>3. CASE BaselineFit(endpoint) # "fitted"
    <3>1. UNCHANGED <<stage, context>> /\ endpoint' = endpoint - 1
      BY <1>4, <2>3 DEF Locate
    <3>2. endpoint - 1 \in Nat /\ endpoint - 1 <= LastMonth
      BY <2>1, ReleaseCalendar, Parameters DEF LoopsOK
    <3> QED
      BY <1>2, <2>1, <3>1, <3>2 DEF TypesOK, LoopsOK, BaselineOK, ResultsOK, EntriesOK
  <2> QED
    BY <2>2, <2>3
<1>5. CASE LocateExhausted
  BY <1>2, <1>5 DEF LocateExhausted, Finish, TypesOK, LoopsOK, BaselineOK, ResultsOK, EntriesOK
<1>6. CASE StressSparse
  <2>1. /\ stage = "stress" /\ job = "sparse_control" /\ Len(results) < Len(Fractions)
        /\ UNCHANGED <<stage, endpoint, entries, context, outcome, lost>>
        /\ release \in Releases /\ BaselineFit(context) = "fitted"
    BY <1>6 DEF StressSparse, LoopsOK, BaselineOK
  <2> DEFINE fraction == Fractions[Len(results) + 1]
             sparse == SparseControlTransitionReplicates(
                         HistoricalEndpoints(ReleaseEarliest, context), fraction[1], fraction[2])
  <2>2. sparse = ReplicatesAt(context)
    <3>1. fraction \in Nat \X (Nat \ {0})
      BY <2>1, StudyAssumption DEF ResultsOK
    <3>2. fraction[1] \in Nat /\ fraction[2] \in Nat \ {0}
      BY <3>1
    <3> HIDE DEF fraction
    <3> QED
      BY <2>1, <3>2, SparseKeepsReplicates
  <2>3. \A rank : FitClientConstraint(ReleaseEarliest, context, sparse, rank)
                    \in {"fitted", "weak_eigengap", "unstable_rank"}
    BY <2>1, <2>2, FitAnswers DEF BaselineFit
  <2>4. PICK answer \in {"fitted", "weak_eigengap", "unstable_rank"} :
          results' = Append(results, answer)
    BY <1>6, <2>3 DEF StressSparse
  <2>5. ResultsOK'
    BY <1>2, <2>1, <2>4 DEF ResultsOK
  <2> QED
    BY <1>2, <2>1, <2>5 DEF TypesOK, LoopsOK, BaselineOK, EntriesOK
<1>7. CASE WriteStress
  BY <1>2, <1>7 DEF WriteStress, Finish, TypesOK, LoopsOK, BaselineOK, ResultsOK, EntriesOK
<1>8. CASE RefitAllowances
  BY <1>2, <1>8 DEF RefitAllowances, Finish, TypesOK, LoopsOK, BaselineOK, ResultsOK, EntriesOK
<1> QED
  BY <1>3, <1>4, <1>5, <1>6, <1>7, <1>8

\* and the temporal-dynamics ablation.
LEMMA DynamicsKeepsInv ==
  ASSUME IInv, StartDynamics \/ CollectCenter \/ FitDynamics
  PROVE  IInv'
<1> USE DEF IInv
<1>1. UNCHANGED Inputs
  BY DEF StartDynamics, CollectCenter, FitDynamics
<1>2. /\ release' = release /\ job' = job
      /\ ReleaseEarliest' = ReleaseEarliest /\ LastMonth' = LastMonth
  BY <1>1, SameInputs DEF Inputs
<1>3. CASE StartDynamics
  <2>1. UNCHANGED <<entries, context, results, lost>> /\ stage = "start" /\ job = "dynamics"
    BY <1>3 DEF StartDynamics
  <2>2. CASE stage' = "centers"
    <3>1. /\ release \in Releases /\ DominantMaliciousFamilyCohort # NoFamily
          /\ endpoint' = ReleaseEarliest /\ outcome' = outcome
      BY <1>3, <2>2 DEF StartDynamics, Finish, TypesOK
    <3>2. release # {} /\ endpoint' \in Nat
      BY <3>1, CohortCalendar, ReleaseCalendar
    <3> QED
      BY <1>2, <2>1, <2>2, <3>1, <3>2
      DEF TypesOK, LoopsOK, BaselineOK, ResultsOK, EntriesOK
  <2>3. CASE stage' # "centers"
    <3>1. stage' = "done" /\ outcome' = "INSUFFICIENT" /\ endpoint' = endpoint
      BY <1>3, <2>3 DEF StartDynamics, Finish
    <3> QED
      BY <1>2, <2>1, <3>1 DEF TypesOK, LoopsOK, BaselineOK, ResultsOK, EntriesOK
  <2> QED
    BY <2>2, <2>3
<1>4. CASE CollectCenter
  <2>1. /\ stage = "centers" /\ job = "dynamics" /\ endpoint' = endpoint + 1
        /\ UNCHANGED <<stage, entries, context, outcome, lost>>
        /\ release \in Releases /\ release # {} /\ endpoint >= ReleaseEarliest /\ endpoint \in Nat
    BY <1>4 DEF CollectCenter, LoopsOK, TypesOK
  <2>2. results' \in {results, Append(results, endpoint)}
    BY <1>4 DEF CollectCenter
  <2>3. ResultsOK'
    BY <1>2, <2>1, <2>2 DEF ResultsOK
  <2> QED
    BY <1>2, <2>1, <2>3, ReleaseCalendar DEF TypesOK, LoopsOK, BaselineOK, EntriesOK
<1>5. CASE FitDynamics
  BY <1>2, <1>5 DEF FitDynamics, Finish, TypesOK, LoopsOK, BaselineOK, ResultsOK, EntriesOK
<1> QED
  BY <1>3, <1>4, <1>5

\* What every analysis knows about its data, its loop variable and its baseline.
THEOREM InductiveInvariant == Spec => []IInv
<1>1. ASSUME IInv, [Next]_vars PROVE IInv'
  <2>1. CASE UNCHANGED vars
    <3>1. UNCHANGED Inputs
      BY <2>1 DEF vars, Inputs
    <3> QED
      BY <1>1, <2>1, <3>1, SameInputs
      DEF vars, Inputs, IInv, TypesOK, LoopsOK, BaselineOK, ResultsOK, EntriesOK
  <2> QED
    BY <1>1, <2>1, DiagnosticsKeepInv, WeakEigengapKeepsInv, BaselineStressesKeepInv,
       DynamicsKeepsInv DEF Next
<1> QED
  BY <1>1, InitInv, PTL DEF Spec

-----------------------------------------------------------------------------
(* The properties.                                                         *)

\* Every reachable state of every analysis is typed.
THEOREM TypeCorrect == Spec => []TypeOK
<1>1. IInv => TypeOK
  BY DEF IInv, TypeOK, TypesOK, BaselineOK, EntriesOK
<1> QED
  BY <1>1, InductiveInvariant, PTL

\* For every release and every window length, the rows computed with at a cutoff are of earlier
\* months, and the choice of the cohort and of the feature columns looks at a month not earlier.
THEOREM PastCorrect == Spec => []LooksAheadOnlyByChoice
<1>1. IInv => LooksAheadOnlyByChoice
  BY DEF IInv, EntriesOK, LooksAheadOnlyByChoice, IsSound
<1> QED
  BY <1>1, InductiveInvariant, PTL

\* For every window length and support threshold, the two support rules agree.
THEOREM SupportCorrect == Spec => []SupportRulesAgree
<1>1. IInv => SupportRulesAgree
  BY DEF IInv, EntriesOK, SupportRulesAgree, IsSound
<1> QED
  BY <1>1, InductiveInvariant, PTL

\* No loop of an analysis ever reaches an endpoint whose windows begin before month 0.
THEOREM WindowsCorrect == Spec => []WindowsExist
<1>1. ASSUME NEW earliest \in Nat, earliest >= 2 * Interval, NEW e \in Nat
      PROVE  \A x \in HistoricalEndpoints(earliest, e) : HasWindows(x, Interval)
  BY <1>1, Parameters DEF HistoricalEndpoints, HistoryStart, Months, HasWindows
<1>2. ASSUME IInv PROVE WindowsExist
  <2>1. CASE AtCutoff
    <3>1. /\ CohortEarliest \in Nat /\ CohortEarliest >= 2 * Interval
          /\ endpoint \in Nat /\ endpoint >= CohortEarliest
      BY <1>2, <2>1, CohortCalendar DEF IInv, TypesOK, LoopsOK, AtCutoff
    <3>2. HasWindows(endpoint, Interval)
      BY <3>1, Parameters DEF HasWindows
    <3> QED
      BY <1>1, <2>1, <3>1, <3>2 DEF WindowsExist, AtCutoff
  <2>2. CASE stage \in {"search", "locate", "centers"}
    <3>1. ReleaseEarliest \in Nat /\ ReleaseEarliest >= 2 * Interval /\ endpoint \in Nat
      BY <1>2, <2>2, ReleaseCalendar DEF IInv, TypesOK, LoopsOK
    <3>2. endpoint >= ReleaseEarliest => HasWindows(endpoint, Interval)
      BY <3>1, Parameters DEF HasWindows
    <3>3. \A x \in HistoricalEndpoints(ReleaseEarliest, endpoint) : HasWindows(x, Interval)
      BY <1>1, <3>1
    <3> QED
      BY <1>2, <2>2, <3>2, <3>3 DEF WindowsExist, AtCutoff, IInv, LoopsOK
  <2> QED
    BY <2>1, <2>2 DEF WindowsExist
<1> QED
  BY <1>2, InductiveInvariant, PTL

\* For every release and every share of the controls, a stress keeps the baseline it found.
THEOREM BaselineCorrect == Spec => []StressKeepsItsBaseline
<1>1. IInv => StressKeepsItsBaseline
  BY DEF IInv, BaselineOK, ResultsOK, StressKeepsItsBaseline
<1> QED
  BY <1>1, InductiveInvariant, PTL

-----------------------------------------------------------------------------
(* The cutoff ledger.                                                      *)

\* Multiplication by a natural number is monotonic.
LEMMA Monotonic ==
  ASSUME NEW a \in Int, NEW b \in Int, NEW s \in Nat, a <= b
  PROVE  a * s <= b * s
  OBVIOUS

\* The cutoffs of an arithmetic series up to a bound, counted.
LEMMA SeriesUpTo ==
  ASSUME NEW d \in Nat, NEW s \in Nat \ {0}, NEW k \in Nat
  PROVE  k * s <= d <=> k < (d \div s) + 1
<1> DEFINE q == d \div s
           r == d % s
<1>1. q \in Int /\ r \in Int /\ d = q * s + r /\ 0 <= r /\ r < s
  BY Z3
<1> HIDE DEF q, r
<1>2. ASSUME k <= q PROVE k * s <= d
  <2>1. k * s <= q * s /\ k * s \in Int /\ q * s \in Int
    BY <1>1, <1>2, Monotonic
  <2> QED
    BY <1>1, <2>1
<1>3. ASSUME q + 1 <= k PROVE k * s > d
  <2>1. (q + 1) * s <= k * s /\ k * s \in Int
    BY <1>1, <1>3, Monotonic
  <2>2. (q + 1) * s = q * s + s /\ q * s \in Int
    BY <1>1
  <2> QED
    BY <1>1, <2>1, <2>2
<1>4. k * s \in Int
  OBVIOUS
<1> QED
  BY <1>1, <1>2, <1>3, <1>4 DEF q

\* The plan of the diagnostics: so many cutoffs, one Step after the other.
LEMMA PlanIsSeries ==
  ASSUME release \in Releases, DominantMaliciousFamilyCohort # NoFamily, job = "diagnostics",
         release # NoRelease, NEW k \in Nat
  PROVE  /\ FirstCutoff + k * Step <= LastCutoff <=> k < Len(CutoffPlan)
         /\ k < Len(CutoffPlan) => CutoffPlan[k + 1] = FirstCutoff + k * Step
         /\ CutoffPlan \in Seq(Int)
<1>1. FirstCutoff \in Nat /\ LastCutoff \in Int /\ k * Step \in Nat /\ Step \in Nat \ {0}
  BY CohortCalendar, Parameters
<1>2. CASE LastCutoff < FirstCutoff
  BY <1>1, <1>2 DEF CutoffPlan
<1>3. CASE ~ (LastCutoff < FirstCutoff)
  <2> DEFINE count == ((LastCutoff - FirstCutoff) \div Step) + 1
  <2>1. LastCutoff - FirstCutoff \in Nat
    BY <1>1, <1>3
  <2>2. count \in Nat /\ (k * Step <= LastCutoff - FirstCutoff <=> k < count)
    <3>1. (LastCutoff - FirstCutoff) \div Step \in Nat
      BY <1>1, <2>1, Z3
    <3> QED
      BY <1>1, <2>1, <3>1, SeriesUpTo
  <2>3. CutoffPlan = [i \in 1 .. count |-> FirstCutoff + (i - 1) * Step]
    BY <1>3 DEF CutoffPlan
  <2> HIDE DEF count
  <2>4. \A i \in 1 .. count : FirstCutoff + (i - 1) * Step \in Int
    BY <1>1, <2>2
  <2>5. CutoffPlan \in Seq(Int) /\ Len(CutoffPlan) = count
    BY <2>2, <2>3, <2>4
  <2>6. k < count => CutoffPlan[k + 1] = FirstCutoff + k * Step
    <3> HAVE k < count
    <3>1. k + 1 \in 1 .. count /\ (k + 1) - 1 = k
      BY <2>2
    <3> QED
      BY <2>3, <3>1
  <2> QED
    BY <1>1, <2>2, <2>5, <2>6
<1> QED
  BY <1>2, <1>3

\* The loop stands at the cutoff after the recorded ones.
LedgerInv ==
  /\ stage # "done" => outcome = "none"
  /\ stage = "start" \/ job # "diagnostics" => entries = <<>>
  /\ stage = "cutoffs" =>
       /\ endpoint = FirstCutoff + Len(entries) * Step
       /\ Len(entries) <= Len(CutoffPlan)
       /\ \A i \in DOMAIN entries : entries[i].cutoff = CutoffPlan[i]
       /\ release # NoRelease

Examined == [i \in DOMAIN entries |-> entries[i].cutoff]

\* The plan comes with the inputs.
LEMMA SamePlan == UNCHANGED Inputs => CutoffPlan' = CutoffPlan
  BY SameInputs DEF CutoffPlan, Inputs

\* A recorded cutoff is the next one of the plan.
LEMMA RecordIsExamine ==
  ASSUME IInv, LedgerInv, CutoffFitted \/ CutoffAbstains
  PROVE  LedgerInv' /\ Ledger!Examine
<1>1. /\ stage = "cutoffs" /\ endpoint <= LastCutoff /\ job = "diagnostics"
      /\ release \in Releases /\ DominantMaliciousFamilyCohort # NoFamily /\ endpoint \in Nat
      /\ entries \in Seq(CutoffEntries) /\ release # NoRelease
  BY DEF CutoffFitted, CutoffAbstains, AtCutoff, IInv, LoopsOK, TypesOK, EntriesOK, LedgerInv
<1>2. PICK entry : /\ IsSound(entry) /\ entry.cutoff = endpoint
                   /\ entries' = Append(entries, entry)
                   /\ endpoint' = endpoint + Step
                   /\ UNCHANGED <<Inputs, stage, context, results, outcome, lost>>
  BY <1>1, RecordedIsSound
<1>3. /\ CutoffPlan' = CutoffPlan /\ FirstCutoff' = FirstCutoff /\ job' = job
      /\ release' = release
  BY <1>2, SamePlan, SameInputs DEF Inputs
<1> DEFINE k == Len(entries)
<1>4. k \in Nat /\ entry \in CutoffEntries
  BY <1>1, <1>2 DEF IsSound
<1>5. endpoint = FirstCutoff + k * Step /\ FirstCutoff \in Nat /\ Step \in Nat
  BY <1>1, CohortCalendar, Parameters DEF LedgerInv
<1>6. k < Len(CutoffPlan) /\ CutoffPlan[k + 1] = endpoint /\ CutoffPlan \in Seq(Int)
  BY <1>1, <1>4, <1>5, PlanIsSeries
<1>7. endpoint' = FirstCutoff + (k + 1) * Step
  BY <1>2, <1>4, <1>5
<1>8. Len(entries') = k + 1 /\ DOMAIN entries' = 1 .. (k + 1)
  BY <1>1, <1>2, <1>4
<1>9. \A i \in DOMAIN entries' : entries'[i].cutoff = CutoffPlan[i]
  <2> TAKE i \in DOMAIN entries'
  <2>1. CASE i = k + 1
    BY <1>1, <1>2, <1>4, <1>6, <2>1
  <2>2. CASE i # k + 1
    <3>1. i \in DOMAIN entries /\ entries'[i] = entries[i]
      BY <1>1, <1>2, <1>4, <1>8, <2>2
    <3> QED
      BY <1>1, <3>1 DEF LedgerInv
  <2> QED
    BY <2>1, <2>2
<1>10. LedgerInv'
  BY <1>1, <1>2, <1>3, <1>6, <1>7, <1>8, <1>9 DEF LedgerInv
<1>11. Examined \in Seq(Int) /\ Len(Examined) = k
  <2>1. Examined = [i \in 1 .. k |-> entries[i].cutoff]
    BY <1>1 DEF Examined
  <2>2. \A i \in 1 .. k : entries[i] \in CutoffEntries
    BY <1>1
  <2>3. \A i \in 1 .. k : entries[i].cutoff \in Int
    BY <2>2 DEF CutoffEntries
  <2> QED
    BY <1>4, <2>1, <2>3
<1>12. Examined' = Append(Examined, CutoffPlan[k + 1])
  <2>1. Examined' = [i \in 1 .. (k + 1) |-> entries'[i].cutoff]
    BY <1>8 DEF Examined
  <2>2. \A i \in 1 .. k : entries'[i].cutoff = Examined[i]
    BY <1>1, <1>2, <1>4 DEF Examined
  <2>3. entries'[k + 1].cutoff = CutoffPlan[k + 1]
    BY <1>8, <1>9
  <2> QED
    BY <1>4, <1>11, <2>1, <2>2, <2>3
<1>13. ~ (outcome # "none") /\ outcome' = outcome
  BY <1>1, <1>2 DEF LedgerInv
<1> QED
  BY <1>3, <1>6, <1>10, <1>11, <1>12, <1>13 DEF Ledger!Examine, Examined

\* Nothing but the diagnostics records cutoffs, and nothing has an outcome before the end.
LEMMA OthersStutter ==
  ASSUME IInv, LedgerInv, [Next]_vars, ~ (CutoffFitted \/ CutoffAbstains \/ WriteDiagnostics)
  PROVE  /\ LedgerInv'
         /\ CutoffPlan' = CutoffPlan /\ Examined' = Examined
         /\ \/ (outcome' # "none") = (outcome # "none")
            \/ outcome = "none" /\ Examined = CutoffPlan /\ outcome' # "none"
<1>1. UNCHANGED Inputs /\ entries' = entries
  BY DEF Next, vars, Inputs, StartDiagnostics, StartWeakEigengap, SearchWindow, SearchExhausted,
     EmbedWindow, StressNoise, StartLocate, Locate, LocateExhausted, StressSparse, WriteStress,
     RefitAllowances, StartDynamics, CollectCenter, FitDynamics
<1>2. /\ CutoffPlan' = CutoffPlan /\ FirstCutoff' = FirstCutoff /\ job' = job
      /\ release' = release /\ Examined' = Examined
  BY <1>1, SamePlan, SameInputs DEF Inputs, Examined
<1>3. CASE StartDiagnostics
  <2>1. stage = "start" /\ job = "diagnostics" /\ entries = <<>> /\ outcome = "none"
    BY <1>3 DEF StartDiagnostics, LedgerInv
  <2>2. CASE release = NoRelease \/ DominantMaliciousFamilyCohort = NoFamily
    <3>1. stage' = "done" /\ outcome' = "INSUFFICIENT"
      BY <1>3, <2>2 DEF StartDiagnostics, Finish
    <3>2. CutoffPlan = <<>> /\ Examined = <<>>
      BY <2>1, <2>2 DEF CutoffPlan, Examined
    <3> QED
      BY <1>1, <1>2, <2>1, <3>1, <3>2 DEF LedgerInv
  <2>3. CASE release # NoRelease /\ DominantMaliciousFamilyCohort # NoFamily
    <3>1. stage' = "cutoffs" /\ endpoint' = FirstCutoff /\ outcome' = outcome
      BY <1>3, <2>3 DEF StartDiagnostics, Finish
    <3>2. release \in Releases
      BY <2>3 DEF IInv, TypesOK
    <3>3. CutoffPlan \in Seq(Int) /\ FirstCutoff \in Nat /\ Step \in Nat
      BY <2>1, <2>3, <3>2, PlanIsSeries, CohortCalendar, Parameters
    <3>4. /\ Len(entries) = 0 /\ Len(entries) <= Len(CutoffPlan)
          /\ FirstCutoff = FirstCutoff + 0 * Step
      BY <2>1, <3>3
    <3> QED
      BY <1>1, <1>2, <2>1, <2>3, <3>1, <3>4 DEF LedgerInv
  <2> QED
    BY <2>2, <2>3
<1>4. CASE ~ StartDiagnostics
  <2>1. CASE UNCHANGED vars
    BY <1>2, <2>1 DEF vars, LedgerInv
  <2>2. CASE ~ UNCHANGED vars
    <3>1. job # "diagnostics" /\ stage # "cutoffs" /\ stage # "done" /\ stage' # "cutoffs"
      BY <1>4, <2>2
      DEF Next, Finish, IInv, LoopsOK, StartWeakEigengap, SearchWindow, SearchExhausted,
          EmbedWindow, StressNoise, StartLocate, Locate, LocateExhausted, StressSparse,
          WriteStress, RefitAllowances, StartDynamics, CollectCenter, FitDynamics
    <3>2. stage' # "done" => outcome' = outcome
      BY <1>4, <2>2
      DEF Next, Finish, StartWeakEigengap, SearchWindow, SearchExhausted,
          EmbedWindow, StressNoise, StartLocate, Locate, LocateExhausted, StressSparse,
          WriteStress, RefitAllowances, StartDynamics, CollectCenter, FitDynamics
    <3>3. entries = <<>> /\ outcome = "none" /\ CutoffPlan = <<>> /\ Examined = <<>>
      BY <3>1 DEF LedgerInv, CutoffPlan, Examined
    <3>4. LedgerInv'
      BY <1>1, <1>2, <3>1, <3>2, <3>3 DEF LedgerInv
    <3> QED
      BY <1>2, <3>3, <3>4
  <2> QED
    BY <2>1, <2>2
<1> QED
  BY <1>2, <1>3, <1>4

\* The end of the diagnostics closes a complete account.
LEMMA WriteIsClose ==
  ASSUME IInv, LedgerInv, WriteDiagnostics
  PROVE  LedgerInv' /\ Ledger!Close
<1>1. /\ stage = "cutoffs" /\ endpoint > LastCutoff /\ job = "diagnostics"
      /\ release \in Releases /\ DominantMaliciousFamilyCohort # NoFamily
      /\ entries \in Seq(CutoffEntries) /\ release # NoRelease /\ endpoint \in Nat
  BY DEF WriteDiagnostics, IInv, LoopsOK, TypesOK, EntriesOK, LedgerInv
<1>2. /\ stage' = "done" /\ outcome' # "none" /\ entries' = entries /\ UNCHANGED Inputs
      /\ endpoint' = endpoint
  BY DEF WriteDiagnostics, Finish
<1>3. /\ CutoffPlan' = CutoffPlan /\ job' = job /\ Examined' = Examined
  BY <1>2, SamePlan DEF Inputs, Examined
<1> DEFINE k == Len(entries)
<1>4. /\ k \in Nat /\ endpoint = FirstCutoff + k * Step /\ k <= Len(CutoffPlan)
      /\ \A i \in DOMAIN entries : entries[i].cutoff = CutoffPlan[i]
  BY <1>1 DEF LedgerInv
<1>5. CutoffPlan \in Seq(Int) /\ ~ (k < Len(CutoffPlan))
  <2>1. LastCutoff \in Int
    BY <1>1, CohortCalendar
  <2> QED
    BY <1>1, <1>4, <2>1, PlanIsSeries
<1>6. Len(CutoffPlan) = k
  BY <1>4, <1>5
<1>7. Examined = CutoffPlan
  <2>1. Examined = [i \in 1 .. k |-> CutoffPlan[i]]
    BY <1>1, <1>4 DEF Examined
  <2>2. CutoffPlan = [i \in 1 .. k |-> CutoffPlan[i]]
    BY <1>5, <1>6
  <2> QED
    BY <2>1, <2>2
<1>8. ~ (outcome # "none")
  BY <1>1 DEF LedgerInv
<1>9. LedgerInv'
  BY <1>1, <1>2, <1>3 DEF LedgerInv
<1> QED
  BY <1>2, <1>3, <1>7, <1>8, <1>9 DEF Ledger!Close, Examined

\* For every release, window length and step, every cutoff of the plan is recorded once, in
\* order, before there is an outcome.
THEOREM LedgerCorrect == Spec => ImplementsCutoffLedger
<1>1. Init => LedgerInv /\ Ledger!Init
  <2> SUFFICES ASSUME Init PROVE LedgerInv /\ Ledger!Init
    OBVIOUS
  <2>1. entries = <<>> /\ [i \in DOMAIN entries |-> entries[i].cutoff] = <<>>
    BY DEF Init
  <2> QED
    BY <2>1 DEF Init, LedgerInv, Ledger!Init
<1>2. ASSUME IInv, LedgerInv, [Next]_vars
      PROVE  LedgerInv' /\ [Ledger!Examine \/ Ledger!Close]_(Ledger!vars)
  <2>1. CASE CutoffFitted \/ CutoffAbstains
    BY <1>2, <2>1, RecordIsExamine
  <2>2. CASE WriteDiagnostics
    BY <1>2, <2>2, WriteIsClose
  <2>3. CASE ~ (CutoffFitted \/ CutoffAbstains \/ WriteDiagnostics)
    BY <1>2, <2>3, OthersStutter DEF Ledger!vars, Ledger!Close, Examined
  <2> QED
    BY <2>1, <2>2, <2>3
<1> QED
  BY <1>1, <1>2, InductiveInvariant, PTL DEF Spec, ImplementsCutoffLedger, Ledger!Spec

-----------------------------------------------------------------------------
(* The diagnostics on EMBER2024: what they map to.                         *)

\* The releases as EMBER2024 has them.
EmberReleases == {records \in Releases : \A r \in records : r.vt = NoCount}

Ember == INSTANCE Ember2024Identification WITH Releases <- EmberReleases

\* A number of elements is the same number wherever it is counted.
LEMMA MappedCardinality ==
  \A S : Ember!Lamda!Cardinality(S) = Cardinality(S) /\ Ember!Cardinality(S) = Cardinality(S)
  BY DEF Ember!Lamda!Cardinality, Ember!Cardinality, Cardinality

\* What the refinement maps to is read off the same release.
LEMMA MappedCohort ==
  /\ Ember!Lamda!DominantMaliciousFamilyCohort = DominantMaliciousFamilyCohort
  /\ Ember!Lamda!CohortRecords = CohortRecords
  /\ Ember!Lamda!CohortMalicious = CohortMalicious
  /\ Ember!Lamda!Controls = Controls
  /\ Ember!Lamda!CohortEarliest = CohortEarliest
  /\ Ember!Lamda!FirstCutoff = FirstCutoff
  /\ Ember!Lamda!LastCutoff = LastCutoff
  /\ \A e : Ember!Lamda!CutoffSafe(e) = CutoffSafe(e)
<1>1. \A r : Ember!Lamda!AuditedLabel(r) = AuditedLabel(r)
  BY DEF Ember!Lamda!AuditedLabel, AuditedLabel, Ember!Lamda!ExpectedLabel, ExpectedLabel
<1>2. \A records : Ember!Lamda!Malicious(records) = Malicious(records)
  BY <1>1 DEF Ember!Lamda!Malicious, Malicious
<1>3. \A months : /\ Ember!Lamda!Earliest(months) = Earliest(months)
                  /\ Ember!Lamda!Latest(months) = Latest(months)
  BY DEF Ember!Lamda!Earliest, Earliest, Ember!Lamda!Latest, Latest
<1>4. \A records : Ember!Lamda!MonthsOf(records) = MonthsOf(records)
  BY DEF Ember!Lamda!MonthsOf, MonthsOf
<1>5. \A records : Ember!Lamda!MostCommonFamily(records) = MostCommonFamily(records)
  BY DEF Ember!Lamda!MostCommonFamily, MostCommonFamily, Ember!Lamda!Earliest, Earliest,
    Ember!Lamda!Cardinality, Cardinality
<1>6. Ember!Lamda!DominantMaliciousFamilyCohort = DominantMaliciousFamilyCohort
  BY <1>2, <1>5
  DEF Ember!Lamda!DominantMaliciousFamilyCohort, DominantMaliciousFamilyCohort
<1>7. Ember!Lamda!CohortRecords = CohortRecords
  BY <1>6 DEF Ember!Lamda!CohortRecords, CohortRecords
<1>8. Ember!Lamda!CohortMalicious = CohortMalicious
  BY <1>2, <1>7 DEF Ember!Lamda!CohortMalicious, CohortMalicious
<1>9. /\ Ember!Lamda!Controls = Controls
      /\ \A e : Ember!Lamda!CutoffSafe(e) = CutoffSafe(e)
  BY <1>1 DEF Ember!Lamda!Controls, Controls, Ember!Lamda!CutoffSafe, CutoffSafe
<1>10. Ember!Lamda!CohortEarliest = CohortEarliest
  BY <1>3, <1>4, <1>7 DEF Ember!Lamda!CohortEarliest, CohortEarliest,
    Ember!Lamda!EarliestCompleteTransitionEndpoint, EarliestCompleteTransitionEndpoint
<1>11. Ember!Lamda!LastCutoff = LastCutoff /\ Ember!Lamda!FirstCutoff = FirstCutoff
  BY <1>3, <1>4, <1>7, <1>10
  DEF Ember!Lamda!LastCutoff, LastCutoff, Ember!Lamda!FirstCutoff, FirstCutoff
<1> QED
  BY <1>6, <1>7, <1>8, <1>9, <1>10, <1>11

\* Its windows and supports are those of the LAMDA study.
LEMMA MappedWindows ==
  /\ \A a, b : Ember!Lamda!Months(a, b) = Months(a, b)
  /\ \A e : /\ Ember!Lamda!BeforeWindow(e, Interval) = BeforeWindow(e, Interval)
            /\ Ember!Lamda!AfterWindow(e, Interval) = AfterWindow(e, Interval)
            /\ Ember!Lamda!TransitionMonths(e, Interval) = TransitionMonths(e, Interval)
            /\ Ember!Lamda!CohortHasSufficientMaliciousSupport(e)
                 <=> CohortHasSufficientMaliciousSupport(e)
            /\ Ember!Lamda!IsTransitionSupported(e) <=> IsTransitionSupported(e)
            /\ Ember!Lamda!TrainsCutoffRepresentationEncoder(e)
                 <=> TrainsCutoffRepresentationEncoder(e)
  /\ \A records, window : Ember!Lamda!Support(records, window) = Support(records, window)
  /\ \A records : Ember!Lamda!MonthsOf(records) = MonthsOf(records)
<1>1. \A a, b : Ember!Lamda!Months(a, b) = Months(a, b)
  BY DEF Ember!Lamda!Months, Months
<1>2. \A e : /\ Ember!Lamda!BeforeWindow(e, Interval) = BeforeWindow(e, Interval)
             /\ Ember!Lamda!AfterWindow(e, Interval) = AfterWindow(e, Interval)
  BY <1>1 DEF Ember!Lamda!BeforeWindow, BeforeWindow, Ember!Lamda!AfterWindow, AfterWindow
<1>3. \A e : Ember!Lamda!TransitionMonths(e, Interval) = TransitionMonths(e, Interval)
  BY <1>2 DEF Ember!Lamda!TransitionMonths, TransitionMonths
<1>4. \A records, window : Ember!Lamda!Support(records, window) = Support(records, window)
  BY MappedCardinality DEF Ember!Lamda!Support, Support, Ember!Lamda!InWindow, InWindow
<1>5. \A e : Ember!Lamda!CohortHasSufficientMaliciousSupport(e)
               <=> CohortHasSufficientMaliciousSupport(e)
  BY <1>1, <1>4, MappedCohort DEF Ember!Lamda!CohortHasSufficientMaliciousSupport,
    CohortHasSufficientMaliciousSupport
<1>6. \A e : Ember!Lamda!IsTransitionSupported(e) <=> IsTransitionSupported(e)
  BY <1>2, <1>4, MappedCohort DEF Ember!Lamda!IsTransitionSupported, IsTransitionSupported
<1>7. \A records : Ember!Lamda!MonthsOf(records) = MonthsOf(records)
  BY DEF Ember!Lamda!MonthsOf, MonthsOf
<1>8. \A months : Ember!Lamda!Latest(months) = Latest(months)
  BY DEF Ember!Lamda!Latest, Latest
<1>9. \A e : Ember!Lamda!TrainsCutoffRepresentationEncoder(e)
               <=> TrainsCutoffRepresentationEncoder(e)
  BY <1>7, <1>8, MappedCohort DEF Ember!Lamda!TrainsCutoffRepresentationEncoder,
    TrainsCutoffRepresentationEncoder
<1> QED
  BY <1>1, <1>2, <1>3, <1>4, <1>5, <1>6, <1>7, <1>9

\* The answers of the fits.
LEMMA MappedFits ==
  /\ Ember!Lamda!DiagnosedReplicates = DiagnosedReplicates
  /\ Ember!Lamda!CutoffVerdict = CutoffVerdict
  /\ Ember!Lamda!CutoffRows = CutoffRows
  /\ Ember!Lamda!ChoiceMonths = ChoiceMonths
  /\ Ember!Lamda!FitNoControls(CohortEarliest, endpoint) = FitNoControls(CohortEarliest, endpoint)
  /\ Ember!Lamda!FitOneMatchedControl(CohortEarliest, endpoint, DiagnosedReplicates)
       = FitOneMatchedControl(CohortEarliest, endpoint, DiagnosedReplicates)
<1>1. \A s, e : Ember!Lamda!HistoryStart(s, e) = HistoryStart(s, e)
  BY DEF Ember!Lamda!HistoryStart, HistoryStart
<1>2. \A s, e : /\ Ember!Lamda!HistoricalEndpoints(s, e) = HistoricalEndpoints(s, e)
                /\ Ember!Lamda!EarlierMaliciousEndpoints(s, e) = EarlierMaliciousEndpoints(s, e)
  BY <1>1, MappedWindows DEF Ember!Lamda!HistoricalEndpoints, HistoricalEndpoints,
    Ember!Lamda!EarlierMaliciousEndpoints, EarlierMaliciousEndpoints
<1>3. \A s, e : Ember!Lamda!Residuals(s, e) = Residuals(s, e)
  BY <1>2, MappedWindows, MappedCardinality DEF Ember!Lamda!Residuals, Residuals
<1>4. \A s, e : Ember!Lamda!HasPrivateTerm(s, e) <=> HasPrivateTerm(s, e)
  BY <1>3 DEF Ember!Lamda!HasPrivateTerm, HasPrivateTerm
<1>5. \A endpoints : Ember!Lamda!ControlTransitionReplicates(endpoints)
                       = ControlTransitionReplicates(endpoints)
  BY MappedWindows, MappedCohort
  DEF Ember!Lamda!ControlTransitionReplicates, ControlTransitionReplicates
<1>6. Ember!Lamda!DiagnosedReplicates = DiagnosedReplicates
  BY <1>2, <1>5, MappedCohort DEF Ember!Lamda!DiagnosedReplicates, DiagnosedReplicates
<1>7. \A s, e, replicates, rank :
        Ember!Lamda!FitClientConstraint(s, e, replicates, rank)
          = FitClientConstraint(s, e, replicates, rank)
  BY <1>4, MappedWindows, MappedCardinality
  DEF Ember!Lamda!FitClientConstraint, FitClientConstraint
<1>8. \A s, e : Ember!Lamda!FitNoControls(s, e) = FitNoControls(s, e)
  BY <1>4, MappedWindows DEF Ember!Lamda!FitNoControls, FitNoControls
<1>9. \A replicates : Ember!Lamda!BestReplicate(replicates) = BestReplicate(replicates)
  BY MappedWindows, MappedCohort DEF Ember!Lamda!BestReplicate, BestReplicate
<1>10. \A s, e, replicates : Ember!Lamda!FitOneMatchedControl(s, e, replicates)
                               = FitOneMatchedControl(s, e, replicates)
  BY <1>4, <1>9, MappedWindows DEF Ember!Lamda!FitOneMatchedControl, FitOneMatchedControl
<1>11. Ember!Lamda!CutoffVerdict = CutoffVerdict
  BY <1>6, <1>7, MappedWindows, MappedCohort DEF Ember!Lamda!CutoffVerdict, CutoffVerdict
<1>12. \A s, e : Ember!Lamda!FitRows(s, e) = FitRows(s, e)
  <2> TAKE s, e
  <2>1. {Ember!Lamda!TransitionMonths(x, Interval) : x \in HistoricalEndpoints(s, e)}
          = {TransitionMonths(x, Interval) : x \in HistoricalEndpoints(s, e)}
    BY MappedWindows
  <2> QED
    BY <1>2, <2>1, MappedWindows, MappedCohort DEF Ember!Lamda!FitRows, FitRows
<1>13. Ember!Lamda!CutoffRows = CutoffRows
  BY <1>12, MappedWindows, MappedCohort DEF Ember!Lamda!CutoffRows, CutoffRows
<1>14. Ember!Lamda!ChoiceMonths = ChoiceMonths
  BY DEF Ember!Lamda!ChoiceMonths, ChoiceMonths, Ember!Lamda!MonthsOf, MonthsOf
<1> QED
  BY <1>6, <1>8, <1>10, <1>11, <1>13, <1>14

-----------------------------------------------------------------------------
(* The diagnostics on EMBER2024: what they compute.                        *)

\* max of two numbers.
LEMMA LatestOfTwo ==
  ASSUME NEW a \in Int, NEW b \in Int
  PROVE  Ember!Latest({a, b}) = IF a > b THEN a ELSE b
<1>1. \A m \in {a, b} : (\A n \in {a, b} : n <= m) <=> m = IF a > b THEN a ELSE b
  OBVIOUS
<1> QED
  BY <1>1 DEF Ember!Latest

\* Of the replicates with the largest support the earliest is the one no other beats: ratios
\* compared by their cross products are ordered.
LEMMA BestIsEarliest ==
  ASSUME release \in Releases, NEW R \in SUBSET Int, R = ControlTransitionReplicates(R)
  PROVE  LET b(x) == Support(Controls, BeforeWindow(x, Interval))
             a(x) == Support(Controls, AfterWindow(x, Interval))
             AtLeast(x, y) == a(x) * b(x) * (a(y) + b(y)) >= a(y) * b(y) * (a(x) + b(x))
             best == {x \in R : \A y \in R : AtLeast(x, y)}
         IN  BestReplicate(R) = Earliest(best)
<1> DEFINE b(x) == Support(Controls, BeforeWindow(x, Interval))
           a(x) == Support(Controls, AfterWindow(x, Interval))
           AtLeast(x, y) == a(x) * b(x) * (a(y) + b(y)) >= a(y) * b(y) * (a(x) + b(x))
           less(x, y) == a(x) * b(x) * (a(y) + b(y)) < a(y) * b(y) * (a(x) + b(x))
           best == {x \in R : \A y \in R : AtLeast(x, y)}
           IsBest(x) == \A y \in R \ {x} : ~ less(x, y) /\ (~ less(y, x) => x < y)
           IsEarliest(x) == \A n \in best : x <= n
<1>1. \A x \in R : a(x) \in Nat /\ b(x) \in Nat /\ a(x) > 0 /\ b(x) > 0
  <2>1. IsRelease(Controls)
    <3>1. Controls \in SUBSET release
      BY DEF Controls
    <3> QED
      BY <3>1, ReleaseAssumption, PartOfRelease
  <2>2. \A x \in R : a(x) > 0 /\ b(x) > 0
    BY DEF ControlTransitionReplicates
  <2> QED
    BY <2>1, <2>2, SupportIsCount
<1>2. \A x, y \in R : AtLeast(x, y) <=> ~ less(x, y)
  <2> HIDE DEF a, b
  <2>1. \A k, l \in Int : k >= l <=> ~ (k < l)
    OBVIOUS
  <2> TAKE x, y \in R
  <2>2. a(x) \in Int /\ b(x) \in Int /\ a(y) \in Int /\ b(y) \in Int
    BY <1>1
  <2>3. a(x) * b(x) * (a(y) + b(y)) \in Int /\ a(y) * b(y) * (a(x) + b(x)) \in Int
    BY <2>2
  <2> QED
    BY <2>1, <2>3
<1>3. \A x, y, z \in R : AtLeast(x, y) /\ AtLeast(y, z) => AtLeast(x, z)
  <2> HIDE DEF a, b
  <2>1. \A f, g, h, p, q, r \in Nat :
          q > 0 /\ f * q >= g * p /\ g * r >= h * q => f * r >= h * p
    <3> TAKE f, g, h, p, q, r \in Nat
    <3> HAVE q > 0 /\ f * q >= g * p /\ g * r >= h * q
    <3>1. (f * q) * r >= (g * p) * r /\ (g * r) * p >= (h * q) * p
      OBVIOUS
    <3>2. (f * r) * q >= (h * p) * q
      BY <3>1
    <3> QED
      BY <3>2
  <2> TAKE x, y, z \in R
  <2>2. \A w \in R : a(w) * b(w) \in Nat /\ a(w) + b(w) \in Nat /\ a(w) + b(w) > 0
    BY <1>1
  <2> QED
    BY <2>1, <2>2
<1> HIDE DEF AtLeast, less
<1>4. \A x : x \in R /\ IsBest(x) <=> x \in best /\ IsEarliest(x)
  <2> TAKE x
  <2>1. ASSUME x \in R, IsBest(x) PROVE x \in best /\ IsEarliest(x)
    <3>0. AtLeast(x, x)
      BY <2>1, <1>1 DEF AtLeast
    <3>1. x \in best
      BY <1>2, <2>1, <3>0
    <3> QED
      BY <1>2, <2>1, <3>1
  <2>2. ASSUME x \in best, IsEarliest(x) PROVE IsBest(x)
    <3> SUFFICES ASSUME NEW y \in R \ {x} PROVE ~ less(x, y) /\ (~ less(y, x) => x < y)
      OBVIOUS
    <3>1. ~ less(x, y)
      BY <1>2, <2>2
    <3>2. ASSUME ~ less(y, x) PROVE x < y
      <4>1. AtLeast(y, x)
        BY <1>2, <2>2, <3>2
      <4>2. y \in best
        BY <1>3, <2>2, <4>1
      <4> QED
        BY <2>2, <4>2
    <3> QED
      BY <3>1, <3>2
  <2> QED
    BY <2>1, <2>2
<1>5. (CHOOSE x \in R : IsBest(x)) = (CHOOSE x \in best : IsEarliest(x))
  <2> HIDE DEF IsBest, IsEarliest, best
  <2> QED
    BY <1>4, Zenon
<1>6. BestReplicate(R) = CHOOSE x \in R : IsBest(x)
  BY DEF BestReplicate, less
<1>7. Earliest(best) = CHOOSE x \in best : IsEarliest(x)
  BY DEF Earliest
<1> QED
  BY <1>5, <1>6, <1>7 DEF AtLeast

\* Where no record has a detection count the audit keeps every label, so that both studies
\* are of the same cohort.
LEMMA EmberCohort ==
  ASSUME release \in EmberReleases
  PROVE  /\ release \in Releases
         /\ Ember!DominantMaliciousFamilyCohort = DominantMaliciousFamilyCohort
         /\ Ember!CohortRecords = CohortRecords
         /\ Ember!Malicious(Ember!CohortRecords) = CohortMalicious
         /\ Ember!Controls = Controls
         /\ Ember!EarliestValidEndpoint = CohortEarliest
         /\ Ember!LastCutoff = LastCutoff
         /\ \A e : {r \in release : r.label # "none" /\ r.month < e} = CutoffSafe(e)
<1>1. release \in Releases /\ \A r \in release : AuditedLabel(r) = r.label
  BY DEF EmberReleases, AuditedLabel
<1>2. \A records \in SUBSET release : Ember!Malicious(records) = Malicious(records)
  BY <1>1 DEF Ember!Malicious, Malicious
<1>3. \A records : Ember!MostCommonFamily(records) = MostCommonFamily(records)
  BY DEF Ember!MostCommonFamily, MostCommonFamily, Ember!Earliest, Earliest,
    Ember!Cardinality, Cardinality
<1>4. Ember!DominantMaliciousFamilyCohort = DominantMaliciousFamilyCohort
  BY <1>2, <1>3 DEF Ember!DominantMaliciousFamilyCohort, DominantMaliciousFamilyCohort
<1>5. Ember!CohortRecords = CohortRecords
  BY <1>4 DEF Ember!CohortRecords, CohortRecords
<1>6. CohortRecords \in SUBSET release
  BY DEF CohortRecords
<1>7. Ember!Malicious(Ember!CohortRecords) = CohortMalicious
  BY <1>2, <1>5, <1>6 DEF CohortMalicious
<1>8. /\ Ember!Controls = Controls
      /\ \A e : {r \in release : r.label # "none" /\ r.month < e} = CutoffSafe(e)
  BY <1>1 DEF Ember!Controls, Controls, CutoffSafe
<1>9. \A months : /\ Ember!Earliest(months) = Earliest(months)
                  /\ Ember!Latest(months) = Latest(months)
  BY DEF Ember!Earliest, Earliest, Ember!Latest, Latest
<1>10. \A records : Ember!MonthsOf(records) = MonthsOf(records)
  BY DEF Ember!MonthsOf, MonthsOf
<1>11. Ember!EarliestValidEndpoint = CohortEarliest /\ Ember!LastCutoff = LastCutoff
  BY <1>5, <1>9, <1>10 DEF Ember!EarliestValidEndpoint, CohortEarliest, Ember!LastCutoff,
    LastCutoff, Ember!EarliestCompleteTransitionEndpoint, EarliestCompleteTransitionEndpoint
<1> QED
  BY <1>1, <1>4, <1>5, <1>7, <1>8, <1>11

\* The windows of an endpoint, and what is counted in them.
LEMMA EmberWindows ==
  ASSUME release \in EmberReleases
  PROVE  /\ \A e : /\ Ember!BeforeWindow(e, Interval) = BeforeWindow(e, Interval)
                   /\ Ember!AfterWindow(e, Interval) = AfterWindow(e, Interval)
                   /\ Ember!IsTransitionSupported(e) <=> IsTransitionSupported(e)
         /\ \A records, window : Ember!Support(records, window) = Support(records, window)
         /\ \A endpoints :
              Ember!ReplicatesOf(endpoints) = ControlTransitionReplicates(endpoints)
<1>1. \A e : /\ Ember!BeforeWindow(e, Interval) = BeforeWindow(e, Interval)
             /\ Ember!AfterWindow(e, Interval) = AfterWindow(e, Interval)
  BY DEF Ember!BeforeWindow, BeforeWindow, Ember!AfterWindow, AfterWindow, Ember!Months, Months
<1>2. \A records, window : Ember!Support(records, window) = Support(records, window)
  BY MappedCardinality DEF Ember!Support, Support, Ember!InWindow, InWindow
<1>3. \A e : Ember!IsTransitionSupported(e) <=> IsTransitionSupported(e)
  BY <1>1, <1>2, EmberCohort
  DEF Ember!IsTransitionSupported, IsTransitionSupported, Ember!HasDisplacement
<1>4. \A endpoints : Ember!ReplicatesOf(endpoints) = ControlTransitionReplicates(endpoints)
  BY <1>1, <1>2, EmberCohort DEF Ember!ReplicatesOf, ControlTransitionReplicates
<1> QED
  BY <1>1, <1>2, <1>3, <1>4

\* One pass over both windows counts what two passes count: they have no month in common.
LEMMA EmberSupport ==
  ASSUME release \in EmberReleases, NEW e \in Int
  PROVE  Ember!CohortHasSufficientMaliciousSupport(e) <=> CohortHasSufficientMaliciousSupport(e)
<1>1. /\ BeforeWindow(e, Interval) = Months(e - 2 * Interval, e - Interval)
      /\ AfterWindow(e, Interval) = Months(e - Interval, e)
  BY DEF BeforeWindow, AfterWindow
<1>2. AfterWindow(e, Interval) \ BeforeWindow(e, Interval) = AfterWindow(e, Interval)
  BY Parameters DEF BeforeWindow, AfterWindow, Months
<1> QED
  BY <1>1, <1>2, EmberCohort, EmberWindows
  DEF Ember!CohortHasSufficientMaliciousSupport, CohortHasSufficientMaliciousSupport

\* An encoder is trained from the same records under the same condition.
LEMMA EmberTrains ==
  ASSUME release \in EmberReleases, NEW e
  PROVE  /\ Ember!TrainsCutoffRepresentationEncoder(e) <=> TrainsCutoffRepresentationEncoder(e)
         /\ Ember!MonthsOf({r \in release : r.label # "none" /\ r.month < e})
              = MonthsOf(CutoffSafe(e))
<1> DEFINE safe == MonthsOf(CutoffSafe(e))
           last == Latest(safe)
<1>1. /\ Ember!MonthsOf({r \in release : r.label # "none" /\ r.month < e}) = safe
      /\ Ember!Latest(safe) = last
  BY EmberCohort DEF Ember!MonthsOf, MonthsOf, Ember!Latest, Latest
<1>2. Ember!TrainsCutoffRepresentationEncoder(e)
        <=> safe # {} /\ {m \in safe : m < last} # {}
  BY <1>1 DEF Ember!TrainsCutoffRepresentationEncoder
<1>3. TrainsCutoffRepresentationEncoder(e)
        <=> CutoffSafe(e) # {} /\ \E r \in CutoffSafe(e) : r.month < last
  BY DEF TrainsCutoffRepresentationEncoder
<1> HIDE DEF last
<1>4. /\ safe # {} <=> CutoffSafe(e) # {}
      /\ {m \in safe : m < last} # {} <=> \E r \in CutoffSafe(e) : r.month < last
  BY DEF MonthsOf
<1> QED
  BY <1>1, <1>2, <1>3, <1>4

\* The history of a cutoff.
LEMMA EmberHistory ==
  ASSUME release \in EmberReleases, DominantMaliciousFamilyCohort # NoFamily, NEW e \in Nat
  PROVE  /\ Ember!FirstCutoff = FirstCutoff
         /\ Ember!HistoricalEndpoints(e) = HistoricalEndpoints(CohortEarliest, e)
         /\ HistoricalEndpoints(CohortEarliest, e) \in SUBSET Int
         /\ Ember!LacksPrivateHistory(e) <=> ~ HasPrivateTerm(CohortEarliest, e)
<1>1. /\ CohortEarliest \in Int /\ Earliest(MonthsOf(CohortRecords)) \in Int
      /\ History \in Int
  BY EmberCohort, CohortCalendar, Parameters
<1>2. Ember!FirstCutoff = FirstCutoff
  <2>1. Ember!FirstCutoff
          = Ember!Latest({CohortEarliest, Earliest(MonthsOf(CohortRecords)) + 1})
    BY EmberCohort DEF Ember!FirstCutoff, Ember!Earliest, Earliest, Ember!MonthsOf, MonthsOf
  <2> QED
    BY <1>1, <2>1, LatestOfTwo DEF FirstCutoff
<1>3. Ember!WindowStart(e) = HistoryStart(CohortEarliest, e)
  <2>1. e - History \in Int
    BY <1>1
  <2> QED
    BY <1>1, <2>1, EmberCohort, LatestOfTwo DEF Ember!WindowStart, HistoryStart
<1>4. /\ Ember!HistoricalEndpoints(e) = HistoricalEndpoints(CohortEarliest, e)
      /\ Ember!EarlierMaliciousEndpoints(e) = EarlierMaliciousEndpoints(CohortEarliest, e)
  BY <1>3 DEF Ember!HistoricalEndpoints, HistoricalEndpoints, Ember!EarlierMaliciousEndpoints,
    EarlierMaliciousEndpoints, Ember!Months, Months
<1>5. HistoryStart(CohortEarliest, e) \in Int
  BY <1>1 DEF HistoryStart
<1>6. Residuals(CohortEarliest, e) \in Nat
  <2> DEFINE earlier == EarlierMaliciousEndpoints(CohortEarliest, e)
             supported == {x \in earlier : IsTransitionSupported(x)}
  <2>1. IsFiniteSet(earlier)
    <3>1. earlier = HistoryStart(CohortEarliest, e) .. (e - 2) /\ e - 2 \in Int
      BY <1>5 DEF EarlierMaliciousEndpoints, Months
    <3> QED
      BY <1>5, <3>1, FS_Interval
  <2>2. supported \in SUBSET earlier
    OBVIOUS
  <2> HIDE DEF earlier
  <2>3. Cardinality(supported) \in Nat
    BY <2>1, <2>2, FS_Subset, FS_CardinalityType
  <2> QED
    BY <2>3 DEF Residuals, earlier
<1>7. Ember!LacksPrivateHistory(e) <=> ~ HasPrivateTerm(CohortEarliest, e)
  <2>1. Ember!LacksPrivateHistory(e)
          <=> \/ Residuals(CohortEarliest, e) < MinResiduals
              \/ Residuals(CohortEarliest, e) < 2
    BY <1>4, EmberWindows, MappedCardinality DEF Ember!LacksPrivateHistory, Residuals
  <2> QED
    BY <1>6, <2>1, Parameters DEF HasPrivateTerm
<1>8. HistoricalEndpoints(CohortEarliest, e) \in SUBSET Int
  BY <1>5 DEF HistoricalEndpoints, Months
<1> QED
  BY <1>2, <1>4, <1>7, <1>8

\* The best replicate of a cutoff is the same, though one study sorts and the other
\* compares.
LEMMA EmberBest ==
  ASSUME release \in EmberReleases, NEW e,
         Ember!HistoricalEndpoints(e) \in SUBSET Int
  PROVE  Ember!BestReplicate(e)
           = BestReplicate(ControlTransitionReplicates(Ember!HistoricalEndpoints(e)))
<1> DEFINE R == ControlTransitionReplicates(Ember!HistoricalEndpoints(e))
           b(x) == Support(Controls, BeforeWindow(x, Interval))
           a(x) == Support(Controls, AfterWindow(x, Interval))
           AtLeast(x, y) == a(x) * b(x) * (a(y) + b(y)) >= a(y) * b(y) * (a(x) + b(x))
<1>1. R \in SUBSET Int /\ R = ControlTransitionReplicates(R)
  BY DEF ControlTransitionReplicates
<1>2. Ember!ReplicatesOf(Ember!HistoricalEndpoints(e)) = R
  BY EmberWindows
<1>3. \A x : /\ Ember!Support(Ember!Controls, Ember!BeforeWindow(x, Interval)) = b(x)
             /\ Ember!Support(Ember!Controls, Ember!AfterWindow(x, Interval)) = a(x)
  BY EmberWindows, EmberCohort
<1> HIDE DEF R
<1>4. Ember!BestReplicate(e) = Ember!Earliest({x \in R : \A y \in R : AtLeast(x, y)})
  <2> HIDE DEF a, b
  <2> QED
    BY <1>2, <1>3 DEF Ember!BestReplicate
<1>5. \A months : Ember!Earliest(months) = Earliest(months)
  BY DEF Ember!Earliest, Earliest
<1>6. BestReplicate(R) = Earliest({x \in R : \A y \in R : AtLeast(x, y)})
  BY <1>1, EmberCohort, BestIsEarliest
<1> QED
  BY <1>4, <1>5, <1>6 DEF R

\* At every cutoff the two studies come to the same verdict, the same ablations and the same
\* rows, of choices made from the same months.
LEMMA EmberVerdict ==
  ASSUME release \in EmberReleases, DominantMaliciousFamilyCohort # NoFamily, endpoint \in Nat
  PROVE  /\ Ember!Verdict = CutoffVerdict
         /\ Ember!RowsRead = CutoffRows
         /\ Ember!ChoiceMonths = ChoiceMonths
         /\ /\ Ember!CohortHasSufficientMaliciousSupport(endpoint)
            /\ Ember!TrainsCutoffRepresentationEncoder(endpoint)
            <=> CohortHasSufficientMaliciousSupport(endpoint)
         /\ Ember!FitEmber2024ClientConstraintNoControls(endpoint)
              <=> FitNoControls(CohortEarliest, endpoint) = "fitted"
         /\ Ember!FitEmber2024ClientConstraintOneMatchedControl(endpoint)
              <=> FitOneMatchedControl(CohortEarliest, endpoint, DiagnosedReplicates) = "fitted"
<1>1. /\ Ember!CohortHasSufficientMaliciousSupport(endpoint)
           <=> CohortHasSufficientMaliciousSupport(endpoint)
      /\ Ember!TrainsCutoffRepresentationEncoder(endpoint)
           <=> TrainsCutoffRepresentationEncoder(endpoint)
      /\ Ember!IsTransitionSupported(endpoint) <=> IsTransitionSupported(endpoint)
      /\ Ember!LacksPrivateHistory(endpoint) <=> ~ HasPrivateTerm(CohortEarliest, endpoint)
  <2>1. endpoint \in Int
    OBVIOUS
  <2>2. Ember!CohortHasSufficientMaliciousSupport(endpoint)
          <=> CohortHasSufficientMaliciousSupport(endpoint)
    BY <2>1, EmberSupport
  <2>3. Ember!TrainsCutoffRepresentationEncoder(endpoint)
          <=> TrainsCutoffRepresentationEncoder(endpoint)
    BY EmberTrains
  <2>4. Ember!LacksPrivateHistory(endpoint) <=> ~ HasPrivateTerm(CohortEarliest, endpoint)
    BY EmberHistory
  <2> QED
    BY <2>2, <2>3, <2>4, EmberWindows
<1>2. CohortHasSufficientMaliciousSupport(endpoint) => TrainsCutoffRepresentationEncoder(endpoint)
  BY EmberCohort, SupportSuffices
<1>3. /\ Ember!HistoricalEndpoints(endpoint) = HistoricalEndpoints(CohortEarliest, endpoint)
      /\ Ember!HistoricalEndpoints(endpoint) \in SUBSET Int
      /\ Ember!ReplicatesOf(Ember!HistoricalEndpoints(endpoint)) = DiagnosedReplicates
  BY EmberHistory, EmberWindows DEF DiagnosedReplicates
<1>4. Ember!FitEmber2024ClientConstraint(endpoint)
        = FitClientConstraint(CohortEarliest, endpoint, DiagnosedReplicates,
                              verdicts.rank[endpoint])
  BY <1>1, <1>3, MappedCardinality DEF Ember!FitEmber2024ClientConstraint, FitClientConstraint
<1>5. Ember!Verdict = CutoffVerdict
  BY <1>1, <1>2, <1>4 DEF Ember!Verdict, CutoffVerdict
<1>6. Ember!FitEmber2024ClientConstraintNoControls(endpoint)
        <=> FitNoControls(CohortEarliest, endpoint) = "fitted"
  BY <1>1 DEF Ember!FitEmber2024ClientConstraintNoControls, FitNoControls
<1>7. Ember!FitEmber2024ClientConstraintOneMatchedControl(endpoint)
        <=> FitOneMatchedControl(CohortEarliest, endpoint, DiagnosedReplicates) = "fitted"
  <2>1. Ember!BestReplicate(endpoint) = BestReplicate(DiagnosedReplicates)
    BY <1>3, EmberBest DEF DiagnosedReplicates
  <2> QED
    BY <1>1, <1>3, <2>1
    DEF Ember!FitEmber2024ClientConstraintOneMatchedControl, FitOneMatchedControl
<1>8. Ember!RowsRead = CutoffRows
  <2> DEFINE windows(e) == Ember!BeforeWindow(e, Interval) \cup Ember!AfterWindow(e, Interval)
             history == HistoricalEndpoints(CohortEarliest, endpoint)
  <2>1. \A e : windows(e) = TransitionMonths(e, Interval)
    BY EmberWindows DEF TransitionMonths
  <2>2. Ember!MonthsOf({r \in release : r.label # "none" /\ r.month < endpoint})
          = MonthsOf(CutoffSafe(endpoint))
    BY EmberTrains
  <2>3. UNION {windows(e) : e \in history \cup {endpoint}}
          = TransitionMonths(endpoint, Interval)
              \cup UNION {TransitionMonths(e, Interval) : e \in history}
    <3> HIDE DEF windows, history
    <3> QED
      BY <2>1
  <2>4. Ember!RowsRead
          = IF CohortHasSufficientMaliciousSupport(endpoint)
              THEN MonthsOf(CutoffSafe(endpoint))
                     \cup UNION {windows(e) : e \in history \cup {endpoint}}
              ELSE windows(endpoint)
    BY <1>1, <1>3, <2>2 DEF Ember!RowsRead
  <2> HIDE DEF windows, history
  <2>5. CutoffRows
          = IF CohortHasSufficientMaliciousSupport(endpoint)
              THEN MonthsOf(CutoffSafe(endpoint)) \cup TransitionMonths(endpoint, Interval)
                     \cup UNION {TransitionMonths(e, Interval) : e \in history}
              ELSE TransitionMonths(endpoint, Interval)
    BY DEF CutoffRows, FitRows, history
  <2> QED
    BY <2>1, <2>3, <2>4, <2>5
<1>9. Ember!ChoiceMonths = ChoiceMonths
  BY DEF Ember!ChoiceMonths, ChoiceMonths, Ember!MonthsOf, MonthsOf
<1> QED
  BY <1>1, <1>2, <1>5, <1>6, <1>7, <1>8, <1>9

-----------------------------------------------------------------------------
(* The diagnostics on EMBER2024: the refinement.                           *)

\* What holds between two steps of the EMBER2024 diagnostics.
EmberInv ==
  /\ release \in EmberReleases \cup {NoRelease}
  /\ stage = "cutoffs" =>
       /\ release # NoRelease
       /\ DominantMaliciousFamilyCohort # NoFamily
       /\ endpoint \in Nat

\* There is nothing to study exactly when the LAMDA diagnostics find no cohort.
LEMMA EmberUnusable ==
  ASSUME release \in EmberReleases, release # NoRelease
  PROVE  Ember!Unusable <=> DominantMaliciousFamilyCohort = NoFamily
<1>1. release = {} => DominantMaliciousFamilyCohort = NoFamily
  BY DEF DominantMaliciousFamilyCohort, Malicious, MostCommonFamily
<1> QED
  BY <1>1, EmberCohort DEF Ember!Unusable

\* Giving up and beginning are the two ways the LAMDA diagnostics start.
LEMMA EmberStarts ==
  ASSUME EmberInv, Ember!GiveUp \/ Ember!Begin
  PROVE  Ember!Lamda!StartDiagnostics /\ EmberInv'
<1>1. release = NoRelease => Ember!Unusable
  BY DEF Ember!Unusable
<1>2. release' = release /\ DominantMaliciousFamilyCohort' = DominantMaliciousFamilyCohort
  BY DEF Ember!GiveUp, Ember!Begin, DominantMaliciousFamilyCohort
<1>3. CASE Ember!GiveUp
  <2>1. Ember!Unusable /\ stage = "start" /\ stage' = "done" /\ outcome' = "INSUFFICIENT"
        /\ UNCHANGED <<release, verdicts, endpoint, entries>>
    BY <1>3 DEF Ember!GiveUp
  <2>2. release = NoRelease \/ DominantMaliciousFamilyCohort = NoFamily
    BY <2>1, EmberUnusable DEF EmberInv
  <2>3. Ember!Lamda!StartDiagnostics
    BY <2>1, <2>2, MappedCohort
    DEF Ember!Lamda!StartDiagnostics, Ember!Lamda!Finish, Ember!Lamda!Inputs
  <2> QED
    BY <1>2, <2>1, <2>3 DEF EmberInv
<1>4. CASE Ember!Begin
  <2>1. ~ Ember!Unusable /\ stage = "start" /\ stage' = "cutoffs" /\ endpoint' = Ember!FirstCutoff
        /\ UNCHANGED <<release, verdicts, entries, outcome>>
    BY <1>4 DEF Ember!Begin
  <2>2. release # NoRelease /\ release \in EmberReleases
    BY <1>1, <2>1 DEF EmberInv
  <2>3. DominantMaliciousFamilyCohort # NoFamily
    BY <2>1, <2>2, EmberUnusable
  <2>4. Ember!FirstCutoff = FirstCutoff /\ FirstCutoff \in Nat
    <3>1. 0 \in Nat
      OBVIOUS
    <3> QED
      BY <2>2, <2>3, <3>1, EmberHistory, EmberCohort, CohortCalendar
  <2>5. Ember!Lamda!StartDiagnostics
    BY <2>1, <2>2, <2>3, <2>4, MappedCohort
    DEF Ember!Lamda!StartDiagnostics, Ember!Lamda!Inputs
  <2> QED
    BY <1>2, <2>1, <2>2, <2>3, <2>4, <2>5 DEF EmberInv
<1> QED
  BY <1>3, <1>4

\* A cutoff examined is one fitted or one abstained from, with the same entry.
LEMMA EmberExamines ==
  ASSUME EmberInv, Ember!Examine
  PROVE  (Ember!Lamda!CutoffFitted \/ Ember!Lamda!CutoffAbstains) /\ EmberInv'
<1>1. /\ stage = "cutoffs" /\ endpoint <= Ember!LastCutoff
      /\ endpoint' = endpoint + Step
      /\ UNCHANGED <<release, verdicts, stage, outcome>>
  BY DEF Ember!Examine
<1>2. /\ release \in EmberReleases /\ release # NoRelease
      /\ DominantMaliciousFamilyCohort # NoFamily
      /\ endpoint \in Nat
  BY <1>1 DEF EmberInv
<1>3. Ember!Lamda!AtCutoff
  BY <1>1, <1>2, EmberCohort, MappedCohort DEF Ember!Lamda!AtCutoff
<1> DEFINE sufficient == CohortHasSufficientMaliciousSupport(endpoint)
           noControls == FitNoControls(CohortEarliest, endpoint) = "fitted"
           oneMatched ==
             FitOneMatchedControl(CohortEarliest, endpoint, DiagnosedReplicates) = "fitted"
<1>4. /\ sufficient \in BOOLEAN /\ noControls \in BOOLEAN /\ oneMatched \in BOOLEAN
  BY DEF CohortHasSufficientMaliciousSupport
<1>5. entries' = Append(entries,
        [cutoff     |-> endpoint,
         verdict    |-> CutoffVerdict,
         trained    |-> sufficient,
         noControls |-> CutoffVerdict = "fitted" /\ noControls,
         oneMatched |-> CutoffVerdict = "fitted" /\ oneMatched,
         rows       |-> CutoffRows,
         chosen     |-> ChoiceMonths])
  <2>1. entries' = Append(entries,
          [cutoff     |-> endpoint,
           verdict    |-> Ember!Verdict,
           trained    |-> Ember!CohortHasSufficientMaliciousSupport(endpoint)
                            /\ Ember!TrainsCutoffRepresentationEncoder(endpoint),
           noControls |-> Ember!Verdict = "fitted"
                            /\ Ember!FitEmber2024ClientConstraintNoControls(endpoint),
           oneMatched |-> Ember!Verdict = "fitted"
                            /\ Ember!FitEmber2024ClientConstraintOneMatchedControl(endpoint),
           rows       |-> Ember!RowsRead,
           chosen     |-> Ember!ChoiceMonths])
    BY DEF Ember!Examine
  <2>2. (/\ Ember!CohortHasSufficientMaliciousSupport(endpoint)
         /\ Ember!TrainsCutoffRepresentationEncoder(endpoint)) = sufficient
    BY <1>2, <1>4, EmberVerdict
  <2>3. (Ember!Verdict = "fitted" /\ Ember!FitEmber2024ClientConstraintNoControls(endpoint))
          = (CutoffVerdict = "fitted" /\ noControls)
    BY <1>2, <1>4, EmberVerdict
  <2>4. (/\ Ember!Verdict = "fitted"
         /\ Ember!FitEmber2024ClientConstraintOneMatchedControl(endpoint))
          = (CutoffVerdict = "fitted" /\ oneMatched)
    BY <1>2, <1>4, EmberVerdict
  <2>5. Ember!Verdict = CutoffVerdict /\ Ember!RowsRead = CutoffRows
        /\ Ember!ChoiceMonths = ChoiceMonths
    BY <1>2, EmberVerdict
  <2> HIDE DEF sufficient, noControls, oneMatched
  <2> QED
    BY <2>1, <2>2, <2>3, <2>4, <2>5
<1>6. /\ sufficient <=> Ember!Lamda!CohortHasSufficientMaliciousSupport(endpoint)
                         /\ Ember!Lamda!TrainsCutoffRepresentationEncoder(endpoint)
      /\ CutoffVerdict = "fitted" => sufficient
  <2>1. sufficient => TrainsCutoffRepresentationEncoder(endpoint)
    BY <1>2, EmberCohort, SupportSuffices
  <2> QED
    BY <1>2, <2>1, EmberCohort, MappedWindows, CutoffVerdictIsSound
<1>7. Ember!Lamda!FitNoControls(Ember!Lamda!CohortEarliest, endpoint)
        = FitNoControls(CohortEarliest, endpoint)
  BY MappedCohort, MappedFits
<1>8. Ember!Lamda!FitOneMatchedControl(Ember!Lamda!CohortEarliest, endpoint,
                                       Ember!Lamda!DiagnosedReplicates)
        = FitOneMatchedControl(CohortEarliest, endpoint, DiagnosedReplicates)
  BY MappedCohort, MappedFits
<1>9. EmberInv'
  <2>1. DominantMaliciousFamilyCohort' = DominantMaliciousFamilyCohort
    BY <1>1 DEF DominantMaliciousFamilyCohort
  <2> QED
    BY <1>1, <1>2, <2>1, Parameters DEF EmberInv
<1>10. CASE CutoffVerdict = "fitted"
  <2> HIDE DEF sufficient
  <2>1. sufficient = TRUE
    BY <1>4, <1>6, <1>10
  <2>2. entries' = Append(entries,
          [cutoff |-> endpoint, verdict |-> "fitted", trained |-> TRUE,
           noControls |-> noControls, oneMatched |-> oneMatched,
           rows |-> CutoffRows, chosen |-> ChoiceMonths])
    BY <1>4, <1>5, <1>10, <2>1
  <2>3. Ember!Lamda!CutoffFitted
    BY <1>1, <1>3, <1>7, <1>8, <1>10, <2>2, MappedFits
    DEF Ember!Lamda!CutoffFitted, Ember!Lamda!RecordCutoff, Ember!Lamda!CutoffEntry,
        Ember!Lamda!Inputs
  <2> QED
    BY <1>9, <2>3
<1>11. CASE CutoffVerdict # "fitted"
  <2>1. entries' = Append(entries,
          [cutoff |-> endpoint, verdict |-> CutoffVerdict, trained |-> sufficient,
           noControls |-> FALSE, oneMatched |-> FALSE,
           rows |-> CutoffRows, chosen |-> ChoiceMonths])
    BY <1>5, <1>11
  <2>2. (/\ Ember!Lamda!CohortHasSufficientMaliciousSupport(endpoint)
         /\ Ember!Lamda!TrainsCutoffRepresentationEncoder(endpoint)) = sufficient
    BY <1>4, <1>6
  <2> HIDE DEF sufficient
  <2>3. Ember!Lamda!CutoffAbstains
    BY <1>1, <1>3, <1>11, <2>1, <2>2, MappedFits
    DEF Ember!Lamda!CutoffAbstains, Ember!Lamda!RecordCutoff, Ember!Lamda!CutoffEntry,
        Ember!Lamda!Inputs
  <2> QED
    BY <1>9, <2>3
<1> QED
  BY <1>10, <1>11

(***************************************************************************)
(* On every release without detection counts the EMBER2024 diagnostics     *)
(* take the steps of the LAMDA diagnostics: the same cutoffs, verdicts,    *)
(* ablations, rows and choice (run_ember2024_identification_diagnostics,         *)
(* run_lamda_identification_diagnostics).                                  *)
(***************************************************************************)
THEOREM EmberCorrect == Ember!Spec => Ember!ImplementsLamda
<1>1. Ember!Init => Ember!Lamda!Init /\ EmberInv
  BY DEF Ember!Init, Ember!Lamda!Init, Ember!Lamda!Jobs, Ember!Lamda!NoContext, EmberInv
<1>2. EmberInv /\ [Ember!Next]_(Ember!vars)
        => [Ember!Lamda!Next]_(Ember!Lamda!vars) /\ EmberInv'
  <2> SUFFICES ASSUME EmberInv, [Ember!Next]_(Ember!vars)
               PROVE  [Ember!Lamda!Next]_(Ember!Lamda!vars) /\ EmberInv'
    OBVIOUS
  <2>1. CASE Ember!GiveUp \/ Ember!Begin
    BY <2>1, EmberStarts DEF Ember!Lamda!Next
  <2>2. CASE Ember!Examine
    BY <2>2, EmberExamines DEF Ember!Lamda!Next
  <2>3. CASE Ember!WriteDiagnostics
    <3>1. stage = "cutoffs" /\ endpoint > Ember!LastCutoff /\ stage' = "done"
          /\ outcome' = (IF \E i \in DOMAIN entries : entries[i].verdict = "fitted"
                           THEN "PASS" ELSE "INSUFFICIENT")
          /\ UNCHANGED <<release, verdicts, endpoint, entries>>
      BY <2>3 DEF Ember!WriteDiagnostics
    <3>2. endpoint > Ember!Lamda!LastCutoff
      BY <3>1, EmberCohort, MappedCohort DEF EmberInv
    <3>3. Ember!Lamda!WriteDiagnostics
      BY <3>1, <3>2
      DEF Ember!Lamda!WriteDiagnostics, Ember!Lamda!Finish, Ember!Lamda!Inputs
    <3> QED
      BY <3>1, <3>3 DEF Ember!Lamda!Next, EmberInv
  <2>4. CASE UNCHANGED Ember!vars
    <3>1. UNCHANGED <<release, verdicts, stage, endpoint, entries, outcome>>
      BY <2>4 DEF Ember!vars
    <3>2. DominantMaliciousFamilyCohort' = DominantMaliciousFamilyCohort
      BY <3>1 DEF DominantMaliciousFamilyCohort
    <3> QED
      BY <3>1, <3>2 DEF Ember!Lamda!vars, EmberInv
  <2> QED
    BY <2>1, <2>2, <2>3, <2>4 DEF Ember!Next
<1> QED
  BY <1>1, <1>2, PTL DEF Ember!Spec, Ember!ImplementsLamda, Ember!Lamda!Spec

=============================================================================
