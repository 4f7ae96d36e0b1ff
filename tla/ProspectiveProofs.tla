-------------------------- MODULE ProspectiveProofs --------------------------
(***************************************************************************)
(* Theorems about Prospective for every release, every certificate file    *)
(* and hardening runs of any length.                                       *)
(***************************************************************************)
EXTENDS Prospective, CountingLemmas

-----------------------------------------------------------------------------
(* The epoch that is kept.                                                 *)

HardeningRun == {run \in Seq([objective : Int, missed : SUBSET Nat]) : run # <<>>}

\* One turn of the loop over the epochs: best[e] from best[e - 1].
Turn(run, eligible, best, e) ==
  IF e = 1 THEN 1
  ELSE IF e \in eligible /\ run[e].objective < run[best[e - 1]].objective - TieTolerance
       THEN e ELSE best[e - 1]

\* The loop can be run over any number of epochs.
LEMMA BestExists ==
  ASSUME NEW run, NEW eligible, NEW n \in Nat
  PROVE  \E best : best = [e \in 1 .. n |-> Turn(run, eligible, best, e)]
<1> DEFINE Reaches(k) == \E best : best = [e \in 1 .. k |-> Turn(run, eligible, best, e)]
           Stuck == {k \in Nat : ~ Reaches(k)}
<1>1. ASSUME Stuck # {} PROVE FALSE
  <2>1. PICK k \in Stuck : \A m \in Stuck : k <= m
    <3>1. Stuck \in SUBSET Nat
      OBVIOUS
    <3> HIDE DEF Stuck
    <3> QED
      BY <1>1, <3>1, LeastNatural
  <2>2. k \in Nat /\ ~ Reaches(k)
    OBVIOUS
  <2>3. Reaches(0)
    <3> DEFINE best == [e \in 1 .. 0 |-> 1]
    <3>1. best = [e \in 1 .. 0 |-> Turn(run, eligible, best, e)]
      OBVIOUS
    <3> HIDE DEF best
    <3> QED
      BY <3>1
  <2>4. k # 0
    BY <2>2, <2>3
  <2>5. k - 1 \in Nat /\ k - 1 \notin Stuck
    BY <2>1, <2>2, <2>4
  <2>6. PICK best : best = [e \in 1 .. (k - 1) |-> Turn(run, eligible, best, e)]
    BY <2>5
  <2> DEFINE longer == [e \in 1 .. k |-> IF e = k THEN Turn(run, eligible, best, k) ELSE best[e]]
  <2>7. \A e \in 1 .. k : longer[e] = Turn(run, eligible, longer, e)
    <3> TAKE e \in 1 .. k
    <3>1. e # 1 => longer[e - 1] = best[e - 1]
      BY <2>2
    <3>2. Turn(run, eligible, longer, e) = Turn(run, eligible, best, e)
      BY <3>1 DEF Turn
    <3>3. CASE e = k
      BY <3>2, <3>3
    <3>4. CASE e # k
      <4>1. e \in 1 .. (k - 1) /\ longer[e] = best[e]
        BY <2>2, <3>4
      <4>2. best[e] = Turn(run, eligible, best, e)
        BY <2>6, <4>1
      <4> QED
        BY <3>2, <4>1, <4>2
    <3> QED
      BY <3>3, <3>4
  <2>8. longer = [e \in 1 .. k |-> longer[e]]
    OBVIOUS
  <2>9. longer = [e \in 1 .. k |-> Turn(run, eligible, longer, e)]
    <3> HIDE DEF longer
    <3> QED
      BY <2>7, <2>8
  <2>10. Reaches(k)
    <3> HIDE DEF longer
    <3> QED
      BY <2>9
  <2> QED
    BY <2>2, <2>10
<1> QED
  BY <1>1

\* The running best is the first epoch or an admissible one, and never worse than an
\* admissible epoch by more than the tolerance.
LEMMA RunningBest ==
  ASSUME NEW run \in HardeningRun, NEW eligible, NEW best,
         best = [e \in DOMAIN run |-> Turn(run, eligible, best, e)]
  PROVE  \A n \in DOMAIN run :
           /\ best[n] \in DOMAIN run /\ (best[n] = 1 \/ best[n] \in eligible)
           /\ \A e \in 1 .. n : e \in eligible =>
                run[best[n]].objective <= run[e].objective + TieTolerance
<1> DEFINE Near(n) == /\ best[n] \in DOMAIN run /\ (best[n] = 1 \/ best[n] \in eligible)
                      /\ \A e \in 1 .. n : e \in eligible =>
                           run[best[n]].objective <= run[e].objective + TieTolerance
           Far == {n \in DOMAIN run : ~ Near(n)}
<1>1. /\ DOMAIN run = 1 .. Len(run) /\ Len(run) \in Nat /\ TieTolerance \in Nat
      /\ \A e \in DOMAIN run : run[e].objective \in Int
  <2> DEFINE Epochs == [objective : Int, missed : SUBSET Nat]
  <2>1. run \in Seq(Epochs)
    BY DEF HardeningRun
  <2>2. /\ DOMAIN run = 1 .. Len(run) /\ Len(run) \in Nat
        /\ \A e \in DOMAIN run : run[e] \in Epochs
    <3> HIDE DEF Epochs
    <3> QED
      BY <2>1
  <2>3. \A e \in DOMAIN run : run[e].objective \in Int
    BY <2>2
  <2> QED
    BY <2>2, <2>3, HardeningAssumption
<1>2. ASSUME Far # {} PROVE FALSE
  <2>1. PICK n \in Far : \A m \in Far : n <= m
    <3>1. Far \in SUBSET Nat
      BY <1>1
    <3> HIDE DEF Far
    <3> QED
      BY <1>2, <3>1, LeastNatural
  <2>2. n \in DOMAIN run /\ ~ Near(n) /\ n \in Nat
    BY <1>1
  <2>3. best[n] = Turn(run, eligible, best, n)
    BY <2>2
  <2>4. CASE n = 1
    <3>1. best[n] = 1
      BY <2>3, <2>4 DEF Turn
    <3> QED
      BY <1>1, <2>2, <2>4, <3>1
  <2>5. CASE n # 1
    <3>1. n - 1 \in DOMAIN run /\ n - 1 < n
      BY <1>1, <2>2, <2>5
    <3>2. Near(n - 1)
      BY <1>1, <2>1, <2>2, <3>1
    <3> DEFINE before == best[n - 1]
    <3>3. before \in DOMAIN run /\ run[before].objective \in Int /\ run[n].objective \in Int
      BY <1>1, <2>2, <3>2
    <3>4. \A e \in 1 .. n : e \in eligible /\ e # n =>
            /\ run[before].objective <= run[e].objective + TieTolerance
            /\ run[e].objective \in Int
      <4> TAKE e \in 1 .. n
      <4> SUFFICES ASSUME e \in eligible, e # n
                   PROVE  /\ run[before].objective <= run[e].objective + TieTolerance
                          /\ run[e].objective \in Int
        OBVIOUS
      <4>1. e \in 1 .. (n - 1) /\ e \in DOMAIN run
        BY <1>1, <2>2
      <4>2. run[before].objective <= run[e].objective + TieTolerance
        BY <3>2, <4>1
      <4>3. run[e].objective \in Int
        BY <1>1, <4>1
      <4> QED
        BY <4>2, <4>3
    <3>5. CASE n \in eligible /\ run[n].objective < run[before].objective - TieTolerance
      <4>1. best[n] = n
        BY <2>3, <2>5, <3>5 DEF Turn
      <4>2. \A e \in 1 .. n : e \in eligible =>
              run[n].objective <= run[e].objective + TieTolerance
        <5> TAKE e \in 1 .. n
        <5>1. CASE e = n
          BY <1>1, <3>3, <5>1
        <5>2. CASE e # n
          BY <1>1, <3>3, <3>4, <3>5, <5>2
        <5> QED
          BY <5>1, <5>2
      <4> QED
        BY <2>2, <3>5, <4>1, <4>2
    <3>6. CASE ~ (n \in eligible /\ run[n].objective < run[before].objective - TieTolerance)
      <4>1. best[n] = before
        BY <2>3, <2>5, <3>6 DEF Turn
      <4>2. \A e \in 1 .. n : e \in eligible =>
              run[before].objective <= run[e].objective + TieTolerance
        <5> TAKE e \in 1 .. n
        <5>1. CASE e = n
          BY <1>1, <3>3, <3>6, <5>1
        <5>2. CASE e # n
          BY <3>4, <5>2
        <5> QED
          BY <5>1, <5>2
      <4> QED
        BY <2>2, <3>2, <3>3, <4>1, <4>2
    <3> QED
      BY <3>5, <3>6
  <2> QED
    BY <2>4, <2>5
<1> QED
  BY <1>2

\* What SelectEpoch keeps is the first epoch or an admissible one, and near the best
\* admissible one, for a run of any length.
LEMMA SelectedEpoch ==
  ASSUME NEW run \in HardeningRun, NEW validation
  PROVE  LET kept     == SelectEpoch(run, validation)
             eligible == EligibleEpochs(run, validation)
         IN  /\ kept = 1 \/ kept \in eligible
             /\ \A e \in eligible : run[kept].objective <= run[e].objective + TieTolerance
<1> DEFINE eligible == EligibleEpochs(run, validation)
           best == CHOOSE f : f = [n \in DOMAIN run |-> Turn(run, eligible, f, n)]
<1>1. /\ DOMAIN run = 1 .. Len(run) /\ Len(run) \in Nat /\ Len(run) \in DOMAIN run
      /\ eligible \subseteq DOMAIN run
  BY DEF HardeningRun, EligibleEpochs
<1>2. SelectEpoch(run, validation) = best[Len(run)]
  BY DEF SelectEpoch, Turn
<1>3. best = [n \in DOMAIN run |-> Turn(run, eligible, best, n)]
  <2>1. \E f : f = [n \in DOMAIN run |-> Turn(run, eligible, f, n)]
    <3> HIDE DEF eligible
    <3>1. PICK f : f = [n \in 1 .. Len(run) |-> Turn(run, eligible, f, n)]
      BY <1>1, BestExists
    <3> QED
      BY <1>1, <3>1
  <2> QED
    BY <2>1
<1> HIDE DEF best
<1>4. /\ best[Len(run)] = 1 \/ best[Len(run)] \in eligible
      /\ \A k \in 1 .. Len(run) : k \in eligible =>
           run[best[Len(run)]].objective <= run[k].objective + TieTolerance
  <2> HIDE DEF eligible
  <2> QED
    BY <1>1, <1>3, RunningBest
<1> QED
  BY <1>1, <1>2, <1>4

-----------------------------------------------------------------------------
(* The evaluation.                                                         *)

\* What a comparison is made of; the data stay.
ComparisonsOK ==
  /\ \E S : comparisons \in Seq(S)
  /\ \A k \in DOMAIN comparisons :
       /\ comparisons[k].cutoff \in Int
       /\ comparisons[k].run \in Runs
       /\ comparisons[k].epoch = KeptEpoch(comparisons[k].cutoff, comparisons[k].run)
  /\ decisions = NoFile => comparisons = <<>>

IInv ==
  /\ IsFiniteSet(population)
  /\ \A r \in population : r.month \in Nat
  /\ \A r, s \in population : r.id = s.id => r = s
  /\ release \in Populations \cup {NoRelease}
  /\ population = LoadLamdaPopulation(release)
  /\ decisions \in DecisionFiles \cup {NoFile}
  /\ IsGenerated(decisions)
  /\ decisions = NoFile => plan = <<>>
  /\ examined \in Seq(Int)
  /\ ComparisonsOK

\* What is computed from the data alone does not change while the data stay.
LEMMA SameInputs ==
  ASSUME UNCHANGED Inputs
  PROVE  /\ \A c, run : KeptEpoch(c, run)' = KeptEpoch(c, run)
         /\ IsGenerated(decisions)' <=> IsGenerated(decisions)
<1>1. release' = release /\ population' = population /\ challenges' = challenges /\ decisions' = decisions
  BY DEF Inputs
<1>2. \A c : Validation(c)' = Validation(c)
  BY <1>1 DEF Validation, ValidationMonth, Historical
<1>3. IsHardened' <=> IsHardened
  BY <1>1 DEF IsHardened
<1> QED
  BY <1>1, <1>2, <1>3 DEF KeptEpoch, IsGenerated

\* The records of a release keep their rows and months when their labels are audited.
LEMMA LoadedRecords ==
  ASSUME release \in Populations \cup {NoRelease}
  PROVE  LET loaded == LoadLamdaPopulation(release)
         IN  /\ IsFiniteSet(loaded)
             /\ \A r \in loaded : r.month \in Nat
             /\ \A r, s \in loaded : r.id = s.id => r = s
<1>1. CASE release = NoRelease
  BY <1>1, FS_EmptySet DEF LoadLamdaPopulation
<1>2. CASE release # NoRelease
  <2>1. IsRelease(release)
    BY <1>2, ProspectiveAssumption
  <2>2. \A r \in LoadLamdaPopulation(release) : \E s \in release :
          r = [s EXCEPT !.label = AuditedLabel(s)]
    BY <1>2 DEF LoadLamdaPopulation
  <2>3. \A s \in release : LET r == [s EXCEPT !.label = AuditedLabel(s)]
                           IN  r.month = s.month /\ r.id = s.id
    OBVIOUS
  <2>4. \A r \in LoadLamdaPopulation(release) : \E s \in release :
          r.month = s.month /\ r.id = s.id /\ r = [s EXCEPT !.label = AuditedLabel(s)]
    BY <2>2, <2>3
  <2>5. ASSUME NEW r \in LoadLamdaPopulation(release), NEW s \in LoadLamdaPopulation(release),
               r.id = s.id
        PROVE  r = s
    <3>1. PICK a \in release : r.id = a.id /\ r = [a EXCEPT !.label = AuditedLabel(a)]
      BY <2>4
    <3>2. PICK b \in release : s.id = b.id /\ s = [b EXCEPT !.label = AuditedLabel(b)]
      BY <2>4
    <3>3. a = b
      BY <2>1, <2>5, <3>1, <3>2 DEF IsRelease
    <3> QED
      BY <3>1, <3>2, <3>3
  <2>6. \A r \in LoadLamdaPopulation(release) : r.month \in Nat
    BY <2>1, <2>4 DEF IsRelease
  <2>7. IsFiniteSet(LoadLamdaPopulation(release))
    <3> DEFINE counted == {s \in release : AuditedLabel(s) # "none"}
               audited == [s \in counted |-> [s EXCEPT !.label = AuditedLabel(s)]]
    <3>1. IsFiniteSet(counted)
      BY <2>1, FS_Subset DEF IsRelease
    <3>2. IsFiniteSet({audited[s] : s \in counted})
      <4>1. audited = [s \in counted |-> audited[s]]
        OBVIOUS
      <4> HIDE DEF audited, counted
      <4> QED
        BY <3>1, <4>1, FiniteRange
    <3>3. LoadLamdaPopulation(release) = {audited[s] : s \in counted}
      BY <1>2 DEF LoadLamdaPopulation
    <3> QED
      BY <3>2, <3>3
  <2> QED
    BY <2>5, <2>6, <2>7
<1> QED
  BY <1>1, <1>2

\* A sample with rows has a last one.
LEMMA LastRowIsARow ==
  ASSUME NEW records, IsRelease(records), NEW rows \in SUBSET records, rows # {}
  PROVE  LastRow(rows) \in rows
<1>1. IsFiniteSet(rows) /\ \A r \in rows : r.id \in Nat
  BY FS_Subset DEF IsRelease
<1> DEFINE ids == {r.id : r \in rows}
<1>2. IsFiniteSet(ids) /\ ids \in SUBSET Nat /\ ids # {}
  <2> DEFINE idOf == [r \in rows |-> r.id]
  <2>1. idOf = [r \in rows |-> idOf[r]]
    OBVIOUS
  <2>2. IsFiniteSet({idOf[r] : r \in rows})
    <3> HIDE DEF idOf
    <3> QED
      BY <1>1, <2>1, FiniteRange
  <2>3. ids = {idOf[r] : r \in rows}
    OBVIOUS
  <2> QED
    BY <1>1, <2>2, <2>3
<1>3. PICK n \in ids : \A m \in ids : m <= n
  <2> HIDE DEF ids
  <2> QED
    BY <1>2, GreatestNatural
<1>4. PICK r \in rows : r.id = n
  BY <1>3
<1>5. \A s \in rows : s.id <= r.id
  BY <1>3, <1>4
<1> QED
  BY <1>5 DEF LastRow

\* The data an evaluation starts from, with no comparison yet.
LEMMA InitInv == Init => IInv
<1> SUFFICES ASSUME Init PROVE IInv
  OBVIOUS
<1>1. release \in Populations \cup {NoRelease} /\ population = LoadLamdaPopulation(release)
  BY DEF Init
<1>2. /\ IsFiniteSet(population)
      /\ \A r \in population : r.month \in Nat
      /\ \A r, s \in population : r.id = s.id => r = s
  BY <1>1, LoadedRecords
<1>3. comparisons = <<>> /\ comparisons \in Seq({}) /\ examined \in Seq(Int)
  BY DEF Init
<1>4. ComparisonsOK
  BY <1>3 DEF ComparisonsOK
<1>5. decisions = NoFile => plan = <<>>
  BY DEF Init, EligiblePlan
<1> QED
  BY <1>1, <1>2, <1>3, <1>4, <1>5 DEF IInv, Init

\* A cutoff that is next is one that a plan made of decisions has.
LEMMA NextIsPlanned ==
  ASSUME IInv, NEW cutoff \in EligibleCutoffs, IsNext(cutoff)
  PROVE  cutoff \in Int /\ decisions # NoFile
<1>1. cutoff \in Int
  BY DEF EligibleCutoffs, Months
<1>2. plan # <<>>
  BY DEF IInv, IsNext
<1> QED
  BY <1>1, <1>2 DEF IInv

\* Every step appends to what was examined and compared, or leaves both.
LEMMA StepInv == IInv /\ [Next]_vars => IInv'
<1> SUFFICES ASSUME IInv, [Next]_vars PROVE IInv'
  OBVIOUS
<1>1. UNCHANGED Inputs
  BY DEF Next, SkipCutoff, EvaluateCutoff, RaiseInForecast, Conclude, SynthesisRaises,
     Synthesize, vars, Inputs
<1>2. /\ release' = release /\ population' = population /\ plan' = plan /\ decisions' = decisions
      /\ \A c, run : KeptEpoch(c, run)' = KeptEpoch(c, run)
      /\ IsGenerated(decisions)'
  BY <1>1, SameInputs DEF Inputs, IInv
<1>3. CASE SkipCutoff
  <2>1. PICK cutoff \in EligibleCutoffs :
          IsNext(cutoff) /\ examined' = Append(examined, cutoff) /\ comparisons' = comparisons
    BY <1>3 DEF SkipCutoff
  <2>2. examined' \in Seq(Int)
    BY <2>1, NextIsPlanned DEF IInv
  <2> QED
    BY <1>2, <2>1, <2>2 DEF IInv, ComparisonsOK
<1>4. CASE EvaluateCutoff
  <2>1. PICK cutoff \in EligibleCutoffs, run \in Runs :
          /\ IsNext(cutoff) /\ examined' = Append(examined, cutoff)
          /\ comparisons' = Append(comparisons, Comparison(cutoff, run))
    BY <1>4 DEF EvaluateCutoff
  <2>2. cutoff \in Int /\ decisions # NoFile /\ examined' \in Seq(Int)
    BY <2>1, NextIsPlanned DEF IInv
  <2> DEFINE new == Comparison(cutoff, run)
  <2>3. new.cutoff = cutoff /\ new.run = run /\ new.epoch = KeptEpoch(cutoff, run)
    BY DEF Comparison
  <2>4. PICK S : comparisons \in Seq(S)
    BY DEF IInv, ComparisonsOK
  <2> HIDE DEF new
  <2>5. comparisons' \in Seq(S \cup {new})
    BY <2>1, <2>4 DEF new
  <2>6. \A k \in DOMAIN comparisons' :
          comparisons'[k] = new \/ (k \in DOMAIN comparisons /\ comparisons'[k] = comparisons[k])
    BY <2>1, <2>4 DEF new
  <2>7. ComparisonsOK'
    BY <1>2, <2>1, <2>2, <2>3, <2>5, <2>6 DEF ComparisonsOK, IInv
  <2> QED
    BY <1>2, <2>2, <2>7 DEF IInv
<1>5. CASE RaiseInForecast \/ Conclude \/ SynthesisRaises \/ Synthesize \/ UNCHANGED vars
  <2>1. examined' = examined /\ comparisons' = comparisons
    BY <1>5 DEF RaiseInForecast, Conclude, SynthesisRaises, Synthesize, vars
  <2> QED
    BY <1>2, <2>1 DEF IInv, ComparisonsOK
<1> QED
  BY <1>3, <1>4, <1>5 DEF Next

\* What every state of the evaluation knows about its data and its comparisons.
THEOREM InductiveInvariant == Spec => []IInv
  BY InitInv, StepInv, PTL DEF Spec

-----------------------------------------------------------------------------
(* The properties.                                                         *)

\* For every release, with any hashes repeated, and every file of decisions that candidate
\* generation may write of it, a certificate used at a cutoff was decided at a later one, unless
\* the release has the hash in another, earlier row.
THEOREM CertificatesCorrect == Spec => []OnlyRepeatedRowsArePast
<1>1. ASSUME IInv PROVE OnlyRepeatedRowsArePast
  <2> SUFFICES ASSUME NEW k \in DOMAIN comparisons, NEW r \in Later(comparisons[k].cutoff),
                      NEW j \in DOMAIN decisions, decisions[j].sample = r.sample,
                      ~ (decisions[j].cutoff > comparisons[k].cutoff)
               PROVE  \E s \in release :
                        s.sample = r.sample /\ s.id # r.id /\ s.month < decisions[j].cutoff
    BY DEF OnlyRepeatedRowsArePast
  <2>1. decisions # NoFile /\ comparisons[k].cutoff \in Int
    BY <1>1 DEF IInv, ComparisonsOK
  <2>2. decisions[j].cutoff \in Nat
    BY <1>1, <2>1, ProspectiveAssumption DEF IInv
  <2>3. release # NoRelease /\ IsActionOf(release, r.sample, decisions[j].cutoff)
    BY <1>1, <2>1 DEF IInv, IsGenerated
  <2>4. IsRelease(release)
    BY <1>1, <2>3, ProspectiveAssumption DEF IInv
  <2> DEFINE rows == RowsOf(CohortOf(release), r.sample)
             last == LastRow(rows)
  <2>5. last \in release /\ last.sample = r.sample /\ last.month < decisions[j].cutoff
    <3>1. rows # {} /\ last.month < decisions[j].cutoff
      BY <2>3 DEF IsActionOf
    <3>2. rows \in SUBSET release /\ \A s \in rows : s.sample = r.sample
      BY DEF RowsOf, CohortOf
    <3>3. last \in rows
      BY <2>4, <3>1, <3>2, LastRowIsARow
    <3> QED
      BY <3>1, <3>2, <3>3
  <2>6. r \in population /\ r.month >= comparisons[k].cutoff
    BY <2>1 DEF Later, InWindow, Months
  <2>7. PICK a \in release : a.id = r.id /\ a.month = r.month
    <3>1. PICK a \in release : r = [a EXCEPT !.label = AuditedLabel(a)]
      BY <1>1, <2>3, <2>6 DEF IInv, LoadLamdaPopulation
    <3>2. LET b == [a EXCEPT !.label = AuditedLabel(a)] IN b.id = a.id /\ b.month = a.month
      OBVIOUS
    <3> QED
      BY <3>1, <3>2
  <2>8. last.month \in Nat /\ r.month \in Nat /\ (last.id = a.id => last = a)
    BY <2>4, <2>5, <2>7 DEF IsRelease
  <2>9. last.id # r.id
    BY <2>1, <2>2, <2>5, <2>6, <2>7, <2>8
  <2> QED
    BY <2>5, <2>9
<1> QED
  BY <1>1, InductiveInvariant, PTL

\* For hardening runs of any length, any objectives and any tolerance, the kept epoch is near
\* the best admissible one.
THEOREM HardenedCorrect == Spec => []HardenedIsNearBest
<1>1. ASSUME IInv PROVE HardenedIsNearBest
  <2> SUFFICES ASSUME IsHardened, NEW k \in DOMAIN comparisons,
                      NEW e \in EligibleEpochs(comparisons[k].run,
                                              Validation(comparisons[k].cutoff))
               PROVE  comparisons[k].run[comparisons[k].epoch].objective
                        <= comparisons[k].run[e].objective + TieTolerance
    BY DEF HardenedIsNearBest
  <2> DEFINE run == comparisons[k].run
             validation == Validation(comparisons[k].cutoff)
  <2>1. run \in HardeningRun
    BY <1>1, ProspectiveAssumption DEF IInv, ComparisonsOK, HardeningRun
  <2>2. comparisons[k].epoch = SelectEpoch(run, validation)
    BY <1>1 DEF IInv, ComparisonsOK, KeptEpoch
  <2>3. run[SelectEpoch(run, validation)].objective <= run[e].objective + TieTolerance
    BY <2>1, SelectedEpoch
  <2> QED
    BY <2>2, <2>3
<1> QED
  BY <1>1, InductiveInvariant, PTL

\* An outcome exists only when every eligible cutoff has been scored or skipped, in order.
THEOREM LedgerCorrect == Spec => ImplementsCutoffLedger
<1>1. Init => Ledger!Init
  BY DEF Init, Ledger!Init
<1>2. ASSUME [Next]_vars PROVE [Ledger!Examine \/ Ledger!Close]_(Ledger!vars)
  <2>1. CASE SkipCutoff \/ EvaluateCutoff
    BY <2>1 DEF SkipCutoff, EvaluateCutoff, IsNext, Inputs, Ledger!Examine
  <2>2. CASE Conclude
    BY <2>2 DEF Conclude, Inputs, Ledger!Close
  <2>3. CASE RaiseInForecast
    BY <2>3 DEF RaiseInForecast, IsNext, Inputs, Ledger!vars
  <2>4. CASE SynthesisRaises \/ Synthesize \/ UNCHANGED vars
    BY <2>4 DEF SynthesisRaises, Synthesize, Inputs, vars, Ledger!vars
  <2> QED
    BY <1>2, <2>1, <2>2, <2>3, <2>4 DEF Next
<1> QED
  BY <1>1, <1>2, PTL DEF Spec, ImplementsCutoffLedger, Ledger!Spec

-----------------------------------------------------------------------------
(* The clean cost.                                                         *)

\* A rate over a finite population is a number.
LEMMA RateIsNumber ==
  ASSUME NEW rows, IsFiniteSet(rows), NEW missed
  PROVE  CleanFalseNegativeRate(rows, missed) \in Int
<1> DEFINE malicious == {r \in rows : r.label = "malicious"}
           hit       == {r \in malicious : r.id \in missed}
<1>1. Cardinality(malicious) \in Nat /\ Cardinality(hit) \in Nat
  <2>1. malicious \in SUBSET rows /\ hit \in SUBSET rows
    OBVIOUS
  <2> HIDE DEF malicious, hit
  <2> QED
    BY <2>1, FS_Subset, FS_CardinalityType
<1>2. Rate(Cardinality(hit), Cardinality(malicious)) \in Int
  <2> DEFINE h == Cardinality(hit)
             m == Cardinality(malicious)
  <2>1. h \in Nat /\ m \in Nat /\ Scale \in Nat
    BY <1>1, HardeningAssumption
  <2> HIDE DEF h, m
  <2>2. Scale * h \in Int
    BY <2>1
  <2>3. m # 0 => (Scale * h) \div m \in Int
    BY <2>1, <2>2
  <2>4. Rate(h, m) \in Int
    BY <2>3 DEF Rate, NoRate
  <2> QED
    BY <2>4 DEF h, m
<1>3. FalseNegativeRate(rows, missed) \in Int
  BY <1>2 DEF FalseNegativeRate
<1> QED
  BY <1>3 DEF CleanFalseNegativeRate

\* The kept epoch costs no more clean detections than the limit: it was admitted, or it is
\* the head the run started from.
LEMMA KeptEpochIsWithinLimit ==
  ASSUME IInv, NEW cutoff \in Int, NEW run \in Runs
  PROVE  LET cost == Degradation(run, Validation(cutoff), KeptEpoch(cutoff, run))
         IN  cost \in Int /\ cost <= MaxDegradation
<1> DEFINE epoch == KeptEpoch(cutoff, run)
           rate(e) == CleanFalseNegativeRate(Validation(cutoff), run[e].missed)
<1>1. IsFiniteSet(Validation(cutoff))
  <2>1. Validation(cutoff) \in SUBSET population
    BY DEF Validation, Historical, InWindow
  <2> QED
    BY <2>1, FS_Subset DEF IInv
<1>2. \A e : rate(e) \in Int
  BY <1>1, RateIsNumber
<1>3. epoch = 1 \/ epoch \in EligibleEpochs(run, Validation(cutoff))
  BY ProspectiveAssumption, SelectedEpoch DEF KeptEpoch, HardeningRun
<1>4. \A e : Degradation(run, Validation(cutoff), e)
               = IF rate(e) - rate(1) > 0 THEN rate(e) - rate(1) ELSE 0
  BY DEF Degradation
<1> HIDE DEF epoch, rate
<1>5. \A e : Degradation(run, Validation(cutoff), e) \in Int
  BY <1>2, <1>4
<1>6. Degradation(run, Validation(cutoff), 1) = 0 /\ 0 <= MaxDegradation
  BY <1>2, <1>4, HardeningAssumption
<1>7. Degradation(run, Validation(cutoff), epoch) <= MaxDegradation
  BY <1>3, <1>6 DEF EligibleEpochs
<1> QED
  BY <1>5, <1>7 DEF epoch

\* Every comparison costs no more than the limit, and a written artifact has all of them.
CostInv ==
  /\ \A k \in DOMAIN comparisons :
       comparisons[k].degradation \in Int /\ comparisons[k].degradation <= MaxDegradation
  /\ artifact # NoFile => outcome # "none" /\ artifact = comparisons

\* Costs that are each within the limit are so on average.
LEMMA MeanIsWithinLimit ==
  ASSUME IInv, CostInv, artifact = comparisons
  PROVE  IsCleanCostSatisfied
<1> DEFINE costs == [k \in DOMAIN artifact |-> artifact[k]["degradation"]]
           limit == [k \in DOMAIN artifact |-> MaxDegradation]
<1>1. DOMAIN artifact = 1 .. Len(artifact) /\ Len(artifact) \in Nat
  BY DEF IInv, ComparisonsOK
<1>2. IsFiniteSet(DOMAIN artifact) /\ Cardinality(DOMAIN artifact) = Len(artifact)
  <2>1. 0 \in Int /\ 1 \in Int /\ Len(artifact) \in Int /\ (1 > Len(artifact) => Len(artifact) = 0)
    BY <1>1
  <2> QED
    BY <1>1, <2>1, FS_Interval
<1>3. \A k \in DOMAIN artifact : /\ costs[k] \in Int /\ limit[k] \in Int
                                /\ costs[k] <= limit[k] /\ limit[k] = MaxDegradation
  BY HardeningAssumption DEF CostInv
<1>4. SumFunctionOnSet(costs, DOMAIN artifact) <= SumFunctionOnSet(limit, DOMAIN artifact)
  <2> HIDE DEF costs, limit
  <2> QED
    BY <1>2, <1>3, SumMonotone
<1>5. SumFunctionOnSet(limit, DOMAIN artifact) = MaxDegradation * Len(artifact)
  <2> HIDE DEF limit
  <2>1. MaxDegradation \in Int /\ \A k \in DOMAIN artifact : limit[k] = MaxDegradation
    BY <1>3, HardeningAssumption
  <2>2. SumFunctionOnSet(limit, DOMAIN artifact)
          = MaxDegradation * Cardinality(DOMAIN artifact)
    BY <1>2, <2>1, SumOfConstant
  <2> QED
    BY <1>2, <2>2
<1>6. IsCleanCostSatisfied
        <=> SumFunctionOnSet(costs, DOMAIN artifact) <= MaxDegradation * Len(artifact)
  BY DEF IsCleanCostSatisfied, Total, SumFunction
<1> QED
  BY <1>4, <1>5, <1>6

\* No step takes the costs beyond the limit.
LEMMA CostStep == IInv /\ CostInv /\ [Next]_vars => CostInv'
<1> SUFFICES ASSUME IInv, CostInv, [Next]_vars PROVE CostInv'
  OBVIOUS
<1>1. CASE EvaluateCutoff
  <2>1. PICK cutoff \in EligibleCutoffs, run \in Runs :
          IsNext(cutoff) /\ comparisons' = Append(comparisons, Comparison(cutoff, run))
    BY <1>1 DEF EvaluateCutoff
  <2> DEFINE new == Comparison(cutoff, run)
  <2>2. new.degradation \in Int /\ new.degradation <= MaxDegradation
    <3>1. new.degradation = Degradation(run, Validation(cutoff), KeptEpoch(cutoff, run))
      BY DEF Comparison
    <3> HIDE DEF new
    <3> QED
      BY <2>1, <3>1, NextIsPlanned, KeptEpochIsWithinLimit
  <2>3. \A k \in DOMAIN comparisons' :
          comparisons'[k] = new \/ (k \in DOMAIN comparisons /\ comparisons'[k] = comparisons[k])
    BY <2>1 DEF IInv, ComparisonsOK
  <2>4. artifact' = NoFile
    BY <1>1 DEF EvaluateCutoff, IsNext, CostInv
  <2> HIDE DEF new
  <2> QED
    BY <2>2, <2>3, <2>4 DEF CostInv
<1>2. CASE Conclude
  <2>1. artifact = NoFile /\ outcome' # "none" /\ comparisons' = comparisons
    BY <1>2 DEF Conclude, CostInv
  <2>2. artifact' # NoFile => artifact' = comparisons'
    BY <1>2, <2>1 DEF Conclude
  <2> QED
    BY <2>1, <2>2 DEF CostInv
<1>3. CASE SkipCutoff \/ RaiseInForecast \/ SynthesisRaises \/ Synthesize
  BY <1>3 DEF SkipCutoff, RaiseInForecast, SynthesisRaises, Synthesize, CostInv
<1>4. CASE UNCHANGED vars
  BY <1>4 DEF vars, CostInv
<1> QED
  BY <1>1, <1>2, <1>3, <1>4 DEF Next

(***************************************************************************)
(* For hardening runs of any length and any number of cutoffs, the mean    *)
(* clean cost of an evaluation is within the limit that gates each epoch   *)
(* (harden_detector_head, run_prospective_fedact_evaluation).              *)
(***************************************************************************)
THEOREM CleanCostCorrect == Spec => []CleanCostIsWithinLimit
<1>1. Init => CostInv
  BY DEF Init, CostInv
<1>2. IInv /\ CostInv => CleanCostIsWithinLimit
  BY MeanIsWithinLimit DEF CostInv, CleanCostIsWithinLimit
<1> QED
  BY <1>1, <1>2, CostStep, InductiveInvariant, PTL DEF Spec

=============================================================================
