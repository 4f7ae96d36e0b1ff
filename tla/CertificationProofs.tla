------------------------ MODULE CertificationProofs ------------------------
(***************************************************************************)
(* Theorems about Certification for every file of actions and every file   *)
(* of calibration observations: decisions are monotone in the evidence,    *)
(* the random comparator is matched exactly, and a supported pattern could *)
(* have failed.  At the end those about ClientSelection, for any clients:  *)
(* the greedy contraction is optimal, and selections are nested.           *)
(***************************************************************************)
EXTENDS Certification, ClientSelection, CountingLemmas

-----------------------------------------------------------------------------
(* The selected thresholds and the decisions.                              *)

ThresholdsTyped == selection.align \in Int /\ selection.amb \in Int

\* The thresholds of a candidate are those of one of its rows.
LEMMA CandidateThresholds ==
  ASSUME observations \in ObservationFiles, NEW c \in Candidates
  PROVE  c.align \in Int /\ c.amb \in Int
<1>1. PICK o \in observations : c = Candidate(o.candidate)
  BY DEF Candidates
<1> DEFINE rows == {r \in observations : r.candidate = o.candidate}
<1>2. (CHOOSE r \in rows : TRUE) \in observations
  BY <1>1
<1>3. c.align = (CHOOSE r \in rows : TRUE).align /\ c.amb = (CHOOSE r \in rows : TRUE).amb
  BY <1>1 DEF Candidate
<1> QED
  BY <1>2, <1>3, CertificationAssumption

Status == {"positive", "negative", "ambiguous", "abstain"}

\* A certificate is one of the four statuses.
LEMMA CertificateIsStatus ==
  ASSUME NEW a
  PROVE  CertifyActionInterval(a) \in Status
BY DEF CertifyActionInterval, Status

\* Only a valid action is certified, whatever the thresholds.
LEMMA CertifiedIsValid ==
  ASSUME NEW a, a.valid \in BOOLEAN, CertifyActionInterval(a) = "positive"
  PROVE  a.valid
BY DEF CertifyActionInterval

\* A narrower interval behind the same gates keeps the certificate of a wider one.
LEMMA NarrowerKeeps ==
  ASSUME NEW a, NEW b, ThresholdsTyped,
         a.lower \in Int, a.upper \in Int, b.lower \in Int, b.upper \in Int,
         a.lower <= a.upper, b.lower <= a.lower, a.upper <= b.upper,
         a.valid = b.valid, a.leaveOneOut = b.leaveOneOut,
         a.diameter = b.diameter, a.quantile = b.quantile,
         CertifyActionInterval(b) \in {"positive", "negative"}
  PROVE  CertifyActionInterval(a) = CertifyActionInterval(b)
<1>1. b.valid /\ ~ (b.diameter > b.quantile) /\ b.leaveOneOut
  BY DEF CertifyActionInterval
<1>2. CASE IsCertifiedPositive(b)
  <2>1. IsCertifiedPositive(a)
    BY <1>2 DEF IsCertifiedPositive, ThresholdsTyped
  <2> QED
    BY <1>1, <1>2, <2>1 DEF CertifyActionInterval
<1>3. CASE ~IsCertifiedPositive(b)
  <2>1. IsCertifiedNegative(b)
    BY <1>1, <1>3 DEF CertifyActionInterval
  <2>2. IsCertifiedNegative(a) /\ ~IsCertifiedPositive(a)
    BY <2>1 DEF IsCertifiedNegative, IsCertifiedPositive, ThresholdsTyped
  <2> QED
    BY <1>1, <1>3, <2>1, <2>2 DEF CertifyActionInterval
<1> QED
  BY <1>2, <1>3

-----------------------------------------------------------------------------
(* What has been judged so far.                                            *)

Judged ==
  /\ observations \in ObservationFiles
  /\ actions \in ActionFiles
  /\ statuses \in Seq(Status)
  /\ Len(statuses) <= Len(actions)
  /\ \A k \in 1 .. Len(statuses) :
       /\ statuses[k] = CertifyActionInterval(actions[k])
       /\ actions[k].sample \in DOMAIN bySample
       /\ \E j \in 1 .. Len(statuses) : /\ actions[j].sample = actions[k].sample
                                       /\ bySample[actions[k].sample] = statuses[j]

Staged ==
  /\ stage = "calibrate" => statuses = <<>>
  /\ stage \in {"judge", "group", "draw", "record"} \/ statuses # <<>> => ThresholdsTyped
  /\ stage \in {"group", "draw", "record"} => Len(statuses) = Len(actions)

\* What a file of actions is.
LEMMA FileIsSequence ==
  ASSUME Judged
  PROVE  /\ Len(actions) \in Nat /\ DOMAIN actions = 1 .. Len(actions)
         /\ \A i \in DOMAIN actions :
              /\ actions[i].lower \in Int /\ actions[i].upper \in Int
              /\ actions[i].lower <= actions[i].upper
              /\ actions[i].score \in Int /\ actions[i].sample \in Int /\ actions[i].later \in Int
              /\ actions[i].valid \in BOOLEAN
         /\ \A i, j \in DOMAIN actions :
              actions[i].sample = actions[j].sample => actions[i].valid = actions[j].valid
BY CertificationAssumption, OneValidityAssumption DEF Judged

\* The step of the loop over the actions.
LEMMA JudgeStep ==
  ASSUME Judged, Judge
  PROVE  Judged'
<1> DEFINE n == Len(statuses) + 1
           a == actions[n]
<1>1. n \in 1 .. Len(actions) /\ n \in DOMAIN actions
  BY FileIsSequence DEF Judge, Judged
<1>2. /\ statuses' = Append(statuses, CertifyActionInterval(a))
      /\ actions' = actions /\ observations' = observations /\ selection' = selection
      /\ bySample' = [s \in DOMAIN bySample \cup {a.sample} |->
                        IF s = a.sample THEN CertifyActionInterval(a) ELSE bySample[s]]
  BY DEF Judge, Files
<1>3. statuses' \in Seq(Status) /\ Len(statuses') = n
  BY <1>2, CertificateIsStatus DEF Judged
<1>4. \A k \in 1 .. n :
        statuses'[k] = IF k = n THEN CertifyActionInterval(a) ELSE statuses[k]
  BY <1>2, CertificateIsStatus DEF Judged
<1>5. ASSUME NEW k \in 1 .. n
      PROVE  /\ statuses'[k] = CertifyActionInterval(actions[k])
             /\ actions[k].sample \in DOMAIN bySample'
             /\ \E j \in 1 .. n : /\ actions[j].sample = actions[k].sample
                                 /\ bySample'[actions[k].sample] = statuses'[j]
  <2>1. k \in DOMAIN actions
    BY <1>1, FileIsSequence
  <2>2. k # n => k \in 1 .. Len(statuses)
    BY DEF Judged
  <2>3. statuses'[k] = CertifyActionInterval(actions[k])
    BY <1>4, <2>2 DEF Judged
  <2>4. actions[k].sample \in DOMAIN bySample'
    BY <1>2, <2>2 DEF Judged
  <2>5. CASE actions[k].sample = a.sample
    <3>1. n \in 1 .. n /\ bySample'[actions[k].sample] = statuses'[n]
      BY <1>2, <1>4, <2>4, <2>5
    <3> QED
      BY <2>3, <2>4, <2>5, <3>1
  <2>6. CASE actions[k].sample # a.sample
    <3>1. PICK j \in 1 .. Len(statuses) : /\ actions[j].sample = actions[k].sample
                                          /\ bySample[actions[k].sample] = statuses[j]
      BY <2>2, <2>6 DEF Judged
    <3>2. j \in 1 .. n /\ j # n
      <4>1. Len(statuses) \in Nat
        BY DEF Judged
      <4> QED
        BY <3>1, <4>1
    <3>4. statuses'[j] = statuses[j]
      <4> HIDE DEF n, a
      <4> QED
        BY <1>4, <3>2
    <3>3. bySample'[actions[k].sample] = bySample[actions[k].sample]
      BY <1>2, <2>4, <2>6
    <3> QED
      BY <2>3, <2>4, <3>1, <3>2, <3>3, <3>4
  <2> QED
    BY <2>5, <2>6
<1>6. \A k \in 1 .. n : CertifyActionInterval(actions[k])' = CertifyActionInterval(actions[k])
  BY <1>2 DEF CertifyActionInterval, IsCertifiedPositive, IsCertifiedNegative
<1>7. \A k \in 1 .. n :
        /\ statuses'[k] = CertifyActionInterval(actions[k])'
        /\ actions'[k].sample \in DOMAIN bySample'
        /\ \E j \in 1 .. n : /\ actions'[j].sample = actions'[k].sample
                             /\ bySample'[actions'[k].sample] = statuses'[j]
  <2> HIDE DEF n
  <2> QED
    BY <1>2, <1>5, <1>6
<1>8. /\ observations' \in ObservationFiles /\ actions' \in ActionFiles
      /\ Len(statuses') <= Len(actions')
  BY <1>1, <1>2, <1>3 DEF Judged
<1> QED
  <2> HIDE DEF n
  <2> QED
    BY <1>3, <1>7, <1>8 DEF Judged

Calibrated == Judged /\ Staged

\* With nothing judged, there is nothing to be right about.
LEMMA NothingJudged ==
  ASSUME observations \in ObservationFiles, actions \in ActionFiles, statuses = <<>>
  PROVE  Judged
<1>1. statuses \in Seq(Status) /\ Len(statuses) = 0
  OBVIOUS
<1>2. Len(statuses) <= Len(actions)
  BY <1>1, CertificationAssumption
<1>3. \A k \in 1 .. Len(statuses) : FALSE
  BY <1>1
<1> QED
  BY <1>1, <1>2, <1>3 DEF Judged

\* Nothing is judged initially.
LEMMA CalibratedInit == Init => Calibrated
BY NothingJudged DEF Init, Calibrated, Staged

\* While nothing is judged and the thresholds stay, so do the decisions.
LEMMA CalibratedKept ==
  ASSUME Calibrated, UNCHANGED <<observations, actions, selection, statuses, bySample>>
  PROVE  Judged' /\ (ThresholdsTyped <=> ThresholdsTyped')
BY DEF Calibrated, Judged, ThresholdsTyped, CertifyActionInterval, IsCertifiedPositive,
       IsCertifiedNegative

\* Every step keeps the decisions right.
LEMMA CalibratedStep ==
  ASSUME Calibrated, [Next]_vars
  PROVE  Calibrated'
<1>1. CASE Calibrate
  <2>1. statuses = <<>> /\ UNCHANGED <<observations, actions, statuses, bySample>>
    BY <1>1 DEF Calibrate, Files, Calibrated, Staged
  <2>2. Judged'
    <3>1. Len(statuses') = 0 /\ statuses' \in Seq(Status) /\ Len(statuses') <= Len(actions')
      BY <2>1, FileIsSequence DEF Calibrated
    <3>2. \A k \in 1 .. Len(statuses') : FALSE
      BY <3>1
    <3>3. observations' \in ObservationFiles /\ actions' \in ActionFiles
      BY <2>1 DEF Calibrated, Judged
    <3> QED
      BY <3>1, <3>2, <3>3 DEF Judged
  <2>3. stage' = "done" \/ (stage' = "judge" /\ ThresholdsTyped')
    BY <1>1, CandidateThresholds
    DEF Calibrate, SelectBestCalibrationCandidate, ValidCandidates, ThresholdsTyped, Calibrated,
        Judged
  <2> QED
    BY <2>1, <2>2, <2>3 DEF Calibrated, Staged
<1>2. CASE Judge
  <2>1. Judged'
    BY <1>2, JudgeStep DEF Calibrated
  <2>2. stage = "judge" /\ stage' = "judge" /\ selection' = selection
    BY <1>2 DEF Judge
  <2> QED
    BY <2>1, <2>2 DEF Calibrated, Staged, ThresholdsTyped
<1>3. CASE WriteDecisions
  BY <1>3, CalibratedKept DEF WriteDecisions, Files, Calibrated, Staged
<1>4. CASE GroupCutoff \/ DrawMatch \/ EndSeed \/ RecordCutoff \/ Conclude
  <2>1. /\ UNCHANGED <<observations, actions, selection, statuses, bySample>>
        /\ stage \in {"group", "draw", "record"}
        /\ stage' \in {"group", "draw", "record", "done"}
    BY <1>4 DEF GroupCutoff, DrawMatch, EndSeed, RecordCutoff, Conclude, Files
  <2> QED
    BY <2>1, CalibratedKept DEF Calibrated, Staged
<1>5. CASE UNCHANGED vars
  BY <1>5, CalibratedKept DEF vars, Calibrated, Staged
<1> QED
  BY <1>1, <1>2, <1>3, <1>4, <1>5 DEF Next

\* Every decision so far is that of the selected thresholds.
THEOREM CalibratedInvariant == Spec => []Calibrated
<1> QED
  BY CalibratedInit, CalibratedStep, PTL DEF Spec

(***************************************************************************)
(* An interval inside another one, behind the same gates, keeps the        *)
(* certificate of the wider one (certify_action_interval), for any bounds, *)
(* thresholds and files.                                                   *)
(***************************************************************************)
THEOREM NarrowingCorrect == Spec => []NarrowingKeepsDecision
<1>1. Calibrated => NarrowingKeepsDecision
  <2> SUFFICES ASSUME Calibrated, NEW i \in DOMAIN statuses, NEW j \in DOMAIN statuses,
                      actions[j].lower <= actions[i].lower, actions[i].upper <= actions[j].upper,
                      <<actions[i].valid, actions[i].leaveOneOut, actions[i].diameter,
                        actions[i].quantile>>
                        = <<actions[j].valid, actions[j].leaveOneOut, actions[j].diameter,
                            actions[j].quantile>>,
                      statuses[j] \in {"positive", "negative"}
               PROVE  statuses[i] = statuses[j]
    BY DEF NarrowingKeepsDecision
  <2>1. i \in 1 .. Len(statuses) /\ j \in 1 .. Len(statuses) /\ statuses # <<>>
    BY DEF Calibrated, Judged
  <2>2. i \in DOMAIN actions /\ j \in DOMAIN actions
    <3>1. Len(statuses) \in Nat /\ Len(statuses) <= Len(actions) /\ Judged
      BY DEF Calibrated, Judged
    <3> QED
      BY <2>1, <3>1, FileIsSequence
  <2>3. ThresholdsTyped
    BY <2>1 DEF Calibrated, Staged
  <2>4. /\ statuses[i] = CertifyActionInterval(actions[i])
        /\ statuses[j] = CertifyActionInterval(actions[j])
    BY <2>1 DEF Calibrated, Judged
  <2> QED
    BY <2>2, <2>3, <2>4, FileIsSequence, NarrowerKeeps DEF Calibrated
<1> QED
  BY <1>1, CalibratedInvariant, PTL

-----------------------------------------------------------------------------
(* The random comparator.                                                  *)

ExactKey(i) == MatchKey(actions[i], "exact")

Compared == Head(cutoffs)

\* What is drawn so far is a match of its own for each certified action that is done.
Drawn ==
  stage = "draw" =>
    /\ waiting \subseteq Certified(Compared)
    /\ DOMAIN draws = Certified(Compared) \ waiting
    /\ \A c \in DOMAIN draws :
         draws[c].match \in ValidPool(Compared) /\ ExactKey(draws[c].match) = ExactKey(c)
    /\ \A c, d \in DOMAIN draws : c # d => draws[c].match # draws[d].match
    /\ pool = ValidPool(Compared) \ Matches

MatchedOnce == Calibrated /\ Drawn

\* A certified action is valid: the status that its sample keeps is that of a valid action.
LEMMA CertifiedAreInPool ==
  ASSUME Judged, Len(statuses) = Len(actions), NEW cutoff
  PROVE  Certified(cutoff) \subseteq ValidPool(cutoff)
<1> SUFFICES ASSUME NEW i \in Certified(cutoff) PROVE actions[i].valid
  BY DEF Certified, ValidPool, Group
<1>1. i \in DOMAIN actions /\ i \in 1 .. Len(statuses)
  BY FileIsSequence DEF Certified, Group
<1>2. PICK j \in 1 .. Len(statuses) : /\ actions[j].sample = actions[i].sample
                                      /\ bySample[actions[i].sample] = statuses[j]
  BY <1>1 DEF Judged
<1>3. j \in DOMAIN actions /\ statuses[j] = CertifyActionInterval(actions[j])
  BY <1>2, FileIsSequence DEF Judged
<1>4. CertifyActionInterval(actions[j]) = "positive"
  BY <1>2, <1>3 DEF Certified
<1>5. actions[j].valid
  BY <1>3, <1>4, FileIsSequence, CertifiedIsValid
<1> QED
  BY <1>1, <1>2, <1>3, <1>5, FileIsSequence

\* What can be drawn for a cutoff is finite.
LEMMA PoolIsFinite ==
  ASSUME Judged, NEW cutoff
  PROVE  IsFiniteSet(ValidPool(cutoff))
<1>1. IsFiniteSet(1 .. Len(actions)) /\ ValidPool(cutoff) \in SUBSET (1 .. Len(actions))
  BY FileIsSequence, FS_Interval DEF ValidPool, Group
<1> QED
  BY <1>1, FS_Subset

\* The pool cannot be short of a key: each match drawn from it was drawn for a certified
\* action of that key, which is in the pool itself, and one of them is still waiting.
LEMMA MatchRemains ==
  ASSUME MatchedOnce, stage = "draw", NEW c \in waiting
  PROVE  \E i \in pool : ExactKey(i) = ExactKey(c)
<1> SUFFICES ASSUME \A i \in pool : ExactKey(i) # ExactKey(c)
             PROVE  FALSE
  OBVIOUS
<1> DEFINE S == {i \in ValidPool(Compared) : ExactKey(i) = ExactKey(c)}
           For(i) == CHOOSE d \in DOMAIN draws : draws[d].match = i
<1>1. Certified(Compared) \subseteq ValidPool(Compared)
  BY CertifiedAreInPool DEF MatchedOnce, Calibrated, Staged
<1>2. IsFiniteSet(S) /\ c \in S
  <2>1. IsFiniteSet(ValidPool(Compared)) /\ S \in SUBSET ValidPool(Compared)
    BY PoolIsFinite DEF MatchedOnce, Calibrated
  <2>2. c \in S
    BY <1>1 DEF MatchedOnce, Drawn
  <2> QED
    BY <2>1, <2>2, FS_Subset
<1>3. ASSUME NEW i \in S
      PROVE  For(i) \in DOMAIN draws /\ draws[For(i)].match = i /\ For(i) \in S \ {c}
  <2>1. \E d \in DOMAIN draws : draws[d].match = i
    BY <1>3 DEF MatchedOnce, Drawn, Matches
  <2>2. For(i) \in DOMAIN draws /\ draws[For(i)].match = i
    BY <2>1
  <2>3. For(i) \in Certified(Compared) /\ For(i) # c /\ ExactKey(For(i)) = ExactKey(i)
    BY <2>2 DEF MatchedOnce, Drawn
  <2> HIDE DEF For
  <2> QED
    BY <1>1, <1>3, <2>2, <2>3
<1> DEFINE f == [i \in S |-> For(i)]
<1>4. f \in [S -> S \ {c}] /\ \A i \in S : draws[f[i]].match = i
  <2> HIDE DEF For, S
  <2> QED
    BY <1>3
<1>5. /\ IsFiniteSet(S \ {c})
      /\ Cardinality(S) \in Nat /\ Cardinality(S \ {c}) = Cardinality(S) - 1
  BY <1>2, FS_RemoveElement, FS_CardinalityType
<1>6. \E x, y \in S : x # y /\ f[x] = f[y]
  <2> HIDE DEF f, S
  <2>1. Cardinality(S \ {c}) < Cardinality(S)
    BY <1>5
  <2> QED
    BY <1>2, <1>4, <1>5, <2>1, FS_PigeonHole
<1> HIDE DEF f, S
<1> QED
  BY <1>4, <1>6

\* So a draw is always made at the first level.
LEMMA FirstLevel ==
  ASSUME MatchedOnce, stage = "draw", NEW c \in waiting
  PROVE  /\ MatchLevels(c) # {}
         /\ Levels[Min(MatchLevels(c))] = "exact"
<1>1. DOMAIN Levels = 1 .. 3 /\ Levels[1] = "exact"
  BY DEF Levels
<1>2. Matching(c, "exact") # {}
  BY MatchRemains DEF Matching, ExactKey
<1>3. 1 \in MatchLevels(c) /\ MatchLevels(c) \subseteq 1 .. 3
  BY <1>1, <1>2 DEF MatchLevels
<1>4. Min(MatchLevels(c)) = 1
  <2>1. \A l \in MatchLevels(c) : 1 <= l
    BY <1>3
  <2>2. \A l \in MatchLevels(c) : (\A k \in MatchLevels(c) : l <= k) => l = 1
    BY <1>3
  <2> QED
    BY <1>3, <2>1, <2>2 DEF Min
<1> QED
  BY <1>1, <1>3, <1>4

\* One draw.
LEMMA DrawKeeps ==
  ASSUME MatchedOnce, DrawMatch
  PROVE  Drawn'
<1>1. PICK c \in waiting :
        /\ waiting' = waiting \ {c}
        /\ IF MatchLevels(c) = {}
             THEN UNCHANGED <<pool, draws>>
             ELSE LET level == Levels[Min(MatchLevels(c))]
                  IN  \E i \in Matching(c, level) :
                        /\ pool' = pool \ {i}
                        /\ draws' = [d \in DOMAIN draws \cup {c} |->
                                      IF d = c THEN [match |-> i, level |-> level] ELSE draws[d]]
  BY DEF DrawMatch
<1>2. stage = "draw" /\ UNCHANGED <<actions, bySample, cutoffs, stage>>
  BY DEF DrawMatch, Files
<1>3. PICK i \in Matching(c, "exact") :
        /\ pool' = pool \ {i}
        /\ draws' = [d \in DOMAIN draws \cup {c} |->
                      IF d = c THEN [match |-> i, level |-> "exact"] ELSE draws[d]]
  BY <1>1, <1>2, FirstLevel
<1>4. i \in pool /\ ExactKey(i) = ExactKey(c)
  BY DEF Matching, ExactKey
<1>5. /\ i \in ValidPool(Compared) /\ i \notin Matches
      /\ c \notin DOMAIN draws /\ c \in Certified(Compared)
  BY <1>2, <1>4 DEF MatchedOnce, Drawn
<1>6. Matches' = Matches \cup {i}
  BY <1>3, <1>5 DEF Matches
<1>7. /\ DOMAIN draws' = DOMAIN draws \cup {c} /\ draws'[c].match = i
      /\ \A d \in DOMAIN draws : draws'[d] = draws[d]
  BY <1>3, <1>5
<1>8. /\ Compared' = Compared /\ Certified(Compared)' = Certified(Compared)
      /\ ValidPool(Compared)' = ValidPool(Compared)
      /\ \A d : ExactKey(d)' = ExactKey(d)
  BY <1>2 DEF Compared, Certified, ValidPool, Group, ExactKey, MatchKey
<1>9. /\ waiting' \subseteq Certified(Compared)
      /\ DOMAIN draws' = Certified(Compared) \ waiting'
      /\ pool' = ValidPool(Compared) \ Matches'
  BY <1>1, <1>2, <1>3, <1>5, <1>6, <1>7 DEF MatchedOnce, Drawn
<1>10. \A d \in DOMAIN draws' :
         /\ draws'[d].match \in ValidPool(Compared)
         /\ ExactKey(draws'[d].match) = ExactKey(d)
  BY <1>2, <1>4, <1>5, <1>7 DEF MatchedOnce, Drawn
<1>11. \A d, e \in DOMAIN draws' : d # e => draws'[d].match # draws'[e].match
  BY <1>2, <1>5, <1>7 DEF MatchedOnce, Drawn, Matches
<1>12. \A d \in DOMAIN draws' : ExactKey(draws[d].match)' = ExactKey(draws'[d].match)
  BY <1>2 DEF ExactKey, MatchKey
<1> QED
  BY <1>8, <1>9, <1>10, <1>11, <1>12 DEF Drawn

\* A seed begins with nothing drawn and all of the pool.
LEMMA BeginKeeps ==
  ASSUME BeginSeed(Compared), UNCHANGED <<actions, bySample, cutoffs>>
  PROVE  Drawn'
<1>1. draws' = <<>> /\ DOMAIN draws' = {} /\ Matches' = {}
  BY DEF BeginSeed, Matches
<1>2. /\ waiting' = Certified(Compared)' /\ pool' = ValidPool(Compared)'
  BY DEF BeginSeed, Compared, Certified, ValidPool, Group
<1> QED
  BY <1>1, <1>2 DEF Drawn

\* Every step keeps the draws exact and the pool accounted for.
LEMMA MatchedStep ==
  ASSUME MatchedOnce, [Next]_vars
  PROVE  MatchedOnce'
<1>1. Calibrated'
  BY CalibratedStep DEF MatchedOnce
<1> SUFFICES Drawn'
  BY <1>1 DEF MatchedOnce
<1>2. CASE Calibrate \/ Judge \/ WriteDecisions \/ RecordCutoff \/ Conclude
  BY <1>2 DEF Calibrate, Judge, WriteDecisions, RecordCutoff, Conclude, Drawn
<1>3. CASE GroupCutoff
  BY <1>3, BeginKeeps DEF GroupCutoff, Files, Compared
<1>4. CASE DrawMatch
  BY <1>4, DrawKeeps
<1>5. CASE EndSeed
  <2>1. CASE seed < Seeds
    BY <1>5, <2>1, BeginKeeps DEF EndSeed, Files, Compared
  <2>2. CASE ~(seed < Seeds)
    BY <1>5, <2>2 DEF EndSeed, Drawn
  <2> QED
    BY <2>1, <2>2
<1>6. CASE UNCHANGED vars
  BY <1>6 DEF vars, MatchedOnce, Drawn, Compared, Certified, ValidPool, Group, Matches, ExactKey,
              MatchKey
<1> QED
  BY <1>2, <1>3, <1>4, <1>5, <1>6 DEF Next

(***************************************************************************)
(* Whatever is drawn, and in whatever order, every certified action of a   *)
(* cutoff gets an exact match of its own (_sample_matched_random_valid):   *)
(* the weaker levels and the minimum match fraction are never needed.      *)
(***************************************************************************)
THEOREM MatchesCorrect == Spec => []MatchesAreExact
<1>1. Init => MatchedOnce
  BY CalibratedInit DEF Init, MatchedOnce, Drawn
<1>2. MatchedOnce => MatchesAreExact
  BY DEF MatchedOnce, Drawn, MatchesAreExact, Compared, ValidPool, ExactKey
<1> QED
  BY <1>1, <1>2, MatchedStep, PTL DEF Spec

-----------------------------------------------------------------------------
(* The central pattern.                                                    *)

CertifiedPrecision(cutoff) ==
  IF Certified(cutoff) = {} THEN -1 ELSE LaterRealPrecision(Certified(cutoff))

PointPrecision(cutoff) ==
  IF Certified(cutoff) = {} \/ PointSelected(cutoff) = {} THEN -1
  ELSE LaterRealPrecision(PointSelected(cutoff))

IsSupported ==
  Complete # {} /\ Total("certified") > Total("point") /\ Total("point") > Total("random")

\* A record of the pattern says what its cutoff's decisions and pool still say, and the
\* verdict is that of the records.
PatternInv ==
  /\ stage \in {"calibrate", "judge"} => pattern = <<>>
  /\ pattern # <<>> => Len(statuses) = Len(actions) /\ ThresholdsTyped
  /\ \E S : pattern \in Seq(S)
  /\ \A k \in DOMAIN pattern :
       /\ pattern[k].certified = CertifiedPrecision(pattern[k].cutoff)
       /\ pattern[k].point = PointPrecision(pattern[k].cutoff)
  /\ supported # "none" => stage = "done"
  /\ supported = "yes" => IsSupported

\* The precisions of a cutoff are a matter of the decisions alone.
LEMMA SameDecisions ==
  ASSUME UNCHANGED <<actions, selection, bySample>>
  PROVE  \A cutoff : /\ CertifiedPrecision(cutoff)' = CertifiedPrecision(cutoff)
                     /\ PointPrecision(cutoff)' = PointPrecision(cutoff)
<1>1. \A cutoff : Certified(cutoff)' = Certified(cutoff) /\ ValidPool(cutoff)' = ValidPool(cutoff)
  BY DEF Certified, ValidPool, Group
<1>2. \A i, j : IsRankedBefore(i, j)' <=> IsRankedBefore(i, j)
  BY DEF IsRankedBefore
<1>3. \A cutoff : PointSelected(cutoff)' = PointSelected(cutoff)
  BY <1>1, <1>2 DEF PointSelected
<1>4. \A cutoff : /\ LaterRealPrecision(Certified(cutoff))' = LaterRealPrecision(Certified(cutoff))
                  /\ LaterRealPrecision(PointSelected(cutoff))'
                       = LaterRealPrecision(PointSelected(cutoff))
  BY <1>1, <1>3 DEF LaterRealPrecision
<1> QED
  BY <1>1, <1>3, <1>4 DEF CertifiedPrecision, PointPrecision

\* The verdict is that of the pattern alone.
LEMMA SamePattern ==
  ASSUME UNCHANGED pattern
  PROVE  IsSupported' <=> IsSupported
<1>1. Complete' = Complete
  BY DEF Complete
<1>2. \A field : Total(field)' = Total(field)
  BY <1>1 DEF Total
<1> QED
  BY <1>1, <1>2 DEF IsSupported

\* The step that records a cutoff.
LEMMA RecordKeeps ==
  ASSUME Calibrated, PatternInv, RecordCutoff
  PROVE  PatternInv'
<1>1. /\ stage = "record" /\ stage' = "group" /\ supported' = supported
      /\ UNCHANGED <<actions, selection, statuses, bySample>>
  BY DEF RecordCutoff, Files
<1>2. PICK new : /\ pattern' = Append(pattern, new)
                 /\ new.certified = CertifiedPrecision(new.cutoff)
                 /\ new.point = PointPrecision(new.cutoff)
  <2> DEFINE certified == Certified(Head(cutoffs))
             chosen == PointSelected(Head(cutoffs))
             isMatched == sums.seeds > 0 /\ sums.fraction >= MinMatchFraction * sums.seeds
             new == [cutoff    |-> Head(cutoffs),
                     count     |-> Cardinality(certified),
                     certified |-> IF certified = {} THEN -1 ELSE LaterRealPrecision(certified),
                     point     |-> IF certified = {} \/ chosen = {} THEN -1
                                   ELSE LaterRealPrecision(chosen),
                     random    |-> IF isMatched THEN sums.precision \div sums.seeds ELSE -1]
  <2>1. pattern' = Append(pattern, new)
    BY DEF RecordCutoff
  <2>2. /\ new.certified = CertifiedPrecision(new.cutoff)
        /\ new.point = PointPrecision(new.cutoff)
    BY DEF CertifiedPrecision, PointPrecision
  <2> QED
    BY <2>1, <2>2
<1>3. PICK S : pattern \in Seq(S)
  BY DEF PatternInv
<1>4. pattern' \in Seq(S \cup {new})
  BY <1>2, <1>3
<1>5. \A k \in DOMAIN pattern' :
        pattern'[k] = new \/ (k \in DOMAIN pattern /\ pattern'[k] = pattern[k])
  BY <1>2, <1>3
<1>6. \A k \in DOMAIN pattern' :
        /\ pattern'[k].certified = CertifiedPrecision(pattern'[k].cutoff)
        /\ pattern'[k].point = PointPrecision(pattern'[k].cutoff)
  BY <1>2, <1>5 DEF PatternInv
<1>7. \A k \in DOMAIN pattern' :
        /\ pattern'[k].certified = CertifiedPrecision(pattern[k].cutoff)'
        /\ pattern'[k].point = PointPrecision(pattern[k].cutoff)'
  BY <1>1, <1>6, SameDecisions
<1>8. Len(statuses') = Len(actions') /\ ThresholdsTyped'
  BY <1>1 DEF Calibrated, Staged, ThresholdsTyped
<1>9. supported' = "none"
  BY <1>1 DEF PatternInv
<1> QED
  BY <1>1, <1>4, <1>7, <1>8, <1>9 DEF PatternInv

\* Every step keeps the records right and the verdict theirs.
LEMMA PatternStep == Calibrated /\ PatternInv /\ [Next]_vars => PatternInv'
<1> SUFFICES ASSUME Calibrated, PatternInv, [Next]_vars PROVE PatternInv'
  OBVIOUS
<1>1. CASE Calibrate \/ Judge \/ WriteDecisions
  <2>1. stage \in {"calibrate", "judge"} /\ pattern = <<>> /\ supported = "none"
    BY <1>1 DEF Calibrate, Judge, WriteDecisions, PatternInv
  <2>2. pattern' = <<>> /\ supported' = "none"
    BY <1>1, <2>1 DEF Calibrate, Judge, WriteDecisions
  <2>3. pattern' \in Seq({}) /\ DOMAIN pattern' = {}
    BY <2>2
  <2> QED
    BY <2>2, <2>3 DEF PatternInv
<1>2. CASE GroupCutoff \/ DrawMatch \/ EndSeed \/ UNCHANGED vars
  <2>1. /\ UNCHANGED <<actions, selection, statuses, bySample, pattern, supported>>
        /\ stage' = stage \/ (/\ stage \notin {"calibrate", "judge", "done"}
                              /\ stage' \notin {"calibrate", "judge"})
    BY <1>2 DEF GroupCutoff, DrawMatch, EndSeed, vars, Files
  <2>2. ThresholdsTyped' <=> ThresholdsTyped
    BY <2>1 DEF ThresholdsTyped
  <2>3. \A k \in DOMAIN pattern' :
          /\ pattern'[k].certified = CertifiedPrecision(pattern[k].cutoff)'
          /\ pattern'[k].point = PointPrecision(pattern[k].cutoff)'
    BY <2>1, SameDecisions DEF PatternInv
  <2> QED
    BY <2>1, <2>2, <2>3, SamePattern DEF PatternInv
<1>3. CASE RecordCutoff
  BY <1>3, RecordKeeps
<1>4. CASE Conclude
  <2>1. /\ UNCHANGED <<actions, selection, statuses, bySample, pattern>>
        /\ stage' = "done" /\ supported' = IF IsSupported THEN "yes" ELSE "no"
    BY <1>4 DEF Conclude, Files, IsSupported
  <2>2. ThresholdsTyped' <=> ThresholdsTyped
    BY <2>1 DEF ThresholdsTyped
  <2>3. \A k \in DOMAIN pattern' :
          /\ pattern'[k].certified = CertifiedPrecision(pattern[k].cutoff)'
          /\ pattern'[k].point = PointPrecision(pattern[k].cutoff)'
    BY <2>1, SameDecisions DEF PatternInv
  <2> QED
    BY <2>1, <2>2, <2>3, SamePattern DEF PatternInv
<1> QED
  BY <1>1, <1>2, <1>3, <1>4 DEF Next

\* The record of every compared cutoff is that of its decisions.
THEOREM PatternInvariant == Spec => [](Calibrated /\ PatternInv)
<1>1. Init => PatternInv
  <2> SUFFICES ASSUME Init PROVE PatternInv
    OBVIOUS
  <2>1. pattern = <<>> /\ pattern \in Seq({}) /\ DOMAIN pattern = {} /\ supported = "none"
    BY DEF Init
  <2> QED
    BY <2>1 DEF PatternInv
<1> QED
  BY <1>1, PatternStep, CalibratedInvariant, PTL DEF Spec

\* Rates over one denominator are ordered as their numerators.
LEMMA RateIsMonotone ==
  ASSUME NEW part \in Nat, NEW more \in Nat, NEW total \in Nat \ {0}, part <= more
  PROVE  Rate(part, total) \in Int /\ Rate(part, total) <= Rate(more, total)
<1>1. Scale * part \in Int /\ Scale * more \in Int /\ Scale * part <= Scale * more
  BY CertificationAssumption
<1> DEFINE p == Scale * part
           m == Scale * more
<1>2. p \in Int /\ m \in Int /\ p <= m
  BY <1>1
<1> HIDE DEF p, m
<1>3. p \div total \in Int /\ p \div total <= m \div total
  BY <1>2
<1> QED
  BY <1>3 DEF p, m, Rate

\* The ranking of a pool is a strict order.
LEMMA RankingIsStrict ==
  ASSUME Judged, NEW cutoff
  PROVE  IsStrictOrder({pair \in ValidPool(cutoff) \X ValidPool(cutoff) :
                          IsRankedBefore(pair[1], pair[2])}, ValidPool(cutoff))
<1> DEFINE valid == ValidPool(cutoff)
           R == {p \in ValidPool(cutoff) \X ValidPool(cutoff) : IsRankedBefore(p[1], p[2])}
<1>1. \A i \in valid : i \in Int /\ actions[i].score \in Int /\ actions[i].sample \in Int
  BY FileIsSequence DEF ValidPool, Group
<1>2. \A i, j \in valid : <<i, j>> \in R <=> IsRankedBefore(i, j)
  OBVIOUS
<1>3. \A i \in valid : ~ IsRankedBefore(i, i)
  BY <1>1 DEF IsRankedBefore
<1>4. \A i, j, k \in valid :
        IsRankedBefore(i, j) /\ IsRankedBefore(j, k) => IsRankedBefore(i, k)
  BY <1>1 DEF IsRankedBefore
<1>5. \A i, j \in valid : i # j => IsRankedBefore(i, j) \/ IsRankedBefore(j, i)
  BY <1>1 DEF IsRankedBefore
<1> HIDE DEF R, valid
<1>6. IsStrictOrder(R, valid)
  BY <1>2, <1>3, <1>4, <1>5 DEF IsStrictOrder
<1> QED
  BY <1>6 DEF R, valid

\* As many are selected by the point as are certified.
LEMMA SelectedAreAsMany ==
  ASSUME Judged, Len(statuses) = Len(actions), NEW cutoff
  PROVE  /\ PointSelected(cutoff) \subseteq ValidPool(cutoff)
         /\ Cardinality(PointSelected(cutoff)) = Cardinality(Certified(cutoff))
<1> DEFINE valid == ValidPool(cutoff)
           R == {pair \in ValidPool(cutoff) \X ValidPool(cutoff) : IsRankedBefore(pair[1], pair[2])}
           n == Cardinality(Certified(cutoff))
<1>1. IsFiniteSet(valid) /\ IsStrictOrder(R, valid)
  BY PoolIsFinite, RankingIsStrict
<1>2. n \in Nat /\ Cardinality(valid) \in Nat /\ n <= Cardinality(valid)
  BY <1>1, CertifiedAreInPool, FS_Subset, FS_CardinalityType
<1>3. \A i \in valid : Rank(R, valid)[i] = Cardinality({j \in valid : IsRankedBefore(j, i)})
  <2> TAKE i \in valid
  <2>1. Earlier(R, valid, i) = {j \in valid : IsRankedBefore(j, i)}
    BY DEF Earlier
  <2> QED
    BY <2>1 DEF Rank
<1>4. PointSelected(cutoff) = {i \in valid : Rank(R, valid)[i] < n}
  BY <1>3 DEF PointSelected
<1> HIDE DEF R, valid, n
<1>5. n \in 0 .. Cardinality(valid)
  BY <1>2
<1>6. Cardinality({i \in valid : Rank(R, valid)[i] < n}) = n
  BY <1>1, <1>5, FirstRanks
<1>7. PointSelected(cutoff) \subseteq valid
  BY <1>4
<1> QED
  BY <1>4, <1>6, <1>7 DEF n, valid

\* What is chosen, by whether the later release bears it out.
BorneOut(chosen) == {i \in chosen : actions[i].later >= selection.align}

\* The precision of a part of the valid, from how many of it are not borne out.
LEMMA Misses ==
  ASSUME Judged, ThresholdsTyped, NEW cutoff, NEW chosen \in SUBSET ValidPool(cutoff)
  PROVE  /\ IsFiniteSet(chosen \ BorneOut(chosen))
         /\ Cardinality(chosen \ BorneOut(chosen)) \in Nat
         /\ Cardinality(BorneOut(chosen)) \in Nat /\ Cardinality(chosen) \in Nat
         /\ Cardinality(BorneOut(chosen))
              = Cardinality(chosen) - Cardinality(chosen \ BorneOut(chosen))
         /\ \A i \in ValidPool(cutoff) :
              i \in chosen \ BorneOut(chosen)
                <=> i \in chosen /\ actions[i].later < selection.align
<1>1. IsFiniteSet(chosen)
  BY PoolIsFinite, FS_Subset
<1>2. BorneOut(chosen) \in SUBSET chosen
  BY DEF BorneOut
<1>3. IsFiniteSet(BorneOut(chosen)) /\ IsFiniteSet(chosen \ BorneOut(chosen))
  BY <1>1, <1>2, FS_Subset
<1>4. Cardinality(chosen)
        = Cardinality(BorneOut(chosen)) + Cardinality(chosen \ BorneOut(chosen))
  <2>1. BorneOut(chosen) \cup (chosen \ BorneOut(chosen)) = chosen
    BY <1>2
  <2>2. BorneOut(chosen) \cap (chosen \ BorneOut(chosen)) = {}
    OBVIOUS
  <2>3. Cardinality(chosen)
          = Cardinality(BorneOut(chosen)) + Cardinality(chosen \ BorneOut(chosen))
              - Cardinality(BorneOut(chosen) \cap (chosen \ BorneOut(chosen)))
    BY <1>3, <2>1, FS_Union
  <2> QED
    BY <1>3, <2>2, <2>3, FS_EmptySet, FS_CardinalityType
<1>5. /\ Cardinality(chosen \ BorneOut(chosen)) \in Nat
      /\ Cardinality(BorneOut(chosen)) \in Nat /\ Cardinality(chosen) \in Nat
  BY <1>1, <1>3, FS_CardinalityType
<1>6. \A i \in ValidPool(cutoff) : actions[i].later \in Int
  BY FileIsSequence DEF ValidPool, Group
<1>7. \A i \in ValidPool(cutoff) :
        i \in chosen \ BorneOut(chosen) <=> i \in chosen /\ actions[i].later < selection.align
  BY <1>6 DEF BorneOut, ThresholdsTyped
<1> QED
  BY <1>3, <1>4, <1>5, <1>7

\* The precision of certified actions is a number.
LEMMA PrecisionIsNumber ==
  ASSUME Judged, ThresholdsTyped, Len(statuses) = Len(actions), NEW cutoff,
         Certified(cutoff) # {}
  PROVE  LaterRealPrecision(Certified(cutoff)) \in Int
<1> DEFINE certified == Certified(cutoff)
<1>1. certified \in SUBSET ValidPool(cutoff) /\ IsFiniteSet(certified)
  BY CertifiedAreInPool, PoolIsFinite, FS_Subset
<1>2. /\ Cardinality(BorneOut(certified)) \in Nat
      /\ Cardinality(certified) \in Nat /\ Cardinality(certified) # 0
  <2> HIDE DEF certified
  <2>1. certified # {}
    BY DEF certified
  <2> QED
    BY <1>1, <2>1, Misses, FS_EmptySet
<1>3. LaterRealPrecision(certified)
        = Rate(Cardinality(BorneOut(certified)), Cardinality(certified))
  BY DEF LaterRealPrecision, BorneOut
<1> HIDE DEF certified
<1>4. Cardinality(BorneOut(certified)) <= Cardinality(BorneOut(certified))
  BY <1>2
<1>5. LaterRealPrecision(certified) \in Int
  BY <1>2, <1>3, <1>4, RateIsMonotone
<1> QED
  BY <1>5 DEF certified

\* Where every uncertified valid action is borne out, selecting by the point is no less
\* precise than certifying.
LEMMA PointIsNoWorse ==
  ASSUME Judged, ThresholdsTyped, Len(statuses) = Len(actions), NEW cutoff,
         Certified(cutoff) # {},
         \A i \in ValidPool(cutoff) :
           i \notin Certified(cutoff) => ~ (actions[i].later < selection.align)
  PROVE  /\ CertifiedPrecision(cutoff) \in Int /\ PointPrecision(cutoff) \in Int
         /\ CertifiedPrecision(cutoff) <= PointPrecision(cutoff)
<1> DEFINE certified == Certified(cutoff)
           point     == PointSelected(cutoff)
           valid     == ValidPool(cutoff)
<1>1. certified \in SUBSET valid /\ point \in SUBSET valid
      /\ Cardinality(point) = Cardinality(certified)
  BY CertifiedAreInPool, SelectedAreAsMany
<1>2. /\ IsFiniteSet(certified \ BorneOut(certified))
      /\ Cardinality(certified \ BorneOut(certified)) \in Nat
      /\ Cardinality(BorneOut(certified)) \in Nat /\ Cardinality(certified) \in Nat
      /\ Cardinality(BorneOut(certified))
           = Cardinality(certified) - Cardinality(certified \ BorneOut(certified))
      /\ \A i \in valid : i \in certified \ BorneOut(certified)
                           <=> i \in certified /\ actions[i].later < selection.align
  <2> HIDE DEF certified
  <2> QED
    BY <1>1, Misses
<1>3. /\ Cardinality(point \ BorneOut(point)) \in Nat
      /\ Cardinality(BorneOut(point)) \in Nat
      /\ Cardinality(BorneOut(point))
           = Cardinality(point) - Cardinality(point \ BorneOut(point))
      /\ \A i \in valid : i \in point \ BorneOut(point)
                           <=> i \in point /\ actions[i].later < selection.align
  <2> HIDE DEF point
  <2> QED
    BY <1>1, Misses
<1>4. point \ BorneOut(point) \in SUBSET (certified \ BorneOut(certified))
  BY <1>1, <1>2, <1>3
<1>5. Cardinality(point \ BorneOut(point)) <= Cardinality(certified \ BorneOut(certified))
  BY <1>2, <1>4, FS_Subset
<1>6. Cardinality(BorneOut(certified)) <= Cardinality(BorneOut(point))
  <2> HIDE DEF certified, point
  <2> QED
    BY <1>1, <1>2, <1>3, <1>5
<1>7. IsFiniteSet(certified) /\ IsFiniteSet(point)
  BY <1>1, PoolIsFinite, FS_Subset
<1>8. Cardinality(certified) \in Nat \ {0} /\ point # {}
  BY <1>1, <1>2, <1>7, FS_EmptySet
<1>9. /\ LaterRealPrecision(certified)
           = Rate(Cardinality(BorneOut(certified)), Cardinality(certified))
      /\ LaterRealPrecision(point) = Rate(Cardinality(BorneOut(point)), Cardinality(certified))
  BY <1>1 DEF LaterRealPrecision, BorneOut
<1>10. /\ LaterRealPrecision(certified) \in Int /\ LaterRealPrecision(point) \in Int
       /\ LaterRealPrecision(certified) <= LaterRealPrecision(point)
  <2> HIDE DEF certified, point
  <2>1. Cardinality(BorneOut(point)) <= Cardinality(BorneOut(point))
    BY <1>3
  <2> QED
    BY <1>2, <1>3, <1>6, <1>8, <1>9, <2>1, RateIsMonotone
<1> QED
  BY <1>8, <1>10 DEF CertifiedPrecision, PointPrecision

\* What is summed is finite, and each of its cutoffs has a certified action.
LEMMA ComparedCutoffs ==
  ASSUME PatternInv
  PROVE  /\ IsFiniteSet(Complete)
         /\ \A k \in Complete : /\ k \in DOMAIN pattern
                                /\ Certified(pattern[k].cutoff) # {}
<1>1. DOMAIN pattern = 1 .. Len(pattern) /\ Len(pattern) \in Nat
  BY DEF PatternInv
<1>2. IsFiniteSet(DOMAIN pattern) /\ Complete \in SUBSET (DOMAIN pattern)
  BY <1>1, FS_Interval DEF Complete
<1>3. \A k \in Complete : pattern[k].certified # -1
  BY DEF Complete
<1> QED
  BY <1>2, <1>3, FS_Subset DEF PatternInv, CertifiedPrecision

(***************************************************************************)
(* For any actions, scores and thresholds, the pattern is supported only   *)
(* where choosing mattered: some compared cutoff had a valid action that   *)
(* was not certified and that the later release did not bear out           *)
(* (_compute_central_pattern, _central_pattern_supported).                 *)
(***************************************************************************)
THEOREM SeparationCorrect == Spec => []PatternNeedsSeparation
<1>1. Calibrated /\ PatternInv => PatternNeedsSeparation
  <2> SUFFICES ASSUME Calibrated, PatternInv, supported = "yes",
                      \A k \in Complete : \A i \in ValidPool(pattern[k].cutoff) :
                        i \notin Certified(pattern[k].cutoff)
                          => ~ (actions[i].later < selection.align)
               PROVE  FALSE
    BY DEF PatternNeedsSeparation
  <2> DEFINE f == [k \in Complete |-> pattern[k]["certified"]]
             g == [k \in Complete |-> pattern[k]["point"]]
  <2>1. IsFiniteSet(Complete) /\ pattern # <<>>
    BY ComparedCutoffs DEF PatternInv, IsSupported, Complete
  <2>2. \A k \in Complete : f[k] \in Int /\ g[k] \in Int /\ f[k] <= g[k]
    <3> TAKE k \in Complete
    <3>1. Judged /\ ThresholdsTyped /\ Len(statuses) = Len(actions)
      BY <2>1 DEF PatternInv, Calibrated
    <3>2. k \in DOMAIN pattern /\ Certified(pattern[k].cutoff) # {}
      BY ComparedCutoffs
    <3>3. /\ f[k] = CertifiedPrecision(pattern[k].cutoff)
          /\ g[k] = PointPrecision(pattern[k].cutoff)
      BY <3>2 DEF PatternInv
    <3> HIDE DEF f, g
    <3> QED
      BY <3>1, <3>2, <3>3, PointIsNoWorse
  <2>3. /\ SumFunctionOnSet(f, Complete) \in Int /\ SumFunctionOnSet(g, Complete) \in Int
        /\ SumFunctionOnSet(f, Complete) <= SumFunctionOnSet(g, Complete)
    <3> HIDE DEF f, g
    <3> QED
      BY <2>1, <2>2, SumMonotone, SumOfMember
  <2>4. SumFunctionOnSet(f, Complete) > SumFunctionOnSet(g, Complete)
    BY DEF PatternInv, IsSupported, Total, SumFunction
  <2> QED
    BY <2>3, <2>4
<1> QED
  BY <1>1, PatternInvariant, PTL

\* Of the members of a finite set that rank below the size of a part of it, that part, when
\* it ranks before all the others.
LEMMA FirstOfPool ==
  ASSUME Judged, NEW cutoff, NEW part \in SUBSET ValidPool(cutoff),
         \A i \in part : \A j \in ValidPool(cutoff) \ part :
           IsRankedBefore(i, j) /\ ~ IsRankedBefore(j, i)
  PROVE  {i \in ValidPool(cutoff) :
            Cardinality({j \in ValidPool(cutoff) : IsRankedBefore(j, i)}) < Cardinality(part)}
           = part
<1> DEFINE valid == ValidPool(cutoff)
           before(i) == {j \in valid : IsRankedBefore(j, i)}
<1>1. IsFiniteSet(valid) /\ IsFiniteSet(part) /\ Cardinality(part) \in Nat
  BY PoolIsFinite, FS_Subset, FS_CardinalityType
<1>2. \A i \in valid : /\ before(i) \in SUBSET valid
                      /\ IsFiniteSet(before(i)) /\ Cardinality(before(i)) \in Nat
  BY <1>1, FS_Subset, FS_CardinalityType
<1>3. \A i \in valid : ~ IsRankedBefore(i, i)
  <2>1. \A i \in valid : i \in Int /\ actions[i].score \in Int /\ actions[i].sample \in Int
    BY FileIsSequence DEF ValidPool, Group
  <2> QED
    BY <2>1 DEF IsRankedBefore
<1>4. ASSUME NEW i \in part PROVE Cardinality(before(i)) < Cardinality(part)
  <2>1. before(i) \in SUBSET (part \ {i})
    BY <1>3
  <2>2. IsFiniteSet(part \ {i}) /\ Cardinality(part \ {i}) = Cardinality(part) - 1
    BY <1>1, FS_RemoveElement
  <2>3. Cardinality(before(i)) <= Cardinality(part \ {i})
    BY <2>1, <2>2, FS_Subset
  <2>4. Cardinality(before(i)) \in Nat
    BY <1>2
  <2> HIDE DEF before
  <2> QED
    BY <1>1, <2>2, <2>3, <2>4
<1>5. ASSUME NEW i \in valid \ part PROVE ~ (Cardinality(before(i)) < Cardinality(part))
  <2>1. part \in SUBSET before(i)
    OBVIOUS
  <2>2. Cardinality(part) <= Cardinality(before(i)) /\ Cardinality(before(i)) \in Nat
    BY <1>2, <2>1, FS_Subset
  <2> HIDE DEF before
  <2> QED
    BY <1>1, <2>2
<1> QED
  BY <1>4, <1>5

\* On a generated file without a second action of a sample, the certified actions of a cutoff
\* are those with the highest scores.
LEMMA GeneratedCertifyByPoint ==
  ASSUME Calibrated, Len(statuses) = Len(actions), ThresholdsTyped, IsAsGenerated,
         IsInjective([i \in DOMAIN actions |-> actions[i].sample]),
         NEW cutoff, Certified(cutoff) # {}
  PROVE  PointSelected(cutoff) = Certified(cutoff)
<1>1. Judged /\ DOMAIN actions = 1 .. Len(actions) /\ DOMAIN actions = 1 .. Len(statuses)
  BY FileIsSequence DEF Calibrated
<1>2. ASSUME NEW i \in DOMAIN actions
      PROVE  bySample[actions[i].sample] = CertifyActionInterval(actions[i])
  <2>1. PICK j \in 1 .. Len(statuses) : /\ actions[j].sample = actions[i].sample
                                        /\ bySample[actions[i].sample] = statuses[j]
    BY <1>1 DEF Judged
  <2>2. j = i
    BY <1>1, <2>1 DEF IsInjective
  <2> QED
    BY <1>1, <2>1, <2>2 DEF Judged
<1>3. \A i \in Group(cutoff) :
        i \in Certified(cutoff) <=> CertifyActionInterval(actions[i]) = "positive"
  BY <1>2 DEF Certified, Group
<1>4. ValidPool(cutoff) = Group(cutoff) /\ Certified(cutoff) \in SUBSET Group(cutoff)
  BY DEF ValidPool, Group, Certified, IsAsGenerated
<1>5. PICK c \in Certified(cutoff) : TRUE
  OBVIOUS
<1>6. /\ c \in Group(cutoff) /\ actions[c].valid /\ ~ (actions[c].diameter > actions[c].quantile)
      /\ actions[c].upper - actions[c].lower <= selection.amb
  BY <1>3, <1>4, <1>5 DEF CertifyActionInterval, IsCertifiedPositive
<1>7. ASSUME NEW i \in Group(cutoff)
      PROVE  /\ actions[i].valid /\ actions[i].leaveOneOut
             /\ ~ (actions[i].diameter > actions[i].quantile)
             /\ actions[i].upper - actions[i].lower = actions[c].upper - actions[c].lower
             /\ actions[i].score = actions[i].lower + actions[i].upper
             /\ actions[i].lower \in Int /\ actions[i].upper \in Int
  <2>1. i \in DOMAIN actions /\ c \in DOMAIN actions /\ actions[i].cutoff = actions[c].cutoff
    BY <1>6 DEF Group
  <2> QED
    BY <1>1, <1>6, <2>1, FileIsSequence DEF IsAsGenerated
<1>8. \A i \in Group(cutoff) : i \in Certified(cutoff) <=> actions[i].lower >= selection.align
  <2> TAKE i \in Group(cutoff)
  <2>1. CertifyActionInterval(actions[i])
          = IF IsCertifiedPositive(actions[i]) THEN "positive"
            ELSE IF IsCertifiedNegative(actions[i]) THEN "negative" ELSE "ambiguous"
    BY <1>7 DEF CertifyActionInterval
  <2>2. IsCertifiedPositive(actions[i]) <=> actions[i].lower >= selection.align
    BY <1>6, <1>7 DEF IsCertifiedPositive
  <2> QED
    BY <1>3, <2>1, <2>2
<1>9. ASSUME NEW i \in Certified(cutoff), NEW j \in ValidPool(cutoff) \ Certified(cutoff)
      PROVE  IsRankedBefore(i, j) /\ ~ IsRankedBefore(j, i)
  <2>1. i \in Group(cutoff) /\ j \in Group(cutoff)
    BY <1>4
  <2>2. /\ actions[i].lower >= selection.align /\ ~ (actions[j].lower >= selection.align)
        /\ selection.align \in Int
    BY <1>8, <2>1 DEF ThresholdsTyped
  <2> DEFINE width == actions[c].upper - actions[c].lower
  <2>3. /\ actions[i].upper - actions[i].lower = width
        /\ actions[j].upper - actions[j].lower = width
        /\ actions[i].score = actions[i].lower + actions[i].upper
        /\ actions[j].score = actions[j].lower + actions[j].upper
        /\ actions[i].lower \in Int /\ actions[i].upper \in Int
        /\ actions[j].lower \in Int /\ actions[j].upper \in Int
        /\ width \in Int
    BY <1>6, <1>7, <2>1
  <2> HIDE DEF width
  <2>4. \A l, u, m, v, w, t \in Int :
          l >= t /\ ~ (m >= t) /\ u - l = w /\ v - m = w => l + u > m + v
    OBVIOUS
  <2>5. actions[i].lower + actions[i].upper > actions[j].lower + actions[j].upper
    BY <2>2, <2>3, <2>4
  <2>6. actions[i].score > actions[j].score
    BY <2>3, <2>5
  <2>7. actions[i].score \in Int /\ actions[j].score \in Int
    BY <1>1, <2>1, FileIsSequence DEF Group
  <2> QED
    BY <2>6, <2>7 DEF IsRankedBefore
<1>10. Certified(cutoff) \in SUBSET ValidPool(cutoff)
  BY <1>4
<1> QED
  BY <1>1, <1>9, <1>10, FirstOfPool DEF PointSelected

(***************************************************************************)
(* On every file as candidate generation writes it, with one action per    *)
(* sample, certifying is selecting by the point score, and the pattern is  *)
(* not supported (run_action_certificate_validation).                      *)
(***************************************************************************)
THEOREM EqualWidthsCorrect == Spec => []EqualWidthsCertifyByPoint
<1>1. Calibrated /\ PatternInv => EqualWidthsCertifyByPoint
  <2> SUFFICES ASSUME Calibrated, PatternInv, IsAsGenerated,
                      IsInjective([i \in DOMAIN actions |-> actions[i].sample])
               PROVE  /\ \A k \in DOMAIN pattern : pattern[k].certified = pattern[k].point
                      /\ supported # "yes"
    BY DEF EqualWidthsCertifyByPoint
  <2>1. ASSUME NEW k \in DOMAIN pattern PROVE pattern[k].certified = pattern[k].point
    <3> DEFINE cutoff == pattern[k].cutoff
    <3>1. pattern # <<>>
      OBVIOUS
    <3>2. Len(statuses) = Len(actions) /\ ThresholdsTyped
      BY <3>1 DEF PatternInv
    <3>3. Certified(cutoff) # {} => PointSelected(cutoff) = Certified(cutoff)
      BY <3>2, GeneratedCertifyByPoint
    <3>4. CertifiedPrecision(cutoff) = PointPrecision(cutoff)
      BY <3>3 DEF CertifiedPrecision, PointPrecision
    <3> QED
      BY <3>4 DEF PatternInv
  <2>2. ASSUME supported = "yes" PROVE FALSE
    <3>1. [k \in Complete |-> pattern[k]["certified"]] = [k \in Complete |-> pattern[k]["point"]]
      BY <2>1 DEF Complete
    <3>2. Total("certified") = Total("point")
      BY <3>1 DEF Total
    <3>3. Total("certified") > Total("point")
      BY <2>2 DEF PatternInv, IsSupported
    <3>4. Total("certified") \in Int
      <4> DEFINE f == [k \in Complete |-> pattern[k]["certified"]]
      <4>1. ASSUME NEW k \in Complete PROVE f[k] \in Int
        <5> DEFINE cutoff == pattern[k].cutoff
        <5>1. k \in DOMAIN pattern /\ Certified(cutoff) # {}
          BY ComparedCutoffs
        <5>2. Judged /\ ThresholdsTyped /\ Len(statuses) = Len(actions)
          BY <5>1 DEF PatternInv, Calibrated
        <5>3. f[k] = LaterRealPrecision(Certified(cutoff))
          BY <5>1 DEF PatternInv, CertifiedPrecision
        <5> HIDE DEF f, cutoff
        <5> QED
          BY <5>1, <5>2, <5>3, PrecisionIsNumber
      <4> HIDE DEF f
      <4>2. SumFunctionOnSet(f, Complete) \in Int
        BY <4>1, ComparedCutoffs, SumOfMember
      <4> QED
        BY <4>2 DEF f, Total, SumFunction
    <3> QED
      BY <3>2, <3>3, <3>4
  <2> QED
    BY <2>1, <2>2
<1> QED
  BY <1>1, PatternInvariant, PTL

-----------------------------------------------------------------------------
(* Client selection: the input, and the numbers computed from it.          *)

InputTyped ==
  /\ clients \in SUBSET Clients
  /\ information \in [clients -> Informations]
  /\ support \in [clients -> Supports]

\* The clients of clients.json can be counted and compared, and their radii too.
LEMMA InputIsFinite ==
  ASSUME InputTyped
  PROVE  /\ IsFiniteSet(clients) /\ Cardinality(clients) \in Nat /\ clients \subseteq Nat
         /\ \A c \in clients : UncertaintyRadii[c] \in Nat
         /\ \A T \in SUBSET clients : IsFiniteSet(T) /\ Cardinality(T) \in Nat
<1>1. \A T \in SUBSET clients : IsFiniteSet(T) /\ Cardinality(T) \in Nat
  BY ClientSelectionAssumption, FS_Subset, FS_CardinalityType DEF InputTyped
<1>2. \A c \in clients : information[c] \in Informations
  BY DEF InputTyped
<1>3. \A c \in clients : UncertaintyRadii[c] \in Nat
  BY <1>2, ClientSelectionAssumption DEF UncertaintyRadii
<1> QED
  BY <1>1, <1>3, ClientSelectionAssumption DEF InputTyped

\* The maximum and the minimum of two numbers.
LEMMA ExtremesOfTwo ==
  ASSUME NEW a \in Int, NEW b \in Int
  PROVE  /\ Max({a, b}) = IF a >= b THEN a ELSE b
         /\ Min({a, b}) = IF a <= b THEN a ELSE b
<1>1. Max({a, b}) \in {a, b} /\ \A y \in {a, b} : Max({a, b}) >= y
  <2>1. \E x \in {a, b} : \A y \in {a, b} : x >= y
    OBVIOUS
  <2> QED
    BY <2>1 DEF Max
<1>2. Min({a, b}) \in {a, b} /\ \A y \in {a, b} : Min({a, b}) <= y
  <2>1. \E x \in {a, b} : \A y \in {a, b} : x <= y
    OBVIOUS
  <2> QED
    BY <2>1 DEF Min
<1>3. Max({a, b}) = IF a >= b THEN a ELSE b
  BY <1>1
<1>4. Min({a, b}) = IF a <= b THEN a ELSE b
  BY <1>2
<1> QED
  BY <1>3, <1>4

\* A budget is never zero and never more than the clients.
LEMMA BudgetIsPossible ==
  ASSUME InputTyped, IsComparable, NEW i \in DOMAIN BudgetFractions
  PROVE  Budget(i) \in 1 .. Cardinality(clients)
<1> DEFINE n == Cardinality(clients)
           raw == CeilDiv(BudgetFractions[i] * n, FractionUnit)
<1>1. n \in Nat /\ n \in Int /\ n >= 2
  BY InputIsFinite DEF IsComparable
<1>2. BudgetFractions[i] \in Nat /\ FractionUnit \in Nat \ {0}
  BY ClientSelectionAssumption
<1>3. raw \in Int
  <2> HIDE DEF n
  <2>1. BudgetFractions[i] * n \in Nat
    BY <1>1, <1>2
  <2> QED
    BY <1>2, <2>1 DEF CeilDiv
<1> HIDE DEF n, raw
<1>4. Min({n, raw}) = (IF n <= raw THEN n ELSE raw) /\ Min({n, raw}) \in Int
  BY <1>1, <1>3, ExtremesOfTwo
<1>5. Max({1, Min({n, raw})}) = IF 1 >= Min({n, raw}) THEN 1 ELSE Min({n, raw})
  BY <1>4, ExtremesOfTwo
<1>6. Budget(i) = Max({1, Min({n, raw})})
  BY DEF Budget, SelectedCount, n, raw
<1>7. Max({1, Min({n, raw})}) \in 1 .. n
  BY <1>1, <1>3, <1>4, <1>5
<1> QED
  BY <1>6, <1>7 DEF n

\* The width of no selection at all, and what the other widths are multiples of.
LEMMA WidthIsSum ==
  ASSUME InputTyped
  PROVE  /\ WeightedActionWidth({}) \in Int
         /\ \A T \in SUBSET clients : T # {} =>
              /\ SummedRadii(T) \in Int
              /\ WeightedActionWidth(T) = 2 * Len(ActionNorms) * SummedRadii(T)
              /\ WidthReduction(T) = WeightedActionWidth({}) - 2 * Len(ActionNorms) * SummedRadii(T)
              /\ WidthReduction(T) \in Int
<1>1. /\ DOMAIN ActionNorms = 1 .. Len(ActionNorms) /\ Len(ActionNorms) \in Nat
      /\ \A k \in DOMAIN ActionNorms : ActionNorms[k] \in Int
  BY ClientSelectionAssumption
<1>2. IsFiniteSet(DOMAIN ActionNorms)
  BY <1>1, FS_Interval
<1>3. SumFunctionOnSet(ActionNorms, DOMAIN ActionNorms) \in Int
  BY <1>1, <1>2, SumOfMember
<1>4. BallRadius \in Int
  BY ClientSelectionAssumption
<1>5. WeightedActionWidth({}) \in Int
  BY <1>3, <1>4 DEF WeightedActionWidth, SumFunction
<1>6. ASSUME NEW T \in SUBSET clients, T # {}
      PROVE  /\ SummedRadii(T) \in Int
             /\ WeightedActionWidth(T) = 2 * Len(ActionNorms) * SummedRadii(T)
             /\ WidthReduction(T) = WeightedActionWidth({}) - 2 * Len(ActionNorms) * SummedRadii(T)
             /\ WidthReduction(T) \in Int
  <2>1. IsFiniteSet(T) /\ \A c \in T : UncertaintyRadii[c] \in Int
    BY InputIsFinite
  <2>2. SumFunctionOnSet(UncertaintyRadii, T) \in Int
    BY <2>1, SumOfMember
  <2>3. SummedRadii(T) \in Int
    BY <2>2 DEF SummedRadii
  <2>4. WeightedActionWidth(T) = 2 * Len(ActionNorms) * SummedRadii(T)
    BY <1>6 DEF WeightedActionWidth
  <2>5. 2 * Len(ActionNorms) * SummedRadii(T) \in Int
    BY <1>1, <2>3
  <2>6. WidthReduction(T) = WeightedActionWidth({}) - 2 * Len(ActionNorms) * SummedRadii(T)
    BY <2>4 DEF WidthReduction
  <2> QED
    BY <1>5, <2>3, <2>4, <2>5, <2>6
<1> QED
  BY <1>5, <1>6

-----------------------------------------------------------------------------
(* The picks, from the set picked before.                                  *)

Matrices == [d \in Directions |-> [c \in clients |-> information[c][d]]]

\* What greedy_d_optimal has accumulated after the clients of T.
AccumulatedOf(T) == [d \in Directions |-> SumFunctionOnSet(Matrices[d], T)]

GainAfter(T, c) == Determinant(Add(AccumulatedOf(T), information[c]))

GlobalPick(T) ==
  CHOOSE c \in clients \ T : \A e \in (clients \ T) \ {c} :
    \/ GainAfter(T, c) > GainAfter(T, e)
    \/ GainAfter(T, c) = GainAfter(T, e) /\ c < e

WidthAfter(T, c) == WeightedActionWidth(T \cup {c})

ContractionPick(T) ==
  CHOOSE c \in clients \ T : \A e \in (clients \ T) \ {c} :
    \/ WidthAfter(T, c) < WidthAfter(T, e)
    \/ WidthAfter(T, c) = WidthAfter(T, e) /\ Position[c] > Position[e]

LargestPick(k) ==
  CHOOSE c \in clients : Cardinality({e \in clients : RanksBefore(e, c)}) = k - 1

\* Keys and ties that order the clients left.
IsKeyed(left, key, tie) ==
  /\ \A c \in left : key[c] \in Int /\ tie[c] \in Int
  /\ \A c, e \in left : tie[c] = tie[e] => c = e

IsBest(left, key, tie, c) ==
  \A e \in left \ {c} : key[c] > key[e] \/ (key[c] = key[e] /\ tie[c] < tie[e])

\* Of finitely many one has the largest key and, of those, the smallest tie.
LEMMA BestExists ==
  ASSUME NEW left, IsFiniteSet(left), left # {}, NEW key, NEW tie, IsKeyed(left, key, tie)
  PROVE  \E c \in left : IsBest(left, key, tie, c)
<1> DEFINE Before(c, e) == key[c] > key[e] \/ (key[c] = key[e] /\ tie[c] < tie[e])
           R == {p \in left \X left : Before(p[1], p[2])}
<1>1. \A c, e \in left : <<c, e>> \in R <=> Before(c, e)
  OBVIOUS
<1>2. \A c \in left : ~ Before(c, c)
  BY DEF IsKeyed
<1>3. \A c, d, e \in left : Before(c, d) /\ Before(d, e) => Before(c, e)
  BY DEF IsKeyed
<1>4. \A c, e \in left : c # e => Before(c, e) \/ Before(e, c)
  BY DEF IsKeyed
<1> HIDE DEF Before, R
<1>5. IsStrictOrder(R, left)
  BY <1>1, <1>2, <1>3, <1>4 DEF IsStrictOrder
<1>6. PICK c \in left : \A e \in left \ {c} : <<c, e>> \in R /\ <<e, c>> \notin R
  BY <1>5, FirstExists
<1>7. \A e \in left \ {c} : Before(c, e)
  BY <1>1, <1>6
<1> QED
  BY <1>7 DEF Before, IsBest

\* The determinant is a number.
LEMMA GainIsNumber ==
  ASSUME InputTyped, NEW T \in SUBSET clients, NEW c \in clients
  PROVE  GainAfter(T, c) \in Int
<1> DEFINE h == Add(AccumulatedOf(T), information[c])
           f == [d \in Directions |-> h[d] + Ridge]
<1>1. \A e \in clients : \A d \in Directions : information[e][d] \in Nat
  BY ClientSelectionAssumption DEF InputTyped
<1>2. ASSUME NEW d \in Directions PROVE AccumulatedOf(T)[d] \in Nat
  <2> DEFINE g == Matrices[d]
             zero == [e \in clients |-> 0]
  <2>1. \A e \in T : g[e] = information[e][d] /\ zero[e] = 0
    BY DEF Matrices
  <2>2. \A e \in T : g[e] \in Int /\ zero[e] \in Int /\ zero[e] <= g[e] /\ zero[e] = 0
    BY <1>1, <2>1
  <2> HIDE DEF g, zero
  <2>3. IsFiniteSet(T) /\ Cardinality(T) \in Nat
    BY InputIsFinite
  <2>4. SumFunctionOnSet(g, T) \in Int
    BY <2>2, <2>3, SumOfMember
  <2>5. SumFunctionOnSet(zero, T) <= SumFunctionOnSet(g, T)
    BY <2>2, <2>3, SumMonotone
  <2>6. SumFunctionOnSet(zero, T) = 0 * Cardinality(T)
    BY <2>2, <2>3, SumOfConstant
  <2>7. SumFunctionOnSet(g, T) \in Nat
    BY <2>3, <2>4, <2>5, <2>6
  <2> QED
    BY <2>7 DEF AccumulatedOf, g
<1>3. \A d \in Directions : h[d] \in Nat
  BY <1>1, <1>2 DEF Add
<1>4. \A d \in DOMAIN f : f[d] \in Nat
  BY <1>3, ClientSelectionAssumption
<1>5. IsFiniteSet(DOMAIN f)
  BY ClientSelectionAssumption
<1>6. Determinant(h) = FoldFunction(LAMBDA x, y : x * y, 1, f)
  BY DEF Determinant
<1> HIDE DEF f
<1>7. FoldFunction(LAMBDA x, y : x * y, 1, f) \in Nat
  BY <1>4, <1>5, ProductIsNatural
<1>8. Determinant(h) \in Nat
  BY <1>6, <1>7
<1> QED
  BY <1>8 DEF GainAfter

\* greedy_d_optimal picks one of the clients left.
LEMMA GlobalPickIsLeft ==
  ASSUME InputTyped, NEW T \in SUBSET clients, T # clients
  PROVE  GlobalPick(T) \in clients \ T
<1> DEFINE left == clients \ T
           key == [c \in left |-> GainAfter(T, c)]
           tie == [c \in left |-> c]
<1>1. IsFiniteSet(left) /\ left # {}
  BY InputIsFinite
<1>2. \A c \in left : key[c] \in Int /\ tie[c] \in Int
  BY GainIsNumber, InputIsFinite
<1>3. \A c \in left : key[c] = GainAfter(T, c) /\ tie[c] = c
  OBVIOUS
<1>4. \A c, e \in left : tie[c] = tie[e] => c = e
  OBVIOUS
<1> HIDE DEF left, key, tie
<1>5. \E c \in left : IsBest(left, key, tie, c)
  BY <1>1, <1>2, <1>4, BestExists DEF IsKeyed
<1>6. \E c \in left : \A e \in left \ {c} :
        \/ GainAfter(T, c) > GainAfter(T, e)
        \/ GainAfter(T, c) = GainAfter(T, e) /\ c < e
  BY <1>3, <1>5 DEF IsBest
<1> QED
  BY <1>6 DEF GlobalPick, left

\* The contraction picks a client left with the smallest radius of them.
LEMMA ContractionPickIsCheapest ==
  ASSUME InputTyped, IsComparable, NEW T \in SUBSET clients, T # clients
  PROVE  /\ ContractionPick(T) \in clients \ T
         /\ \A e \in clients \ T :
              UncertaintyRadii[ContractionPick(T)] <= UncertaintyRadii[e]
<1> DEFINE left == clients \ T
           key == [c \in left |-> - WidthAfter(T, c)]
           tie == [c \in left |-> - Position[c]]
           L == Len(ActionNorms)
           rest == SumFunctionOnSet(UncertaintyRadii, T)
<1>1. IsFiniteSet(left) /\ left # {}
  BY InputIsFinite
<1>2. L \in Nat /\ L > 0
  BY ClientSelectionAssumption DEF IsComparable
<1>3. ASSUME NEW c \in left
      PROVE  /\ UncertaintyRadii[c] \in Int /\ rest \in Int
             /\ WidthAfter(T, c) = 2 * L * (UncertaintyRadii[c] + rest)
  <2>1. T \cup {c} \in SUBSET clients /\ (T \cup {c}) \ {c} = T
    OBVIOUS
  <2>2. IsFiniteSet(T) /\ IsFiniteSet(T \cup {c})
        /\ \A e \in T \cup {c} : UncertaintyRadii[e] \in Int
    BY <2>1, InputIsFinite
  <2>3. SumFunctionOnSet(UncertaintyRadii, T \cup {c}) = UncertaintyRadii[c] + rest
    BY <2>1, <2>2, SumOfMember
  <2>4. rest \in Int
    BY <2>2, SumOfMember
  <2>5. WidthAfter(T, c) = 2 * L * SumFunctionOnSet(UncertaintyRadii, T \cup {c})
    BY <2>1, WidthIsSum DEF WidthAfter, SummedRadii
  <2> QED
    BY <2>2, <2>3, <2>4, <2>5
<1>4. \A c \in left : WidthAfter(T, c) \in Int
  <2> HIDE DEF left, rest, L
  <2> QED
    BY <1>2, <1>3
<1>5. \A c \in clients : Position[c] \in Int
  BY ClientSelectionAssumption DEF InputTyped
<1>6. \A c, e \in clients : Position[c] = Position[e] => c = e
  BY ClientSelectionAssumption DEF InputTyped, IsInjective
<1>7. \A c \in left : /\ key[c] \in Int /\ tie[c] \in Int
                      /\ key[c] = - WidthAfter(T, c) /\ tie[c] = - Position[c]
  BY <1>4, <1>5
<1>8. \A c, e \in left : tie[c] = tie[e] => c = e
  BY <1>5, <1>6, <1>7
<1> HIDE DEF key, tie, L, rest
<1>9. \E c \in left : IsBest(left, key, tie, c)
  <2> HIDE DEF left
  <2> QED
    BY <1>1, <1>7, <1>8, BestExists DEF IsKeyed
<1>10. \E c \in left : \A e \in left \ {c} :
        \/ WidthAfter(T, c) < WidthAfter(T, e)
        \/ WidthAfter(T, c) = WidthAfter(T, e) /\ Position[c] > Position[e]
  BY <1>4, <1>5, <1>7, <1>9 DEF IsBest
<1>11. /\ ContractionPick(T) \in left
       /\ \A e \in left \ {ContractionPick(T)} :
            WidthAfter(T, ContractionPick(T)) <= WidthAfter(T, e)
  <2>1. /\ ContractionPick(T) \in left
        /\ \A e \in left \ {ContractionPick(T)} :
             \/ WidthAfter(T, ContractionPick(T)) < WidthAfter(T, e)
             \/ /\ WidthAfter(T, ContractionPick(T)) = WidthAfter(T, e)
                /\ Position[ContractionPick(T)] > Position[e]
    BY <1>10 DEF ContractionPick
  <2> HIDE DEF left
  <2> QED
    BY <1>4, <2>1
<1>12. ASSUME NEW e \in left
       PROVE  UncertaintyRadii[ContractionPick(T)] <= UncertaintyRadii[e]
  <2> DEFINE c == ContractionPick(T)
  <2>1. WidthAfter(T, c) <= WidthAfter(T, e)
    BY <1>4, <1>11
  <2>2. 2 * L * (UncertaintyRadii[c] + rest) <= 2 * L * (UncertaintyRadii[e] + rest)
    BY <1>3, <1>11, <2>1
  <2>3. \A x, y \in Int : 2 * L * x <= 2 * L * y => x <= y
    BY <1>2
  <2>4. /\ UncertaintyRadii[c] \in Int /\ UncertaintyRadii[e] \in Int /\ rest \in Int
        /\ UncertaintyRadii[c] + rest \in Int /\ UncertaintyRadii[e] + rest \in Int
    BY <1>3, <1>11
  <2>5. UncertaintyRadii[c] + rest <= UncertaintyRadii[e] + rest
    BY <2>2, <2>3, <2>4
  <2> QED
    BY <2>4, <2>5
<1> QED
  BY <1>11, <1>12

\* Nobody left is cheaper than who is in.
Cheapest(T) == \A c \in T : \A e \in clients \ T : UncertaintyRadii[c] <= UncertaintyRadii[e]

\* The cheapest clients make the smallest sum of all selections as large.
LEMMA CheapestIsLeast ==
  ASSUME InputTyped, NEW T \in SUBSET clients, Cheapest(T),
         NEW U \in SUBSET clients, Cardinality(U) = Cardinality(T)
  PROVE  SummedRadii(T) <= SummedRadii(U)
<1> DEFINE r == UncertaintyRadii
           Sum(V) == SumFunctionOnSet(r, V)
           mine == T \ U
           others == U \ T
           common == T \cap U
<1>1. \A V \in SUBSET clients : /\ IsFiniteSet(V) /\ Cardinality(V) \in Nat
                               /\ Sum(V) \in Int /\ \A c \in V : r[c] \in Nat
  BY InputIsFinite, SumOfMember
<1>2. mine \in SUBSET clients /\ others \in SUBSET clients /\ common \in SUBSET clients
  OBVIOUS
<1>3. Cardinality(mine) = Cardinality(others)
  <2>1. /\ Cardinality(mine) = Cardinality(T) - Cardinality(common)
        /\ Cardinality(others) = Cardinality(U) - Cardinality(U \cap T)
    BY <1>1, FS_Difference
  <2>2. U \cap T = common
    OBVIOUS
  <2> QED
    BY <2>1, <2>2
<1>4. Sum(T) = Sum(common) + Sum(mine) /\ Sum(U) = Sum(common) + Sum(others)
  <2>1. common \in SUBSET T /\ common \in SUBSET U /\ T \ common = mine /\ U \ common = others
    OBVIOUS
  <2>2. \A V \in SUBSET clients : \A P \in SUBSET V : Sum(V) = Sum(P) + Sum(V \ P)
    <3> TAKE V \in SUBSET clients
    <3> TAKE P \in SUBSET V
    <3>1. IsFiniteSet(V) /\ \A c \in V : r[c] \in Int
      BY <1>1
    <3> QED
      BY <3>1, SumOfParts
  <2> QED
    BY <2>1, <2>2
<1>5. Sum(mine) <= Sum(others)
  <2>1. CASE mine = {}
    <3>1. Cardinality(others) = 0
      BY <1>3, <2>1, FS_EmptySet
    <3>2. others = {}
      BY <1>1, <1>2, <3>1, FS_EmptySet
    <3>3. Sum({}) \in Int
      BY SumOfNothing
    <3> HIDE DEF Sum
    <3> QED
      BY <2>1, <3>2, <3>3
  <2>2. CASE mine # {}
    <3> DEFINE values == {r[c] : c \in mine}
    <3>1. IsFiniteSet(values)
      <4> DEFINE f == [c \in mine |-> r[c]]
      <4>1. f = [c \in mine |-> f[c]] /\ values = {f[c] : c \in mine}
        OBVIOUS
      <4>2. IsFiniteSet(mine)
        BY <1>1, <1>2
      <4> HIDE DEF f, mine, values
      <4> QED
        BY <4>1, <4>2, FiniteRange
    <3>2. values \in SUBSET Nat /\ values # {}
      BY <1>1, <1>2, <2>2
    <3>3. PICK bound \in values : \A v \in values : v <= bound
      <4> HIDE DEF values
      <4> QED
        BY <3>1, <3>2, GreatestNatural
    <3>4. bound \in Nat /\ \A c \in mine : r[c] <= bound
      BY <3>2, <3>3
    <3>5. \A e \in others : bound <= r[e]
      BY <3>3 DEF Cheapest
    <3> DEFINE constant == [c \in clients |-> bound]
    <3>6. \A V \in SUBSET clients : Sum(V) \in Int /\ Cardinality(V) \in Nat
                                   /\ SumFunctionOnSet(constant, V) = bound * Cardinality(V)
      <4> TAKE V \in SUBSET clients
      <4>1. \A c \in V : constant[c] = bound
        OBVIOUS
      <4>2. IsFiniteSet(V) /\ bound \in Int
        BY <1>1, <3>4
      <4> HIDE DEF constant
      <4> QED
        BY <1>1, <4>1, <4>2, SumOfConstant
    <3>7. Sum(mine) <= SumFunctionOnSet(constant, mine)
      <4>1. \A c \in mine : r[c] \in Int /\ constant[c] \in Int /\ r[c] <= constant[c]
        BY <1>1, <1>2, <3>4
      <4>2. IsFiniteSet(mine)
        BY <1>1, <1>2
      <4> HIDE DEF constant, mine, r
      <4> QED
        BY <4>1, <4>2, SumMonotone
    <3>8. SumFunctionOnSet(constant, others) <= Sum(others)
      <4>1. \A c \in others : r[c] \in Int /\ constant[c] \in Int /\ constant[c] <= r[c]
        BY <1>1, <1>2, <3>4, <3>5
      <4>2. IsFiniteSet(others)
        BY <1>1, <1>2
      <4> HIDE DEF constant, others, r
      <4> QED
        BY <4>1, <4>2, SumMonotone
    <3>9. bound * Cardinality(mine) \in Int
      BY <3>4, <3>6
    <3> HIDE DEF constant, Sum, mine, others
    <3> QED
      BY <1>2, <1>3, <3>6, <3>7, <3>8, <3>9
  <2> QED
    BY <2>1, <2>2
<1>6. Sum(T) <= Sum(U)
  <2> HIDE DEF Sum, mine, others, common
  <2> QED
    BY <1>1, <1>2, <1>4, <1>5
<1> QED
  BY <1>6 DEF SummedRadii

\* So no selection as large has a larger width reduction.
LEMMA CheapestReducesMost ==
  ASSUME InputTyped, NEW T \in SUBSET clients, T # {}, Cheapest(T),
         NEW U \in SUBSET clients, Cardinality(U) = Cardinality(T)
  PROVE  WidthReduction(T) >= WidthReduction(U)
<1>1. U # {}
  BY InputIsFinite, FS_EmptySet
<1>2. SummedRadii(T) <= SummedRadii(U)
  BY CheapestIsLeast
<1>3. Len(ActionNorms) \in Nat
  BY ClientSelectionAssumption
<1> DEFINE t == SummedRadii(T)
           u == SummedRadii(U)
           none == WeightedActionWidth({})
           L == Len(ActionNorms)
<1>4. /\ t \in Int /\ u \in Int /\ none \in Int
      /\ WidthReduction(T) = none - 2 * L * t
      /\ WidthReduction(U) = none - 2 * L * u
  BY <1>1, WidthIsSum
<1> HIDE DEF t, u, none, L
<1>5. L * t <= L * u /\ L * t \in Int /\ L * u \in Int
  BY <1>2, <1>3, <1>4 DEF t, u, L
<1>6. 2 * L * t = 2 * (L * t) /\ 2 * L * u = 2 * (L * u)
  BY <1>3, <1>4 DEF L
<1> QED
  BY <1>4, <1>5, <1>6

\* The largest effective support first, then the smallest identifier.
LEMMA SupportIsStrict ==
  ASSUME InputTyped
  PROVE  IsStrictOrder({p \in clients \X clients : RanksBefore(p[1], p[2])}, clients)
<1> DEFINE R == {p \in clients \X clients : RanksBefore(p[1], p[2])}
           s(c) == EffectiveSupport(c)
<1>1. \A c, e \in clients : <<c, e>> \in R <=> RanksBefore(c, e)
  OBVIOUS
<1>2. \A c \in clients : c \in Int /\ s(c)[1] \in Int /\ s(c)[2] \in Int /\ s(c)[2] > 0
  <2> TAKE c \in clients
  <2>1. c \in Int
    BY InputIsFinite
  <2>2. support[c] \in Nat \X Nat
    BY ClientSelectionAssumption DEF InputTyped
  <2>3. PICK n \in Nat, m \in Nat : support[c] = <<n, m>>
    BY <2>2
  <2>4. s(c) = IF n = 0 \/ m = 0 THEN <<-1, 1>> ELSE <<n * m, n + m>>
    BY <2>3 DEF EffectiveSupport
  <2>5. n * m \in Nat
    BY <2>3
  <2> HIDE DEF s
  <2> QED
    BY <2>1, <2>3, <2>4, <2>5
<1> DEFINE CrossProducts(a, b, c, d, e, f) ==
             /\ a * d > c * b /\ c * f > e * d => a * f > e * b
             /\ a * d > c * b /\ c * f = e * d => a * f > e * b
             /\ a * d = c * b /\ c * f > e * d => a * f > e * b
             /\ a * d = c * b /\ c * f = e * d => a * f = e * b
<1>3. \A a, b, c, d, e, f \in Int :
        b > 0 /\ d > 0 /\ f > 0 => CrossProducts(a, b, c, d, e, f)
  OBVIOUS
<1>4. \A c \in clients : ~ RanksBefore(c, c)
  BY <1>2 DEF RanksBefore
<1> DEFINE Larger(c, e) == s(c)[1] * s(e)[2] > s(e)[1] * s(c)[2]
           Equal(c, e) == s(c)[1] * s(e)[2] = s(e)[1] * s(c)[2]
<1>5. \A c, e \in clients : RanksBefore(c, e) <=> Larger(c, e) \/ (Equal(c, e) /\ c < e)
  BY DEF RanksBefore
<1>6. ASSUME NEW c \in clients, NEW d \in clients, NEW e \in clients
      PROVE  /\ Larger(c, d) /\ Larger(d, e) => Larger(c, e)
             /\ Larger(c, d) /\ Equal(d, e) => Larger(c, e)
             /\ Equal(c, d) /\ Larger(d, e) => Larger(c, e)
             /\ Equal(c, d) /\ Equal(d, e) => Equal(c, e)
  <2>1. /\ s(c)[1] \in Int /\ s(d)[1] \in Int /\ s(e)[1] \in Int
        /\ s(c)[2] \in Int /\ s(d)[2] \in Int /\ s(e)[2] \in Int
        /\ s(c)[2] > 0 /\ s(d)[2] > 0 /\ s(e)[2] > 0
    BY <1>2
  <2>2. CrossProducts(s(c)[1], s(c)[2], s(d)[1], s(d)[2], s(e)[1], s(e)[2])
    <3> HIDE DEF s, CrossProducts
    <3> QED
      BY <1>3, <2>1
  <2> QED
    BY <2>2
<1>7. ASSUME NEW c \in clients, NEW e \in clients
      PROVE  /\ Larger(c, e) \/ Larger(e, c) \/ Equal(c, e)
             /\ Equal(c, e) => Equal(e, c)
  <2>1. s(c)[1] * s(e)[2] \in Int /\ s(e)[1] * s(c)[2] \in Int
    BY <1>2
  <2> HIDE DEF s
  <2> QED
    BY <2>1
<1> HIDE DEF Larger, Equal, s
<1>8. \A c, d, e \in clients : RanksBefore(c, d) /\ RanksBefore(d, e) => RanksBefore(c, e)
  BY <1>2, <1>5, <1>6
<1>9. \A c, e \in clients : c # e => RanksBefore(c, e) \/ RanksBefore(e, c)
  BY <1>2, <1>5, <1>7
<1> HIDE DEF R
<1> QED
  BY <1>1, <1>4, <1>8, <1>9 DEF IsStrictOrder, R

-----------------------------------------------------------------------------
(* Sequences of clients.                                                   *)

IsSelection(s) == s \in Seq(clients) /\ IsInjective(s)

\* What is picked before the k-th pick.
Before(s, k) == {s[j] : j \in 1 .. (k - 1)}

ByGlobal(s) == \A k \in DOMAIN s : s[k] = GlobalPick(Before(s, k))

ByContraction(s) == \A k \in DOMAIN s : s[k] = ContractionPick(Before(s, k))

ByLargest(s) == \A k \in DOMAIN s : s[k] = LargestPick(k)

\* The ranking is a selection of any length there are clients for.
LEMMA RankingIsSelection ==
  ASSUME InputTyped, NEW n \in 1 .. Cardinality(clients)
  PROVE  LET s == LargestSampleCount(n)
         IN  IsSelection(s) /\ Len(s) = n /\ ByLargest(s)
<1> DEFINE R == {p \in clients \X clients : RanksBefore(p[1], p[2])}
           rank == Rank(R, clients)
           s == LargestSampleCount(n)
<1>1. IsFiniteSet(clients) /\ Cardinality(clients) \in Nat /\ IsStrictOrder(R, clients)
  BY InputIsFinite, SupportIsStrict
<1>2. \A c \in clients : rank[c] = Cardinality({e \in clients : RanksBefore(e, c)})
  <2> TAKE c \in clients
  <2>1. Earlier(R, clients, c) = {e \in clients : RanksBefore(e, c)}
    BY DEF Earlier
  <2> QED
    BY <2>1 DEF Rank
<1> HIDE DEF R
<1>3. \A k \in 0 .. (Cardinality(clients) - 1) : \E c \in clients : rank[c] = k
  BY <1>1, RankIsBijection DEF Bijection, Surjection
<1>4. ASSUME NEW k \in 1 .. n
      PROVE  LargestPick(k) \in clients /\ rank[LargestPick(k)] = k - 1
  <2>1. k - 1 \in 0 .. (Cardinality(clients) - 1)
    BY <1>1
  <2>2. \E c \in clients : Cardinality({e \in clients : RanksBefore(e, c)}) = k - 1
    BY <1>2, <1>3, <2>1
  <2>3. /\ LargestPick(k) \in clients
        /\ Cardinality({e \in clients : RanksBefore(e, LargestPick(k))}) = k - 1
    BY <2>2 DEF LargestPick
  <2> QED
    BY <1>2, <2>3
<1>5. s = [k \in 1 .. n |-> LargestPick(k)]
  BY DEF LargestSampleCount, LargestPick
<1>6. n \in Nat
  BY <1>1
<1>7. s \in Seq(clients) /\ Len(s) = n /\ DOMAIN s = 1 .. n
  <2> HIDE DEF s
  <2>1. s \in [1 .. n -> clients]
    BY <1>4, <1>5
  <2> QED
    BY <1>6, <2>1
<1>8. \A k \in 1 .. n : s[k] = LargestPick(k)
  BY <1>5
<1> HIDE DEF s, rank
<1>9. IsInjective(s)
  <2> SUFFICES ASSUME NEW j \in 1 .. n, NEW k \in 1 .. n, s[j] = s[k] PROVE j = k
    BY <1>7 DEF IsInjective
  <2>1. j - 1 = k - 1
    BY <1>4, <1>8
  <2> QED
    BY <1>6, <2>1
<1> QED
  BY <1>7, <1>8, <1>9 DEF IsSelection, ByLargest, s

\* A selection has as many members as picks.
LEMMA SelectionSize ==
  ASSUME InputTyped, NEW s, IsSelection(s)
  PROVE  /\ Range(s) \in SUBSET clients /\ Cardinality(Range(s)) = Len(s) /\ Len(s) \in Nat
         /\ Len(s) # 0 => Range(s) # {}
<1>1. s \in Seq(clients) /\ Len(s) \in Nat /\ DOMAIN s = 1 .. Len(s)
  BY DEF IsSelection
<1>2. s \in [1 .. Len(s) -> Range(s)] /\ Range(s) \in SUBSET clients
  BY <1>1 DEF Range
<1>3. s \in Bijection(1 .. Len(s), Range(s))
  BY <1>1, <1>2 DEF Bijection, Injection, Surjection, IsInjective, Range, IsSelection
<1>4. IsFiniteSet(1 .. Len(s)) /\ Cardinality(1 .. Len(s)) = Len(s)
  <2>1. Len(s) \in Int /\ (1 > Len(s) => Len(s) = 0)
    BY <1>1
  <2> QED
    BY <1>1, <2>1, FS_Interval
<1>5. Cardinality(Range(s)) = Cardinality(1 .. Len(s))
  BY <1>3, <1>4, FS_Bijection DEF ExistsBijection
<1>6. Len(s) # 0 => 1 \in DOMAIN s
  BY <1>1
<1> QED
  BY <1>1, <1>2, <1>4, <1>5, <1>6 DEF Range

\* One more pick of a client that is left.
LEMMA PickKeeps ==
  ASSUME NEW s, IsSelection(s), NEW c \in clients \ Range(s)
  PROVE  /\ IsSelection(Append(s, c)) /\ Len(Append(s, c)) = Len(s) + 1
         /\ Range(Append(s, c)) = Range(s) \cup {c}
         /\ DOMAIN Append(s, c) = DOMAIN s \cup {Len(s) + 1}
         /\ Append(s, c)[Len(s) + 1] = c /\ Before(Append(s, c), Len(s) + 1) = Range(s)
         /\ \A k \in DOMAIN s : /\ Append(s, c)[k] = s[k]
                               /\ Before(Append(s, c), k) = Before(s, k)
<1> DEFINE t == Append(s, c)
           n == Len(s)
<1>1. n \in Nat /\ DOMAIN s = 1 .. n /\ s \in Seq(clients) /\ \A k \in 1 .. n : s[k] \in clients
  BY DEF IsSelection
<1>2. /\ t \in Seq(clients) /\ Len(t) = n + 1 /\ DOMAIN t = 1 .. (n + 1)
      /\ t[n + 1] = c /\ \A k \in 1 .. n : t[k] = s[k]
  BY <1>1
<1> HIDE DEF t, n
<1>3. 1 .. (n + 1) = (1 .. n) \cup {n + 1} /\ n + 1 \notin 1 .. n /\ (n + 1) - 1 = n
  BY <1>1
<1>4. \A k \in 1 .. n : s[k] # c
  BY <1>1 DEF Range
<1>5. IsInjective(t)
  BY <1>1, <1>2, <1>3, <1>4 DEF IsInjective, IsSelection
<1>6. Range(t) = Range(s) \cup {c}
  BY <1>1, <1>2, <1>3 DEF Range
<1>7. Before(t, n + 1) = Range(s)
  BY <1>1, <1>2, <1>3 DEF Before, Range
<1>8. \A k \in 1 .. n : Before(t, k) = Before(s, k)
  <2> TAKE k \in 1 .. n
  <2>1. 1 .. (k - 1) \subseteq 1 .. n
    BY <1>1
  <2> QED
    BY <1>2, <2>1 DEF Before
<1> QED
  BY <1>1, <1>2, <1>3, <1>5, <1>6, <1>7, <1>8 DEF t, n, IsSelection

\* The first n picks of s are those of a rule, a function of what is picked before.
IsByRule(pick, s, n) == \A k \in 1 .. n : s[k] = pick[Before(s, k)]

\* Two sequences picked by one rule agree as far as both go.
LEMMA OneRule ==
  ASSUME NEW pick, NEW m \in Nat, NEW n \in Nat, NEW s, NEW t, m <= n,
         IsByRule(pick, s, m), IsByRule(pick, t, n)
  PROVE  \A k \in 1 .. m : s[k] = t[k]
<1> DEFINE Differ == {k \in 1 .. m : s[k] # t[k]}
<1>1. ASSUME Differ # {} PROVE FALSE
  <2>1. Differ \in SUBSET Nat
    OBVIOUS
  <2>2. PICK k \in Differ : \A j \in Differ : k <= j
    <3> HIDE DEF Differ
    <3> QED
      BY <1>1, <2>1, LeastNatural
  <2>3. k \in 1 .. m /\ k \in 1 .. n /\ s[k] # t[k]
    OBVIOUS
  <2>4. \A j \in 1 .. (k - 1) : s[j] = t[j]
    BY <2>2, <2>3
  <2>5. Before(s, k) = Before(t, k)
    BY <2>4 DEF Before
  <2> QED
    BY <2>3, <2>5 DEF IsByRule
<1> QED
  BY <1>1

\* Sequences that agree as far as the shorter goes.
LEMMA AgreeingIsPrefix ==
  ASSUME NEW S, NEW s \in Seq(S), NEW t \in Seq(S), Len(s) <= Len(t),
         \A k \in 1 .. Len(s) : s[k] = t[k]
  PROVE  IsPrefix(s, t)
<1>1. Len(s) \in Nat /\ Len(t) \in Nat
  OBVIOUS
<1>2. SubSeq(s, 1, Len(s)) = SubSeq(t, 1, Len(s))
  BY <1>1
<1> QED
  BY <1>2 DEF IsPrefix

-----------------------------------------------------------------------------
(* The inductive invariant of the client selection.                        *)

IsComparing == pc \in {"global", "largest", "contraction", "random"}

\* Every round under way or behind was compared under a budget of its own.
RoundsOK ==
  /\ pc \in {"start", "global", "largest", "contraction", "random", "done"}
  /\ round \in Nat /\ verified \in Seq(BOOLEAN) /\ Len(verified) <= Len(BudgetFractions)
  /\ pc = "start" => round = 1 /\ verified = <<>>
  /\ IsComparing => /\ IsComparable /\ round \in DOMAIN BudgetFractions
                    /\ round = Len(verified) + 1
  /\ verified # <<>> => IsComparable

\* What a selection of the budget's size can reduce the width by.
Reductions(i) == {WidthReduction(T) : T \in kSubset(Budget(i), clients)}

IsRunning(s) == IsSelection(s) /\ Len(s) <= Budget(round)

\* The comparator under way follows its rule, and nothing is left of the one before.
RunningOK ==
  /\ pc \notin {"global", "contraction"} => selected = <<>>
  /\ pc = "global" => IsRunning(selected) /\ ByGlobal(selected)
  /\ pc = "contraction" =>
       IsRunning(selected) /\ ByContraction(selected) /\ Cheapest(Range(selected))
  /\ accumulated = AccumulatedOf(IF pc = "global" THEN Range(selected) ELSE {})
  /\ pc = "random" => reductions \in Seq(Reductions(round)) /\ Len(reductions) <= SelectionSeeds
  /\ pc # "random" => reductions = <<>>

Episode == [reduction : Int, chosen : Seq(Clients)]

\* What is recorded is the reduction of a whole selection.
IsEpisode(e, i) ==
  /\ IsSelection(e.chosen) /\ Len(e.chosen) = Budget(i)
  /\ e.reduction = WidthReduction(Range(e.chosen))

IsOfGlobal(e, i) == IsEpisode(e, i) /\ ByGlobal(e.chosen)

IsOfLargest(e, i) == IsEpisode(e, i) /\ ByLargest(e.chosen)

IsOfContraction(e, i) ==
  IsEpisode(e, i) /\ ByContraction(e.chosen) /\ Cheapest(Range(e.chosen))

\* Rounds a comparator has been through: those verified and, past it, the one under way.
Past(later) == Len(verified) + (IF pc \in later THEN 1 ELSE 0)

\* Every episode is one of its comparator under the budget of its round.
EpisodesOK ==
  /\ episodes \in [Comparators -> Seq(Episode)]
  /\ Len(episodes["global"]) = Past({"largest", "contraction", "random"})
  /\ Len(episodes["largest"]) = Past({"contraction", "random"})
  /\ Len(episodes["contraction"]) = Past({"random"})
  /\ Len(episodes["random"]) = Past({})
  /\ \A i \in DOMAIN episodes["global"] : IsOfGlobal(episodes["global"][i], i)
  /\ \A i \in DOMAIN episodes["largest"] : IsOfLargest(episodes["largest"][i], i)
  /\ \A i \in DOMAIN episodes["contraction"] : IsOfContraction(episodes["contraction"][i], i)
  /\ \A i \in DOMAIN episodes["random"] :
       episodes["random"][i].reduction <= episodes["contraction"][i].reduction * SelectionSeeds

SelectionInv == InputTyped /\ RoundsOK /\ RunningOK /\ EpisodesOK

\* What is computed from the input alone stays the same: the command never changes it.
LEMMA SameInput ==
  ASSUME UNCHANGED input
  PROVE  /\ InputTyped' <=> InputTyped
         /\ IsComparable' <=> IsComparable
         /\ \A i : Budget(i)' = Budget(i) /\ Reductions(i)' = Reductions(i)
         /\ \A T : AccumulatedOf(T)' = AccumulatedOf(T) /\ Cheapest(T)' = Cheapest(T)
         /\ \A T : WidthReduction(T)' = WidthReduction(T)
         /\ \A s : IsSelection(s)' <=> IsSelection(s)
         /\ \A s : ByGlobal(s)' <=> ByGlobal(s)
         /\ \A s : ByContraction(s)' <=> ByContraction(s)
         /\ \A s : ByLargest(s)' <=> ByLargest(s)
<1>1. clients' = clients /\ information' = information /\ support' = support
  BY DEF input
<1>2. InputTyped' <=> InputTyped
  BY <1>1 DEF InputTyped
<1>3. IsComparable' <=> IsComparable
  BY <1>1 DEF IsComparable
<1>4. UncertaintyRadii' = UncertaintyRadii /\ Matrices' = Matrices
  BY <1>1 DEF UncertaintyRadii, Matrices
<1>5. \A i : Budget(i)' = Budget(i)
  BY <1>1 DEF Budget
<1>6. \A T : AccumulatedOf(T)' = AccumulatedOf(T)
  BY <1>4 DEF AccumulatedOf
<1>7. \A T : Cheapest(T)' = Cheapest(T)
  BY <1>1, <1>4 DEF Cheapest
<1>8. \A T : WeightedActionWidth(T)' = WeightedActionWidth(T)
  BY <1>4 DEF WeightedActionWidth, SummedRadii
<1>9. \A T : WidthReduction(T)' = WidthReduction(T)
  BY <1>8 DEF WidthReduction
<1>10. \A i : Reductions(i)' = Reductions(i)
  BY <1>1, <1>5, <1>9 DEF Reductions
<1>11. \A s : IsSelection(s)' <=> IsSelection(s)
  BY <1>1 DEF IsSelection
<1>12. \A T, c : GainAfter(T, c)' = GainAfter(T, c)
  BY <1>1, <1>6 DEF GainAfter
<1>13. \A T : GlobalPick(T)' = GlobalPick(T)
  BY <1>1, <1>12 DEF GlobalPick
<1>14. \A T, c : WidthAfter(T, c)' = WidthAfter(T, c)
  BY <1>8 DEF WidthAfter
<1>15. \A T : ContractionPick(T)' = ContractionPick(T)
  BY <1>1, <1>14 DEF ContractionPick
<1>16. \A c, e : RanksBefore(c, e)' <=> RanksBefore(c, e)
  BY <1>1 DEF RanksBefore, EffectiveSupport
<1>17. \A k : LargestPick(k)' = LargestPick(k)
  BY <1>1, <1>16 DEF LargestPick
<1>18. \A s : /\ ByGlobal(s)' <=> ByGlobal(s)
              /\ ByContraction(s)' <=> ByContraction(s)
              /\ ByLargest(s)' <=> ByLargest(s)
  BY <1>13, <1>15, <1>17 DEF ByGlobal, ByContraction, ByLargest
<1> QED
  BY <1>2, <1>3, <1>5, <1>6, <1>7, <1>9, <1>10, <1>11, <1>18

\* What is an episode stays one.
LEMMA SameEpisodes ==
  ASSUME UNCHANGED input
  PROVE  \A e, i : /\ IsOfGlobal(e, i)' <=> IsOfGlobal(e, i)
                   /\ IsOfLargest(e, i)' <=> IsOfLargest(e, i)
                   /\ IsOfContraction(e, i)' <=> IsOfContraction(e, i)
<1>1. \A e, i : IsEpisode(e, i)' <=> IsEpisode(e, i)
  BY SameInput DEF IsEpisode
<1> QED
  BY <1>1, SameInput DEF IsOfGlobal, IsOfLargest, IsOfContraction

\* after is before with the episode e added to those of the comparator m.
IsAdded(before, after, m, e) ==
  LET last == Len(before[m]) + 1
  IN  /\ after \in [Comparators -> Seq(Episode)]
      /\ Len(before[m]) \in Nat /\ Len(after[m]) = last
      /\ DOMAIN after[m] = DOMAIN before[m] \cup {last}
      /\ after[m][last] = e
      /\ \A i \in DOMAIN before[m] : after[m][i] = before[m][i]
      /\ \A other \in Comparators \ {m} : after[other] = before[other]

\* Recording adds an episode.
LEMMA RecordAdds ==
  ASSUME NEW before \in [Comparators -> Seq(Episode)], NEW m \in Comparators, NEW e \in Episode
  PROVE  IsAdded(before, [before EXCEPT ![m] = Append(@, e)], m, e)
<1> DEFINE s == before[m]
           after == [before EXCEPT ![m] = Append(@, e)]
<1>1. s \in Seq(Episode) /\ Len(s) \in Nat /\ DOMAIN s = 1 .. Len(s)
  OBVIOUS
<1>2. after[m] = Append(s, e)
  OBVIOUS
<1>3. /\ Append(s, e) \in Seq(Episode) /\ Len(Append(s, e)) = Len(s) + 1
      /\ DOMAIN Append(s, e) = 1 .. (Len(s) + 1)
      /\ Append(s, e)[Len(s) + 1] = e
      /\ \A i \in 1 .. Len(s) : Append(s, e)[i] = s[i]
  BY <1>1
<1>4. 1 .. (Len(s) + 1) = (1 .. Len(s)) \cup {Len(s) + 1}
  BY <1>1
<1>5. \A other \in Comparators \ {m} : after[other] = before[other]
  OBVIOUS
<1>6. after \in [Comparators -> Seq(Episode)]
  BY <1>3
<1> HIDE DEF after
<1> QED
  BY <1>1, <1>2, <1>3, <1>4, <1>5, <1>6 DEF IsAdded, after

\* A selection of the budget's size is worth recording.
LEMMA EpisodeOf ==
  ASSUME InputTyped, RoundsOK, IsComparing, NEW s, IsSelection(s), Len(s) = Budget(round)
  PROVE  LET e == [reduction |-> WidthReduction(Range(s)), chosen |-> s]
         IN  e \in Episode /\ IsEpisode(e, round)
<1> DEFINE e == [reduction |-> WidthReduction(Range(s)), chosen |-> s]
<1>1. Budget(round) \in 1 .. Cardinality(clients) /\ Cardinality(clients) \in Nat
  BY BudgetIsPossible, InputIsFinite DEF RoundsOK
<1>2. Range(s) \in SUBSET clients /\ Range(s) # {}
  BY <1>1, SelectionSize
<1>3. WidthReduction(Range(s)) \in Int
  BY <1>2, WidthIsSum
<1>4. s \in Seq(Clients)
  BY DEF IsSelection, InputTyped
<1>5. e.chosen = s /\ e.reduction = WidthReduction(Range(s)) /\ e \in Episode
  BY <1>3, <1>4 DEF Episode
<1> QED
  BY <1>5 DEF IsEpisode

\* As long as the budget is not spent, somebody is left to pick.
LEMMA SomebodyIsLeft ==
  ASSUME InputTyped, RoundsOK, IsComparing, IsSelection(selected),
         Len(selected) < Budget(round)
  PROVE  Range(selected) \in SUBSET clients /\ Range(selected) # clients
<1>1. Budget(round) \in 1 .. Cardinality(clients) /\ Cardinality(clients) \in Nat
  BY BudgetIsPossible, InputIsFinite DEF RoundsOK
<1>2. /\ Range(selected) \in SUBSET clients
      /\ Cardinality(Range(selected)) = Len(selected) /\ Len(selected) \in Nat
  BY SelectionSize
<1> QED
  BY <1>1, <1>2

\* What is accumulated, one client after the other.
LEMMA AccumulatedByOne ==
  ASSUME InputTyped
  PROVE  /\ AccumulatedOf({}) = NoInformation
         /\ \A T \in SUBSET clients : \A c \in clients \ T :
              AccumulatedOf(T \cup {c}) = Add(AccumulatedOf(T), information[c])
<1>1. AccumulatedOf({}) = NoInformation
  BY SumOfNothing DEF AccumulatedOf, NoInformation
<1>2. ASSUME NEW T \in SUBSET clients, NEW c \in clients \ T
      PROVE  AccumulatedOf(T \cup {c}) = Add(AccumulatedOf(T), information[c])
  <2>1. ASSUME NEW d \in Directions
        PROVE  SumFunctionOnSet(Matrices[d], T \cup {c})
                 = SumFunctionOnSet(Matrices[d], T) + information[c][d]
    <3> DEFINE g == Matrices[d]
    <3>1. g = [e \in clients |-> information[e][d]]
      BY DEF Matrices
    <3>2. \A e \in clients : g[e] \in Int /\ g[e] = information[e][d]
      BY <3>1, ClientSelectionAssumption DEF InputTyped
    <3>3. IsFiniteSet(T \cup {c}) /\ (T \cup {c}) \ {c} = T /\ IsFiniteSet(T)
      BY InputIsFinite
    <3> HIDE DEF g
    <3>4. SumFunctionOnSet(g, T \cup {c}) = g[c] + SumFunctionOnSet(g, T)
      BY <3>2, <3>3, SumOfMember
    <3>5. SumFunctionOnSet(g, T) \in Int
      BY <3>2, <3>3, SumOfMember
    <3> QED
      BY <3>2, <3>4, <3>5 DEF g
  <2> QED
    BY <2>1 DEF AccumulatedOf, Add
<1> QED
  BY <1>1, <1>2

\* The picks of the command are those after what is selected.
LEMMA PicksAreBest ==
  /\ accumulated = AccumulatedOf(Range(selected)) => GlobalBest = GlobalPick(Range(selected))
  /\ ContractionBest = ContractionPick(Range(selected))
<1>1. ASSUME accumulated = AccumulatedOf(Range(selected))
      PROVE  GlobalBest = GlobalPick(Range(selected))
  BY <1>1 DEF GlobalBest, GlobalPick, GainAfter, Remaining
<1>2. ContractionBest = ContractionPick(Range(selected))
  BY DEF ContractionBest, ContractionPick, WidthAfter, Remaining
<1> QED
  BY <1>1, <1>2

\* Within a round the rounds stay what they are.
LEMMA SameRounds ==
  ASSUME RoundsOK, IsComparing, IsComparing', UNCHANGED <<input, round, verified>>
  PROVE  RoundsOK'
BY SameInput DEF RoundsOK, IsComparing

\* Without a new episode the episodes stay what they are.
LEMMA EpisodesStay ==
  ASSUME EpisodesOK, UNCHANGED <<input, episodes, verified>>,
         \A m \in {"global", "largest", "contraction", "random"} : (pc = m) = (pc' = m)
  PROVE  EpisodesOK'
BY SameEpisodes DEF EpisodesOK, Past

\* greedy_d_optimal picks.
LEMMA PickGlobalKeeps ==
  ASSUME SelectionInv, PickGlobal
  PROVE  SelectionInv'
<1>1. /\ pc = "global" /\ Len(selected) < Budget(round) /\ pc' = pc
      /\ UNCHANGED <<input, round, verified, episodes, reductions>>
      /\ IsComparing /\ IsComparing'
  BY DEF PickGlobal, IsComparing
<1>2. /\ InputTyped /\ RoundsOK /\ EpisodesOK
      /\ IsSelection(selected) /\ ByGlobal(selected) /\ reductions = <<>>
      /\ accumulated = AccumulatedOf(Range(selected))
  BY <1>1 DEF SelectionInv, RunningOK, IsRunning
<1>3. Range(selected) \in SUBSET clients /\ Range(selected) # clients
  BY <1>1, <1>2, SomebodyIsLeft
<1>4. PICK c : c = GlobalBest
  OBVIOUS
<1>5. PICK s : s = Append(selected, c)
  OBVIOUS
<1>6. c = GlobalPick(Range(selected)) /\ c \in clients \ Range(selected)
  BY <1>2, <1>3, <1>4, PicksAreBest, GlobalPickIsLeft
<1>7. selected' = s /\ accumulated' = Add(accumulated, information[c])
  BY <1>4, <1>5 DEF PickGlobal
<1>8. /\ IsSelection(s) /\ Len(s) = Len(selected) + 1
      /\ Range(s) = Range(selected) \cup {c}
      /\ DOMAIN s = DOMAIN selected \cup {Len(selected) + 1}
      /\ s[Len(selected) + 1] = c /\ Before(s, Len(selected) + 1) = Range(selected)
      /\ \A k \in DOMAIN selected : s[k] = selected[k] /\ Before(s, k) = Before(selected, k)
  BY <1>2, <1>5, <1>6, PickKeeps
<1>9. ByGlobal(s)
  BY <1>2, <1>6, <1>8 DEF ByGlobal
<1>10. Len(s) <= Budget(round)
  BY <1>1, <1>2, <1>8, SelectionSize, BudgetIsPossible, InputIsFinite DEF RoundsOK
<1>11. accumulated' = AccumulatedOf(Range(s))
  BY <1>2, <1>3, <1>6, <1>7, <1>8, AccumulatedByOne
<1>12. RunningOK'
  <2>1. IsSelection(s)' /\ Len(s) <= Budget(round)' /\ ByGlobal(s)'
        /\ accumulated' = AccumulatedOf(Range(s))'
    BY <1>1, <1>8, <1>9, <1>10, <1>11, SameInput
  <2>2. IsSelection(selected)' /\ ByGlobal(selected)'
    BY <1>7, <2>1 DEF IsSelection, ByGlobal, Before
  <2>3. IsRunning(selected)'
    BY <1>7, <2>1, <2>2 DEF IsRunning
  <2>4. accumulated' = AccumulatedOf(Range(selected))'
    BY <1>7, <2>1
  <2> QED
    BY <1>1, <1>2, <2>2, <2>3, <2>4 DEF RunningOK
<1>13. RoundsOK'
  BY <1>1, <1>2, SameRounds
<1>14. EpisodesOK'
  BY <1>1, <1>2, EpisodesStay
<1>15. InputTyped'
  BY <1>1, <1>2, SameInput
<1> QED
  BY <1>12, <1>13, <1>14, <1>15 DEF SelectionInv

\* Nothing picked yet is according to every rule.
LEMMA NothingPicked ==
  ASSUME InputTyped
  PROVE  /\ IsSelection(<<>>) /\ Len(<<>>) = 0 /\ Range(<<>>) = {}
         /\ ByGlobal(<<>>) /\ ByContraction(<<>>) /\ Cheapest({})
         /\ AccumulatedOf({}) = NoInformation
BY AccumulatedByOne DEF IsSelection, IsInjective, Range, ByGlobal, ByContraction, Cheapest

\* A comparator starts with nothing picked.
LEMMA RunningAnew ==
  ASSUME InputTyped, RoundsOK, UNCHANGED input, selected' = <<>>, accumulated' = NoInformation,
         reductions' = <<>>, IsComparable,
         pc' \in {"global", "contraction", "random", "largest", "done"},
         pc' # "done" => round' \in DOMAIN BudgetFractions
  PROVE  RunningOK'
<1>1. Len(<<>>) <= Budget(round)' \/ pc' = "done"
  <2>1. pc' # "done" => Budget(round') \in Nat
    BY BudgetIsPossible, InputIsFinite
  <2>2. Budget(round)' = Budget(round')
    BY SameInput
  <2> QED
    BY <2>1, <2>2
<1>2. <<>> \in Seq(Reductions(round)') /\ Len(<<>>) = 0 /\ SelectionSeeds \in Nat
  BY ClientSelectionAssumption
<1>3. IsSelection(<<>>)' /\ ByGlobal(<<>>)' /\ ByContraction(<<>>)' /\ Cheapest({})'
  BY NothingPicked, SameInput
<1>4. IsSelection(selected)' /\ ByGlobal(selected)' /\ ByContraction(selected)'
  BY <1>3 DEF IsSelection, ByGlobal, ByContraction, Before
<1>5. Range(selected)' = {} /\ Cheapest(Range(selected))'
  BY <1>3, NothingPicked
<1>6. AccumulatedOf(Range(selected))' = NoInformation /\ AccumulatedOf({})' = NoInformation
  BY <1>5, NothingPicked, SameInput
<1>7. accumulated' = AccumulatedOf(IF pc = "global" THEN Range(selected) ELSE {})'
  BY <1>5, <1>6
<1> QED
  BY <1>1, <1>2, <1>4, <1>5, <1>7 DEF RunningOK, IsRunning

\* The global comparator ends.
LEMMA RecordGlobalKeeps ==
  ASSUME SelectionInv, RecordGlobal
  PROVE  SelectionInv'
<1>1. /\ pc = "global" /\ Len(selected) = Budget(round) /\ pc' = "largest"
      /\ UNCHANGED <<input, round, verified, reductions>>
      /\ selected' = <<>> /\ accumulated' = NoInformation
      /\ RecordEpisode("global", selected)
      /\ IsComparing /\ IsComparing'
  BY DEF RecordGlobal, IsComparing
<1>2. /\ InputTyped /\ RoundsOK /\ EpisodesOK /\ IsComparable
      /\ IsSelection(selected) /\ ByGlobal(selected) /\ reductions = <<>>
      /\ round \in DOMAIN BudgetFractions /\ round = Len(verified) + 1 /\ Len(verified) \in Nat
  BY <1>1 DEF SelectionInv, RunningOK, IsRunning, RoundsOK
<1>3. PICK e : e = [reduction |-> WidthReduction(Range(selected)), chosen |-> selected]
  OBVIOUS
<1>4. e \in Episode /\ IsOfGlobal(e, round)
  <2>1. e \in Episode /\ IsEpisode(e, round)
    BY <1>1, <1>2, <1>3, EpisodeOf
  <2> QED
    BY <1>2, <1>3, <2>1 DEF IsOfGlobal
<1>5. /\ episodes' = [episodes EXCEPT !["global"] = Append(@, e)]
      /\ "global" \in Comparators /\ episodes \in [Comparators -> Seq(Episode)]
  BY <1>1, <1>2, <1>3 DEF RecordEpisode, Comparators, EpisodesOK
<1>6. IsAdded(episodes, episodes', "global", e)
  BY <1>4, <1>5, RecordAdds
<1>7. Len(episodes["global"]) = Len(verified) /\ Len(episodes["global"]) + 1 = round
  BY <1>1, <1>2 DEF EpisodesOK, Past
<1>8. \A i \in DOMAIN episodes'["global"] : IsOfGlobal(episodes'["global"][i], i)
  BY <1>2, <1>4, <1>6, <1>7 DEF EpisodesOK, IsAdded
<1>9. \A i \in DOMAIN episodes'["global"] : IsOfGlobal(episodes["global"][i], i)'
  BY <1>1, <1>8, SameEpisodes
<1>10. /\ episodes'["largest"] = episodes["largest"]
       /\ episodes'["contraction"] = episodes["contraction"]
       /\ episodes'["random"] = episodes["random"]
  BY <1>6 DEF Comparators, IsAdded
<1>11. /\ \A i \in DOMAIN episodes'["largest"] : IsOfLargest(episodes["largest"][i], i)'
       /\ \A i \in DOMAIN episodes'["contraction"] : IsOfContraction(episodes["contraction"][i], i)'
  BY <1>1, <1>2, <1>10, SameEpisodes DEF EpisodesOK
<1>12. /\ Len(episodes'["global"]) = Past({"largest", "contraction", "random"})'
       /\ Len(episodes'["largest"]) = Past({"contraction", "random"})'
       /\ Len(episodes'["contraction"]) = Past({"random"})' /\ Len(episodes'["random"]) = Past({})'
  BY <1>1, <1>2, <1>6, <1>7, <1>10 DEF EpisodesOK, Past, IsAdded
<1>13. EpisodesOK'
  BY <1>2, <1>6, <1>9, <1>10, <1>11, <1>12 DEF EpisodesOK, IsAdded
<1>14. RunningOK'
  BY <1>1, <1>2, RunningAnew
<1>15. RoundsOK' /\ InputTyped'
  BY <1>1, <1>2, SameRounds, SameInput
<1> QED
  BY <1>13, <1>14, <1>15 DEF SelectionInv

\* The largest clients are recorded.
LEMMA SelectLargestKeeps ==
  ASSUME SelectionInv, SelectLargest
  PROVE  SelectionInv'
<1>1. /\ pc = "largest" /\ pc' = "contraction"
      /\ UNCHANGED <<input, round, selected, accumulated, verified, reductions>>
      /\ RecordEpisode("largest", LargestSampleCount(Budget(round)))
      /\ IsComparing /\ IsComparing'
  BY DEF SelectLargest, IsComparing
<1>2. /\ InputTyped /\ RoundsOK /\ EpisodesOK /\ IsComparable
      /\ selected = <<>> /\ reductions = <<>> /\ accumulated = AccumulatedOf({})
      /\ round \in DOMAIN BudgetFractions /\ round = Len(verified) + 1 /\ Len(verified) \in Nat
  BY <1>1 DEF SelectionInv, RunningOK, RoundsOK
<1>3. PICK s : s = LargestSampleCount(Budget(round))
  OBVIOUS
<1>4. PICK e : e = [reduction |-> WidthReduction(Range(s)), chosen |-> s]
  OBVIOUS
<1>5. e \in Episode /\ IsOfLargest(e, round)
  <2>1. IsSelection(s) /\ Len(s) = Budget(round) /\ ByLargest(s)
    BY <1>2, <1>3, BudgetIsPossible, RankingIsSelection
  <2>2. e \in Episode /\ IsEpisode(e, round)
    BY <1>1, <1>2, <1>4, <2>1, EpisodeOf
  <2> QED
    BY <1>4, <2>1, <2>2 DEF IsOfLargest
<1>6. IsAdded(episodes, episodes', "largest", e)
  <2>1. /\ episodes' = [episodes EXCEPT !["largest"] = Append(@, e)]
        /\ "largest" \in Comparators /\ episodes \in [Comparators -> Seq(Episode)]
    BY <1>1, <1>2, <1>3, <1>4 DEF RecordEpisode, Comparators, EpisodesOK
  <2> QED
    BY <1>5, <2>1, RecordAdds
<1>7. Len(episodes["largest"]) = Len(verified) /\ Len(episodes["largest"]) + 1 = round
  BY <1>1, <1>2 DEF EpisodesOK, Past
<1>8. \A i \in DOMAIN episodes'["largest"] : IsOfLargest(episodes'["largest"][i], i)
  BY <1>2, <1>5, <1>6, <1>7 DEF EpisodesOK, IsAdded
<1>9. \A i \in DOMAIN episodes'["largest"] : IsOfLargest(episodes["largest"][i], i)'
  BY <1>1, <1>8, SameEpisodes
<1>10. /\ episodes'["global"] = episodes["global"]
       /\ episodes'["contraction"] = episodes["contraction"]
       /\ episodes'["random"] = episodes["random"]
  BY <1>6 DEF Comparators, IsAdded
<1>11. /\ \A i \in DOMAIN episodes'["global"] : IsOfGlobal(episodes["global"][i], i)'
       /\ \A i \in DOMAIN episodes'["contraction"] : IsOfContraction(episodes["contraction"][i], i)'
  BY <1>1, <1>2, <1>10, SameEpisodes DEF EpisodesOK
<1>12. /\ Len(episodes'["global"]) = Past({"largest", "contraction", "random"})'
       /\ Len(episodes'["largest"]) = Past({"contraction", "random"})'
       /\ Len(episodes'["contraction"]) = Past({"random"})' /\ Len(episodes'["random"]) = Past({})'
  BY <1>1, <1>2, <1>6, <1>7, <1>10 DEF EpisodesOK, Past, IsAdded
<1>13. EpisodesOK'
  BY <1>2, <1>6, <1>9, <1>10, <1>11, <1>12 DEF EpisodesOK, IsAdded
<1>14. RunningOK'
  BY <1>1, <1>2, NothingPicked, RunningAnew
<1>15. RoundsOK' /\ InputTyped'
  BY <1>1, <1>2, SameRounds, SameInput
<1> QED
  BY <1>13, <1>14, <1>15 DEF SelectionInv

\* The greedy contraction picks: who is picked is as cheap as anyone left, and no cheaper than
\* those picked before.
LEMMA PickContractionKeeps ==
  ASSUME SelectionInv, PickContraction
  PROVE  SelectionInv'
<1>1. /\ pc = "contraction" /\ Len(selected) < Budget(round) /\ pc' = pc
      /\ UNCHANGED <<input, round, verified, episodes, reductions, accumulated>>
      /\ IsComparing /\ IsComparing'
  BY DEF PickContraction, IsComparing
<1>2. /\ InputTyped /\ RoundsOK /\ EpisodesOK /\ IsComparable
      /\ IsSelection(selected) /\ ByContraction(selected) /\ Cheapest(Range(selected))
      /\ reductions = <<>> /\ accumulated = AccumulatedOf({})
  BY <1>1 DEF SelectionInv, RunningOK, IsRunning, RoundsOK
<1>3. Range(selected) \in SUBSET clients /\ Range(selected) # clients
  BY <1>1, <1>2, SomebodyIsLeft
<1>4. PICK c : c = ContractionBest
  OBVIOUS
<1>5. PICK s : s = Append(selected, c)
  OBVIOUS
<1>6. /\ c = ContractionPick(Range(selected)) /\ c \in clients \ Range(selected)
      /\ \A e \in clients \ Range(selected) : UncertaintyRadii[c] <= UncertaintyRadii[e]
  BY <1>2, <1>3, <1>4, PicksAreBest, ContractionPickIsCheapest
<1>7. selected' = s
  BY <1>4, <1>5 DEF PickContraction
<1>8. /\ IsSelection(s) /\ Len(s) = Len(selected) + 1
      /\ Range(s) = Range(selected) \cup {c}
      /\ DOMAIN s = DOMAIN selected \cup {Len(selected) + 1}
      /\ s[Len(selected) + 1] = c /\ Before(s, Len(selected) + 1) = Range(selected)
      /\ \A k \in DOMAIN selected : s[k] = selected[k] /\ Before(s, k) = Before(selected, k)
  BY <1>2, <1>5, <1>6, PickKeeps
<1>9. ByContraction(s)
  BY <1>2, <1>6, <1>8 DEF ByContraction
<1>10. Cheapest(Range(s))
  BY <1>2, <1>6, <1>8 DEF Cheapest
<1>11. Len(s) <= Budget(round)
  BY <1>1, <1>2, <1>8, SelectionSize, BudgetIsPossible, InputIsFinite DEF RoundsOK
<1>12. RunningOK'
  <2>1. IsSelection(s)' /\ Len(s) <= Budget(round)' /\ ByContraction(s)' /\ Cheapest(Range(s))'
    BY <1>1, <1>8, <1>9, <1>10, <1>11, SameInput
  <2>2. IsSelection(selected)' /\ ByContraction(selected)' /\ Cheapest(Range(selected))'
    BY <1>7, <2>1 DEF IsSelection, ByContraction, Before, Range
  <2>3. IsRunning(selected)'
    BY <1>7, <2>1, <2>2 DEF IsRunning
  <2>4. accumulated' = AccumulatedOf({})'
    BY <1>1, <1>2, SameInput
  <2> QED
    BY <1>1, <1>2, <2>2, <2>3, <2>4 DEF RunningOK
<1>13. RoundsOK'
  BY <1>1, <1>2, SameRounds
<1>14. EpisodesOK'
  BY <1>1, <1>2, EpisodesStay
<1>15. InputTyped'
  BY <1>1, <1>2, SameInput
<1> QED
  BY <1>12, <1>13, <1>14, <1>15 DEF SelectionInv

\* The greedy contraction ends.
LEMMA RecordContractionKeeps ==
  ASSUME SelectionInv, RecordContraction
  PROVE  SelectionInv'
<1>1. /\ pc = "contraction" /\ Len(selected) = Budget(round) /\ pc' = "random"
      /\ UNCHANGED <<input, round, verified, reductions, accumulated>>
      /\ selected' = <<>>
      /\ RecordEpisode("contraction", selected)
      /\ IsComparing /\ IsComparing'
  BY DEF RecordContraction, IsComparing
<1>2. /\ InputTyped /\ RoundsOK /\ EpisodesOK /\ IsComparable
      /\ IsSelection(selected) /\ ByContraction(selected) /\ Cheapest(Range(selected))
      /\ reductions = <<>> /\ accumulated = AccumulatedOf({})
      /\ round \in DOMAIN BudgetFractions /\ round = Len(verified) + 1 /\ Len(verified) \in Nat
  BY <1>1 DEF SelectionInv, RunningOK, IsRunning, RoundsOK
<1>3. PICK e : e = [reduction |-> WidthReduction(Range(selected)), chosen |-> selected]
  OBVIOUS
<1>4. e \in Episode /\ IsOfContraction(e, round)
  <2>1. e \in Episode /\ IsEpisode(e, round)
    BY <1>1, <1>2, <1>3, EpisodeOf
  <2> QED
    BY <1>2, <1>3, <2>1 DEF IsOfContraction
<1>5. IsAdded(episodes, episodes', "contraction", e)
  <2>1. /\ episodes' = [episodes EXCEPT !["contraction"] = Append(@, e)]
        /\ "contraction" \in Comparators /\ episodes \in [Comparators -> Seq(Episode)]
    BY <1>1, <1>2, <1>3 DEF RecordEpisode, Comparators, EpisodesOK
  <2> QED
    BY <1>4, <2>1, RecordAdds
<1>6. Len(episodes["contraction"]) = Len(verified) /\ Len(episodes["contraction"]) + 1 = round
  BY <1>1, <1>2 DEF EpisodesOK, Past
<1>7. \A i \in DOMAIN episodes'["contraction"] : IsOfContraction(episodes'["contraction"][i], i)
  BY <1>2, <1>4, <1>5, <1>6 DEF EpisodesOK, IsAdded
<1>8. \A i \in DOMAIN episodes'["contraction"] : IsOfContraction(episodes["contraction"][i], i)'
  BY <1>1, <1>7, SameEpisodes
<1>9. /\ episodes'["global"] = episodes["global"]
      /\ episodes'["largest"] = episodes["largest"]
      /\ episodes'["random"] = episodes["random"]
  BY <1>5 DEF Comparators, IsAdded
<1>10. /\ \A i \in DOMAIN episodes'["global"] : IsOfGlobal(episodes["global"][i], i)'
       /\ \A i \in DOMAIN episodes'["largest"] : IsOfLargest(episodes["largest"][i], i)'
  BY <1>1, <1>2, <1>9, SameEpisodes DEF EpisodesOK
<1>11. /\ Len(episodes'["global"]) = Past({"largest", "contraction", "random"})'
       /\ Len(episodes'["largest"]) = Past({"contraction", "random"})'
       /\ Len(episodes'["contraction"]) = Past({"random"})' /\ Len(episodes'["random"]) = Past({})'
  BY <1>1, <1>2, <1>5, <1>6, <1>9 DEF EpisodesOK, Past, IsAdded
<1>12. \A i \in DOMAIN episodes'["random"] :
         episodes'["random"][i].reduction
           <= episodes'["contraction"][i].reduction * SelectionSeeds
  <2>1. DOMAIN episodes["random"] \subseteq DOMAIN episodes["contraction"]
    BY <1>1, <1>2, <1>6 DEF EpisodesOK, Past, Comparators
  <2> QED
    BY <1>2, <1>5, <1>9, <2>1 DEF EpisodesOK, IsAdded
<1>13. EpisodesOK'
  BY <1>5, <1>8, <1>10, <1>11, <1>12 DEF EpisodesOK, IsAdded
<1>14. RunningOK'
  BY <1>1, <1>2, NothingPicked, RunningAnew
<1>15. RoundsOK' /\ InputTyped'
  BY <1>1, <1>2, SameRounds, SameInput
<1> QED
  BY <1>13, <1>14, <1>15 DEF SelectionInv

\* A draw of the budget's size is one more reduction.
LEMMA DrawRandomKeeps ==
  ASSUME SelectionInv, DrawRandom
  PROVE  SelectionInv'
<1>1. /\ pc = "random" /\ pc' = pc /\ Len(reductions) < SelectionSeeds
      /\ UNCHANGED <<input, round, selected, accumulated, episodes, verified>>
      /\ IsComparing /\ IsComparing'
  BY DEF DrawRandom, IsComparing
<1>2. /\ InputTyped /\ RoundsOK /\ EpisodesOK
      /\ selected = <<>> /\ accumulated = AccumulatedOf({})
      /\ reductions \in Seq(Reductions(round))
  BY <1>1 DEF SelectionInv, RunningOK
<1>3. PICK r \in Reductions(round) : reductions' = Append(reductions, r)
  BY DEF DrawRandom, Reductions
<1>4. PICK drawn : drawn = reductions'
  OBVIOUS
<1>5. drawn \in Seq(Reductions(round)) /\ Len(drawn) <= SelectionSeeds
  BY <1>1, <1>2, <1>3, <1>4, ClientSelectionAssumption
<1>6. Reductions(round)' = Reductions(round) /\ AccumulatedOf({})' = AccumulatedOf({})
  BY <1>1, SameInput
<1>7. RunningOK'
  BY <1>1, <1>2, <1>4, <1>5, <1>6 DEF RunningOK
<1>8. RoundsOK'
  BY <1>1, <1>2, SameRounds
<1>9. EpisodesOK'
  BY <1>1, <1>2, EpisodesStay
<1>10. InputTyped'
  BY <1>1, <1>2, SameInput
<1> QED
  BY <1>7, <1>8, <1>9, <1>10 DEF SelectionInv

\* Numbers that are no larger than one add up to no more than its multiple.
LEMMA TotalIsNoMore ==
  ASSUME NEW S, NEW r \in Seq(S), NEW best \in Int, \A x \in S : x \in Int /\ x <= best
  PROVE  SumFunction(r) \in Int /\ SumFunction(r) <= best * Len(r)
<1> DEFINE n == Len(r)
           bound == [k \in 1 .. n |-> best]
<1>1. n \in Nat /\ DOMAIN r = 1 .. n /\ \A k \in 1 .. n : r[k] \in Int /\ r[k] <= best
  OBVIOUS
<1>2. IsFiniteSet(1 .. n) /\ Cardinality(1 .. n) = n
  <2>1. n \in Int /\ (1 > n => n = 0)
    BY <1>1
  <2> QED
    BY <1>1, <2>1, FS_Interval
<1>3. \A k \in 1 .. n : bound[k] = best
  OBVIOUS
<1> HIDE DEF bound, n
<1>4. SumFunctionOnSet(r, 1 .. n) \in Int
  BY <1>1, <1>2, SumOfMember
<1>5. SumFunctionOnSet(r, 1 .. n) <= SumFunctionOnSet(bound, 1 .. n)
  BY <1>1, <1>2, <1>3, SumMonotone
<1>6. SumFunctionOnSet(bound, 1 .. n) = best * n
  BY <1>2, <1>3, SumOfConstant
<1> QED
  BY <1>1, <1>4, <1>5, <1>6 DEF SumFunction, n

\* The greedy contraction of a round reduces at least as much as any set of its size.
LEMMA ContractionIsBest ==
  ASSUME InputTyped, IsComparable, NEW i \in DOMAIN BudgetFractions, NEW e, IsOfContraction(e, i)
  PROVE  /\ e.reduction \in Int
         /\ \A x \in Reductions(i) : x \in Int /\ x <= e.reduction
<1>1. Budget(i) \in 1 .. Cardinality(clients) /\ Cardinality(clients) \in Nat
  BY BudgetIsPossible, InputIsFinite
<1>2. /\ IsSelection(e.chosen) /\ Len(e.chosen) = Budget(i) /\ Cheapest(Range(e.chosen))
      /\ e.reduction = WidthReduction(Range(e.chosen))
  BY DEF IsOfContraction, IsEpisode
<1>3. /\ Range(e.chosen) \in SUBSET clients /\ Range(e.chosen) # {}
      /\ Cardinality(Range(e.chosen)) = Budget(i)
  BY <1>1, <1>2, SelectionSize
<1>4. e.reduction \in Int
  BY <1>2, <1>3, WidthIsSum
<1>5. ASSUME NEW T \in kSubset(Budget(i), clients)
      PROVE  WidthReduction(T) \in Int /\ WidthReduction(T) <= e.reduction
  <2>1. T \in SUBSET clients /\ Cardinality(T) = Budget(i)
    BY DEF kSubset
  <2>2. T # {}
    BY <1>1, <2>1, FS_EmptySet
  <2>3. WidthReduction(T) \in Int
    BY <2>1, <2>2, WidthIsSum
  <2>4. WidthReduction(Range(e.chosen)) >= WidthReduction(T)
    BY <1>2, <1>3, <2>1, CheapestReducesMost
  <2> QED
    BY <1>2, <1>4, <2>3, <2>4
<1> QED
  BY <1>4, <1>5 DEF Reductions

\* The round is verified.
LEMMA VerifyRoundKeeps ==
  ASSUME SelectionInv, VerifyRound
  PROVE  SelectionInv'
<1>1. /\ pc = "random" /\ Len(reductions) = SelectionSeeds
      /\ UNCHANGED <<input, selected, accumulated>> /\ reductions' = <<>>
      /\ episodes' = [episodes EXCEPT !["random"] =
                        Append(@, [reduction |-> DrawnTotal, chosen |-> <<>>])]
      /\ \/ round < Len(BudgetFractions) /\ round' = round + 1 /\ pc' = "global"
         \/ ~ (round < Len(BudgetFractions)) /\ round' = round /\ pc' = "done"
  BY DEF VerifyRound
<1>2. /\ InputTyped /\ RoundsOK /\ EpisodesOK /\ IsComparable
      /\ selected = <<>> /\ accumulated = AccumulatedOf({})
      /\ reductions \in Seq(Reductions(round))
      /\ round \in DOMAIN BudgetFractions /\ round = Len(verified) + 1
      /\ verified \in Seq(BOOLEAN) /\ Len(verified) \in Nat
  BY <1>1 DEF SelectionInv, RunningOK, RoundsOK, IsComparing
<1>3. PICK b \in BOOLEAN : verified' = Append(verified, b)
  BY DEF VerifyRound
<1>4. /\ verified' \in Seq(BOOLEAN) /\ Len(verified') = round
  BY <1>2, <1>3
<1>5. PICK e : e = [reduction |-> DrawnTotal, chosen |-> <<>>]
  OBVIOUS
<1>6. PICK best : best = episodes["contraction"][round]
  OBVIOUS
<1>7. IsOfContraction(best, round) /\ round \in DOMAIN episodes["contraction"]
  BY <1>1, <1>2, <1>6 DEF EpisodesOK, Past, Comparators
<1>8. e.reduction \in Int /\ e.reduction <= best.reduction * SelectionSeeds
  <2>1. best.reduction \in Int /\ \A x \in Reductions(round) : x \in Int /\ x <= best.reduction
    BY <1>2, <1>7, ContractionIsBest
  <2>2. DrawnTotal \in Int /\ DrawnTotal <= best.reduction * Len(reductions)
    BY <1>2, <2>1, TotalIsNoMore DEF DrawnTotal
  <2> QED
    BY <1>1, <1>5, <2>2
<1>9. e \in Episode
  BY <1>5, <1>8 DEF Episode
<1>10. IsAdded(episodes, episodes', "random", e)
  <2>1. /\ episodes' = [episodes EXCEPT !["random"] = Append(@, e)]
        /\ "random" \in Comparators /\ episodes \in [Comparators -> Seq(Episode)]
    BY <1>1, <1>2, <1>5 DEF Comparators, EpisodesOK
  <2> QED
    BY <1>9, <2>1, RecordAdds
<1>11. /\ episodes'["global"] = episodes["global"]
       /\ episodes'["largest"] = episodes["largest"]
       /\ episodes'["contraction"] = episodes["contraction"]
  BY <1>10 DEF Comparators, IsAdded
<1>12. /\ \A i \in DOMAIN episodes'["global"] : IsOfGlobal(episodes["global"][i], i)'
       /\ \A i \in DOMAIN episodes'["largest"] : IsOfLargest(episodes["largest"][i], i)'
       /\ \A i \in DOMAIN episodes'["contraction"] : IsOfContraction(episodes["contraction"][i], i)'
  BY <1>1, <1>2, <1>11, SameEpisodes DEF EpisodesOK
<1>13. /\ Len(episodes'["global"]) = Past({"largest", "contraction", "random"})'
       /\ Len(episodes'["largest"]) = Past({"contraction", "random"})'
       /\ Len(episodes'["contraction"]) = Past({"random"})' /\ Len(episodes'["random"]) = Past({})'
  BY <1>1, <1>2, <1>4, <1>10, <1>11 DEF EpisodesOK, Past, IsAdded
<1>14. \A i \in DOMAIN episodes'["random"] :
         episodes'["random"][i].reduction
           <= episodes'["contraction"][i].reduction * SelectionSeeds
  <2>1. Len(episodes["random"]) + 1 = round
    BY <1>1, <1>2 DEF EpisodesOK, Past
  <2> QED
    BY <1>2, <1>6, <1>8, <1>10, <1>11, <2>1 DEF EpisodesOK, IsAdded
<1>15. EpisodesOK'
  BY <1>10, <1>12, <1>13, <1>14 DEF EpisodesOK, IsAdded
<1>16. BudgetFractions \in Seq(0 .. FractionUnit) /\ Len(BudgetFractions) \in Nat
       /\ DOMAIN BudgetFractions = 1 .. Len(BudgetFractions)
  BY ClientSelectionAssumption
<1>17. RoundsOK'
  BY <1>1, <1>2, <1>4, <1>16, SameInput DEF RoundsOK, IsComparing
<1>18. RunningOK'
  BY <1>1, <1>2, <1>16, NothingPicked, RunningAnew
<1>19. InputTyped'
  BY <1>1, <1>2, SameInput
<1> QED
  BY <1>15, <1>17, <1>18, <1>19 DEF SelectionInv

\* The command is refused or begins.
LEMMA StartKeeps ==
  ASSUME SelectionInv, Refuse \/ StartRounds
  PROVE  SelectionInv'
<1>1. /\ pc = "start" /\ pc' \in {"done", "global"}
      /\ pc' = "global" => IsComparable /\ BudgetFractions # <<>>
      /\ UNCHANGED <<input, round, selected, accumulated, reductions, episodes, verified>>
  BY DEF Refuse, StartRounds
<1>2. /\ InputTyped /\ RoundsOK /\ EpisodesOK
      /\ selected = <<>> /\ accumulated = AccumulatedOf({}) /\ reductions = <<>>
      /\ round = 1 /\ verified = <<>>
  BY <1>1 DEF SelectionInv, RunningOK, RoundsOK
<1>3. BudgetFractions # <<>> => 1 \in DOMAIN BudgetFractions
  BY ClientSelectionAssumption
<1>4. RoundsOK'
  BY <1>1, <1>2, <1>3, SameInput DEF RoundsOK, IsComparing
<1>5. EpisodesOK'
  BY <1>1, <1>2, SameEpisodes DEF EpisodesOK, Past
<1>6. RunningOK'
  <2>1. CASE pc' = "global"
    <3>1. accumulated' = NoInformation
      BY <1>1, <1>2, NothingPicked
    <3> QED
      BY <1>1, <1>2, <1>3, <2>1, <3>1, RunningAnew
  <2>2. CASE pc' = "done"
    <3>1. AccumulatedOf({})' = AccumulatedOf({})
      BY <1>1, SameInput
    <3> QED
      BY <1>1, <1>2, <2>2, <3>1 DEF RunningOK
  <2> QED
    BY <1>1, <2>1, <2>2
<1>7. InputTyped'
  BY <1>1, <1>2, SameInput
<1> QED
  BY <1>4, <1>5, <1>6, <1>7 DEF SelectionInv

LEMMA SelectionInitInv == SelectionInit => SelectionInv
<1> SUFFICES ASSUME SelectionInit PROVE SelectionInv
  OBVIOUS
<1>1. InputTyped
  BY DEF SelectionInit, InputTyped
<1>2. RoundsOK
  BY ClientSelectionAssumption DEF SelectionInit, RoundsOK, IsComparing
<1>3. RunningOK
  BY <1>1, NothingPicked DEF SelectionInit, RunningOK
<1>4. EpisodesOK
  <2>1. episodes = [m \in Comparators |-> <<>>] /\ verified = <<>> /\ pc = "start"
    BY DEF SelectionInit
  <2>2. \A m \in Comparators : episodes[m] = <<>> /\ Len(episodes[m]) = 0 /\ DOMAIN episodes[m] = {}
    BY <2>1
  <2>3. episodes \in [Comparators -> Seq(Episode)]
    BY <2>1
  <2>4. {"global", "largest", "contraction", "random"} = Comparators
    BY DEF Comparators
  <2> QED
    BY <2>1, <2>2, <2>3, <2>4 DEF EpisodesOK, Past
<1> QED
  BY <1>1, <1>2, <1>3, <1>4 DEF SelectionInv

\* Every step keeps the invariant.
LEMMA SelectionStep == SelectionInv /\ [SelectionNext]_selectionVars => SelectionInv'
<1> SUFFICES ASSUME SelectionInv, [SelectionNext]_selectionVars PROVE SelectionInv'
  OBVIOUS
<1>1. CASE Refuse \/ StartRounds
  BY <1>1, StartKeeps
<1>2. CASE PickGlobal
  BY <1>2, PickGlobalKeeps
<1>3. CASE RecordGlobal
  BY <1>3, RecordGlobalKeeps
<1>4. CASE SelectLargest
  BY <1>4, SelectLargestKeeps
<1>5. CASE PickContraction
  BY <1>5, PickContractionKeeps
<1>6. CASE RecordContraction
  BY <1>6, RecordContractionKeeps
<1>7. CASE DrawRandom
  BY <1>7, DrawRandomKeeps
<1>8. CASE VerifyRound
  BY <1>8, VerifyRoundKeeps
<1>9. CASE UNCHANGED selectionVars
  <2>1. /\ UNCHANGED input
        /\ UNCHANGED <<pc, round, selected, accumulated, reductions, episodes, verified>>
    BY <1>9 DEF selectionVars, input
  <2>2. InputTyped' /\ RoundsOK' /\ EpisodesOK'
    BY <2>1, SameInput, EpisodesStay DEF SelectionInv, RoundsOK, IsComparing
  <2>3. RunningOK'
    <3>1. /\ IsSelection(selected)' <=> IsSelection(selected)
          /\ ByGlobal(selected)' <=> ByGlobal(selected)
          /\ ByContraction(selected)' <=> ByContraction(selected)
          /\ Range(selected)' = Range(selected)
          /\ Cheapest(Range(selected))' = Cheapest(Range(selected))
          /\ Budget(round)' = Budget(round) /\ Reductions(round)' = Reductions(round)
          /\ AccumulatedOf(IF pc = "global" THEN Range(selected) ELSE {})'
               = AccumulatedOf(IF pc = "global" THEN Range(selected) ELSE {})
      BY <2>1, SameInput
    <3> QED
      BY <2>1, <3>1 DEF RunningOK, IsRunning, SelectionInv
  <2> QED
    BY <2>2, <2>3 DEF SelectionInv
<1> QED
  BY <1>1, <1>2, <1>3, <1>4, <1>5, <1>6, <1>7, <1>8, <1>9 DEF SelectionNext

\* Whatever the clients, every episode of a comparison is one of its comparator's rule.
THEOREM SelectionInvariant == SelectionSpec => []SelectionInv
BY SelectionInitInv, SelectionStep, PTL DEF SelectionSpec

\* The greedy contraction looks one client ahead only and is never beaten at its budget, by
\* another comparator or by a draw (run_communication_limited_client_selection).
THEOREM ContractionCorrect == SelectionSpec => []ContractionIsOptimal
<1>1. SelectionInv => ContractionIsOptimal
  <2> SUFFICES ASSUME SelectionInv, NEW i \in DOMAIN verified
               PROVE  LET best == episodes["contraction"][i].reduction
                      IN  /\ best >= episodes["global"][i].reduction
                          /\ best >= episodes["largest"][i].reduction
                          /\ best * SelectionSeeds >= episodes["random"][i].reduction
    BY DEF ContractionIsOptimal, Rounds
  <2>1. /\ InputTyped /\ RoundsOK /\ EpisodesOK
        /\ verified \in Seq(BOOLEAN) /\ Len(verified) \in Nat
        /\ DOMAIN verified = 1 .. Len(verified) /\ Len(verified) <= Len(BudgetFractions)
    BY DEF SelectionInv, RoundsOK
  <2>2. IsComparable /\ i \in DOMAIN BudgetFractions
    BY <2>1, ClientSelectionAssumption DEF RoundsOK
  <2>3. /\ i \in DOMAIN episodes["global"] /\ i \in DOMAIN episodes["largest"]
        /\ i \in DOMAIN episodes["contraction"] /\ i \in DOMAIN episodes["random"]
    BY <2>1 DEF EpisodesOK, Past, Comparators
  <2> DEFINE best == episodes["contraction"][i]
  <2>4. /\ best.reduction \in Int
        /\ \A x \in Reductions(i) : x \in Int /\ x <= best.reduction
    <3>1. IsOfContraction(best, i)
      BY <2>1, <2>3 DEF EpisodesOK
    <3> QED
      BY <2>1, <2>2, <3>1, ContractionIsBest
  <2>5. ASSUME NEW e, IsEpisode(e, i) PROVE e.reduction \in Reductions(i)
    <3>1. /\ Range(e.chosen) \in SUBSET clients
          /\ Cardinality(Range(e.chosen)) = Budget(i)
      BY <2>1, <2>5, SelectionSize DEF IsEpisode
    <3> QED
      BY <2>5, <3>1 DEF IsEpisode, Reductions, kSubset
  <2>6. /\ episodes["global"][i].reduction \in Reductions(i)
        /\ episodes["largest"][i].reduction \in Reductions(i)
    BY <2>1, <2>3, <2>5 DEF EpisodesOK, IsOfGlobal, IsOfLargest
  <2>7. /\ episodes["random"][i].reduction <= best.reduction * SelectionSeeds
        /\ episodes["random"][i].reduction \in Int
    <3>1. episodes["random"] \in Seq(Episode)
      BY <2>1 DEF EpisodesOK, Comparators
    <3>2. episodes["random"][i] \in Episode
      BY <2>3, <3>1
    <3> QED
      BY <2>1, <2>3, <3>2 DEF EpisodesOK, Episode
  <2>8. best.reduction * SelectionSeeds \in Int
    BY <2>4, ClientSelectionAssumption
  <2> QED
    BY <2>4, <2>6, <2>7, <2>8
<1> QED
  BY <1>1, SelectionInvariant, PTL

\* One rule chooses for every budget: what a smaller budget chose a larger one extends.
THEOREM NestingCorrect == SelectionSpec => []SelectionsAreNested
<1>1. SelectionInv => SelectionsAreNested
  <2> SUFFICES ASSUME SelectionInv, NEW m \in {"global", "largest", "contraction"},
                      NEW i \in DOMAIN verified, NEW j \in DOMAIN verified
               PROVE  /\ Len(episodes[m][i].chosen) = Budget(i)
                      /\ IsInjective(episodes[m][i].chosen)
                      /\ Budget(i) <= Budget(j)
                           => IsPrefix(episodes[m][i].chosen, episodes[m][j].chosen)
    BY DEF SelectionsAreNested, Rounds
  <2>1. /\ InputTyped /\ RoundsOK /\ EpisodesOK
        /\ DOMAIN verified = 1 .. Len(verified) /\ Len(verified) \in Nat
    BY DEF SelectionInv, RoundsOK
  <2>2. i \in DOMAIN episodes[m] /\ j \in DOMAIN episodes[m]
    BY <2>1 DEF EpisodesOK, Past, Comparators
  <2> DEFINE s == episodes[m][i].chosen
             t == episodes[m][j].chosen
  <2>3. IsEpisode(episodes[m][i], i) /\ IsEpisode(episodes[m][j], j)
    BY <2>1, <2>2 DEF EpisodesOK, IsOfGlobal, IsOfLargest, IsOfContraction
  <2>4. /\ IsSelection(s) /\ Len(s) = Budget(i) /\ DOMAIN s = 1 .. Len(s) /\ Len(s) \in Nat
        /\ IsSelection(t) /\ Len(t) = Budget(j) /\ DOMAIN t = 1 .. Len(t) /\ Len(t) \in Nat
    BY <2>3 DEF IsEpisode, IsSelection
  <2>5. \/ ByGlobal(s) /\ ByGlobal(t)
        \/ ByContraction(s) /\ ByContraction(t)
        \/ ByLargest(s) /\ ByLargest(t)
    BY <2>1, <2>2 DEF EpisodesOK, IsOfGlobal, IsOfLargest, IsOfContraction
  <2>6. ASSUME Budget(i) <= Budget(j) PROVE IsPrefix(s, t)
    <3> HIDE DEF s, t
    <3>1. Len(s) <= Len(t)
      BY <2>4, <2>6
    <3>2. \A k \in 1 .. Len(s) : Before(s, k) \in SUBSET clients
      BY <2>4 DEF IsSelection, Before
    <3>3. \A k \in 1 .. Len(t) : Before(t, k) \in SUBSET clients
      BY <2>4 DEF IsSelection, Before
    <3>4. \A k \in 1 .. Len(s) : s[k] = t[k]
      <4>1. CASE ByLargest(s) /\ ByLargest(t)
        BY <2>4, <3>1, <4>1 DEF ByLargest
      <4>2. ASSUME NEW pick, IsByRule(pick, s, Len(s)), IsByRule(pick, t, Len(t))
            PROVE  \A k \in 1 .. Len(s) : s[k] = t[k]
        BY <2>4, <3>1, <4>2, OneRule
      <4>3. CASE ByGlobal(s) /\ ByGlobal(t)
        <5> DEFINE pick == [T \in SUBSET clients |-> GlobalPick(T)]
        <5>1. IsByRule(pick, s, Len(s)) /\ IsByRule(pick, t, Len(t))
          BY <2>4, <3>2, <3>3, <4>3 DEF ByGlobal, IsByRule
        <5> HIDE DEF pick
        <5> QED
          BY <4>2, <5>1
      <4>4. CASE ByContraction(s) /\ ByContraction(t)
        <5> DEFINE pick == [T \in SUBSET clients |-> ContractionPick(T)]
        <5>1. IsByRule(pick, s, Len(s)) /\ IsByRule(pick, t, Len(t))
          BY <2>4, <3>2, <3>3, <4>4 DEF ByContraction, IsByRule
        <5> HIDE DEF pick
        <5> QED
          BY <4>2, <5>1
      <4> QED
        BY <2>5, <4>1, <4>3, <4>4
    <3>5. s \in Seq(clients) /\ t \in Seq(clients)
      BY <2>4 DEF IsSelection
    <3> QED
      BY <3>1, <3>4, <3>5, AgreeingIsPrefix
  <2> QED
    BY <2>4, <2>6 DEF IsSelection
<1> QED
  BY <1>1, SelectionInvariant, PTL

=============================================================================
