---------------------------- MODULE Certification ----------------------------
(***************************************************************************)
(* From calibration observations and executed actions to the central       *)
(* pattern: run_nested_calibration chooses thresholds, certify_action_     *)
(* interval judges every action under them, and _compute_central_pattern   *)
(* compares, cutoff by cutoff, the later-real precision of the certified   *)
(* actions with that of as many point-selected and as many random valid    *)
(* ones (certification/certificate.py, certification/calibration.py and    *)
(* experiments/validation.py).                                             *)
(*                                                                         *)
(* Bounds, scores and thresholds are integers.  A rate is its numerator    *)
(* times Scale over its denominator: Scale is a multiple of every          *)
(* denominator that occurs, so that rates are exact.                       *)
(***************************************************************************)
EXTENDS Integers, SequencesExt

CONSTANTS ObservationFiles,  \* contents of the calibration observations: sets of rows
          ActionFiles,       \* contents of actions.json: sequences of actions
          NoFile,
          Seeds,             \* number of operator seeds
          TargetCoverage, MaxClean,   \* gates of a candidate, scaled
          MinMatchFraction,           \* minimum_exact_or_source_fraction, scaled
          Scale

ASSUME CertificationAssumption ==
  /\ Seeds \in Nat \ {0}
  /\ Scale \in Nat \ {0}
  /\ \A file \in ObservationFiles : \A o \in file : o.align \in Int /\ o.amb \in Int
  /\ \A file \in ActionFiles :
       /\ Len(file) \in Nat /\ DOMAIN file = 1 .. Len(file)
       /\ \A i \in DOMAIN file : /\ file[i].lower \in Int /\ file[i].upper \in Int
                                /\ file[i].lower <= file[i].upper
                                /\ {file[i].score, file[i].sample, file[i].later} \subseteq Int
                                /\ file[i].valid \in BOOLEAN

\* Candidate generation writes valid actions only; a file prepared by hand has one
\* action per sample.
ASSUME OneValidityAssumption ==
  \A file \in ActionFiles : \A i, j \in DOMAIN file :
    file[i].sample = file[j].sample => file[i].valid = file[j].valid

VARIABLES observations, actions,   \* the two input files
          stage,       \* "calibrate", "judge", "group", "draw", "record", "done"
          selection,   \* the selected candidate, or NoFile
          statuses,    \* the status of each action, in file order
          bySample,    \* statuses_by_sample
          cutoffs,     \* cutoffs still to be compared, in sorted order
          seed,        \* the operator seed being drawn for
          waiting,     \* certified actions still to be matched
          pool,        \* valid actions not drawn yet
          draws,       \* [certified action matched for this seed -> its match and level]
          sums,        \* of this cutoff over its seeds: [precision, fraction, seeds]
          pattern,     \* the records of the central pattern
          supported    \* central_pattern_supported, "yes" or "no", or "none"

vars == <<observations, actions, stage, selection, statuses, bySample, cutoffs, seed, waiting,
          pool, draws, sums, pattern, supported>>

Rate(part, total) == (Scale * part) \div total

-----------------------------------------------------------------------------
\* run_nested_calibration and select_best_calibration_candidate

Candidate(id) ==
  LET rows == {o \in observations : o.candidate = id}
      Count(P(_)) == Cardinality({o \in rows : P(o)})
      total == Cardinality(rows)
  IN  [id        |-> id,
       align     |-> (CHOOSE o \in rows : TRUE).align,
       amb       |-> (CHOOSE o \in rows : TRUE).amb,
       coverage  |-> Rate(Count(LAMBDA o : o.covered), total),
       certified |-> Rate(Count(LAMBDA o : o.certified), total),
       clean     |-> Rate(MapThenSumSet(LAMBDA o : o.clean, rows), total)]

\* The thresholds of a candidate are part of its identity: they group the rows.
Candidates == {Candidate(o.candidate) : o \in observations}

IsWithinGates(c) == c.coverage >= TargetCoverage /\ c.clean <= MaxClean

\* (-certification rate, clean degradation, candidate id)
IsBefore(c, d) ==
  \/ c.certified > d.certified
  \/ c.certified = d.certified /\ c.clean < d.clean
  \/ c.certified = d.certified /\ c.clean = d.clean /\ c.id < d.id

ValidCandidates == {c \in Candidates : IsWithinGates(c)}

SelectBestCalibrationCandidate(c) ==
  c \in ValidCandidates /\ \A d \in ValidCandidates \ {c} : IsBefore(c, d)

-----------------------------------------------------------------------------
\* certify_action_interval

IsCertifiedPositive(a) == a.lower >= selection.align /\ a.upper - a.lower <= selection.amb
IsCertifiedNegative(a) == a.upper < selection.align /\ a.upper - a.lower <= selection.amb

\* A bug NarrowingKeepsDecision excludes: the negative certificate looks at the lower bound.
CertifyByLowerBound(a) ==
  IF ~ a.valid THEN "abstain"
  ELSE IF a.diameter > a.quantile THEN "abstain"
  ELSE IF ~ a.leaveOneOut THEN "ambiguous"
  ELSE IF a.lower < selection.align THEN "negative"
  ELSE IF IsCertifiedPositive(a) THEN "positive"
  ELSE "ambiguous"

\* The gates abstain; failed leave-one-client-out stability withdraws a certificate.
CertifyActionInterval(a) ==
  CASE ~ a.valid                 -> "abstain"
    [] a.valid /\ a.diameter > a.quantile -> "abstain"
    [] OTHER ->
         IF ~ a.leaveOneOut           THEN "ambiguous"
         ELSE IF IsCertifiedPositive(a) THEN "positive"
         ELSE IF IsCertifiedNegative(a) THEN "negative"
         ELSE "ambiguous"

-----------------------------------------------------------------------------
\* _compute_central_pattern

\* A bug MatchesAreExact excludes: the weakest level is tried first.
LevelsReversed == <<"cohort_only", "source_sample", "exact">>

Levels == <<"exact", "source_sample", "cohort_only">>

MatchKey(a, level) ==
  CASE level = "exact"         -> <<a.cutoff, a.cohort, a.horizon, a.source, a.count>>
    [] level = "source_sample" -> <<a.cutoff, a.cohort, a.horizon, a.source>>
    [] level = "cohort_only"   -> <<a.cutoff, a.cohort, a.horizon>>

\* Actions are named by their place in the file.
Group(cutoff) == {i \in DOMAIN actions : actions[i].cutoff = cutoff}

Certified(cutoff) == {i \in Group(cutoff) : bySample[actions[i].sample] = "positive"}

ValidPool(cutoff) == {i \in Group(cutoff) : actions[i].valid}

LaterRealPrecision(chosen) ==
  Rate(Cardinality({i \in chosen : actions[i].later >= selection.align}), Cardinality(chosen))

\* A bug EqualWidthsCertifyByPoint excludes: the lowest scores first.
IsScoredBelow(i, j) ==
  \/ actions[i].score < actions[j].score
  \/ actions[i].score = actions[j].score /\ i < j

\* By point score descending, then sample; the sort is stable.
IsRankedBefore(i, j) ==
  \/ actions[i].score > actions[j].score
  \/ /\ actions[i].score = actions[j].score
     /\ \/ actions[i].sample < actions[j].sample
        \/ actions[i].sample = actions[j].sample /\ i < j

\* The first of the ranked pool, as many as are certified.
PointSelected(cutoff) ==
  {i \in ValidPool(cutoff) :
     Cardinality({j \in ValidPool(cutoff) : IsRankedBefore(j, i)})
       < Cardinality(Certified(cutoff))}

Matching(c, level) == {i \in pool : MatchKey(actions[i], level) = MatchKey(actions[c], level)}

\* The levels, by their place in Levels, at which the pool still has a match.
MatchLevels(c) == {l \in DOMAIN Levels : Matching(c, Levels[l]) # {}}

NoSums == [precision |-> 0, fraction |-> 0, seeds |-> 0]

-----------------------------------------------------------------------------

Init ==
  /\ observations \in ObservationFiles
  /\ actions \in ActionFiles
  /\ stage = "calibrate"
  /\ selection = NoFile
  /\ statuses = <<>>
  /\ bySample = <<>>
  /\ cutoffs = <<>>
  /\ seed = 0
  /\ waiting = {}
  /\ pool = {}
  /\ draws = <<>>
  /\ sums = NoSums
  /\ pattern = <<>>
  /\ supported = "none"

Files == <<observations, actions>>
Drawing == <<seed, waiting, pool, draws, sums>>

Calibrate ==
  /\ stage = "calibrate"
  /\ \/ /\ ValidCandidates = {}
        /\ selection' = NoFile /\ stage' = "done"
     \/ /\ \E c \in ValidCandidates : SelectBestCalibrationCandidate(c) /\ selection' = c
        /\ stage' = "judge"
  /\ UNCHANGED <<Files, statuses, bySample, cutoffs, Drawing, pattern, supported>>

\* One status per action; per sample the one that comes last in the file stays.
Judge ==
  /\ stage = "judge" /\ Len(statuses) < Len(actions)
  /\ LET a == actions[Len(statuses) + 1]
     IN  /\ statuses' = Append(statuses, CertifyActionInterval(a))
         /\ bySample' = [s \in DOMAIN bySample \cup {a.sample} |->
                           IF s = a.sample THEN CertifyActionInterval(a) ELSE bySample[s]]
  /\ UNCHANGED <<Files, stage, selection, cutoffs, Drawing, pattern, supported>>

\* The decisions are written; the cutoffs are compared in sorted order.
WriteDecisions ==
  /\ stage = "judge" /\ Len(statuses) = Len(actions)
  /\ stage' = "group"
  /\ cutoffs' = SetToSortSeq({actions[i].cutoff : i \in DOMAIN actions}, LAMBDA x, y : x < y)
  /\ UNCHANGED <<Files, selection, statuses, bySample, Drawing, pattern, supported>>

BeginSeed(cutoff) ==
  /\ waiting' = Certified(cutoff)
  /\ pool' = ValidPool(cutoff)
  /\ draws' = <<>>

GroupCutoff ==
  /\ stage = "group" /\ cutoffs # <<>>
  /\ stage' = "draw"
  /\ seed' = 1
  /\ sums' = NoSums
  /\ BeginSeed(Head(cutoffs))
  /\ UNCHANGED <<Files, selection, statuses, bySample, cutoffs, pattern, supported>>

\* _sample_matched_random_valid: without replacement, one certified action after the other.
DrawMatch ==
  /\ stage = "draw"
  /\ \E c \in waiting :
       /\ \A d \in waiting : c <= d
       /\ waiting' = waiting \ {c}
       /\ IF MatchLevels(c) = {}
            THEN UNCHANGED <<pool, draws>>
            ELSE LET level == Levels[Min(MatchLevels(c))]
                 IN  \E i \in Matching(c, level) :
                       /\ pool' = pool \ {i}
                       /\ draws' = [d \in DOMAIN draws \cup {c} |->
                                     IF d = c THEN [match |-> i, level |-> level] ELSE draws[d]]
  /\ UNCHANGED <<Files, stage, selection, statuses, bySample, cutoffs, seed, sums, pattern,
                 supported>>

Matches == {draws[c].match : c \in DOMAIN draws}

EndSeed ==
  /\ stage = "draw" /\ waiting = {}
  /\ sums' = IF draws = <<>> THEN sums
             ELSE [precision |-> sums.precision + LaterRealPrecision(Matches),
                   fraction  |-> sums.fraction
                                   + Rate(Cardinality({c \in DOMAIN draws :
                                                         draws[c].level # "cohort_only"}),
                                          Cardinality(DOMAIN draws)),
                   seeds     |-> sums.seeds + 1]
  /\ IF seed < Seeds
       THEN /\ seed' = seed + 1
            /\ BeginSeed(Head(cutoffs))
            /\ UNCHANGED stage
       ELSE /\ stage' = "record"
            /\ UNCHANGED <<seed, waiting, pool, draws>>
  /\ UNCHANGED <<Files, selection, statuses, bySample, cutoffs, pattern, supported>>

\* -1 stands for None.
RecordCutoff ==
  /\ stage = "record"
  /\ LET certified == Certified(Head(cutoffs))
         chosen == PointSelected(Head(cutoffs))
         isMatched == sums.seeds > 0 /\ sums.fraction >= MinMatchFraction * sums.seeds
     IN  pattern' = Append(pattern,
           [cutoff    |-> Head(cutoffs),
            count     |-> Cardinality(certified),
            certified |-> IF certified = {} THEN -1 ELSE LaterRealPrecision(certified),
            point     |-> IF certified = {} \/ chosen = {} THEN -1
                          ELSE LaterRealPrecision(chosen),
            random    |-> IF isMatched THEN sums.precision \div sums.seeds ELSE -1])
  /\ cutoffs' = Tail(cutoffs)
  /\ stage' = "group"
  /\ UNCHANGED <<Files, selection, statuses, bySample, Drawing, supported>>

\* _central_pattern_supported, over the cutoffs where all three precisions exist.
Complete == {k \in DOMAIN pattern : -1 \notin {pattern[k].certified, pattern[k].point,
                                                pattern[k].random}}

Total(field) == SumFunction([k \in Complete |-> pattern[k][field]])

\* A bug PatternNeedsSeparation excludes: a tie counts as support.
ConcludeOnTies ==
  /\ stage = "group" /\ cutoffs = <<>>
  /\ stage' = "done"
  /\ supported' =
       LET certified == Total("certified")
           point     == Total("point")
           random    == Total("random")
       IN  IF Complete # {} /\ certified >= point /\ point >= random THEN "yes" ELSE "no"
  /\ UNCHANGED <<Files, selection, statuses, bySample, cutoffs, Drawing, pattern>>

Conclude ==
  /\ stage = "group" /\ cutoffs = <<>>
  /\ stage' = "done"
  /\ supported' =
       LET certified == Total("certified")
           point     == Total("point")
           random    == Total("random")
       IN  IF Complete # {} /\ certified > point /\ point > random THEN "yes" ELSE "no"
  /\ UNCHANGED <<Files, selection, statuses, bySample, cutoffs, Drawing, pattern>>

Next ==
  \/ Calibrate \/ Judge \/ WriteDecisions \/ GroupCutoff \/ DrawMatch \/ EndSeed
  \/ RecordCutoff \/ Conclude

Spec == Init /\ [][Next]_vars

-----------------------------------------------------------------------------

\* More precise evidence never turns a certificate round or takes it back: if
\* two actions pass the same gates and the interval of one lies inside that
\* of the other, whatever certificate the wider has the narrower has too
\* (certify_action_interval).
NarrowingKeepsDecision ==
  \A i, j \in DOMAIN statuses :
    LET a == actions[i]
        b == actions[j]
    IN  /\ b.lower <= a.lower /\ a.upper <= b.upper
        /\ <<a.valid, a.leaveOneOut, a.diameter, a.quantile>>
             = <<b.valid, b.leaveOneOut, b.diameter, b.quantile>>
        /\ statuses[j] \in {"positive", "negative"}
        => statuses[i] = statuses[j]

\* The random comparator is as large as what it is compared with, and its
\* matches are exact: when a seed has drawn, every certified action of the
\* cutoff has a match of its own with the same cutoff, cohort, horizon, source
\* and action count, whatever was drawn before it.  A certified action is
\* itself in the pool and nothing of another key takes it, so that the weaker
\* levels and the minimum match fraction never come into play
\* (_sample_matched_random_valid).
MatchesAreExact ==
  stage = "draw" /\ waiting = {} =>
    /\ DOMAIN draws = Certified(Head(cutoffs))
    /\ \A c, d \in DOMAIN draws : c # d => draws[c].match # draws[d].match
    /\ \A c \in DOMAIN draws :
         /\ actions[draws[c].match].valid
         /\ MatchKey(actions[draws[c].match], "exact") = MatchKey(actions[c], "exact")

\* The pattern is never supported by a comparison that cannot fail: where it
\* is, some compared cutoff had a valid action that was not certified and
\* that the later release did not bear out, so that choosing mattered
\* (_compute_central_pattern, _central_pattern_supported).
PatternNeedsSeparation ==
  supported = "yes" =>
    \E k \in Complete : \E i \in ValidPool(pattern[k].cutoff) :
      /\ i \notin Certified(pattern[k].cutoff)
      /\ actions[i].later < selection.align

\* lamda_action_generation.py:569-600 gives every action of a cutoff one width
\* (twice the fit's beta), one diameter, one quantile and a point score in the
\* middle of its interval.
IsAsGenerated ==
  /\ \A i \in DOMAIN actions : /\ actions[i].valid /\ actions[i].leaveOneOut
                               /\ actions[i].score = actions[i].lower + actions[i].upper
  /\ \A i, j \in DOMAIN actions : actions[i].cutoff = actions[j].cutoff =>
       /\ actions[i].upper - actions[i].lower = actions[j].upper - actions[j].lower
       /\ actions[i].diameter = actions[j].diameter /\ actions[i].quantile = actions[j].quantile

\* On such a file, when no sample has more than one action, certifying is
\* selecting by the point: the two precisions of a cutoff are equal, and the
\* pattern cannot be supported (run_action_certificate_validation).
EqualWidthsCertifyByPoint ==
  IsAsGenerated /\ IsInjective([i \in DOMAIN actions |-> actions[i].sample]) =>
    /\ \A k \in DOMAIN pattern : pattern[k].certified = pattern[k].point
    /\ supported # "yes"

=============================================================================
