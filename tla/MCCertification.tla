-------------------------- MODULE MCCertification --------------------------
(***************************************************************************)
(* Files of up to four actions at one or two cutoffs.  An action is one of *)
(* a few kinds: certified, too wide, certainly misaligned, the same inside *)
(* a narrower interval, not valid, behind a closed gate, unstable; two of  *)
(* one sample are compositions, of one length or of two.                   *)
(***************************************************************************)
EXTENDS Certification

Kind(lower, upper, valid, leaveOneOut, diameter, later) ==
  [lower |-> lower, upper |-> upper, valid |-> valid, leaveOneOut |-> leaveOneOut,
   diameter |-> diameter, quantile |-> 1, score |-> lower + upper, later |-> later]

Sure     == Kind(5, 6, TRUE, TRUE, 1, 6)
SureMiss == Kind(5, 5, TRUE, TRUE, 1, 2)
Wide     == Kind(3, 8, TRUE, TRUE, 1, 2)
WideHit  == Kind(4, 9, TRUE, TRUE, 1, 6)
Low      == Kind(1, 3, TRUE, TRUE, 1, 1)
LowMid   == Kind(2, 4, TRUE, TRUE, 1, 5)
Narrow   == Kind(4, 4, TRUE, TRUE, 1, 4)
Gated    == Kind(5, 6, TRUE, TRUE, 2, 6)
Unstable == Kind(5, 6, TRUE, FALSE, 1, 3)
Invalid  == Kind(5, 6, FALSE, TRUE, 1, 6)

At(kind, sample, cutoff, cohort, count) ==
  [sample |-> sample, source |-> sample, cutoff |-> cutoff, cohort |-> cohort, horizon |-> 1,
   count |-> count] @@ kind

\* Distinct samples at two cutoffs; the fourth is of another cohort.
DistinctFiles ==
  {<<At(a, 1, 1, "f", 1), At(b, 2, 1, "f", 1), At(c, 3, 1, "f", 2), At(d, 4, 2, "f", 1)>> :
     a \in {Sure, Narrow, Low, Invalid}, b \in {Wide, LowMid, Gated, Sure},
     c \in {Wide, WideHit, SureMiss, Unstable, Low}, d \in {Sure, Wide, Narrow}}
    \cup
  {<<At(a, 1, 1, "f", 1), At(b, 2, 1, "g", 1), At(Wide, 3, 1, "g", 1), At(Sure, 4, 1, "f", 1)>> :
     a \in {Sure, Wide, Low, Invalid}, b \in {Sure, LowMid, Invalid}}

\* Compositions of one sample, all valid, as candidate generation writes them.
RepeatedFiles ==
  {<<At(a, 1, 1, "f", 1), At(b, 1, 1, "f", count), At(c, 2, 1, "f", 1),
     At(d, 1, cutoff, "f", 1)>> :
     a \in {Sure, Wide}, b \in {Sure, SureMiss, Low}, c \in {Sure, Wide}, d \in {Sure, Wide},
     count \in {1, 2}, cutoff \in {1, 2}}

\* As generated: one width per cutoff, distinct samples.
GeneratedFiles ==
  {<<At(Kind(lower, lower + 1, TRUE, TRUE, 1, 6), 1, 1, "f", 1),
     At(Kind(5, 6, TRUE, TRUE, 1, later), 2, 1, "f", 1),
     At(Kind(3, 4, TRUE, TRUE, 1, 2), 3, 1, "f", 1), At(Narrow, 4, 2, "f", 1)>> :
     lower \in 1 .. 7, later \in {2, 6}}

MCActionFiles == {<<>>} \cup GeneratedFiles \cup DistinctFiles \cup RepeatedFiles

Row(row, candidate, align, amb, covered, certified, clean) ==
  [row |-> row, candidate |-> candidate, align |-> align, amb |-> amb, covered |-> covered,
   certified |-> certified, clean |-> clean]

MCObservationFiles ==
  {{}, {Row(1, 1, 4, 2, FALSE, TRUE, 0)}}
    \cup {{Row(1, 1, 4, 2, TRUE, TRUE, clean), Row(2, 1, 4, 2, covered, FALSE, 0),
           Row(3, 2, 5, 1, TRUE, TRUE, 0), Row(4, 2, 5, 1, TRUE, certified, 2)} :
            clean \in {0, 2}, covered \in BOOLEAN, certified \in BOOLEAN}

=============================================================================
