--------------------------- MODULE MCProspective ---------------------------
(***************************************************************************)
(* Releases of a dozen records over eight months: a cohort with a         *)
(* malicious record in most months, benign ones around it, and what takes  *)
(* away a month, the family or a class.  Two certified samples, of months  *)
(* that cutoffs score; two releases repeat a hash, once in an earlier      *)
(* month and once under another family.  Hardening runs of up to three     *)
(* heads, some better by no more than the tolerance, one beyond the clean  *)
(* limit.                                                                  *)
(***************************************************************************)
EXTENDS Prospective

Row(id, sample, month, label, vt, family) ==
  [id |-> id, sample |-> sample, month |-> month, label |-> label, vt |-> vt, family |-> family]

Bad(id, month) == Row(id, id, month, "malicious", 5, "f")
Good(id, month) == Row(id, id, month, "benign", 0, NoFamily)

Full ==
  {Bad(1, 1), Bad(2, 3), Bad(3, 4), Bad(4, 5), Bad(5, 6), Bad(6, 7),
   Good(11, 1), Good(12, 3), Good(13, 4), Good(17, 5), Good(15, 6), Good(14, 7)}

\* The hash of month 6 again, in a later row of an earlier month.
RepeatedEarlier == Full \cup {Row(20, 5, 3, "malicious", 5, "f")}

\* The hash of month 3 again, under another family.
RepeatedElsewhere == Full \cup {Row(20, 2, 4, "malicious", 5, "g"), Row(21, 1, 2, "malicious", 5, "g")}

MCPopulations ==
  {Full, Full \cup {Bad(8, 8)}, Full \ {Bad(2, 3), Bad(1, 1)},
   {Bad(3, 4), Good(13, 4), Bad(5, 6), Good(15, 6), Bad(6, 7), Good(14, 7)},
   {r \in Full : r.month # 5} \cup {Row(7, 7, 6, "malicious", 2, "f"), Good(16, 8)},
   {[r EXCEPT !.family = NoFamily] : r \in Full},
   {Row(1, 1, 1, "none", NoCount, "f")},
   RepeatedEarlier, RepeatedElsewhere}

Decision(sample, cutoff, positive) ==
  [sample |-> sample, cutoff |-> cutoff, positive |-> positive]

MCDecisionFiles ==
  {<<>>, <<Decision(3, 5, TRUE)>>, <<Decision(3, 5, TRUE), Decision(3, 6, FALSE)>>,
   <<Decision(4, 6, TRUE), Decision(3, 6, TRUE)>>, <<Decision(3, 5, FALSE)>>,
   <<Decision(5, 5, TRUE)>>}

Epoch(objective, missed) == [objective |-> objective, missed |-> missed]

MCRuns ==
  {<<Epoch(5, {5})>>,
   <<Epoch(9, {}), Epoch(8, {}), Epoch(6, {3, 4})>>,
   <<Epoch(9, {5, 6}), Epoch(14, {5}), Epoch(12, {6})>>,
   <<Epoch(9, {4, 5}), Epoch(6, {5}), Epoch(5, {})>>}

=============================================================================
