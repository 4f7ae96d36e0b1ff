-------------------------- MODULE MCIdentification --------------------------
(***************************************************************************)
(* Releases of at most a dozen records over ten months, with two-month    *)
(* windows: a few fixed records with up to two, or nearly all, records   *)
(* of a pool that makes each support, each residual and each control       *)
(* replicate come and go by itself; two families compete for the cohort,   *)
(* one record has a label its detection count contradicts.                 *)
(***************************************************************************)
EXTENDS Identification

Row(id, month, label, vt, family) ==
  [id |-> id, month |-> month, label |-> label, vt |-> vt, family |-> family]

Fixed ==
  {Row(1, 2, "malicious", NoCount, "f"),
   Row(3, 5, "malicious", 7, "f"), Row(4, 1, "benign", 0, NoFamily),
   Row(5, 3, "benign", 0, NoFamily), Row(6, 6, "malicious", 4, "f")}

Pool ==
  {Row(2, 4, "malicious", 5, "f"), Row(7, 0, "malicious", 4, "f"), Row(8, 1, "none", 9, "f"),
   Row(9, 3, "malicious", NoCount, "f"), Row(10, 8, "malicious", 4, "f"),
   Row(11, 9, "malicious", 2, "f"), Row(12, 5, "benign", NoCount, NoFamily),
   Row(13, 4, "benign", 3, NoFamily), Row(14, 7, "malicious", 4, "g")}

\* A family that leads until late in the release.
Overtaken == {Row(20 + i, 1, "malicious", 4, "g") : i \in 0 .. 6}

MCReleases ==
  {Fixed \cup extra : extra \in {s \in SUBSET Pool : Cardinality(s) <= 2 \/ Cardinality(s) >= 7}}
    \cup {{}, Pool, Fixed \cup Pool \cup Overtaken}
    \cup {extra : extra \in SUBSET {Row(14, 7, "malicious", 4, "g"),
                                     Row(4, 1, "benign", 0, NoFamily)}}

AllStable == [e \in 0 .. 10 |-> "stable"]

MCVerdicts ==
  {[rank |-> AllStable, zero |-> {}, flat |-> FALSE],
   [rank |-> [AllStable EXCEPT ![6] = "weak", ![7] = "unstable"],
    zero |-> {4, 5}, flat |-> TRUE]}

MCFractions == <<<<1, 4>>, <<1, 2>>>>

=============================================================================
