---------------------- MODULE MCEmber2024Identification ----------------------
(***************************************************************************)
(* Releases over nine months, with two-month windows: fixed records of the *)
(* cohort and any subset of a pool in which supports, residuals, controls  *)
(* and a second family come and go.                                        *)
(***************************************************************************)
EXTENDS Ember2024Identification

Row(id, month, label, family) ==
  [id |-> id, month |-> month, label |-> label, vt |-> NoCount, family |-> family]

Fixed ==
  {Row(1, 2, "malicious", "f"), Row(2, 5, "malicious", "f"), Row(3, 6, "malicious", "f"),
   Row(4, 1, "benign", NoFamily), Row(5, 8, "benign", "f")}

Pool ==
  {Row(6, 0, "malicious", "f"), Row(7, 4, "malicious", "f"), Row(8, 3, "malicious", "f"),
   Row(9, 7, "malicious", "g"), Row(10, 3, "benign", NoFamily), Row(11, 5, "benign", NoFamily),
   Row(12, 9, "none", "f")}

MCReleases ==
  {Fixed \cup extra : extra \in SUBSET Pool} \cup {{}, {Row(4, 1, "benign", NoFamily)}}

AllStable == [e \in 0 .. 10 |-> "stable"]

MCVerdicts ==
  {[rank |-> AllStable, zero |-> {}, flat |-> FALSE],
   [rank |-> [AllStable EXCEPT ![6] = "weak", ![7] = "unstable"], zero |-> {4}, flat |-> FALSE]}

=============================================================================
