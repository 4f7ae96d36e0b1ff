---------------------------- MODULE MCPreparation ----------------------------
(***************************************************************************)
(* Sources of nine months with no gap, a gap at either end, one in the     *)
(* middle and two, and one too short for a history; releases of up to     *)
(* three rows around the split.                                           *)
(***************************************************************************)
EXTENDS Preparation

Gap(start, end) == [start |-> start, end |-> end]

LamdaSources ==
  [first : {0, 1}, last : {8},
   gaps : {{}, {Gap(3, 4)}, {Gap(4, 4)}, {Gap(0, 1)}, {Gap(7, 8)}, {Gap(1, 1), Gap(6, 7)}}]

MCSources ==
  {[lamda |-> s, ember2024 |-> t] : s \in LamdaSources,
     t \in {[first |-> 2, last |-> last, gaps |-> {}] : last \in {3, 6}}}

Rows == [id : {"a", "b"}, month : {4, 5, 6}, label : {"malicious"}, family : {"f"}]
  \cup [id : {"a", NoId}, month : {5}, label : {"none", "benign"}, family : {"f"}]

MCReleases == {<<>>} \cup {<<r, s>> : r, s \in Rows} \cup
  {<<r, s, r>> : r \in {t \in Rows : t.id = "a"}, s \in {t \in Rows : t.month = 5}}

=============================================================================
