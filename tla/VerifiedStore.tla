---------------------------- MODULE VerifiedStore ----------------------------
(***************************************************************************)
(* What the acquired samples look like to the commands that read them: a   *)
(* file appears under its name with its verified content at once, and a    *)
(* file that does not verify leaves only by hand.  The exception is named: *)
(* a sample that two commands wrote at the same time is contended, and of  *)
(* a contended sample nothing is promised.                                 *)
(***************************************************************************)
CONSTANTS Samples

VARIABLES status,    \* "absent", "unverified" or "verified"
          contended  \* samples written by two commands at the same time

vars == <<status, contended>>

Init ==
  /\ status \in [Samples -> {"absent", "unverified", "verified"}]
  /\ contended = {}

Publish(s) ==
  /\ status[s] = "absent"
  /\ status' = [status EXCEPT ![s] = "verified"]
  /\ UNCHANGED contended

Remove(s) ==
  /\ status[s] = "unverified"
  /\ status' = [status EXCEPT ![s] = "absent"]
  /\ UNCHANGED contended

\* The second writer appears, or a contended file changes in any way.
Contend(s) ==
  /\ contended' = contended \cup {s}
  /\ \E state \in {"absent", "unverified", "verified"} :
       status' = [status EXCEPT ![s] = state]

Spec == Init /\ [][\E s \in Samples : Publish(s) \/ Remove(s) \/ Contend(s)]_vars

=============================================================================
