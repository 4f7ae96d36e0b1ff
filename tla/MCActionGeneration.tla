------------------------- MODULE MCActionGeneration -------------------------
(***************************************************************************)
(* Instances of ActionGeneration: three endpoints with two candidates each,*)
(* under four settings.  Two of them, before and retuned, have the same    *)
(* cohort and record count and reject different endpoints.                 *)
(***************************************************************************)
EXTENDS ActionGeneration

\* Before any change, after a change of the configuration, after a change of
\* the release, and with nothing eligible.
CONSTANTS before, retuned, after, barren

Settings == {before, retuned, after, barren}

SettingRejected ==
  [s \in Settings |-> IF s = before THEN {1, 2}
                      ELSE IF s \in {retuned, after} THEN {2, 3} ELSE {}]

SettingValid ==
  [s \in Settings |-> IF s \in {before, retuned} THEN {<<1, 1>>, <<3, 1>>, <<3, 2>>}
                      ELSE IF s = after THEN {<<1, 2>>, <<3, 1>>} ELSE {}]

SettingEligible == {before, retuned, after}

\* The cohort and the record count: another configuration leaves both as they are.
ReleaseKeys == [s \in Settings |-> IF s = retuned THEN before ELSE s]

=============================================================================
