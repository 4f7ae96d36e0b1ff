--------------------------- MODULE MCArtifactFlow ---------------------------
(***************************************************************************)
(* Four versions of the inputs, so that each file can be left by one, be   *)
(* replaced by another and stay under a third: `prepared` brings actions   *)
(* with challenges, `acquired` has sources to generate actions from,       *)
(* `uncalibrated` brings actions without challenges and no valid           *)
(* calibration, `empty` brings nothing.                                    *)
(***************************************************************************)
EXTENDS ArtifactFlow

CONSTANTS prepared, acquired, uncalibrated, empty

Versions == {prepared, acquired, uncalibrated, empty}
ObservedVersions == {prepared, acquired, uncalibrated}
SelectingVersions == {prepared, acquired}
PreparedVersions == {prepared, uncalibrated}
ChallengingVersions == {prepared}
GeneratingVersions == {acquired}

=============================================================================
