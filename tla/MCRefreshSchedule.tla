-------------------------- MODULE MCRefreshSchedule --------------------------
(* Instances of RefreshSchedule for TLC.                                    *)
EXTENDS RefreshSchedule

CONSTANTS s1, s2

TwoSecrets == {s1, s2}
OneAndTwo == [s \in Secrets |-> IF s = s1 THEN 1 ELSE 2]
AllEvents == EventKinds
=============================================================================
