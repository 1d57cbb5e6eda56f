---------------------------- MODULE MCStartupSync ----------------------------
(* Instances of StartupSync for TLC.                                        *)
EXTENDS StartupSync

CONSTANTS p1, p2, p3

TwoProcesses == {p1, p2}
ThreeProcesses == {p1, p2, p3}
OneSecret == {1}
TwoSecrets == 1 .. 2
NoEvents == {}
AllEvents == EventKinds
=============================================================================
