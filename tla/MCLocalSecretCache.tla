------------------------- MODULE MCLocalSecretCache -------------------------
(* Instances of LocalSecretCache for TLC.                                   *)
EXTENDS LocalSecretCache, TLC

CONSTANTS s1, s2, t1, t2, p1

OneSecret == {s1}
TwoSecrets == {s1, s2}
OneProcess == {p1}
TwoThreads == {t1, t2}
SameProcess == [t \in Threads |-> p1]
NoEvents == {}
AllEvents == EventKinds

ThreadSymmetry == Permutations(Threads)
=============================================================================
