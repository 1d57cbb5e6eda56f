---------------------------- MODULE MCSecretReads ----------------------------
(* An instance of SecretReads for TLC.                                      *)
EXTENDS SecretReads

CONSTANTS s1, t1, t2, p1

OneSecret == {s1}
OneProcess == {p1}
TwoThreads == {t1, t2}
SameProcess == [t \in Threads |-> p1]
===============================================================================
