--------------------------- MODULE MCSecretRefresh ---------------------------
(* Instances of SecretRefresh for TLC; the cfg files name these sets.       *)
EXTENDS SecretRefresh, TLC

CONSTANTS s1, t1, t2

OneSecret == {s1}
OneTask == {t1}
TwoTasks == {t1, t2}

NoEvents == {}
AllEvents == EventKinds
RaceEvents == EventKinds \ {"read_only"}
EndEvents == {"vault", "redis", "read_only"}

CachingOps == {"refresh_secret", "set_secret_value"}
UncachedOps == {"refresh_secret", "set_uncached"}
EndOps == {"refresh_secret", "set_secret_value", "delete"}

TaskSymmetry == Permutations(Tasks)
=============================================================================
