----------------------------- MODULE CachedSecret -----------------------------
(***************************************************************************)
(* What refresh, set, clear and delete promise of a tracked secret,        *)
(* although no transaction spans the vault, Redis and PostgreSQL: an       *)
(* operation that nothing disturbs changes the cache at most once, to a    *)
(* version no older than any reported, then the row, which from then on    *)
(* says what is cached; one that fails before changes neither.             *)
(*                                                                         *)
(* A race, a lost reply, a flush, a crash or a set without caching breaks  *)
(* the promise for that secret; an operation alone on it renews it.        *)
(***************************************************************************)
EXTENDS Naturals, TLAPS

CONSTANT Secrets

VARIABLES
  version,   \* version[s]: the current version upstream
  cached,    \* cached[s]: the version in the cache and when it was refreshed
  claim,     \* claim[s]: when, as the row says, what is cached was refreshed;
             \* 0 if it says that nothing is
  reported,  \* reported[s]: the newest version reported as cached
  state      \* state[s]: "settled", "changed" between the changes of the
             \* cache and of the row, "broken", or "mending"

vars == <<version, cached, claim, reported, state>>

Nothing == [ver |-> 0, refreshedAt |-> 0]

Init ==
  /\ version = [s \in Secrets |-> 1]
  /\ cached = [s \in Secrets |-> Nothing]
  /\ claim = [s \in Secrets |-> 0]
  /\ reported = [s \in Secrets |-> 0]
  /\ state = [s \in Secrets |-> "settled"]

-----------------------------------------------------------------------------
(* What may happen to one secret                                           *)

SameVersion(s) == version'[s] = version[s]
SameCache(s)   == cached'[s] = cached[s]
SameClaim(s)   == claim'[s] = claim[s]
SameReport(s)  == reported'[s] = reported[s]
Same(s) ==
  /\ SameVersion(s) /\ SameCache(s) /\ SameClaim(s) /\ SameReport(s)
  /\ state'[s] = state[s]

\* A new version upstream, of the plugin or of somebody else.
Publish(s) ==
  /\ version'[s] = version[s] + 1
  /\ SameCache(s) /\ SameClaim(s) /\ SameReport(s)
  /\ state'[s] = state[s]

Fresh(s, entry) ==
  /\ 0 < entry.ver /\ entry.ver <= version[s] /\ reported[s] <= entry.ver
  /\ 0 < entry.refreshedAt /\ claim[s] <= entry.refreshedAt

Replace(s) ==
  /\ state[s] = "settled" /\ state'[s] = "changed"
  /\ cached'[s] = Nothing \/ Fresh(s, cached'[s])
  /\ SameVersion(s) /\ SameClaim(s) /\ SameReport(s)

Confirm(s) ==
  /\ state[s] \in {"changed", "mending"} /\ state'[s] = "settled"
  /\ state[s] = "changed" => SameCache(s)
  /\ claim'[s] = cached'[s].refreshedAt
  /\ \/ cached'[s] = Nothing /\ SameReport(s)
     \/ /\ cached'[s].ver >= reported[s]
        /\ reported'[s] = cached'[s].ver
  /\ SameVersion(s)

Break(s) ==
  /\ state'[s] = "broken"
  /\ reported[s] <= reported'[s] /\ reported'[s] <= version[s]
  /\ SameVersion(s)

\* An operation begins alone, and goes on.
Mend(s) ==
  /\ state[s] \in {"broken", "mending"} /\ state'[s] = "mending"
  /\ state[s] = "broken" => SameCache(s) /\ SameClaim(s)
  /\ SameVersion(s) /\ SameReport(s)

-----------------------------------------------------------------------------

Change(s) == Publish(s) \/ Replace(s) \/ Confirm(s) \/ Break(s) \/ Mend(s)

Next == \E s \in Secrets : Change(s) /\ \A r \in Secrets \ {s} : Same(r)

Spec == Init /\ [][Next]_vars

(* What a user of a settled secret relies on: the row tells when its cached *)
(* value was refreshed, or that there is none, and the value is the one     *)
(* last reported.                                                           *)
SettledRowTells ==
  \A s \in Secrets : state[s] = "settled" =>
    /\ claim[s] = cached[s].refreshedAt
    /\ cached[s] # Nothing => cached[s].ver = reported[s]

(* Whatever races, failures and repairs came before, a settled secret has a *)
(* row that tells of its cache, which holds what was last reported.         *)
THEOREM RowTells == Spec => []SettledRowTells
<1>1. Init => SettledRowTells
  BY DEF Init, SettledRowTells, Nothing
<1>2. SettledRowTells /\ [Next]_vars => SettledRowTells'
  <2> SUFFICES ASSUME SettledRowTells, [Next]_vars, NEW s \in Secrets,
                      state'[s] = "settled"
               PROVE  /\ claim'[s] = cached'[s].refreshedAt
                      /\ cached'[s] # Nothing => cached'[s].ver = reported'[s]
    BY DEF SettledRowTells, Nothing
  <2> USE DEF SettledRowTells, SameVersion, SameCache, SameClaim, SameReport
  <2>1. CASE Publish(s) \/ Same(s)
    BY <2>1 DEF Publish, Same
  <2>2. CASE Confirm(s)
    BY <2>2 DEF Confirm
  <2>3. CASE Replace(s) \/ Break(s) \/ Mend(s)
    BY <2>3 DEF Replace, Break, Mend
  <2>4. CASE UNCHANGED vars
    BY <2>4 DEF vars
  <2>5. QED
    BY <2>1, <2>2, <2>3, <2>4 DEF Next, Change
<1>3. QED
  BY <1>1, <1>2, PTL DEF Spec
===============================================================================
