--------------------------- MODULE RefreshSchedule ---------------------------
(***************************************************************************)
(* When tracked secrets are refreshed: the hourly system job of jobs.py    *)
(* with its pass over the due secrets, beside passes that users start, and *)
(* what takes a cached value away.                                         *)
(*                                                                         *)
(* Time is counted from events: the age of a row's last_refreshed, the     *)
(* ticks since the job's scheduled instant.  A refresh is one step that    *)
(* comes at the end of its time; SecretRefresh has its inside.             *)
(***************************************************************************)
EXTENDS Integers, FiniteSets

CONSTANTS
  Secrets,   \* tracked secrets
  Interval,  \* Interval[s]: refresh_interval_hours
  Hour,      \* ticks of an hour, the interval of the job
  MaxDelay,  \* assumption: ticks until a worker starts a scheduled job
  MaxCall,   \* assumption: ticks that one refresh may last
  Events     \* what else happens, a subset of EventKinds

EventKinds == {"refresh", "manual", "lose", "set_uncached", "toggle", "edit"}

\* An hourly pass ends within its hour.
PassTime == MaxDelay + Cardinality(Secrets) * MaxCall

ASSUME SecretsAssumption == IsFiniteSet(Secrets)
ASSUME IntervalAssumption == Interval \in [Secrets -> Nat \ {0}]
ASSUME EventsAssumption == Events \subseteq EventKinds
ASSUME TimeAssumption ==
  Hour \in Nat /\ MaxDelay \in Nat /\ MaxCall \in Nat /\ PassTime < Hour

VARIABLES
  enabled,  \* secrets that are enabled, on an enabled backend
  age,      \* age[s]: ticks since last_refreshed, no more than Period(s)
  usable,   \* secrets with a payload in Redis that the SECRET_KEY in use can
            \* decrypt and that was read at the row's backend and secret_path
  phase,    \* ticks since the scheduled instant of the job
  job,      \* whether the job of this hour waits for a worker, runs, is done
  todo,     \* secrets the job's pass has selected and not come to
  spent,    \* ticks of the refresh the pass is at
  manual,   \* secrets that passes of users have selected and not come to
  oldJob,   \* secrets in todo whose address was edited behind the pass
  oldUser,  \* the same of manual
  waits,    \* history: waits[s], ticks s has been due without an attempt
  gap       \* history: gap[s], ticks s has had no usable payload since it
            \* lost it or got its address, since its last failure, since it
            \* was set without caching or a user's pass used an old address

times == <<phase, job, spent>>
olds  == <<oldJob, oldUser>>
vars  == <<enabled, age, usable, times, todo, manual, olds, waits, gap>>

Period(s) == Interval[s] * Hour

TypeOK ==
  /\ enabled \subseteq Secrets
  /\ age \in [Secrets -> Nat]
  /\ \A s \in Secrets : age[s] <= Period(s)
  /\ usable \subseteq Secrets
  /\ phase \in 0 .. Hour - 1
  /\ job \in {"waiting", "running", "done"}
  /\ todo \subseteq Secrets
  /\ spent \in 0 .. MaxCall
  /\ manual \subseteq Secrets
  /\ oldJob \subseteq todo /\ oldUser \subseteq manual
  /\ waits \in [Secrets -> Nat]
  /\ gap \in [Secrets -> Nat]

\* New rows have no last_refreshed, which makes them due.
Init ==
  /\ enabled \in SUBSET Secrets
  /\ age = [s \in Secrets |-> Period(s)]
  /\ usable = {}
  /\ phase = 0 /\ job = "waiting" /\ spent = 0
  /\ todo = {} /\ manual = {}
  /\ oldJob = {} /\ oldUser = {}
  /\ waits = [s \in Secrets |-> 0]
  /\ gap = [s \in Secrets |-> 0]

-----------------------------------------------------------------------------
(* Helpers *)

\* Mutant: a secret without a cached value is never due.
DueIfCached(s) == age[s] = Period(s) /\ s \in usable
Due(s) == age[s] = Period(s)

Selection == {s \in enabled : Due(s)}

\* A pass refreshes from the instances it has loaded: one of an address that
\* was edited since puts the value of the old address into the cache.
Success(s, old) ==
  /\ age' = [age EXCEPT ![s] = 0]
  /\ usable' = IF s \in old THEN usable \ {s} ELSE usable \cup {s}

\* An attempt; the columns that a failure saves are not read by the schedule.
Tried(s) ==
  /\ waits' = [waits EXCEPT ![s] = 0]
  /\ gap' = [gap EXCEPT ![s] = 0]

-----------------------------------------------------------------------------
(* RefreshDueVaultSecretsJob: refresh_all_secrets(due_only=True)           *)

JobStarts ==
  /\ job = "waiting"
  /\ job' = "running"
  /\ todo' = Selection
  /\ spent' = 0
  /\ UNCHANGED <<enabled, age, usable, phase, manual, olds, waits, gap>>

JobRefreshes(s) ==
  /\ job = "running" /\ s \in todo
  /\ todo' = todo \ {s} /\ spent' = 0
  /\ Success(s, oldJob) /\ oldJob' = oldJob \ {s}
  /\ waits' = [waits EXCEPT ![s] = 0]
  /\ gap' = IF s \in oldJob THEN gap ELSE [gap EXCEPT ![s] = 0]
  /\ UNCHANGED <<enabled, phase, job, manual, oldUser>>

\* Mutant: the first failure ends the pass.
JobFailsOnce(s) ==
  /\ "refresh" \in Events
  /\ job = "running" /\ s \in todo
  /\ todo' = {} /\ spent' = 0 /\ oldJob' = {}
  /\ Tried(s)
  /\ UNCHANGED <<enabled, age, usable, phase, job, manual, oldUser>>

\* _refresh_matching_secrets goes on with the next secret.
JobFailsOn(s) ==
  /\ "refresh" \in Events
  /\ job = "running" /\ s \in todo
  /\ todo' = todo \ {s} /\ spent' = 0 /\ oldJob' = oldJob \ {s}
  /\ Tried(s)
  /\ UNCHANGED <<enabled, age, usable, phase, job, manual, oldUser>>

\* With or without JobFailed, the job of the next hour is scheduled.
JobEnds ==
  /\ job = "running" /\ todo = {}
  /\ job' = "done" /\ spent' = 0
  /\ UNCHANGED <<enabled, age, usable, phase, todo, manual, olds, waits, gap>>

-----------------------------------------------------------------------------
(* refresh_all_secrets of a view, of the API or of the command, with or    *)
(* without due_only, and refresh_secret or set_secret_value of any one     *)

ManualStarts ==
  /\ "manual" \in Events
  /\ \E more \in {enabled, Selection} \cup {{s} : s \in Secrets} :
       manual' = manual \cup more
  /\ UNCHANGED <<enabled, age, usable, times, todo, olds, waits, gap>>

ManualRefreshes(s) ==
  /\ s \in manual
  /\ manual' = manual \ {s} /\ oldUser' = oldUser \ {s}
  /\ Success(s, oldUser) /\ Tried(s)
  /\ UNCHANGED <<enabled, times, todo, oldJob>>

ManualFailsOn(s) ==
  /\ "refresh" \in Events
  /\ s \in manual
  /\ manual' = manual \ {s} /\ oldUser' = oldUser \ {s}
  /\ Tried(s)
  /\ UNCHANGED <<enabled, age, usable, times, todo, oldJob>>

-----------------------------------------------------------------------------
(* What else happens to a secret                                           *)

\* clear_secret_cache, a flush, an eviction, or the rotation of SECRET_KEY.
Lose(s) ==
  /\ "lose" \in Events
  /\ s \in usable
  /\ usable' = usable \ {s}
  /\ UNCHANGED <<enabled, age, times, todo, manual, olds, waits, gap>>

\* set_secret_value(refresh_cache=False): last_refreshed moves.
SetUncached(s) ==
  /\ "set_uncached" \in Events
  /\ age' = [age EXCEPT ![s] = 0]
  /\ Tried(s)
  /\ UNCHANGED <<enabled, usable, times, todo, manual, olds>>

\* An edit of enabled, here or on the backend.
Toggle(s) ==
  /\ "toggle" \in Events
  /\ enabled' = IF s \in enabled THEN enabled \ {s} ELSE enabled \cup {s}
  /\ Tried(s)
  /\ UNCHANGED <<age, usable, times, todo, manual, olds>>

\* A form saves the last_refreshed that it loaded earlier.
FormSaves(s) ==
  /\ "edit" \in Events
  /\ \E a \in age[s] .. Period(s) : age' = [age EXCEPT ![s] = a]

EditStale(s) ==
  /\ FormSaves(s)
  /\ UNCHANGED <<enabled, usable, times, todo, manual, olds, waits, gap>>

\* An edit of secret_path or of the backend; it refreshes nothing.
Readdress(s) ==
  /\ FormSaves(s)
  /\ usable' = usable \ {s}
  /\ oldJob' = oldJob \cup (todo \cap {s})
  /\ oldUser' = oldUser \cup (manual \cap {s})
  /\ gap' = [gap EXCEPT ![s] = 0]
  /\ UNCHANGED <<enabled, times, todo, manual, waits>>

-----------------------------------------------------------------------------
(* Time passes; a worker starts the job and a refresh ends when they must. *)

\* Mutant: no limit.
OlderUnlimited(s) == age[s] + 1
Older(s) == IF age[s] < Period(s) THEN age[s] + 1 ELSE age[s]

Tick ==
  /\ job = "waiting" => phase < MaxDelay
  /\ job = "running" => todo # {} /\ spent < MaxCall
  /\ IF phase < Hour - 1 THEN phase' = phase + 1 /\ UNCHANGED job
     ELSE phase' = 0 /\ job' = "waiting"
  /\ spent' = IF job = "running" THEN spent + 1 ELSE 0
  /\ age' = [s \in Secrets |-> Older(s)]
  /\ waits' = [s \in Secrets |->
                IF s \in Selection THEN waits[s] + 1 ELSE 0]
  /\ gap' = [s \in Secrets |->
              IF s \in enabled \ usable THEN gap[s] + 1 ELSE 0]
  /\ UNCHANGED <<enabled, usable, todo, manual, olds>>

Next ==
  \/ JobStarts \/ JobEnds \/ ManualStarts \/ Tick
  \/ \E s \in Secrets :
       \/ JobRefreshes(s) \/ JobFailsOn(s)
       \/ ManualRefreshes(s) \/ ManualFailsOn(s)
       \/ Lose(s) \/ SetUncached(s) \/ Toggle(s)
       \/ EditStale(s) \/ Readdress(s)

Spec == Init /\ [][Next]_vars

-----------------------------------------------------------------------------
(* Properties *)

(* The job description: the job scans all enabled secrets every hour and   *)
(* refreshes those that are due.  A secret that is enabled and due is      *)
(* tried within an hour and the time of a pass, whichever others fail      *)
(* before it and whatever users refresh, edit or toggle meanwhile.         *)
DueIsTried == \A s \in Secrets : waits[s] <= Hour + PassTime

(* A payload that is lost, cleared, no longer readable or of an address    *)
(* that was edited is replaced although nothing but its age makes a row    *)
(* due: after the interval, an hour and the time of a pass, also when the  *)
(* pass that runs during the edit puts the value of the old address back.  *)
CacheComesBack == \A s \in Secrets : gap[s] <= Period(s) + Hour + PassTime

-----------------------------------------------------------------------------
(* The inductive invariant                                                 *)

\* The time that the pass may have used for secrets it has come to.
Used == Cardinality(Secrets \ todo) * MaxCall

(* How long a secret can have been due, and the pass been running.         *)
WaitInv ==
  /\ job = "waiting" =>
       /\ phase <= MaxDelay
       /\ \A s \in Secrets : waits[s] <= Hour + phase
  /\ job = "running" =>
       /\ phase <= MaxDelay + Used + spent
       /\ \A s \in Secrets :
            waits[s] <= IF s \in todo THEN Hour + MaxDelay + Used + spent
                        ELSE phase
  /\ job = "done" => \A s \in Secrets : waits[s] <= phase
  /\ job # "running" => todo = {}
  /\ \A s \in Secrets : waits[s] # 0 => s \in Selection

(* A gap begins no earlier than the hour in which the age of the row does: *)
(* a whole number of hours and the phase bound it, and they are no more    *)
(* than an hour above the age.  From when the row is due the phase alone   *)
(* counts, until a job takes it up, in the next hour.                      *)
GapBounded(s) ==
  /\ Due(s) => gap[s] <= Period(s) + phase
               + (IF job = "waiting" \/ s \in todo THEN Hour ELSE 0)
  /\ ~Due(s) => \E k \in Nat : /\ gap[s] <= phase + k * Hour
                               /\ phase + k * Hour < age[s] + Hour
GapInv ==
  \A s \in Secrets :
    /\ s \notin enabled => gap[s] = 0
    /\ s \in oldJob => gap[s] <= phase
    /\ GapBounded(s)

Inv == TypeOK /\ WaitInv /\ GapInv
=============================================================================
