----------------------------- MODULE StartupSync -----------------------------
(***************************************************************************)
(* The startup warm-up: run_startup_secret_sync in a daemon thread of      *)
(* every NetBox process, coordinated through two Redis keys with a time to *)
(* live, a lock and a completion marker.                                   *)
(*                                                                         *)
(* Refreshing one secret is one step here, SecretRefresh has its inside;   *)
(* a time to live is the number of ticks that are left of it.  The token   *)
(* of a lock (a uuid) is the process that drew it: a process draws a new   *)
(* one only when it starts again, and finds the key taken while an old one *)
(* of its own is in it.                                                    *)
(***************************************************************************)
EXTENDS Integers, FiniteSets

CONSTANTS
  Processes,  \* NetBox processes: web workers, RQ workers, commands
  Secrets,    \* the enabled secrets on enabled backends, as numbers in the
              \* order of their names
  Events,     \* what may go wrong, a subset of EventKinds
  NoOne,      \* no token: the lock key does not exist
  LockTTL,    \* startup_sync_lock_ttl, in ticks
  MarkerTTL   \* startup_sync_marker_ttl, in ticks

EventKinds == {"redis", "refresh", "restart", "flush", "age", "migrating"}

ASSUME EventsAssumption == Events \subseteq EventKinds
ASSUME SecretsAssumption == Secrets \subseteq Nat
ASSUME NoOneAssumption == NoOne \notin Processes
ASSUME TTLAssumption == LockTTL \in Nat \ {0} /\ MarkerTTL \in Nat \ {0}

VARIABLES
  pc,       \* where the thread of each process is
  lock,     \* the lock key: whose token it holds, NoOne when there is no key
  lockTTL,  \* ticks until the lock key expires
  marker,   \* ticks until the marker key expires, 0 when there is none
  due,      \* secrets whose row is due for a refresh
  flagged,  \* secrets whose row has cache_present
  keyed,    \* secrets whose cached value is in Redis
  todo,     \* todo[p]: the rows p's pass has read and not come to
  seen,     \* seen[p]: those that are due, as the pass has read them, by the
            \* time it comes to them
  flags,    \* flags[p]: those with cache_present, as the pass has read them
  touched,  \* touched[p]: those that others have tried since the read
  tried,    \* tried[p]: the row that p's pass has left last, if it has been
            \* counted as refreshed or as failed
  late,     \* history: processes whose own lease ended while they worked
  lost,     \* history: a working process has lost the lock since the last
            \* moment nobody worked
  robbed,   \* history: working processes whose lock a release of another
            \* process has deleted
  trouble   \* history: "outage" once something of Events has happened, "work"
            \* once a refresh has failed or a secret has become due or missing

keys    == <<lock, lockTTL, marker>>
needs   == <<due, flagged, keyed>>
locals  == <<todo, seen, flags, touched>>
history == <<tried, late, lost, robbed>>
vars    == <<pc, keys, needs, locals, history, trouble>>

PCs == {"off", "check", "acquire", "query", "visit", "mark", "compare",
        "delete", "done"}

TypeOK ==
  /\ pc \in [Processes -> PCs]
  /\ lock \in Processes \cup {NoOne}
  /\ lockTTL \in 0 .. LockTTL
  /\ marker \in 0 .. MarkerTTL
  /\ due \subseteq Secrets
  /\ flagged \subseteq Secrets /\ keyed \subseteq Secrets
  /\ todo \in [Processes -> SUBSET Secrets]
  /\ seen \in [Processes -> SUBSET Secrets]
  /\ flags \in [Processes -> SUBSET Secrets]
  /\ touched \in [Processes -> SUBSET Secrets]
  /\ tried \in [Processes -> SUBSET Secrets]
  /\ late \subseteq Processes /\ robbed \subseteq Processes
  /\ lost \in BOOLEAN
  /\ trouble \in {"none", "outage", "work"}

\* Between the acquisition of the lock and its release.
Section == {"query", "visit", "mark", "compare", "delete"}
Working(p) == pc[p] \in Section
\* Between the acquisition and the end of the pass over the secrets.
InPass(p) == pc[p] \in {"query", "visit", "mark"}

\* The row says cached, but the key is gone.
missing == flagged \ keyed
pending == due \cup missing

Init ==
  /\ pc = [p \in Processes |-> "off"]
  /\ lock = NoOne /\ lockTTL = 0
  /\ marker = 0
  /\ due \in SUBSET Secrets
  /\ flagged \in SUBSET Secrets /\ keyed \in SUBSET Secrets
  /\ todo = [p \in Processes |-> {}]
  /\ seen = [p \in Processes |-> {}]
  /\ flags = [p \in Processes |-> {}]
  /\ touched = [p \in Processes |-> {}]
  /\ tried = [p \in Processes |-> {}]
  /\ late = {} /\ robbed = {}
  /\ lost = FALSE /\ trouble = "none"

-----------------------------------------------------------------------------
(* Helpers *)

Goto(p, label) == pc' = [pc EXCEPT ![p] = label]

\* Mutant: no floor.
LessUnbounded(n) == n - 1
Less(n) == IF n = 0 THEN 0 ELSE n - 1

\* The rows that p's pass has read are garbage.
Forget(p) ==
  /\ todo' = [todo EXCEPT ![p] = {}]
  /\ seen' = [seen EXCEPT ![p] = {}]
  /\ flags' = [flags EXCEPT ![p] = {}]
  /\ touched' = [touched EXCEPT ![p] = {}]

\* p's pass is over: its counts are logged.
Finish(p) ==
  /\ Goto(p, "compare")
  /\ tried' = [tried EXCEPT ![p] = {}]
  /\ UNCHANGED <<late, lost, robbed>>

\* p leaves the section, or never was in it.
LeaveAfter(p, label, victims) ==
  /\ Goto(p, label)
  /\ Forget(p)
  /\ tried' = [tried EXCEPT ![p] = {}]
  /\ late' = late \ {p}
  /\ lost' = (lost /\ \E q \in Processes \ {p} : Working(q))
  /\ robbed' = (robbed \cup victims) \ {p}
Leave(p, label) == LeaveAfter(p, label, {})

\* Mutant: SET without ex.
LeaseForever(p) == lock' = p /\ lockTTL' = 0
\* SET key token NX EX ttl
Lease(p) == lock' = p /\ lockTTL' = LockTTL

-----------------------------------------------------------------------------
(* run_startup_secret_sync                                                 *)

Start(p) ==
  /\ pc[p] = "off"
  /\ Goto(p, "check")
  /\ UNCHANGED <<keys, needs, locals, history>>

TablesNotReady(p) ==
  /\ "migrating" \in Events
  /\ pc[p] = "check"
  /\ Leave(p, "done")
  /\ UNCHANGED <<keys, needs>>

CheckMarker(p) ==
  /\ pc[p] = "check"
  /\ IF marker > 0 THEN Leave(p, "done")
     ELSE Goto(p, "acquire") /\ UNCHANGED <<locals, history>>
  /\ UNCHANGED <<keys, needs>>

\* Mutant: SET without nx.
AcquireAlways(p) ==
  /\ pc[p] = "acquire"
  /\ Lease(p)
  /\ Goto(p, "query")
  /\ UNCHANGED <<marker, needs, locals, history>>

Acquire(p) ==
  /\ pc[p] = "acquire" /\ lock = NoOne
  /\ Lease(p)
  /\ Goto(p, "query")
  /\ UNCHANGED <<marker, needs, locals, history>>

AcquireRefused(p) ==
  /\ pc[p] = "acquire" /\ lock # NoOne
  /\ Leave(p, "done")
  /\ UNCHANGED <<keys, needs>>

\* Redis is down for the marker, or for the lock: the thread ends.
RedisDownAtStart(p) ==
  /\ "redis" \in Events
  /\ pc[p] \in {"check", "acquire"}
  /\ Leave(p, "done")
  /\ UNCHANGED <<keys, needs>>

\* The lock was set, the reply is lost: the thread ends without its token.
AcquireReplyLost(p) ==
  /\ "redis" \in Events
  /\ pc[p] = "acquire" /\ lock = NoOne
  /\ Lease(p)
  /\ Leave(p, "done")
  /\ UNCHANGED <<marker, needs>>

\* iter_due_or_missing_cache_secrets starts: the query reads every row.
Query(p) ==
  /\ pc[p] = "query"
  /\ todo' = [todo EXCEPT ![p] = Secrets]
  /\ seen' = [seen EXCEPT ![p] = due]
  /\ flags' = [flags EXCEPT ![p] = flagged]
  /\ Goto(p, "visit")
  /\ UNCHANGED <<keys, needs, touched, history>>

\* Mutant: the warm-up uses iter_due_secrets.
SelectedIfDue(p, s) == s \in seen[p]
\* Due by now or with cache_present, both by the columns that the query has
\* read; but the key is looked for now.
Selected(p, s) == s \in seen[p] \/ s \in flags[p] \ keyed

\* The generator comes to the row of s, and goes on behind it.
Visits(p, s) ==
  /\ pc[p] = "visit" /\ s \in todo[p]
  /\ \A r \in todo[p] : s <= r

Visited(p, s) ==
  /\ todo' = [todo EXCEPT ![p] = @ \ {s}]
  /\ flags' = [flags EXCEPT ![p] = @ \ {s}]

\* The passes of others that have read the row of s and not come to it.
Behind(p, s) == {q \in Processes \ {p} : s \in todo[q]}

\* f[p] without s, and f[q] with s for the passes of Q.
Told(f, p, s, Q) ==
  [q \in Processes |-> IF q \in Q THEN f[q] \cup {s}
                       ELSE IF q = p THEN f[q] \ {s} ELSE f[q]]

Skip(p, s) ==
  /\ Visits(p, s) /\ ~Selected(p, s)
  /\ Visited(p, s)
  /\ seen' = Told(seen, p, s, {})
  /\ touched' = Told(touched, p, s, {})
  /\ tried' = [tried EXCEPT ![p] = {}]
  /\ UNCHANGED <<pc, keys, needs, late, lost, robbed>>

\* What a refresh of s, successful or not, is to the passes.
Tried(p, s) ==
  /\ Visits(p, s) /\ Selected(p, s)
  /\ Visited(p, s)
  /\ touched' = Told(touched, p, s, Behind(p, s))
  /\ tried' = [tried EXCEPT ![p] = {s}]
  /\ UNCHANGED <<pc, keys, late, lost, robbed>>

\* Others have read that s was refreshed earlier: to some of them, when they
\* come to it, the interval of s has passed.
RefreshOne(p, s) ==
  /\ Tried(p, s)
  /\ due' = due \ {s}
  /\ flagged' = flagged \cup {s} /\ keyed' = keyed \cup {s}
  /\ \E Q \in SUBSET Behind(p, s) :
       /\ "age" \notin Events => Q = {}
       /\ seen' = Told(seen, p, s, Q)

\* _refresh_matching_secrets records the failure and goes on.  The value may
\* have been cached before it.  A failure that is saved writes the flag that
\* the pass has read over the one in the row, and clears it without a key.
RefreshOneFails(p, s) ==
  /\ "refresh" \in Events
  /\ Tried(p, s)
  /\ keyed' \in {keyed, keyed \cup {s}}
  /\ flagged' \in {flagged,
                   (flagged \ {s}) \cup ({s} \cap flags[p] \cap keyed')}
  /\ seen' = Told(seen, p, s, {})
  /\ UNCHANGED due

\* Mutant: the marker is set in the finally block.
PassAbortsAndMarks(p) ==
  /\ "redis" \in Events
  /\ \E s \in flags[p] \ seen[p] : Visits(p, s)
  /\ Goto(p, "mark")
  /\ Forget(p)
  /\ UNCHANGED <<keys, needs, history>>

\* has_cached_secret raises in the generator, outside the loop's try.
PassAborts(p) ==
  /\ "redis" \in Events
  /\ \E s \in flags[p] \ seen[p] : Visits(p, s)
  /\ Finish(p) /\ Forget(p)
  /\ UNCHANGED <<keys, needs>>

PassEnds(p) ==
  /\ pc[p] = "visit" /\ todo[p] = {}
  /\ Goto(p, "mark")
  /\ Forget(p)
  /\ UNCHANGED <<keys, needs, history>>

Mark(p) ==
  /\ pc[p] = "mark"
  /\ marker' = MarkerTTL
  /\ Finish(p)
  /\ UNCHANGED <<lock, lockTTL, needs, locals>>

MarkFails(p) ==
  /\ "redis" \in Events
  /\ pc[p] = "mark"
  /\ Finish(p)
  /\ UNCHANGED <<keys, needs, locals>>

-----------------------------------------------------------------------------
(* release_startup_sync_lock, in the finally block: GET, then DEL          *)

Compare(p) ==
  /\ pc[p] = "compare" /\ lock = p
  /\ Goto(p, "delete")
  /\ UNCHANGED <<keys, needs, locals, history>>

CompareDiffers(p) ==
  /\ pc[p] = "compare" /\ lock # p
  /\ Leave(p, "done")
  /\ UNCHANGED <<keys, needs>>

DeleteLock(p) ==
  /\ pc[p] = "delete"
  /\ lock' = NoOne /\ lockTTL' = 0
  /\ LeaveAfter(p, "done", {q \in Processes : lock = q /\ Working(q)})
  /\ UNCHANGED <<marker, needs>>

\* A RedisError is logged and swallowed: the lock stays until it expires.
ReleaseFails(p) ==
  /\ "redis" \in Events
  /\ pc[p] \in {"compare", "delete"}
  /\ Leave(p, "done")
  /\ UNCHANGED <<keys, needs>>

-----------------------------------------------------------------------------
(* The environment                                                         *)

\* The process is killed, or its container is started again later.
Restart(p) ==
  /\ "restart" \in Events
  /\ pc[p] # "off"
  /\ Leave(p, "off")
  /\ UNCHANGED <<keys, needs>>

\* The lock expires for the processes that work under it.
Tick ==
  /\ lockTTL > 0 \/ marker > 0
  /\ lockTTL' = Less(lockTTL)
  /\ lock' = IF lockTTL = 1 THEN NoOne ELSE lock
  /\ marker' = Less(marker)
  /\ IF lockTTL = 1 /\ lock \in Processes /\ Working(lock)
     THEN late' = late \cup {lock} /\ lost' = TRUE
     ELSE UNCHANGED <<late, lost>>
  /\ UNCHANGED <<pc, needs, locals, tried, robbed>>

\* Redis loses all its keys.
Flush ==
  /\ "flush" \in Events
  /\ lock' = NoOne /\ lockTTL' = 0 /\ marker' = 0
  /\ keyed' = {}
  /\ late' = {p \in Processes : Working(p)}
  /\ lost' = \E p \in Processes : Working(p)
  /\ UNCHANGED <<pc, due, flagged, locals, tried, robbed>>

\* The interval of s has passed, for its row and for all that has been read.
Age(s) ==
  /\ "age" \in Events
  /\ due' = due \cup {s}
  /\ seen' = [p \in Processes |->
               IF s \in todo[p] THEN seen[p] \cup {s} ELSE seen[p]]
  /\ UNCHANGED <<pc, keys, flagged, keyed, todo, flags, touched, history>>

-----------------------------------------------------------------------------

RunStep(p) ==
  \/ CheckMarker(p) \/ Acquire(p) \/ AcquireRefused(p) \/ Query(p)
  \/ \E s \in Secrets : Skip(p, s) \/ RefreshOne(p, s)
  \/ PassEnds(p) \/ Mark(p)
  \/ Compare(p) \/ CompareDiffers(p) \/ DeleteLock(p)

Outage(p) ==
  \/ TablesNotReady(p) \/ RedisDownAtStart(p) \/ AcquireReplyLost(p)
  \/ PassAborts(p) \/ MarkFails(p) \/ ReleaseFails(p)

Trouble == trouble' = IF trouble = "none" THEN "outage" ELSE trouble

ThreadStep(p) ==
  \/ RunStep(p) /\ UNCHANGED trouble
  \/ Outage(p) /\ Trouble
  \/ \E s \in Secrets : RefreshOneFails(p, s) /\ trouble' = "work"

\* Steps of nobody's thread that undo what a warm-up achieves.
Disturbance ==
  \/ \E p \in Processes : Restart(p) /\ Trouble
  \/ Flush /\ trouble' = "work"
  \/ \E s \in Secrets : Age(s) /\ trouble' = "work"

ProcessStep(p) == (Start(p) /\ UNCHANGED trouble) \/ ThreadStep(p)

Next ==
  \/ \E p \in Processes : ProcessStep(p)
  \/ Tick /\ UNCHANGED trouble
  \/ Disturbance

Spec == Init /\ [][Next]_vars

\* Containers start, threads go on (their calls return or time out), and
\* time passes; nothing has to fail.
FairSpec ==
  /\ Spec
  /\ WF_vars(Tick /\ UNCHANGED trouble)
  /\ \A p \in Processes : WF_vars(ProcessStep(p))

-----------------------------------------------------------------------------
(* Properties *)

(* As long as no working process has lost the lock to its time to live or  *)
(* to a flush, at most one process is between acquiring and releasing it:  *)
(* not after a crash, a lost reply or a release that failed either.        *)
ExclusionUntilLost ==
  ~lost => \A p, q \in Processes : Working(p) /\ Working(q) => p = q

(* And after a loss two processes work beside each other only if the lease *)
(* of one of them has ended under it, or a release has deleted its lock,   *)
(* which the GET before the DEL does not exclude; whoever overstays harms  *)
(* no third process otherwise.                                             *)
RunningLeaseExcludes ==
  \A p, q \in Processes \ (late \cup robbed) :
    Working(p) /\ Working(q) => p = q

(* Unless a refresh has failed or there is new work, completion is marked  *)
(* only when nothing is left to refresh: not by a pass that aborts, after  *)
(* a crash, or beside a pass that goes on without its lock.                *)
MarkedMeansDone == trouble # "work" /\ marker > 0 => pending = {}

(* Until a loss a pass finds nothing done by another pass: what it would   *)
(* refresh by the columns it has read does need a refresh, although the    *)
(* marker is looked at before the lock is taken.                           *)
NoWorkRepeated ==
  ~lost => \A p \in Processes : \A s \in todo[p] :
             Selected(p, s) => s \in pending

(* Nobody renews a lease or takes it over: a lock that is set is under the *)
(* same token, for less and less time, until the key is gone.              *)
LeaseOnlyRunsOut ==
  [][lock # NoOne =>
       \/ lock' = NoOne
       \/ lock' = lock /\ lockTTL' <= lockTTL /\ lockTTL' > 0]_vars

(* The lock never stays: whoever crashed with it or failed to release it,  *)
(* it is free again later.                                                 *)
LockIsFreed == []<>(lock = NoOne)

(* Unless something fails, the containers that start refresh every secret  *)
(* that was due or missing, however their threads interleave and however   *)
(* often a lease ends under a worker.                                      *)
WarmUpReachesAll == <>(trouble # "none" \/ pending = {})

(* The warm-up implements WarmUp, with every failure: what the lock, the   *)
(* marker and the lazy generator do together is a pass that comes to every *)
(* secret and marks completion only at its end, and that takes a secret    *)
(* for done or for not done wrongly only after another pass was at it.     *)
WU == INSTANCE WarmUp WITH
  stage  <- [p \in Processes |->
               IF pc[p] = "query" THEN "entering"
               ELSE IF InPass(p) THEN "in"
               ELSE IF Working(p) THEN "leaving" ELSE "out"],
  left   <- todo,
  marked <- marker > 0
ImplementsWarmUp == WU!Spec

(* README: a startup warm-up with a Redis lock so only one container does  *)
(* the work: no two processes whose own lease still runs are in a pass.    *)
LeaseExcludes ==
  \A p, q \in Processes \ late : InPass(p) /\ InPass(q) => p = q

-----------------------------------------------------------------------------
(* The inductive invariant behind ExclusionUntilLost and NoWorkRepeated:   *)
(* until the lock is lost it holds the token of whoever works, and what a  *)
(* pass has read is what the rows say unless another was at them.          *)
HoldsLock == ~lost => \A p \in Processes : Working(p) => lock = p
ReadByPass ==
  \A p \in Processes : pc[p] # "visit" => todo[p] = {}
OfTheRows ==
  \A p \in Processes :
    seen[p] \cup flags[p] \cup touched[p] \subseteq todo[p]
NothingTouched == ~lost => \A p \in Processes : touched[p] = {}
AsRead ==
  \A p \in Processes : \A s \in todo[p] \ touched[p] :
    (s \in seen[p] <=> s \in due) /\ (s \in flags[p] <=> s \in flagged)

Inv ==
  /\ TypeOK /\ HoldsLock /\ ReadByPass
  /\ OfTheRows /\ NothingTouched /\ AsRead

(* What RunningLeaseExcludes needs: a worker has its token in the lock     *)
(* unless it is counted as late or robbed, which only workers are.         *)
LeaseInv ==
  /\ late \cup robbed \subseteq {p \in Processes : Working(p)}
  /\ \A p \in Processes : Working(p) => lock = p \/ p \in late \cup robbed

(* What MarkedMeansDone needs: all work left is before each pass that      *)
(* runs, which has read of what is missing that it was cached.             *)
DoneBehind ==
  trouble # "work" => \A p \in Processes :
    /\ pc[p] = "visit" => pending \subseteq todo[p]
    /\ pc[p] = "mark" => pending = {}
    /\ missing \cap todo[p] \subseteq flags[p]

(* What LeaseOnlyRunsOut needs: no lock without a time to live.            *)
LockExpires == lock # NoOne <=> lockTTL > 0

(* What the refinement needs besides: a loss is remembered only while      *)
(* somebody works, only a pass counts, and a pass has read all that is due *)
(* and before it.                                                          *)
LostAtWork == lost => \E p \in Processes : Working(p)
CountedInPass == \A p \in Processes : ~InPass(p) => tried[p] = {}
NothingOverlooked == \A p \in Processes : todo[p] \cap due \subseteq seen[p]
=============================================================================
