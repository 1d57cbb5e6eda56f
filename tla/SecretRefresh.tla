---------------------------- MODULE SecretRefresh ----------------------------
(***************************************************************************)
(* The life of a tracked secret: secrets.py changes a value in the vault,  *)
(* its encrypted copy in Redis and its row in PostgreSQL, three stores     *)
(* that share no transaction.                                              *)
(*                                                                         *)
(* A task is a thread of some NetBox process (a request, the hourly job, a *)
(* management command, a script) inside one of the operations below.  It   *)
(* loads the row into a model instance, works on that instance across      *)
(* calls to the vault and to Redis, and saves some columns of it.          *)
(*                                                                         *)
(* A secret value is the number of the upstream version it came from.      *)
(***************************************************************************)
EXTENDS Integers, FiniteSets

CONSTANTS
  Secrets,     \* primary keys of tracked secrets
  Tasks,       \* threads that may be inside an operation at the same time
  Operations,  \* the operations the tasks run, a subset of OperationKinds
  Events,      \* what the environment may do, a subset of EventKinds
  Interval,    \* refresh_interval_hours, in units of the clock
  MaxTime,     \* bound: the last instant of the clock
  MaxVersion   \* bound: the number of versions a secret may have upstream

RemoteOps == {"refresh_secret", "set_secret_value", "set_uncached"}
OperationKinds == RemoteOps \cup {"clear_secret_cache", "delete", "edit"}
EventKinds == {"vault", "redis", "flush", "crash", "rotate", "read_only"}

ASSUME OperationsAssumption == Operations \subseteq OperationKinds
ASSUME EventsAssumption == Events \subseteq EventKinds
ASSUME BoundsAssumption ==
  Interval \in Nat \ {0} /\ MaxTime \in Nat \ {0} /\ MaxVersion \in Nat \ {0}

\* set_uncached is set_secret_value(refresh_cache=False).
SetOps == {"set_secret_value", "set_uncached"}
Caches(o) == o \in {"refresh_secret", "set_secret_value"}

VARIABLES
  now,       \* the clock
  upstream,  \* upstream[s]: the current version of the secret in the vault
  readOnly,  \* read_only of the backend
  live,      \* the secrets that have a row
  row,       \* row[s]: the bookkeeping columns of the row
  redis,     \* redis[s]: the payload stored under the secret's cache key
  pc, op, target,  \* where each task is, in which operation, on which secret
  inst,      \* inst[t]: the bookkeeping columns of the task's model instance
  held,      \* held[t]: the version of the plaintext the task holds
  trust,     \* history: whether the row can be expected to describe the cache
  reported   \* history: the newest version an operation reported as cached

outside == <<now, upstream, readOnly>>
stores  == <<live, row, redis>>
locals  == <<pc, op, target, inst, held>>
history == <<trust, reported>>
vars    == <<outside, stores, locals, history>>

Never   == 0  \* None in last_refreshed, last_refresh_attempt and refreshed_at
NoEntry == [ver |-> 0, refreshedAt |-> Never]
NewRow  == [cachePresent |-> FALSE, lastRefreshed |-> Never,
            lastAttempt |-> Never, status |-> "unknown"]

Statuses == {"unknown", "synced", "stale", "failed"}
Row   == [cachePresent : BOOLEAN, lastRefreshed : Nat,
          lastAttempt : Nat, status : Statuses]
Entry == [ver : Nat, refreshedAt : Nat]
PCs   == {"idle", "loaded", "remote", "stamp", "write", "save", "handler",
          "saveFailure", "saveFlag", "commit"}

TypeOK ==
  /\ now \in Nat
  /\ upstream \in [Secrets -> Nat]
  /\ readOnly \in BOOLEAN
  /\ live \subseteq Secrets
  /\ row \in [Secrets -> Row]
  /\ redis \in [Secrets -> Entry]
  /\ pc \in [Tasks -> PCs]
  /\ op \in [Tasks -> OperationKinds \cup {"none"}]
  /\ target \in [Tasks -> Secrets]
  /\ inst \in [Tasks -> Row]
  /\ held \in [Tasks -> Nat]
  /\ trust \in [Secrets -> {"coherent", "mending", "disturbed"}]
  /\ reported \in [Secrets -> Nat]

Init ==
  /\ now = 1
  /\ upstream = [s \in Secrets |-> 1]
  /\ readOnly = FALSE
  /\ live = Secrets
  /\ row = [s \in Secrets |-> NewRow]
  /\ redis = [s \in Secrets |-> NoEntry]
  /\ pc = [t \in Tasks |-> "idle"]
  /\ op = [t \in Tasks |-> "none"]
  /\ target \in [Tasks -> Secrets]
  /\ inst = [t \in Tasks |-> NewRow]
  /\ held = [t \in Tasks |-> 0]
  /\ trust = [s \in Secrets |-> "coherent"]
  /\ reported = [s \in Secrets |-> 0]

-----------------------------------------------------------------------------
(* Helpers *)

Present(s) == redis[s].ver # 0
Working(t, s) == pc[t] # "idle" /\ target[t] = s
Quiet(s) == \A t \in Tasks : ~Working(t, s)
Alone(t, s) == \A u \in Tasks \ {t} : ~Working(u, s)

\* Mutant: every task that is going to delete holds the row lock.
UnlockedByAnyDelete(t) ==
  \A u \in Tasks \ {t} : ~(op[u] = "delete" /\ target[u] = target[t])

\* An uncommitted DELETE holds the row lock that every UPDATE waits for.
Unlocked(t) ==
  \A u \in Tasks \ {t} : ~(pc[u] = "commit" /\ target[u] = target[t])

\* Every version is written at most once, and there are at most MaxVersion.
Room(s) ==
  upstream[s] + Cardinality({t \in Tasks : /\ target[t] = s
                                           /\ op[t] \in SetOps
                                           /\ pc[t] \in {"loaded", "remote"}})
    < MaxVersion

Goto(t, label) == pc' = [pc EXCEPT ![t] = label]

\* The operation returns or raises, and its instance is garbage.
Finish(t) ==
  /\ Goto(t, "idle")
  /\ op' = [op EXCEPT ![t] = "none"]
  /\ inst' = [inst EXCEPT ![t] = NewRow]
  /\ held' = [held EXCEPT ![t] = 0]
  /\ UNCHANGED target

Disturb(s) == trust' = [trust EXCEPT ![s] = "disturbed"]
\* Nothing disturbed the secret while the operation ran from load to end.
Settle(s) ==
  trust' = [trust EXCEPT ![s] = IF @ = "disturbed" THEN @ ELSE "coherent"]

\* Mutants of the columns saved on failure: last_refreshed cleared,
\* last_refresh_status forgotten, no list of columns.
FailureColumnsCleared(old, new) == [new EXCEPT !.lastRefreshed = Never]
FailureColumnsAll(old, new) == new
FailureColumnsNoStatus(old, new) == [old EXCEPT !.lastAttempt = new.lastAttempt]

\* The lists of columns saved after a caching success (every column of the
\* model), after refresh_cache=False, and on failure.
CachedColumns(old, new) == new
UncachedColumns(old, new) == [new EXCEPT !.cachePresent = old.cachePresent]
FailureColumns(old, new) == [new EXCEPT !.lastRefreshed = old.lastRefreshed]

-----------------------------------------------------------------------------
(* Loading: get_secret_record, a view's get_object_or_404, or one element  *)
(* of a bulk operation's queryset.  read_only is read with the row.        *)

Load(t, s, o) ==
  /\ pc[t] = "idle" /\ s \in live /\ o \in Operations
  /\ o \in SetOps => ~readOnly /\ Room(s)
  /\ Goto(t, "loaded")
  /\ op' = [op EXCEPT ![t] = o]
  /\ target' = [target EXCEPT ![t] = s]
  /\ inst' = [inst EXCEPT ![t] = row[s]]
  /\ trust' = [trust EXCEPT ![s] = IF ~Alone(t, s) THEN "disturbed"
                                   ELSE IF @ = "disturbed" THEN "mending"
                                   ELSE @]
  /\ UNCHANGED <<outside, stores, held, reported>>

-----------------------------------------------------------------------------
(* refresh_secret and set_secret_value                                     *)

Begin(t) ==
  /\ pc[t] = "loaded" /\ op[t] \in RemoteOps
  /\ inst' = [inst EXCEPT ![t].lastAttempt = now]
  /\ Goto(t, "remote")
  /\ UNCHANGED <<outside, stores, op, target, held, history>>

Fetch(t) ==
  /\ pc[t] = "remote" /\ op[t] = "refresh_secret"
  /\ held' = [held EXCEPT ![t] = upstream[target[t]]]
  /\ Goto(t, "stamp")
  /\ UNCHANGED <<outside, stores, op, target, inst, history>>

Store(t) ==
  /\ pc[t] = "remote" /\ op[t] \in SetOps
  /\ upstream' = [upstream EXCEPT ![target[t]] = @ + 1]
  /\ held' = [held EXCEPT ![t] = upstream[target[t]] + 1]
  /\ Goto(t, "stamp")
  /\ UNCHANGED <<now, readOnly, stores, op, target, inst, history>>

\* Mutant: a failed call is made again.
RemoteFailsRetried(t) ==
  /\ "vault" \in Events
  /\ pc[t] = "remote"
  /\ Goto(t, "loaded")
  /\ UNCHANGED <<outside, stores, op, target, inst, held, history>>

RemoteFails(t) ==
  /\ "vault" \in Events
  /\ pc[t] = "remote"
  /\ Goto(t, "handler")
  /\ UNCHANGED <<outside, stores, op, target, inst, held, history>>

\* The vault stored the value, but the client saw a timeout.
StoreReplyLost(t) ==
  /\ "vault" \in Events
  /\ pc[t] = "remote" /\ op[t] \in SetOps
  /\ upstream' = [upstream EXCEPT ![target[t]] = @ + 1]
  /\ Goto(t, "handler")
  /\ UNCHANGED <<now, readOnly, stores, op, target, inst, held, history>>

Stamp(t) ==
  /\ pc[t] = "stamp"
  /\ inst' = [inst EXCEPT ![t].lastRefreshed = now, ![t].status = "synced"]
  /\ Goto(t, IF Caches(op[t]) THEN "write" ELSE "save")
  /\ UNCHANGED <<outside, stores, op, target, held, history>>

Payload(t) == [ver |-> held[t], refreshedAt |-> inst[t].lastRefreshed]

\* Mutant: SET with the nx flag of the startup lock.
WriteCacheOnlyIfAbsent(t) ==
  /\ pc[t] = "write"
  /\ redis' = [redis EXCEPT ![target[t]] =
                 IF Present(target[t]) THEN @ ELSE Payload(t)]
  /\ inst' = [inst EXCEPT ![t].cachePresent = TRUE]
  /\ Goto(t, "save")
  /\ UNCHANGED <<outside, live, row, op, target, held, history>>

WriteCache(t) ==
  /\ pc[t] = "write"
  /\ redis' = [redis EXCEPT ![target[t]] = Payload(t)]
  /\ inst' = [inst EXCEPT ![t].cachePresent = TRUE]
  /\ Goto(t, "save")
  /\ UNCHANGED <<outside, live, row, op, target, held, history>>

WriteFails(t) ==
  /\ "redis" \in Events
  /\ pc[t] = "write"
  /\ Goto(t, "handler")
  /\ UNCHANGED <<outside, stores, op, target, inst, held, history>>

\* Redis stored the payload, but the connection broke before the reply.
WriteReplyLost(t) ==
  /\ "redis" \in Events
  /\ pc[t] = "write"
  /\ redis' = [redis EXCEPT ![target[t]] = Payload(t)]
  /\ Disturb(target[t])
  /\ Goto(t, "handler")
  /\ UNCHANGED <<outside, live, row, op, target, inst, held, reported>>

\* Mutants: a status that is not a choice; a failure that forgets the cache.
DowngradedToError(o, i, present) == [i EXCEPT !.status = "error"]
DowngradedAlways(o, i, present) == [i EXCEPT !.status = "failed",
                                             !.cachePresent = FALSE]

\* The except block; the second conjunct of its test is not evaluated when
\* last_refreshed is None, so only HandlerCacheDown's case needs Redis.
Downgraded(o, i, present) ==
  IF i.lastRefreshed # Never /\ present
  THEN [i EXCEPT !.status = "stale"]
  ELSE [i EXCEPT !.status = "failed",
                 !.cachePresent = IF Caches(o) THEN FALSE ELSE @]

Handle(t) ==
  /\ pc[t] = "handler"
  /\ inst' = [inst EXCEPT ![t] = Downgraded(op[t], @, Present(target[t]))]
  /\ Goto(t, "saveFailure")
  /\ UNCHANGED <<outside, stores, op, target, held, history>>

\* has_cached_secret raises out of the except block: nothing is saved.
HandlerCacheDown(t) ==
  /\ "redis" \in Events
  /\ pc[t] = "handler" /\ inst[t].lastRefreshed # Never
  /\ Finish(t)
  /\ UNCHANGED <<outside, stores, history>>

\* An UPDATE that finds no row raises DatabaseError and changes nothing.
SaveFailure(t) ==
  /\ pc[t] = "saveFailure" /\ Unlocked(t)
  /\ row' = IF target[t] \in live
            THEN [row EXCEPT ![target[t]] = FailureColumns(@, inst[t])]
            ELSE row
  /\ Finish(t)
  /\ UNCHANGED <<outside, live, redis, history>>

SaveCached(t) ==
  /\ pc[t] = "save" /\ target[t] \in live /\ Unlocked(t)
  /\ Caches(op[t])
  /\ row' = [row EXCEPT ![target[t]] = CachedColumns(@, inst[t])]
  /\ Settle(target[t])
  /\ reported' = [reported EXCEPT ![target[t]] =
                    IF held[t] > @ THEN held[t] ELSE @]
  /\ Finish(t)
  /\ UNCHANGED <<outside, live, redis>>

\* After refresh_cache=False the cache keeps what it had.
SaveUncached(t) ==
  /\ pc[t] = "save" /\ target[t] \in live /\ Unlocked(t)
  /\ ~Caches(op[t])
  /\ row' = [row EXCEPT ![target[t]] = UncachedColumns(@, inst[t])]
  /\ Disturb(target[t])
  /\ Finish(t)
  /\ UNCHANGED <<outside, live, redis, reported>>

SaveFindsNoRow(t) ==
  /\ pc[t] = "save" /\ target[t] \notin live /\ Unlocked(t)
  /\ Finish(t)
  /\ UNCHANGED <<outside, stores, history>>

-----------------------------------------------------------------------------
(* clear_secret_cache                                                      *)

Purge(t) ==
  /\ pc[t] = "loaded" /\ op[t] = "clear_secret_cache"
  /\ inst[t].cachePresent
  /\ redis' = [redis EXCEPT ![target[t]] = NoEntry]
  /\ inst' = [inst EXCEPT ![t].cachePresent = FALSE]
  /\ Goto(t, "saveFlag")
  /\ UNCHANGED <<outside, live, row, op, target, held, history>>

\* The instance says nothing is cached: nothing to save.
PurgeUnflagged(t) ==
  /\ pc[t] = "loaded" /\ op[t] = "clear_secret_cache"
  /\ ~inst[t].cachePresent
  /\ redis' = [redis EXCEPT ![target[t]] = NoEntry]
  /\ Settle(target[t])
  /\ Finish(t)
  /\ UNCHANGED <<outside, live, row, reported>>

PurgeFails(t) ==
  /\ "redis" \in Events
  /\ pc[t] = "loaded" /\ op[t] = "clear_secret_cache"
  /\ Finish(t)
  /\ UNCHANGED <<outside, stores, history>>

PurgeReplyLost(t) ==
  /\ "redis" \in Events
  /\ pc[t] = "loaded" /\ op[t] = "clear_secret_cache"
  /\ redis' = [redis EXCEPT ![target[t]] = NoEntry]
  /\ Disturb(target[t])
  /\ Finish(t)
  /\ UNCHANGED <<outside, live, row, reported>>

SaveFlag(t) ==
  /\ pc[t] = "saveFlag" /\ Unlocked(t)
  /\ row' = IF target[t] \in live
            THEN [row EXCEPT ![target[t]].cachePresent = inst[t].cachePresent]
            ELSE row
  /\ Settle(target[t])
  /\ Finish(t)
  /\ UNCHANGED <<outside, live, redis, reported>>

-----------------------------------------------------------------------------
(* Deleting a secret: Django deletes the row and sends post_delete inside  *)
(* one transaction, so the cache is purged before the delete is visible.   *)

DeleteRow(t) ==
  /\ pc[t] = "loaded" /\ op[t] = "delete" /\ Unlocked(t)
  /\ redis' = [redis EXCEPT ![target[t]] = NoEntry]
  /\ Goto(t, "commit")
  /\ UNCHANGED <<outside, live, row, op, target, inst, held, history>>

\* purge_secret_cache_on_delete swallows the error.
DeleteRowCacheDown(t) ==
  /\ "redis" \in Events
  /\ pc[t] = "loaded" /\ op[t] = "delete" /\ Unlocked(t)
  /\ Disturb(target[t])
  /\ Goto(t, "commit")
  /\ UNCHANGED <<outside, stores, op, target, inst, held, reported>>

CommitDelete(t) ==
  /\ pc[t] = "commit"
  /\ live' = live \ {target[t]}
  /\ Settle(target[t])
  /\ Finish(t)
  /\ UNCHANGED <<outside, row, redis, reported>>

(* Editing a secret (form or API): a save of every column of the instance, *)
(* which inserts the row again when a delete has removed it.               *)
SaveAll(t) ==
  /\ pc[t] = "loaded" /\ op[t] = "edit" /\ Unlocked(t)
  /\ row' = [row EXCEPT ![target[t]] = inst[t]]
  /\ live' = live \cup {target[t]}
  /\ Finish(t)
  /\ UNCHANGED <<outside, redis, history>>

-----------------------------------------------------------------------------
(* The environment                                                         *)

Tick ==
  /\ now < MaxTime
  /\ now' = now + 1
  /\ UNCHANGED <<upstream, readOnly, stores, locals, history>>

\* Someone other than the plugin writes a new version into the vault.
Rotate(s) ==
  /\ "rotate" \in Events /\ Room(s)
  /\ upstream' = [upstream EXCEPT ![s] = @ + 1]
  /\ UNCHANGED <<now, readOnly, stores, locals, history>>

ToggleReadOnly ==
  /\ "read_only" \in Events
  /\ readOnly' = ~readOnly
  /\ UNCHANGED <<now, upstream, stores, locals, history>>

\* Redis loses the key: FLUSHDB, a restart without persistence, an eviction.
Flush(s) ==
  /\ "flush" \in Events /\ Present(s)
  /\ redis' = [redis EXCEPT ![s] = NoEntry]
  /\ Disturb(s)
  /\ UNCHANGED <<outside, live, row, locals, reported>>

\* The process dies; an uncommitted DELETE is rolled back.
Crash(t) ==
  /\ "crash" \in Events /\ pc[t] # "idle"
  /\ Disturb(target[t])
  /\ Finish(t)
  /\ UNCHANGED <<outside, stores, reported>>

-----------------------------------------------------------------------------

TaskStep(t) ==
  \/ Begin(t) \/ Fetch(t) \/ Store(t) \/ RemoteFails(t) \/ StoreReplyLost(t)
  \/ Stamp(t) \/ WriteCache(t) \/ WriteFails(t) \/ WriteReplyLost(t)
  \/ Handle(t) \/ HandlerCacheDown(t)
  \/ SaveCached(t) \/ SaveUncached(t) \/ SaveFindsNoRow(t) \/ SaveFailure(t)
  \/ Purge(t) \/ PurgeUnflagged(t) \/ PurgeFails(t) \/ PurgeReplyLost(t)
  \/ SaveFlag(t)
  \/ DeleteRow(t) \/ DeleteRowCacheDown(t) \/ CommitDelete(t) \/ SaveAll(t)

Environment ==
  \/ Tick
  \/ ToggleReadOnly
  \/ \E s \in Secrets : Rotate(s) \/ Flush(s)
  \/ \E t \in Tasks : Crash(t)

Next ==
  \/ \E t \in Tasks, s \in Secrets, o \in OperationKinds : Load(t, s, o)
  \/ \E t \in Tasks : TaskStep(t)
  \/ Environment

Spec == Init /\ [][Next]_vars

\* A running operation goes on: every call it makes returns or times out.
FairSpec == Spec /\ \A t \in Tasks : WF_vars(TaskStep(t))

-----------------------------------------------------------------------------
(* Properties *)

(* A row that says synced carries the two stamps of a refresh or set that  *)
(* began and then succeeded, in that order and not in the future, whatever *)
(* other tasks, failures and crashes came between.                         *)
SyncedOK(r) ==
  r.status = "synced" => /\ Never < r.lastAttempt
                         /\ r.lastAttempt <= r.lastRefreshed
                         /\ r.lastRefreshed <= now
SyncedRowIsOneRefresh == \A s \in Secrets : SyncedOK(row[s])

(* What the row says of the cache is true: cache_present tells whether the *)
(* key exists, last_refreshed is the stamp in the payload, a failed secret *)
(* has no payload, and a deleted one leaves none behind.                   *)
Describes(s) ==
  IF s \in live
  THEN /\ row[s].cachePresent <=> Present(s)
       /\ Present(s) => redis[s].refreshedAt = row[s].lastRefreshed
       /\ row[s].status = "failed" => ~Present(s)
  ELSE ~Present(s)

(* Operations one after the other on a secret, with a vault or a Redis     *)
(* that fails before it applies a command, never separate the row from the *)
(* cache; and after a race, a lost reply, a flush or a crash, one          *)
(* undisturbed refresh, set, clear or delete brings them together again.   *)
CoherentWhenQuiet ==
  \A s \in Secrets : trust[s] = "coherent" /\ Quiet(s) => Describes(s)

(* In the same circumstances the cache holds no version older than one     *)
(* that a successful refresh_secret or set_secret_value reported.          *)
CoherentCacheNotRolledBack ==
  \A s \in Secrets :
    trust[s] = "coherent" /\ Present(s) => redis[s].ver >= reported[s]

(* While the secret is used by one task at a time its last_refreshed never *)
(* moves back: not on a failure, a repair, an edit or a clear.             *)
StampKept(s) ==
  trust[s] # "disturbed" /\ trust'[s] # "disturbed" =>
    row'[s].lastRefreshed >= row[s].lastRefreshed
StampsMoveForward == [][\A s \in Secrets : StampKept(s)]_vars

(* The operations implement CachedSecret: seen from outside, an operation  *)
(* that nothing disturbs changes the cache at most once and then the row,  *)
(* or neither, although it fails, repairs or reports in between.           *)
Shown(s) == IF Present(s) THEN redis[s] ELSE NoEntry
Claimed(s) ==
  IF s \in live /\ row[s].cachePresent THEN row[s].lastRefreshed ELSE Never
Changed(s) ==
  \E t \in Tasks : /\ Working(t, s)
                   /\ \/ pc[t] = "save" /\ Caches(op[t])
                      \/ pc[t] \in {"saveFlag", "commit"}
Stage(s) ==
  CASE trust[s] = "disturbed" -> "broken"
    [] trust[s] = "mending"   -> "mending"
    [] trust[s] = "coherent"  -> IF Changed(s) THEN "changed" ELSE "settled"
CS == INSTANCE CachedSecret WITH
  version <- upstream,
  cached  <- [s \in Secrets |-> Shown(s)],
  claim   <- [s \in Secrets |-> Claimed(s)],
  state   <- [s \in Secrets |-> Stage(s)]
ImplementsCachedSecret == CS!Spec

(* What it promises, in terms of the code: of a coherent secret, also while *)
(* an operation on it runs or has failed, row and cache differ only between *)
(* the change of the cache and the save of the same operation; at any other *)
(* moment the row has the stamp of the payload, or none if there is none,   *)
(* and the payload is the version last reported, neither older nor newer.   *)
OneChangeApart ==
  \A s \in Secrets : trust[s] = "coherent" =>
    \/ Changed(s)
    \/ /\ Claimed(s) = Shown(s).refreshedAt
       /\ Present(s) => redis[s].ver = reported[s]

(* A task that has loaded a row ends its operation, also when it waits for *)
(* the row lock of a delete.                                               *)
OperationsEnd == \A t \in Tasks : pc[t] # "idle" ~> pc[t] = "idle"

(* Its safety half, for any fairness.  An operation goes forward: it has no *)
(* more than six steps left, each of them brings it nearer to its end, it  *)
(* stays with one secret, and no step of anybody else touches it.          *)
StepsLeft(label) ==
  CASE label = "idle"    -> 0
    [] label \in {"save", "saveFailure", "saveFlag", "commit"} -> 1
    [] label = "handler" -> 2
    [] label = "write"   -> 3
    [] label = "stamp"   -> 4
    [] label = "remote"  -> 5
    [] label = "loaded"  -> 6
Untouched(t) ==
  pc'[t] = pc[t] /\ op'[t] = op[t] /\ inst'[t] = inst[t] /\ held'[t] = held[t]
GoesForward(t) ==
  /\ target'[t] = target[t]
  /\ \/ StepsLeft(pc'[t]) < StepsLeft(pc[t])
     \/ ~TaskStep(t) /\ Untouched(t)
OperationsGoForward ==
  [][\A t \in Tasks : pc[t] # "idle" => GoesForward(t)]_vars

(* README: after a successful upstream write the encrypted Redis cache is  *)
(* refreshed: with no failure at all, what is cached is never older than   *)
(* what an operation reported to have cached.                              *)
CacheNotOlderThanReported ==
  \A s \in Secrets : Present(s) /\ Quiet(s) => redis[s].ver >= reported[s]

(* models.py: the interval says how often the cached secret is refreshed:  *)
(* a secret that is not due has a cached value younger than the interval.  *)
RefreshDue(s) == row[s].lastRefreshed = Never
                   \/ now >= row[s].lastRefreshed + Interval
NotDueMeansFresh ==
  \A s \in live : Present(s) /\ Quiet(s) /\ ~RefreshDue(s) =>
                    now < redis[s].refreshedAt + Interval

-----------------------------------------------------------------------------
(* The inductive invariant behind the safety properties                    *)

(* Stamps come from the clock, and an instance that is about to be saved   *)
(* carries the status that goes with its stamps.                           *)
StampInv ==
  /\ now >= 1
  /\ \A s \in Secrets :
       /\ row[s].lastRefreshed <= now /\ row[s].lastAttempt <= now
       /\ SyncedOK(row[s])
       /\ Present(s) => redis[s].refreshedAt # Never
  /\ \A t \in Tasks :
       /\ inst[t].lastRefreshed <= now /\ inst[t].lastAttempt <= now
       /\ pc[t] = "loaded" => SyncedOK(inst[t])
       /\ pc[t] \in {"remote", "stamp"} => inst[t].lastAttempt # Never
       /\ pc[t] \in {"write", "save"} =>
            inst[t].status = "synced" /\ SyncedOK(inst[t])
       /\ pc[t] = "saveFailure" => inst[t].status \in {"stale", "failed"}

(* An undisturbed secret is used by one task, and its row stays.           *)
OneAtATime ==
  \A s \in Secrets : trust[s] # "disturbed" =>
    /\ \A t, u \in Tasks : Working(t, s) /\ Working(u, s) => t = u
    /\ \A t \in Tasks : Working(t, s) => s \in live

(* What the only task of a secret knows of the row and of the cache.       *)
Knows(t, s) ==
  /\ pc[t] = "loaded" => inst[t] = row[s]
  /\ pc[t] \in {"remote", "stamp", "write", "handler"} =>
       inst[t].cachePresent = row[s].cachePresent
  /\ pc[t] \in {"remote", "stamp", "write", "handler", "save"} =>
       row[s].lastRefreshed <= inst[t].lastRefreshed
  /\ pc[t] = "write" => Caches(op[t])
  /\ pc[t] = "save" /\ Caches(op[t]) =>
       inst[t].cachePresent /\ redis[s] = Payload(t)
  /\ pc[t] = "saveFailure" /\ trust[s] = "coherent" =>
       /\ inst[t].cachePresent <=> Present(s)
       /\ inst[t].status = "failed" => ~Present(s)
  /\ pc[t] = "saveFlag" => ~inst[t].cachePresent
  /\ pc[t] \in {"saveFlag", "commit"} => ~Present(s)

(* The row of a coherent secret is wrong only between the change of the    *)
(* cache and the save that follows it.                                     *)
CoherenceInv ==
  \A s \in Secrets : trust[s] # "disturbed" =>
    /\ \A t \in Tasks : Working(t, s) => Knows(t, s)
    /\ \/ trust[s] = "mending"
       \/ \E t \in Tasks :
            Working(t, s) /\ pc[t] \in {"save", "saveFlag", "commit"}
       \/ Describes(s)

(* Nobody holds or reports a version the vault never had, and on an        *)
(* undisturbed secret nobody holds one older than what was reported.       *)
VersionInv ==
  /\ \A s \in Secrets :
       /\ upstream[s] >= 1 /\ reported[s] <= upstream[s]
       /\ trust[s] = "coherent" /\ Present(s) => redis[s].ver >= reported[s]
  /\ \A t \in Tasks : pc[t] \in {"stamp", "write", "save"} =>
       /\ 1 <= held[t] /\ held[t] <= upstream[target[t]]
       /\ trust[target[t]] # "disturbed" => held[t] >= reported[target[t]]

Inv == TypeOK /\ StampInv /\ OneAtATime /\ CoherenceInv /\ VersionInv
=============================================================================
