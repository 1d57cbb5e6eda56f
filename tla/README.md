# Verification of netbox-vault

`netbox_vault` is a NetBox plugin that keeps secrets of external vaults in an
encrypted cache. This directory holds TLA+ models of its core, the TLC
configurations that check them, and proofs that TLAPS checks. Line numbers in
`PROJECT.json` refer to the plugin's source.

## The system

| Part | State it keeps | Operations | Talks to |
|---|---|---|---|
| Secret operations (`secrets.py`, `signals.py`) | the bookkeeping columns of a `VaultSecret` row (`cache_present`, `last_refreshed`, `last_refresh_attempt`, `last_refresh_status`), the encrypted payload under the secret's Redis key, the value in the vault | `refresh_secret`, `set_secret_value` (with or without caching), `clear_secret_cache`, delete, full-row edits | vault clients, Redis, PostgreSQL; no transaction spans them |
| Bulk refresh (`secrets.py`, `jobs.py`, the management command, the refresh-all views) | a snapshot of the rows for the time of a pass | `refresh_all_secrets`, `iter_due_secrets`, `refresh_due_or_missing_cache_secrets` | the secret operations, one row after the other |
| Startup warm-up (`__init__.py`, `secrets.py`, `cache.py`) | a lock key with a token and a time to live, a marker key with a time to live | `run_startup_secret_sync` in a daemon thread of every process | Redis, the bulk refresh |
| Process-local read cache (`cache.py`) | an `lru_cache` of plaintexts per process and the end of its window | `get_cached_secret_value`, invalidation by writes and deletes | Redis, shared with all processes |
| Reading (`secrets.py`, `crypto.py`) | none; `SECRET_KEY` comes from the settings | `get_secret_value(refresh_if_due, allow_stale)` | a refresh, then the read cache |
| Vault clients (`backends.py`) | none; credentials come from the settings | `fetch_secret`, `store_secret` for HashiCorp, Azure, Google and AWS | HTTP APIs |
| Data model, UI, REST API | rows | forms, serializers, views | the operations above |

What is hard here: the operations run in web workers, RQ workers, commands and
scripts at the same time, with nothing but the database's row locks between
them; each works on a model instance that was loaded before a remote call and
is saved after it; every call may fail, or succeed with its reply lost; a
process may die between two of them; Redis may lose keys; the lock of the
warm-up has a time to live that nothing renews; and the threads of a process
share a cache whose expiry, load and insertion are separate steps.

What makes each part correct:

- secret operations: the row describes the cache, a status that says *synced*
  belongs to one successful refresh, the cache is not rolled back, stamps do
  not move backwards, every operation ends;
- warm-up: one worker at a time, no work done twice, the lock does not stay,
  every secret is reached;
- read cache: bounded staleness, own writes are seen;
- bulk refresh: one failing secret does not stop the others, every due secret
  is refreshed within its interval;
- reading: an outage does not reach a caller that allows stale values, and a
  caller that refuses them gets none, unless threads race for the memory cache;
- vault clients: fetch and store of a row address the same upstream secret.

## Modules

| Module | Models | Run by | Theorems in |
|---|---|---|---|
| `CachedSecret` | abstract: what the operations promise of a secret | under `SecretRefresh` | itself (one) |
| `SecretRefresh` | the operations that change a secret: the vault, Redis and PostgreSQL, and the tasks between them | `MCSecretRefresh` | `SecretRefresh_proofs` |
| `WarmUp` | abstract: what the warm-up promises, without its keys | under `StartupSync` | |
| `StartupSync` | the warm-up of all processes with its lock and marker | `MCStartupSync` | `StartupSync_proofs` |
| `ReadThroughCache` | abstract: the two levels of the cache, without the clock | under `LocalSecretCache`, in `SecretReads` | |
| `LocalSecretCache` | the memory cache of each process in front of Redis | `MCLocalSecretCache` | `LocalSecretCache_proofs` |
| `SecretReads` | `get_secret_value` over the two levels of the cache, beside refreshes, clears and deletions | `MCSecretReads` | `SecretReads_proofs` |
| `RefreshSchedule` | when secrets are refreshed: the hourly job, passes of users, what takes a payload away | `MCRefreshSchedule` | `RefreshSchedule_proofs` |
| `VaultClients` | what fetch and store of the four providers address | `MCVaultClients` | `VaultClients_proofs` |

The modules look at one system at different grains. `SecretRefresh` has every
step of one operation and treats the vault as a number per secret;
`VaultClients` has the inside of that vault and makes an operation one step;
`StartupSync` and `RefreshSchedule` make the refresh of one secret one step;
`LocalSecretCache` takes the SETs and DELs of all operations as its input.

Three modules are abstract specifications that a detailed one implements; the
refinement is checked by TLC and proved. `ReadThroughCache` is also a component:
`SecretReads` is built from its actions, so the steps of a read are
stated once, `LocalSecretCache` says why the timed and bounded memory cache has
them, and `SecretReads` what they mean to a caller.

### SecretRefresh

A *task* is a thread inside an operation: a request, the hourly job, a command
or a script. `Load(t, s, o)` is `get_secret_record` (or the view's query, or one
element of a bulk operation's queryset) and gives the task an instance
`inst[t]`, a copy of the row's bookkeeping columns. From there a task goes
through the labels of `pc`:

| Code | Actions |
|---|---|
| `last_refresh_attempt = now()` | `Begin` |
| `fetch_secret`, `store_secret` | `Fetch`, `Store`; an exception is `RemoteFails`, an upstream write whose reply is lost `StoreReplyLost` |
| `last_refreshed = now()`, status `synced` | `Stamp` |
| `write_cached_secret` | `WriteCache`, `WriteFails`, `WriteReplyLost` |
| the `except` block | `Handle` (`Downgraded` is its `if`), `HandlerCacheDown` when `has_cached_secret` raises, `SaveFailure` |
| `save(update_fields=...)` after a success | `SaveCached`, `SaveUncached` (`refresh_cache=False`), `SaveFindsNoRow` |
| `clear_secret_cache` | `Purge`, `PurgeUnflagged`, `PurgeFails`, `PurgeReplyLost`, `SaveFlag` |
| deleting a row, with `purge_secret_cache_on_delete` inside its transaction | `DeleteRow`, `DeleteRowCacheDown`, `CommitDelete` |
| a form or an API update, which saves all columns | `SaveAll` |

The lists of `update_fields` are the operators `CachedColumns`,
`UncachedColumns` and `FailureColumns`: they decide which columns of an old
instance overwrite the row. A row update waits for the row lock of an
uncommitted delete (`Unlocked`) and does nothing when the row is gone. The
environment lets time pass, rotates the secret upstream, makes the backend
read-only, loses keys of Redis and kills processes.

`trust` and `reported` are history variables, which no action of the code
reads. A race, a lost reply, a flush, a crash or a set without caching makes a
secret *disturbed*; the next operation that starts alone makes it *mending*, and
*coherent* if it ends undisturbed. `reported` is the newest version an operation
said it had cached.

Left out: `last_refresh_error` (a text that goes with the status), the
encryption (here a payload that exists can be read; keys are in `SecretReads`
and `RefreshSchedule`), and what `read_only` means to the views, which check it
once more before `set_secret_value` does.

### CachedSecret

What a user of the operations may think of: per secret a version upstream, one
in the cache, and what the row claims. An operation that nothing disturbs is a
`Replace` of the cache, by nothing or by a version no older than any reported,
and a `Confirm` in which the row says what the cache holds; failures before a
change, their records and retries are invisible. A race, a lost reply, a flush,
a crash or a set without caching is a `Break`, which allows anything of that
secret but a report of a version that does not exist, and never touches another
secret; an operation alone on a broken secret begins to `Mend` it and ends with
a `Confirm`. `SettledRowTells` is what that is worth to a user: the row of a
settled secret tells of its cache, which holds what was last reported.

The mapping (`CS` in `SecretRefresh`) takes the version upstream and the report
as they are, the entry in Redis for the cache, `last_refreshed` for the claim
while `cache_present` is set, and the stage from `trust` and from whether a task
is between the command to Redis and its save.

### StartupSync

A process goes through `run_startup_secret_sync`: `TablesNotReady`,
`CheckMarker`, `Acquire` (`SET NX EX` with a fresh token), the pass over the
secrets, `Mark`, and the release in the `finally` block, which is a GET
(`Compare`) and a DEL (`DeleteLock`). The pass is the generator
`iter_due_or_missing_cache_secrets` under the loop of
`_refresh_matching_secrets`: `Query` reads all rows at once, in the order of their names (`Visits`), and when
the generator comes to a row it goes by the columns it has read: due by now
(`seen`), or with `cache_present` (`flags`) while the key, which alone is looked
for then, does not exist (`Selected`). What other passes have done to the row
since the query it does not know: it may refresh what one has just refreshed,
or pass over a row that one has flagged whose key is lost. Each element is
skipped, refreshed or fails on its own; a failure that is saved writes the flag
the pass has read over the one in the row, and clears it when there is no key.
`has_cached_secret`, which the generator calls outside the loop's `try`, can end
the pass (`PassAborts`). The lock and the marker count down with `Tick`. Every
call to Redis can fail, the acquisition can succeed without its reply, a process
can be killed and started again, Redis can be flushed and rows can become due.
What users do to a secret during a pass is not in this module: their operations
beside a refresh are in `SecretRefresh`, edits and clears beside the passes of
the job in `RefreshSchedule`.

`touched[p]` are the rows that others have tried since the pass of `p` has read
them, `tried[p]` is the row that the pass has left last, if it was refreshed or
failed. History: `late` is the
set of processes whose own lease has ended while they worked, `robbed` of those
whose lock the release of another process has deleted, `lost` says that a lease
has ended or a lock was flushed since the last moment nobody worked, and
`trouble` whether there was an *outage* (of a call or a process), or *work* was
added or left: a refresh that failed, a secret that became due, a flush.

### WarmUp

The warm-up without its keys: a process is out, entering, in a pass or leaving; a
pass begins with all secrets `left`, passes over one only when there is nothing to
do for it and tries one only when there is, unless another pass has been at that
secret since the rows were read (`touched`); and only a pass with nothing left may
mark completion. A pass may `Abort` at any step, and then leaves without the
mark. The mapping (`WU` in `StartupSync`) makes what is due, and what is flagged
without a key, one set of pending secrets. Nobody is in two passes, so until
exclusion is lost nothing is `touched` and the two conditions have no exception.

### LocalSecretCache

`timed_lru_cache` as threads see it: the comparison with `expiration`, the
`cache_clear`, the assignment of a new `expiration`, the lookup, the GET from
Redis and the insertion are six steps (`Check`, `Clear`, `Extend`, `Hit` or
`Miss`, `GetPayload`, `Insert*`), because nothing locks across them; each alone
is atomic under the interpreter lock. Writers SET or DEL the key and then call
`invalidate_local_secret_cache` (`Invalidate`), which clears every entry and
leaves `expiration` alone. The plaintext is the number of the SET it comes
from. lru_cache evicts the least recently used entry; the model evicts any.

History: `settled[p][s]` is the last write of `s` that process `p` has completed
while none of its threads was about to insert an older value; `floor[t]` is what
was settled when the call of `t` began.

### ReadThroughCache

The same without time: a memory cache per process holds what some GET returned
and may forget all of it at any moment; a hit serves it, a load inserts what it
got unless an entry is there, and may push out others; a write that returns
normally has emptied the memory of its own process. A write whose reply is lost
has not. The mapping from `LocalSecretCache` drops the clock, the windows and
the size; the clear of an expired window is a `Forget`, its check and extension
are stutters. It keeps the races that the code has: an old load can still
insert after an invalidation.

In `SecretReads` a call is, for the cache, at most one write and one read. The
mapping there keeps the labels of the cache and makes everything else, the
vault, the handlers, the saves and the raises, a thread that is idle; so it
checks that every path through the `except` blocks enters and leaves the cache
where it may, and that no read goes on before its SET has emptied the memory.

### SecretReads

A thread is called with one of six calls: a read that tolerates stale values, a
strict one, a plain one (no `refresh_if_due`), a refresh, a clear or a deletion.
`Ask` is `get_secret_record` and `is_refresh_due` of the instance it returns. A
due read goes through `refresh_secret` (`Fetch`, `Set`, `Invalidate`, `Save`, and
the handler with `Handle` and `Record`); a failure reaches the `except` of
`get_secret_value` (`Fallback`, `FallbackRaises`, `FallbackRefused`), and what is
left is the read through the cache (`Hit`, `Miss`, `GetPayload`, `Insert`). Every
call to the vault and to Redis may fail, a SET or DEL may be applied without its
reply, a row may be gone at the save. The environment makes rows due, ends
windows, flushes Redis, restarts a process, and restarts all of them with
another `SECRET_KEY` (`ChangeKey`), after which the payloads that exist are
`unreadable` until they are written again; the memory caches are empty then, so
nothing hides that.

History: `own[t]` is the number of the SET a call made; `overtaken` are the
calls whose invalidation met a load of the same secret in its process;
`lacking` are those during which the payload was missing or unreadable at some
moment.

A set acts on the two levels of the cache like a refresh, so it has no call of
its own. A SET that a client gives up on is applied before the error or
never; one that Redis applies after the client's timeout is left out.

### RefreshSchedule

The clock is finer than an hour (`Hour` ticks). A row is the age of its
`last_refreshed`, which counts up to the interval, where `is_refresh_due` becomes
true; `phase` is the time since the job's scheduled instant. `JobStarts` takes
the snapshot of `refresh_all_secrets(due_only=True)`, up to `MaxDelay` ticks after
that instant; each element of the pass succeeds or fails (`JobRefreshes`,
`JobFailsOn`) within `MaxCall` ticks; NetBox schedules the next job an hour
after the last instant, also after a `JobFailed`. `manual` is what views, the
REST API, the command and scripts have selected: all enabled secrets, the due
ones, or any one. Payloads
are lost (`Lose` is a clear, a flush, an eviction or a change of `SECRET_KEY`,
after which the payload exists and cannot be decrypted), set without caching,
and rows are toggled and saved from old forms. `Readdress` is an edit of the
path or the backend: what is cached belongs to the old address, and so does
what a pass brings that has loaded the row before (`oldJob`, `oldUser`).
`usable` is the set of secrets with a payload that can be decrypted and belongs
to the row's address. The urgency of the job is in the guard of `Tick`: time
stops for a job that must start and for a refresh that must end.

History: `waits[s]` counts ticks in which `s` was enabled and due and nobody tried
it; `gap[s]` counts ticks in which it was enabled without a usable payload, since
its last failure, set without caching, or refresh by a user's pass from an old
address.

### VaultClients

A row has an address: provider, form of the path, project, name, version and
key. The operators take them apart as the clients do: `Credentials` and `Setting`
(a block under the backend's name hides the one under its alias, and an entry of
the block, also an empty one, hides the one in the extra configuration), `Ready`
(the rows whose provider finds what it must, and the Google project, which the
JSON of a service account may name or not: `ProjectKnown`), `Upstream`,
`FetchVersion` and `StoreVersion` (the resource names built from a Google path; a
store with a version is refused, a fetch without one finds nothing), `Field` (the
row's key with HashiCorp, the whole payload elsewhere). The vault keeps all
versions of all secrets, and several rows may share one.

What this says of Google paths: with `NAME`, `NAME/versions/latest` and
`projects/P/secrets/NAME/versions/latest` a row reads back what it has cached,
but for an empty value; with a version number it reads that version for ever,
whatever is set (`PinnedStays`); with `secrets/NAME` or `projects/P/secrets/NAME`
it can be set and never be refreshed, which `ReadBack` states as the code has it.

Left out: URLs, headers, token requests, signatures and JSON, and a version in an
Azure path, which the client passes on as part of the name. A request that
fails changes nothing here; what a failure does to the row is in
`SecretRefresh`.

## Properties and runs

Every module has one type invariant. What the others say:

| Property | In words |
|---|---|
| `SyncedRowIsOneRefresh` | a row that says *synced* has the stamps of one attempt and its success, in that order, whatever raced or crashed |
| `CoherentWhenQuiet` | row and cache agree whenever nobody works on a coherent secret: failures before a command is applied never separate them, and after a race, lost reply, flush or crash one undisturbed operation brings them together |
| `CoherentCacheNotRolledBack` | a coherent cache holds nothing older than what was reported |
| `OneChangeApart` | of a coherent secret, also while an operation on it runs or has failed, the row has the stamp of the cached value, or none, and the value is the one last reported, except between the two changes of one operation |
| `StampsMoveForward` | `last_refreshed` does not go back while one task at a time uses a secret |
| `ImplementsCachedSecret` | an undisturbed operation changes the cache at most once, to nothing or to a version no older than reported, and then the row, or neither; a disturbance stays with its secret |
| `OperationsEnd` | a task that loaded a row ends its operation |
| `OperationsGoForward` | an operation has at most six steps, each brings it nearer to its end, and no step of anybody else touches it |
| `ExclusionUntilLost` | one process works at a time, until a lease ends under a worker |
| `RunningLeaseExcludes` | after a loss two work beside each other only if the lease of one has ended under it, or a release has deleted its lock |
| `LeaseOnlyRunsOut` | a lock that is set keeps its token, for less and less time, until the key is gone |
| `MarkedMeansDone` | unless a refresh failed or work was added, completion is marked only when nothing is left, through outages, crashes and lost leases |
| `NoWorkRepeated` | until a lease is lost whatever a pass would refresh, by the columns it has read, does need a refresh, although the marker is read before the lock is taken |
| `LockIsFreed` | the lock key is free again and again, whoever died with it |
| `WarmUpReachesAll` | unless something fails, every secret that was due or missing is refreshed, however often a lease ends under a worker |
| `ImplementsWarmUp` | a pass passes over nothing that needs a refresh and refreshes nothing that does not, unless another pass has been at that secret since the rows were read, and only one that came to the end marks completion, whatever fails |
| `StalenessBounded` | a returned value was in Redis less than the TTL and three calls ago |
| `OwnWritesSeen` | a call serves nothing older than a write its process had settled |
| `ImplementsReadThrough` | windows, evictions and racing threads never serve what no GET has returned, replace an entry or miss an invalidation; of `SecretReads`: neither does any path through its failures |
| `OutageTolerated` | a read that tolerates stale values, or does not refresh, fails for the vault or the payload only if the payload was missing or unreadable at some moment of the call |
| `RefreshedReadIsFresh` | a read that refreshed returns its own value or a later one, unless a load overlapped its invalidation; a strict read of a due secret has refreshed it |
| `DueIsTried` | a due secret is tried within an hour and the time of a pass, whatever fails before it |
| `CacheComesBack` | a payload that is lost, unreadable or of an old address is replaced within the interval, an hour and the time of a pass |
| `ReadBack` | until somebody else writes the upstream secret, the next refresh of a row that is not pinned gets what it has cached, but nothing for an empty value of Google, and never anything with a Google path without a version |
| `PinnedStays` | a row with a version number in its path gets the value of that version again, after its own sets too |

Runs that pass:

| Run | Checks | States |
|---|---|---|
| `SecretRaces` | two tasks, any two of the six operations but two sets on one secret, all events but read-only | 3.6 million |
| `OperationsEnd` | a refresh, a set and a delete under `FairSpec` | 0.1 million |
| `StartupFaults` | two processes, two secrets, all events, under `FairSpec` | 0.5 million |
| `LocalStaleness` | two threads, one process, two secrets, a cache of one entry | 1.3 million |
| `ReadsWithRefresh` | two threads of one process, one secret, six kinds of call, all faults | 1.5 million |
| `HourlyRefresh` | two secrets with intervals of one and two hours, a job, users, all events | 1.8 million |
| `ClientsReadBack` | ten rows: two keys of one HashiCorp secret, five forms of Google paths to one secret, an AWS secret, two backends that lack a setting | 44,000 |

Runs that end in a violation, each a statement of the plugin's documentation
or tests that the code does not keep:

| Run | Refutes | How |
|---|---|---|
| `RefreshOvertakesSet` | `CacheNotOlderThanReported` (README.md:189) | a refresh fetches, a set stores and caches, the refresh writes the cache |
| `UncachedSetHidesAge` | `NotDueMeansFresh` (models.py:97) | a set with `refresh_cache=False` moves `last_refreshed`, the cached value stays |
| `StartupRelease` | `LeaseExcludes` (README.md:46) | the lease ends between GET and DEL of a release; the DEL removes the next holder's lock, and a third process starts |
| `LocalFillRace` | `OnlyProcessHoldsCurrent` (README.md:183) | a load that has its payload inserts it after the write's invalidation |
| `ClientsGooglePath` | `ReadableIsWritable` (README.md:135, 189) | `secrets/NAME/versions/latest` can be fetched; its store addresses a version |

Three more disagreements were met while modelling and are visible in the
models without a run of their own. A warm-up that outlasts `startup_sync_lock_ttl`
lets a second process work beside it (README.md:46); `ExclusionUntilLost` says
what is left. The marker is read before the lock, so a process that passed the
marker can do a second pass after the first one (README.md:111);
`NoWorkRepeated` says that this pass finds nothing to do. And `read_only` is
checked before the remote write, so a set can still reach a backend that became
read-only in between (README.md:181).

### Bounds

- `MaxTime` and `MaxVersion` (SecretRefresh): two instants tell *earlier*,
  *same* and *later* apart for the one comparison the properties make of
  stamps, and two versions tell old from new. Two tasks are enough for every
  pair of operations, but a second version leaves no room for two sets at once;
  the proofs cover that and more.
- `Interval = 1` is the smallest distance at which a secret is due again.
- `LockTTL = 1`, `MarkerTTL = 2` (StartupFaults): a tick is five minutes, so these
  are the defaults. A time to live must be able to end before, during and after
  every step of a pass, which a lock of one tick does; the number of ticks that
  pass within a step is not bounded. `StartupRelease` has a lock of two.
- Two secrets (StartupFaults): one before and one behind a pass while another
  pass is at either.
- `TTL = MaxCall = 1`, `MaxTime = 5` (LocalSecretCache): the bound of
  `StalenessBounded` is `TTL + 3 * MaxCall`, and the runs reach its last
  instant, so a smaller bound is violated; after five instants a window has
  ended and been extended several times. `MaxSize = 1` makes every second
  secret an eviction; `MaxSeq = 2` is an old and a new value.
- `MaxSeq = 3` (SecretReads): an old value, the one a read writes and one that
  another thread writes meanwhile. Two threads of one process on one secret are
  what a memory cache can be raced by; processes meet only in Redis, where the
  second thread stands for any of them. The proofs cover more.
- `Hour = 4`, `MaxDelay = MaxCall = 1` (RefreshSchedule): the smallest hour that
  has room for a late start and two refreshes. The bound of `DueIsTried` is
  reached: a secret that becomes due just after the snapshot waits an hour, so
  one with an interval of an hour may be refreshed only every second hour.
  There is no bound on time, because ages stop at the interval.
- `MaxVersions = 3` (VaultClients), over all secrets together: of one secret a
  first, a later and a latest version, which is what a pinned path needs, or
  versions of two secrets.
- Three processes in `StartupRelease`, because the counterexample needs three.

`CHECK_DEADLOCK FALSE` stands where a bounded clock, bounded versions or
threads that have finished really stop the model; `StartupFaults`,
`ReadsWithRefresh` and `HourlyRefresh` go on for ever and are checked for
deadlock.

### Symmetry

The tasks of `SecretRaces` and the threads of `LocalStaleness` are
interchangeable model values; these runs check safety only. `StampsMoveForward`
compares the stamps of secrets, not of tasks, so permuting tasks keeps it.

### Fairness

Fairness is weak and on the steps of a task or thread that has something to do:
it does not wait for another one except at the row lock, and every call it
makes returns or raises. HTTP calls have a timeout in `backends.py`. A Redis
client found through Sentinel has one too; a plain one is created without a
socket timeout, so there the assumption is that the operating system closes a
dead connection. `LockIsFreed` and
`WarmUpReachesAll` also need time to pass (`Tick`), as Redis counts it, and that
containers start. Nothing unfair is assumed of the environment: no failure has
to happen or to stop.

### Mutants

Each property of a passing run has a mutant, a changed definition in the same
module above the one it replaces (comments mark it *Mutant*): a forgotten
column, a SET with or without `nx`, a lock without a time to live, a failed call
that is made again, an aborted pass that marks completion, a warm-up that looks
only at what is due, a write that does not invalidate, a load that replaces what
is there, a fallback for strict readers, a document under the wrong key, a fetch
of the latest version for a pinned path. Under its run each mutant violates its
property.

## Proofs

The proofs hold for every value of the constants under the named assumptions of
the modules. Each module states its inductive invariant as `Inv`; the proof
module shows that the initial states satisfy it and that every action keeps it,
one lemma per group of actions, and derives the properties.

- **SecretRefresh**: `Inv` adds four parts to the types. `StampInv`: stamps
  come from the clock, and an instance has the status that goes with its place
  in the operation; it carries `SyncedRowIsOneRefresh` without any assumption
  on races. `OneAtATime`: an undisturbed secret has one task. `CoherenceInv`:
  what that task knows of the row and the cache (`Knows`), and that the row is
  wrong only between a change of the cache and the save that follows. This is
  the strengthening that `CoherentWhenQuiet` needs: at the end of an operation
  the instance is all that is left of what happened. `VersionInv`: nobody holds
  a version the vault never had. `Refinement` sorts the steps by what a user
  sees: most are stutters, a command to Redis is a `Replace`, the save after it a
  `Confirm`, the step that disturbs a secret a `Break`; `Knows` supplies that the
  save says what the command wrote. `RowTells`, proved in `CachedSecret` about
  the abstract operations alone, then carries over to the code: `OneChange` is
  `Refinement` and `CS!RowTells`, without another look at the steps.
  `FreshWhenCoherent` is what is left of the refuted `NotDueMeansFresh`: it holds
  of a coherent secret.
- **Operations end** (in `SecretRefresh_proofs`): the safety half of
  `OperationsEnd`. `Forward`: `StepsLeft` goes down with every step of a task and
  the steps of others leave its label, operation, instance and value alone; it
  needs only types. `OperationsEnd` rests on it and on weak fairness; that last
  step, over ENABLED, stays with TLC.
- **StartupSync**: `HoldsLock`, that until a lease is lost the lock key holds
  the token of whoever works. Exclusion is the fact that one key holds one
  token. `ReadByPass`, `NothingTouched` and `AsRead` say that then the columns a
  pass has read are those of the rows as they are, which `NoWorkRepeated` needs;
  without a loss only the passes can tell rows and snapshots apart, and only of a
  row that another one has tried (`touched`).
  `Refinement` to `WarmUp` adds three facts: a loss is remembered only while
  somebody works (`LostAtWork`), only a pass counts (`CountedInPass`), and a pass
  has read everything that is due and still before it (`NothingOverlooked`). What
  it says of `Selected`, that it picks what needs a refresh of all that is not
  touched, rests on `AsRead`, which holds whatever was lost.
  `RunningLeases` says what exclusion is left after a loss: `LeaseInv`, a worker
  has its token in the lock unless it is `late` or `robbed`, is inductive without
  any of the above. `LeasesRunOut` is the safety half of `LockIsFreed` (with
  `LockExpires`, no lock without a time to live), `Completion` that of
  `WarmUpReachesAll`: `DoneBehind`, all work left is still before each pass that
  runs, has to be stated for every pass, because after a loss two of them run.
- **LocalSecretCache**: `WindowInv` relates the end of a window to the GET of
  each entry in it, also for a thread that has cleared and not yet extended;
  `CallInv` relates a call to the window it looks up in. Together they give
  three calls: one between GET and insertion, one between clear and extension,
  one between lookup and return. `OrderInv` orders the numbers of writes for
  `OwnWritesSeen`. `Refinement` to `ReadThroughCache` needs of it only the
  types: a step of the code is one of the abstract cache's or changes only what
  has to do with time. `SoleThread` bounds the finding of `LocalFillRace`: with
  one thread and a Redis that answers, `OnlyProcessHoldsCurrent` holds, because
  what the thread has loaded nobody overwrites before its insertion (`SoleInv`).
- **SecretReads**: `CallInv` says which call can be at which label and which has
  made its SET, and carries the strict half of `RefreshedReadIsFresh`. `OwnInv`:
  Redis holds nothing older than a call's own SET. `ServedInv`: from its
  invalidation on, neither the memory of its process nor a load on its way there
  does, unless the call was overtaken; this is the strengthening that the
  other half needs. `OutageTolerated` is inductive with these. `Refinement` to
  `ReadThroughCache` needs that a thread outside the cache holds no payload
  (`StageInv`); a restart is the abstract `Restart`, the change of the key one of
  all processes.
- **RefreshSchedule**: `WaitInv` says how long a secret can have been due at each
  moment of the job's hour, in terms of how much of the pass is used
  (`Cardinality(Secrets \ todo) * MaxCall`, by the library's facts on
  cardinalities); `GapInv` that a gap is no more than an hour above the age of the
  row, counted in whole hours and the phase (`GapBounded`), and that a secret
  edited behind the pass has had its gap for no longer than this hour, so a
  refresh from the old address, which makes the row young, finds a short gap.
- **VaultClients**: `Inv` adds to `ReadBack` that only a row whose backend is set
  up can have fetched or stored; the proof splits on whether a row shares the
  upstream secret that gets a version, and for the row that is set on whether its
  path has a version (`FetchesLatest`, `NeverFetched`, `FetchStored`).
  `PinnedRowsStay` needs that versions are only added.

Assumptions are on constants only (what the sets contain, that bounds are
natural numbers, that a pass fits into an hour). `MaxTime`, `MaxVersion`,
`MaxSeq` and `MaxVersions` are arbitrary in the proofs, so they bound nothing
there; `MaxCall` and `MaxDelay` are real assumptions, on how long a call lasts
and a worker is busy.

Only model-checked: the liveness properties (`OperationsEnd`, `LockIsFreed`,
`WarmUpReachesAll`), whose proofs need fairness and ENABLED and of which the
theorems above have the safety halves, and the five violations. Every other
property of a passing run is a theorem.

## What is not modelled

| Part | Why, or when |
|---|---|
| choice of the Redis client and of settings | configuration, read once per call and without state: a chain of conditions whose outcome the models take as given |
| an outage of Redis under a read | the steps are in `SecretReads`; the plugin does not make the memory cache a fallback for Redis, so no property asks for it |
| a SET that Redis applies after its client has given up | the models apply a command before the error or never |
| bookkeeping columns in the serializer (`last_refreshed`, the status) | an API client with the permission may write them; what it claims then is not a step of the plugin |
| forms, tables, filters, serializers, navigation, permissions | presentation; the operations behind them are modelled |
| migrations, descriptive columns | data |
| the lists of names and errors a bulk refresh reports, `raise_on_failure` | texts for users; nothing in the plugin reads them back |
| a worker that dies in the middle of a job | NetBox and RQ decide when the job runs again |
| scripts, CI, end-to-end tests | not part of the running plugin |
| HTTP, JSON, signatures and encryption themselves | formats; no property is about them |

## Plan

In the order of importance; what is above is done.

1. Composition: the reads of `SecretReads` under the schedule of
   `RefreshSchedule`, for the age of a value from the vault to the reader.
2. A lease as a holder and a deadline, implemented by a release that compares
   and deletes in one command; with the plugin's release it is what
   `StartupRelease` refutes.
3. Proofs: what `WarmUp` alone is worth to a user, proved there and carried over
   to `StartupSync` as `RowTells` is; and how long two processes can work beside
   each other after a loss, from `LeaseInv` and the bound on a call.
