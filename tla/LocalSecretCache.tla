-------------------------- MODULE LocalSecretCache --------------------------
(***************************************************************************)
(* Reading a cached secret: the threads of each process share a memory     *)
(* cache (timed_lru_cache around _get_cached_secret_value_local) in front  *)
(* of the payloads that all processes share in Redis.                      *)
(*                                                                         *)
(* Every SET or DEL of a key gets the next sequence number, which stands   *)
(* for the plaintext; encryption is left out.  lru_cache itself is C code  *)
(* that holds the interpreter lock except while it calls the function it   *)
(* wraps, so a lookup, an insertion and a cache_clear are single steps.    *)
(***************************************************************************)
EXTENDS Integers, FiniteSets

CONSTANTS
  Secrets, Processes, Threads,
  Home,      \* Home[t]: the process of thread t
  TTL,       \* local_secret_cache_ttl
  MaxSize,   \* local_secret_cache_maxsize
  MaxCall,   \* assumption: the ticks one call may last, Redis included
  Events,    \* what may go wrong, a subset of EventKinds
  MaxTime,   \* bound: the last instant of the clock
  MaxSeq     \* bound: the number of writes

EventKinds == {"redis", "flush"}

ASSUME EventsAssumption == Events \subseteq EventKinds
ASSUME HomeAssumption == Home \in [Threads -> Processes]
ASSUME BoundsAssumption ==
  /\ TTL \in Nat \ {0} /\ MaxSize \in Nat \ {0} /\ MaxCall \in Nat
  /\ MaxTime \in Nat /\ MaxSeq \in Nat

VARIABLES
  now,         \* monotonic()
  seq,         \* the number of SETs and DELs so far
  store,       \* store[s]: the payload in Redis, by the number of its SET
  local,       \* local[p][s]: the entry in p's memory cache
  expiration,  \* expiration[p]: cached_func.expiration
  pc, key,     \* where each thread is, and for which secret
  began,       \* began[t]: when the thread's call began
  got,         \* got[t]: the entry the thread works on or returns
  settled,     \* history: settled[p][s], the last SET or DEL that p completed
               \* while no thread of p was about to insert s
  floor        \* history: floor[t], settled when the thread's call began

vars == <<now, seq, store, local, expiration, pc, key, began, got, settled,
          floor>>

None  == [seq |-> 0, readAt |-> 0]
Entry == [seq : Nat, readAt : Nat]
PCs == {"idle", "check", "clear", "extend", "lookup", "get", "insert",
        "return", "set", "del", "invalidate"}

TypeOK ==
  /\ now \in Nat
  /\ seq \in Nat
  /\ store \in [Secrets -> Nat]
  /\ local \in [Processes -> [Secrets -> Entry]]
  /\ expiration \in [Processes -> Nat]
  /\ pc \in [Threads -> PCs]
  /\ key \in [Threads -> Secrets]
  /\ began \in [Threads -> Nat]
  /\ got \in [Threads -> Entry]
  /\ settled \in [Processes -> [Secrets -> Nat]]
  /\ floor \in [Threads -> Nat]

Init ==
  /\ now = 0 /\ seq = 0
  /\ store = [s \in Secrets |-> 0]
  /\ local = [p \in Processes |-> [s \in Secrets |-> None]]
  /\ expiration = [p \in Processes |-> TTL]
  /\ pc = [t \in Threads |-> "idle"]
  /\ key \in [Threads -> Secrets]
  /\ began = [t \in Threads |-> 0]
  /\ got = [t \in Threads |-> None]
  /\ settled = [p \in Processes |-> [s \in Secrets |-> 0]]
  /\ floor = [t \in Threads |-> 0]

-----------------------------------------------------------------------------
(* Helpers *)

Goto(t, label) == pc' = [pc EXCEPT ![t] = label]
Cached(p) == {s \in Secrets : local[p][s].seq # 0}
ClearAll == [s \in Secrets |-> None]

\* Writes get numbers up to MaxSeq.
Room == seq + Cardinality({t \in Threads : pc[t] \in {"set", "del"}}) < MaxSeq

\* A finished call leaves nothing behind; key keeps its last value.
End(t) ==
  /\ Goto(t, "idle")
  /\ began' = [began EXCEPT ![t] = 0]
  /\ got' = [got EXCEPT ![t] = None]
  /\ floor' = [floor EXCEPT ![t] = 0]
  /\ UNCHANGED key

\* A thread of p holds the payload it is about to insert for s.
Loading(p, s) ==
  \E u \in Threads : pc[u] = "insert" /\ Home[u] = p /\ key[u] = s

\* The thread's write returns.
Settle(t) ==
  settled' = [settled EXCEPT ![Home[t]][key[t]] =
                IF got[t].seq > @ /\ ~Loading(Home[t], key[t])
                THEN got[t].seq ELSE @]

Call(t, s, first) ==
  /\ pc[t] = "idle"
  /\ first # "check" => Room
  /\ Goto(t, first)
  /\ key' = [key EXCEPT ![t] = s]
  /\ began' = [began EXCEPT ![t] = now]
  /\ floor' = [floor EXCEPT ![t] = settled[Home[t]][s]]
  /\ UNCHANGED <<now, seq, store, local, expiration, got, settled>>

-----------------------------------------------------------------------------
(* get_cached_secret_value: wrapped_func, then lru_cache's own wrapper     *)

\* Mutant: the window never ends.
ExpiredNever(p) == FALSE
Expired(p) == now >= expiration[p]

Check(t) ==
  /\ pc[t] = "check"
  /\ Goto(t, IF Expired(Home[t]) THEN "clear" ELSE "lookup")
  /\ UNCHANGED <<now, seq, store, local, expiration, key, began, got,
                 settled, floor>>

Clear(t) ==
  /\ pc[t] = "clear"
  /\ local' = [local EXCEPT ![Home[t]] = ClearAll]
  /\ Goto(t, "extend")
  /\ UNCHANGED <<now, seq, store, expiration, key, began, got, settled,
                 floor>>

Extend(t) ==
  /\ pc[t] = "extend"
  /\ expiration' = [expiration EXCEPT ![Home[t]] = now + TTL]
  /\ Goto(t, "lookup")
  /\ UNCHANGED <<now, seq, store, local, key, began, got, settled, floor>>

Hit(t) ==
  /\ pc[t] = "lookup" /\ key[t] \in Cached(Home[t])
  /\ got' = [got EXCEPT ![t] = local[Home[t]][key[t]]]
  /\ Goto(t, "return")
  /\ UNCHANGED <<now, seq, store, local, expiration, key, began, settled,
                 floor>>

Miss(t) ==
  /\ pc[t] = "lookup" /\ key[t] \notin Cached(Home[t])
  /\ Goto(t, "get")
  /\ UNCHANGED <<now, seq, store, local, expiration, key, began, got,
                 settled, floor>>

GetPayload(t) ==
  /\ pc[t] = "get" /\ store[key[t]] # 0
  /\ got' = [got EXCEPT ![t] = [seq |-> store[key[t]], readAt |-> now]]
  /\ Goto(t, "insert")
  /\ UNCHANGED <<now, seq, store, local, expiration, key, began, settled,
                 floor>>

\* No payload, or Redis is down: an exception, which is not cached.
GetRaises(t) ==
  /\ pc[t] = "get" /\ (store[key[t]] = 0 \/ "redis" \in Events)
  /\ End(t)
  /\ UNCHANGED <<now, seq, store, local, expiration, settled>>

\* Mutant: the later insertion wins.
InsertReplaces(t) ==
  /\ pc[t] = "insert" /\ key[t] \in Cached(Home[t])
  /\ local' = [local EXCEPT ![Home[t]][key[t]] = got[t]]
  /\ Goto(t, "return")
  /\ UNCHANGED <<now, seq, store, expiration, key, began, got, settled,
                 floor>>

\* Another thread inserted the key during the GET: its entry stays.
InsertFound(t) ==
  /\ pc[t] = "insert" /\ key[t] \in Cached(Home[t])
  /\ Goto(t, "return")
  /\ UNCHANGED <<now, seq, store, local, expiration, key, began, got,
                 settled, floor>>

Insert(t) ==
  LET c == Cached(Home[t]) IN
  /\ pc[t] = "insert" /\ key[t] \notin c /\ Cardinality(c) < MaxSize
  /\ local' = [local EXCEPT ![Home[t]][key[t]] = got[t]]
  /\ Goto(t, "return")
  /\ UNCHANGED <<now, seq, store, expiration, key, began, got, settled,
                 floor>>

\* The cache is full.  Which entry leaves it, the least recently used one,
\* is left open.
InsertEvicting(t) ==
  LET c == Cached(Home[t]) IN
  /\ pc[t] = "insert" /\ key[t] \notin c /\ Cardinality(c) >= MaxSize
  /\ \E s \in c : local' = [local EXCEPT ![Home[t]] =
                             [@ EXCEPT ![s] = None, ![key[t]] = got[t]]]
  /\ Goto(t, "return")
  /\ UNCHANGED <<now, seq, store, expiration, key, began, got, settled,
                 floor>>

Return(t) ==
  /\ pc[t] = "return"
  /\ End(t)
  /\ UNCHANGED <<now, seq, store, local, expiration, settled>>

-----------------------------------------------------------------------------
(* write_cached_secret and delete_cached_secret                            *)

Set(t) ==
  /\ pc[t] = "set"
  /\ seq' = seq + 1
  /\ store' = [store EXCEPT ![key[t]] = seq + 1]
  /\ got' = [got EXCEPT ![t] = [seq |-> seq + 1, readAt |-> now]]
  /\ Goto(t, "invalidate")
  /\ UNCHANGED <<now, local, expiration, key, began, settled, floor>>

Del(t) ==
  /\ pc[t] = "del"
  /\ seq' = seq + 1
  /\ store' = [store EXCEPT ![key[t]] = 0]
  /\ got' = [got EXCEPT ![t] = [seq |-> seq + 1, readAt |-> now]]
  /\ Goto(t, "invalidate")
  /\ UNCHANGED <<now, local, expiration, key, began, settled, floor>>

\* Redis applied the command, the caller sees an error: no invalidation.
WriteReplyLost(t) ==
  /\ "redis" \in Events
  /\ pc[t] \in {"set", "del"}
  /\ seq' = seq + 1
  /\ store' = [store EXCEPT ![key[t]] = IF pc[t] = "set" THEN seq + 1 ELSE 0]
  /\ End(t)
  /\ UNCHANGED <<now, local, expiration, settled>>

WriteFails(t) ==
  /\ "redis" \in Events
  /\ pc[t] \in {"set", "del"}
  /\ End(t)
  /\ UNCHANGED <<now, seq, store, local, expiration, settled>>

\* Mutant: a write does not invalidate.
InvalidateNothing(t) ==
  /\ pc[t] = "invalidate"
  /\ Settle(t)
  /\ End(t)
  /\ UNCHANGED <<now, seq, store, local, expiration>>

\* Mutant: a write also ends the window, by moving it one TTL back.
InvalidateEndsWindow(t) ==
  /\ pc[t] = "invalidate"
  /\ local' = [local EXCEPT ![Home[t]] = ClearAll]
  /\ expiration' = [expiration EXCEPT ![Home[t]] = now - TTL]
  /\ Settle(t)
  /\ End(t)
  /\ UNCHANGED <<now, seq, store>>

\* invalidate_local_secret_cache, and the write returns.
Invalidate(t) ==
  /\ pc[t] = "invalidate"
  /\ local' = [local EXCEPT ![Home[t]] = ClearAll]
  /\ Settle(t)
  /\ End(t)
  /\ UNCHANGED <<now, seq, store, expiration>>

-----------------------------------------------------------------------------
(* The environment                                                         *)

\* No call lasts longer than MaxCall.
Tick ==
  /\ now < MaxTime
  /\ \A t \in Threads : pc[t] # "idle" => now < began[t] + MaxCall
  /\ now' = now + 1
  /\ UNCHANGED <<seq, store, local, expiration, pc, key, began, got,
                 settled, floor>>

Flush ==
  /\ "flush" \in Events
  /\ store' = [s \in Secrets |-> 0]
  /\ UNCHANGED <<now, seq, local, expiration, pc, key, began, got, settled,
                 floor>>

-----------------------------------------------------------------------------

Step(t) ==
  \/ Check(t) \/ Clear(t) \/ Extend(t) \/ Hit(t) \/ Miss(t)
  \/ GetPayload(t) \/ GetRaises(t)
  \/ InsertFound(t) \/ Insert(t) \/ InsertEvicting(t) \/ Return(t)
  \/ Set(t) \/ Del(t) \/ WriteReplyLost(t) \/ WriteFails(t) \/ Invalidate(t)

Next ==
  \/ \E t \in Threads, s \in Secrets :
       Call(t, s, "check") \/ Call(t, s, "set") \/ Call(t, s, "del")
  \/ \E t \in Threads : Step(t)
  \/ Tick
  \/ Flush

Spec == Init /\ [][Next]_vars

-----------------------------------------------------------------------------
(* Properties *)

(* README: another container can serve the previous plaintext until the    *)
(* local cache TTL expires.  Whatever the threads do to each other's       *)
(* window, and however a load overlaps the end of one, a value that is     *)
(* returned was in Redis less than the TTL and three calls ago.            *)
StalenessBounded ==
  \A t \in Threads : pc[t] = "return" => now < got[t].readAt + TTL + 3 * MaxCall

(* A call that begins after a write or delete of the secret has returned   *)
(* in the same process does not serve what was there before, unless that   *)
(* write invalidated the cache while a load of the same secret was between *)
(* its GET and its insertion; the next write that was not overtaken, or    *)
(* the end of the window, repairs that.                                    *)
OwnWritesSeen ==
  \A t \in Threads : pc[t] = "return" => got[t].seq >= floor[t]

(* README: per process, so another container can serve the previous        *)
(* plaintext.  When there is only one, what its memory cache holds is what *)
(* Redis holds, except between a write and its invalidation.               *)
OnlyProcessHoldsCurrent ==
  \A p \in Processes : \A s \in Cached(p) :
    \/ local[p][s].seq = store[s]
    \/ \E t \in Threads : pc[t] = "invalidate" /\ key[t] = s

(* Both levels together implement ReadThroughCache: the race of several     *)
(* threads to end a window, the bounded size and its evictions are no more *)
(* than a memory cache that forgets.                                       *)
stage == [t \in Threads |->
            IF pc[t] \in {"check", "clear", "extend"} THEN "lookup" ELSE pc[t]]
payload == [t \in Threads |-> got[t].seq]
memory == [p \in Processes |-> [s \in Secrets |-> local[p][s].seq]]
RTC == INSTANCE ReadThroughCache WITH
  pc <- stage, got <- payload, local <- memory
ImplementsReadThrough == RTC!Spec

-----------------------------------------------------------------------------
(* The inductive invariant behind StalenessBounded and OwnWritesSeen       *)

(* Calls last at most MaxCall, and no window ends later than one begun now.*)
ClockInv ==
  /\ \A p \in Processes : expiration[p] <= now + TTL
  /\ \A t \in Threads : pc[t] # "idle" =>
       began[t] <= now /\ now <= began[t] + MaxCall

(* The window that holds an entry ends soon enough after the GET of the    *)
(* entry, also when a thread that cleared the cache has yet to extend it.  *)
WindowInv ==
  \A p \in Processes : \A s \in Cached(p) :
    /\ expiration[p] <= local[p][s].readAt + TTL + 2 * MaxCall
    /\ \A t \in Threads : pc[t] = "extend" /\ Home[t] = p =>
         began[t] <= local[p][s].readAt + MaxCall

(* A thread looks up inside a window that ends after its call began, and   *)
(* returns an entry whose window did.                                      *)
CallInv ==
  \A t \in Threads :
    /\ pc[t] = "lookup" => began[t] < expiration[Home[t]]
    /\ pc[t] = "insert" => began[t] <= got[t].readAt
    /\ pc[t] = "return" => began[t] < got[t].readAt + TTL + 2 * MaxCall

(* Numbers grow from what a process has settled to what its memory cache,  *)
(* its loads and Redis hold.                                               *)
OrderInv ==
  /\ \A p \in Processes, s \in Secrets :
       /\ store[s] <= seq /\ settled[p][s] <= seq
       /\ store[s] # 0 => settled[p][s] <= store[s]
       /\ s \in Cached(p) => settled[p][s] <= local[p][s].seq
  /\ \A t \in Threads :
       /\ floor[t] <= settled[Home[t]][key[t]]
       /\ pc[t] = "invalidate" =>
            /\ got[t].seq <= seq
            /\ store[key[t]] # 0 => got[t].seq <= store[key[t]]
       /\ pc[t] = "insert" => settled[Home[t]][key[t]] <= got[t].seq
       /\ pc[t] = "return" => floor[t] <= got[t].seq

Inv == TypeOK /\ ClockInv /\ WindowInv /\ CallInv /\ OrderInv

(* What keeps OnlyProcessHoldsCurrent when one thread does all the calls:   *)
(* what it loads nobody overwrites, and only its process remembers.         *)
SoleInv ==
  /\ OnlyProcessHoldsCurrent
  /\ \A t \in Threads : pc[t] = "insert" => got[t].seq = store[key[t]]
  /\ \A p \in Processes : Cached(p) # {} => \E t \in Threads : Home[t] = p
=============================================================================
