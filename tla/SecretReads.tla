----------------------------- MODULE SecretReads -----------------------------
(***************************************************************************)
(* get_secret_value: a read that first refreshes the secret when it is due *)
(* and, when the refresh fails, falls back to the cached value or raises.  *)
(* It runs beside other reads, refreshes, clears and deletions over the    *)
(* two levels of the cache (ReadThroughCache), while Redis and Vault may   *)
(* fail, processes restart, and SECRET_KEY, from which the payloads'       *)
(* encryption key is derived, is changed.                                  *)
(*                                                                         *)
(* A row is what is_refresh_due tells apart; its other fields are the      *)
(* subject of SecretRefresh.  A thread that raises stays at "raised" with  *)
(* the kind of its exception until its caller has it.                      *)
(***************************************************************************)
EXTENDS Naturals, FiniteSets

CONSTANTS
  Secrets, Processes, Threads,
  Home,      \* Home[t]: the process of thread t
  MaxSeq     \* bound: the number of writes to Redis

ASSUME HomeAssumption == Home \in [Threads -> Processes]
ASSUME BoundAssumption == MaxSeq \in Nat

VARIABLES
  seq, store, local, pc, key, got,   \* ReadThroughCache
  row,        \* row[s]: "never" refreshed, "due", "fresh", or "gone"
  unreadable, \* the secrets whose payload another SECRET_KEY encrypted
  call,       \* call[t]: what thread t was asked for
  inst,       \* inst[t]: the row as its call read it
  error,      \* error[t]: the exception it raises
  own,        \* history: own[t], the number of the call's own SET
  overtaken,  \* history: the calls whose invalidation met a load of the
              \* secret between its GET and its insertion
  lacking     \* history: the calls during which the payload was missing or
              \* unreadable at some moment

cacheVars == <<seq, store, local, pc, key, got>>
vars == <<cacheVars, row, unreadable, call, inst, error,
          own, overtaken, lacking>>

Cache == INSTANCE ReadThroughCache

Reads == {"tolerant", "strict"}   \* allow_stale, or not
Calls == Reads \cup {"plain", "refresh", "clear", "delete"}
Rows == {"never", "due", "fresh"}
Errors == {"none", "refresh", "cache", "decrypt", "database"}
PCs == {"idle", "fetch", "set", "del", "invalidate", "handle", "record",
        "fallback", "save", "commit", "lookup", "get", "insert", "return",
        "raised"}

CacheOK ==
  /\ seq \in Nat
  /\ store \in [Secrets -> Nat]
  /\ local \in [Processes -> [Secrets -> Nat]]
  /\ pc \in [Threads -> PCs]
  /\ key \in [Threads -> Secrets]
  /\ got \in [Threads -> Nat]
CallOK ==
  /\ row \in [Secrets -> Rows \cup {"gone"}]
  /\ unreadable \subseteq Secrets
  /\ call \in [Threads -> Calls]
  /\ inst \in [Threads -> Rows]
  /\ error \in [Threads -> Errors]
HistoryOK ==
  /\ own \in [Threads -> Nat]
  /\ overtaken \subseteq Threads
  /\ lacking \subseteq Threads
TypeOK == CacheOK /\ CallOK /\ HistoryOK

Init ==
  /\ Cache!Init
  /\ row \in [Secrets -> Rows]
  /\ unreadable = {}
  /\ call = [t \in Threads |-> "plain"]
  /\ inst = [t \in Threads |-> "fresh"]
  /\ error = [t \in Threads |-> "none"]
  /\ own = [t \in Threads |-> 0]
  /\ overtaken = {}
  /\ lacking = {}

-----------------------------------------------------------------------------
(* Helpers                                                                 *)

Goto(t, label) == Cache!Goto(t, label)
asked == <<call, inst>>
Raise(t, e) == error' = [error EXCEPT ![t] = e]

\* Writes get numbers up to MaxSeq.
Room == seq + Cardinality({t \in Threads : pc[t] \in {"fetch", "set", "del"}})
          < MaxSeq

\* is_refresh_due of a call's instance, and what it means for a call.
Due(r) == r \in {"never", "due"}
First(c, r) ==
  CASE c = "plain"            -> "lookup"
    [] c \in Reads            -> IF Due(r) THEN "fetch" ELSE "lookup"
    [] c = "refresh"          -> "fetch"
    [] c \in {"clear", "delete"} -> "del"

\* The arguments and the exception of finished or killed calls are gone.
Clean(T) ==
  /\ call' = [t \in Threads |-> IF t \in T THEN "plain" ELSE call[t]]
  /\ inst' = [t \in Threads |-> IF t \in T THEN "fresh" ELSE inst[t]]
  /\ error' = [t \in Threads |-> IF t \in T THEN "none" ELSE error[t]]

\* What the steps of the cache leave alone.
Rest == <<row, unreadable, asked, error>>

\* A thread leaves its call's labels with an exception.
Fail(t, label, e) ==
  /\ Cache!Leave(t, {label}, "raised")
  /\ Raise(t, e)
  /\ UNCHANGED <<row, unreadable, asked>>

\* Or it goes from one label to another and touches nothing else.
Move(t, from, to) ==
  /\ pc[t] = from
  /\ Goto(t, to)
  /\ UNCHANGED <<seq, store, local, key, got, row, unreadable, asked, error>>

-----------------------------------------------------------------------------
(* The call: get_secret_record, then what the caller asked for             *)

\* Mutant: a deleted row is found all the same.
AskGone(t, s, c) ==
  /\ First(c, row[s]) # "lookup" => Room
  /\ Cache!Begin(t, s, First(c, row[s]))
  /\ call' = [call EXCEPT ![t] = c]
  /\ inst' = [inst EXCEPT ![t] = row[s]]
  /\ UNCHANGED <<row, unreadable, error>>

Ask(t, s, c) ==
  /\ row[s] # "gone"
  /\ First(c, row[s]) # "lookup" => Room
  /\ Cache!Begin(t, s, First(c, row[s]))
  /\ call' = [call EXCEPT ![t] = c]
  /\ inst' = [inst EXCEPT ![t] = row[s]]
  /\ UNCHANGED <<row, unreadable, error>>

-----------------------------------------------------------------------------
(* refresh_secret                                                          *)

Fetch(t) == Move(t, "fetch", "set")

\* has_cached_secret is asked only if the row has ever been refreshed.
FetchFails(t) ==
  Move(t, "fetch", IF inst[t] = "never" THEN "record" ELSE "handle")

\* write_cached_secret: its SET.
Set(t) ==
  /\ pc[t] = "set"
  /\ Cache!Write(t)
  /\ unreadable' = unreadable \ {key[t]}
  /\ UNCHANGED <<row, asked, error>>

SetReplyLost(t) ==
  /\ pc[t] = "set"
  /\ Cache!WriteReplyLost(t, "handle")
  /\ unreadable' = unreadable \ {key[t]}
  /\ UNCHANGED <<row, asked, error>>

\* last_refreshed is set by now, whatever the row says.
SetFails(t) == Move(t, "set", "handle")

\* Where a call goes on when its SET or DEL has returned.
AfterWrite(t) ==
  CASE call[t] = "clear"  -> "return"
    [] call[t] = "delete" -> "commit"
    [] OTHER              -> "save"

\* Mutant: the refresh does not invalidate.
InvalidateSkipped(t) ==
  /\ Cache!Leave(t, {"invalidate"}, AfterWrite(t))
  /\ UNCHANGED Rest

\* The SET or DEL returns: the process drops its memory cache.
Invalidate(t) ==
  /\ Cache!Invalidate(t, AfterWrite(t))
  /\ UNCHANGED Rest

Handle(t) == Move(t, "handle", "record")

\* has_cached_secret raises inside the handler: nothing is saved.
HandleRefused(t) == Fail(t, "handle", "cache")

\* The handler saves the failure; save() of a row that is gone raises.
Record(t) ==
  /\ row[key[t]] # "gone" /\ call[t] \in Reads
  /\ Move(t, "record", "fallback")
RecordRaises(t) ==
  \/ row[key[t]] = "gone" /\ Fail(t, "record", "database")
  \/ row[key[t]] # "gone" /\ call[t] = "refresh" /\ Fail(t, "record", "refresh")

\* save() of the success; a read goes on to the cache.
Save(t) ==
  /\ row[key[t]] # "gone"
  /\ Cache!Leave(t, {"save"}, IF call[t] \in Reads THEN "lookup" ELSE "return")
  /\ row' = [row EXCEPT ![key[t]] = "fresh"]
  /\ UNCHANGED <<unreadable, asked, error>>
SaveRaises(t) == row[key[t]] = "gone" /\ Fail(t, "save", "database")

-----------------------------------------------------------------------------
(* get_secret_value: the except clause                                     *)

\* Mutants: a strict read falls back too; a read falls back only on a row
\* that has been refreshed before.
ToleratesAll(t) == store[key[t]] # 0
ToleratesRefreshed(t) ==
  call[t] = "tolerant" /\ inst[t] # "never" /\ store[key[t]] # 0
Tolerates(t) == call[t] = "tolerant" /\ store[key[t]] # 0

Fallback(t) == Tolerates(t) /\ Move(t, "fallback", "lookup")
FallbackRaises(t) == ~Tolerates(t) /\ Fail(t, "fallback", "refresh")
FallbackRefused(t) == call[t] = "tolerant" /\ Fail(t, "fallback", "cache")

-----------------------------------------------------------------------------
(* get_cached_secret_value                                                 *)

Hit(t) == Cache!Hit(t) /\ UNCHANGED Rest
Miss(t) == Cache!Miss(t) /\ UNCHANGED Rest
GetPayload(t) ==
  /\ key[t] \notin unreadable
  /\ Cache!GetPayload(t)
  /\ UNCHANGED Rest
Insert(t) == Cache!Insert(t) /\ UNCHANGED Rest

\* No payload, or one that the key does not decrypt.
GetRaises(t) ==
  /\ store[key[t]] = 0 \/ key[t] \in unreadable
  /\ Fail(t, "get", "decrypt")
GetRefused(t) == Fail(t, "get", "cache")

\* The caller has the value or the exception.
End(t) ==
  /\ Cache!Leave(t, {"return", "raised"}, "idle")
  /\ Clean({t})
  /\ UNCHANGED <<row, unreadable>>

-----------------------------------------------------------------------------
(* clear_secret_cache, and the deletion whose post_delete signal drops the *)
(* payload before the transaction commits, with or without Redis           *)

Del(t) ==
  /\ pc[t] = "del"
  /\ Cache!Write(t)
  /\ unreadable' = unreadable \ {key[t]}
  /\ UNCHANGED <<row, asked, error>>

DelReplyLost(t) ==
  /\ pc[t] = "del"
  /\ Cache!WriteReplyLost(t, IF call[t] = "delete" THEN "commit" ELSE "raised")
  /\ unreadable' = unreadable \ {key[t]}
  /\ IF call[t] = "delete" THEN UNCHANGED error ELSE Raise(t, "cache")
  /\ UNCHANGED <<row, asked>>

DelFails(t) ==
  \/ call[t] = "delete" /\ Move(t, "del", "commit")
  \/ call[t] = "clear" /\ Fail(t, "del", "cache")

Commit(t) ==
  /\ Cache!Leave(t, {"commit"}, "return")
  /\ row' = [row EXCEPT ![key[t]] = "gone"]
  /\ UNCHANGED <<unreadable, asked, error>>

-----------------------------------------------------------------------------
(* The environment                                                         *)

\* The refresh interval of a row ends.
Age(s) ==
  /\ row[s] = "fresh"
  /\ row' = [row EXCEPT ![s] = "due"]
  /\ UNCHANGED <<cacheVars, unreadable, asked, error>>

Forget(p) == Cache!Forget(p) /\ UNCHANGED Rest

Flush ==
  /\ Cache!Flush
  /\ unreadable' = {}
  /\ UNCHANGED <<row, asked, error>>

\* The processes of P restart: their threads and memory caches are gone.
Restart(P) ==
  /\ Cache!Restart(P)
  /\ Clean({t \in Threads : Home[t] \in P})
  /\ UNCHANGED row

RestartOne == \E p \in Processes : Restart({p}) /\ UNCHANGED unreadable

\* Every process restarts with another SECRET_KEY.
ChangeKey ==
  /\ Restart(Processes)
  /\ unreadable' = {s \in Secrets : store[s] # 0}

-----------------------------------------------------------------------------

Step(t) ==
  \/ Fetch(t) \/ FetchFails(t) \/ Set(t) \/ SetReplyLost(t) \/ SetFails(t)
  \/ Invalidate(t) \/ Handle(t) \/ HandleRefused(t)
  \/ Record(t) \/ RecordRaises(t) \/ Save(t) \/ SaveRaises(t)
  \/ Fallback(t) \/ FallbackRaises(t) \/ FallbackRefused(t)
  \/ Hit(t) \/ Miss(t) \/ GetPayload(t) \/ GetRaises(t) \/ GetRefused(t)
  \/ Insert(t) \/ End(t)
  \/ Del(t) \/ DelReplyLost(t) \/ DelFails(t) \/ Commit(t)

Act ==
  \/ \E t \in Threads, s \in Secrets, c \in Calls : Ask(t, s, c)
  \/ \E t \in Threads : Step(t)
  \/ \E s \in Secrets : Age(s)
  \/ \E p \in Processes : Forget(p)
  \/ Flush \/ RestartOne \/ ChangeKey

\* What the properties remember of a call.
Missing(s) == store[s] = 0 \/ s \in unreadable
Loading(t) ==
  \E u \in Threads : pc[u] = "insert" /\ Home[u] = Home[t] /\ key[u] = key[t]

Remember ==
  LET Busy == {t \in Threads : pc'[t] # "idle"} IN
  /\ own' = [t \in Threads |->
               IF t \notin Busy THEN 0
               ELSE IF pc[t] = "set" /\ pc'[t] = "invalidate" THEN seq'
               ELSE own[t]]
  /\ overtaken' = {t \in Busy :
                     \/ t \in overtaken
                     \/ pc[t] = "invalidate" /\ pc'[t] # pc[t] /\ Loading(t)}
  /\ lacking' = {t \in Busy : t \in lacking \/ Missing(key[t])'}

Next == Act /\ Remember

Spec == Init /\ [][Next]_vars

-----------------------------------------------------------------------------
(* Properties                                                              *)

(* With allow_stale, or without a refresh, neither an outage of Vault nor  *)
(* a failed, lost or unsaved write to Redis makes a read fail: it raises a *)
(* refresh or a decryption error only if the payload was missing or        *)
(* unreadable at some moment of the call, whatever the other threads did.  *)
OutageTolerated ==
  \A t \in Threads :
    pc[t] = "raised" /\ call[t] \in {"tolerant", "plain"}
      /\ error[t] \in {"refresh", "decrypt"}
      => t \in lacking

(* A read that refreshed the secret returns its own value or one written   *)
(* after it, unless a load of the same secret overlapped its invalidation; *)
(* and without allow_stale a due secret is never served unrefreshed.       *)
RefreshedReadIsFresh ==
  \A t \in Threads :
    pc[t] = "return" /\ call[t] \in Reads =>
      /\ call[t] = "strict" /\ Due(inst[t]) => own[t] # 0
      /\ t \notin overtaken => got[t] >= own[t]

(* For the cache a call is at most one write and one read: whatever it     *)
(* does when Vault, Redis or the database fails, it enters and leaves both *)
(* where ReadThroughCache allows it, and never reads before its SET has    *)
(* emptied the memory cache.                                               *)
Outside == {"idle", "handle", "record", "fallback", "save", "commit", "raised"}
StageOf(label, c) ==
  IF label \in Outside \/ (label = "return" /\ c \notin Reads \cup {"plain"})
  THEN "idle"
  ELSE IF label = "fetch" THEN "set" ELSE label
stage == [t \in Threads |-> StageOf(pc[t], call[t])]
RTC == INSTANCE ReadThroughCache WITH pc <- stage
ImplementsReadThrough == RTC!Spec

-----------------------------------------------------------------------------
(* The inductive invariant behind RefreshedReadIsFresh                     *)

(* Which calls are where, and which of them have made their SET.           *)
CallInv ==
  \A t \in Threads :
    /\ pc[t] \in {"del", "commit"} => call[t] \in {"clear", "delete"}
    /\ pc[t] \in {"fetch", "set", "handle", "record", "fallback", "save"} =>
         call[t] \in Reads \cup {"refresh"}
    /\ pc[t] = "invalidate" => call[t] # "plain"
    /\ \/ pc[t] \in {"idle", "fetch", "set", "handle", "record", "fallback"}
       \/ call[t] \in {"clear", "delete"}
       => own[t] = 0
    /\ pc[t] \in {"invalidate", "save", "lookup", "get", "insert", "return"}
         /\ call[t] = "strict" /\ Due(inst[t]) => own[t] # 0

(* Redis holds nothing older than a call's own SET.                        *)
OwnInv ==
  \A t \in Threads : own[t] # 0 =>
    /\ own[t] <= seq
    /\ store[key[t]] = 0 \/ own[t] <= store[key[t]]

(* Neither does the memory of its process, nor any load on its way there.  *)
ServedInv ==
  \A t \in Threads :
    /\ pc[t] \in {"save", "lookup", "get", "insert", "return"}
    /\ own[t] # 0 /\ t \notin overtaken
    => /\ \/ local[Home[t]][key[t]] = 0
          \/ own[t] <= local[Home[t]][key[t]]
       /\ \A u \in Threads :
            pc[u] = "insert" /\ Home[u] = Home[t] /\ key[u] = key[t] =>
              own[t] <= got[u]
       /\ pc[t] = "return" /\ call[t] \in Reads => own[t] <= got[t]

(* What the refinement needs besides: a thread holds no payload outside of *)
(* its read and its write, and only reads go to the cache.                 *)
StageInv ==
  \A t \in Threads :
    /\ stage[t] \in {"idle", "set", "del", "lookup", "get"} => got[t] = 0
    /\ pc[t] \in {"lookup", "get", "insert"} =>
         call[t] \in Reads \cup {"plain"}

Inv == TypeOK /\ OutageTolerated /\ CallInv /\ OwnInv /\ ServedInv
===============================================================================
