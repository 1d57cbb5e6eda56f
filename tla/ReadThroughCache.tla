-------------------------- MODULE ReadThroughCache --------------------------
(***************************************************************************)
(* What the two levels of the cache promise, without the clock: a memory   *)
(* cache per process in front of the payloads in Redis.  A memory cache    *)
(* holds what some GET returned and may forget it at any moment; a write   *)
(* that returns normally has emptied the memory cache of its own process,  *)
(* and no other.                                                           *)
(*                                                                         *)
(* A payload is the number of the SET that wrote it, 0 is no payload.  The *)
(* label a thread goes on with is a parameter where a caller may follow.   *)
(***************************************************************************)
EXTENDS Naturals

CONSTANTS
  Secrets, Processes, Threads,
  Home       \* Home[t]: the process of thread t

VARIABLES
  seq,       \* the number of SETs and DELs so far
  store,     \* store[s]: the payload in Redis
  local,     \* local[p][s]: the payload in p's memory cache
  pc, key,   \* where each thread is, and for which secret
  got        \* got[t]: the payload the thread works on or returns

vars == <<seq, store, local, pc, key, got>>

Init ==
  /\ seq = 0
  /\ store = [s \in Secrets |-> 0]
  /\ local = [p \in Processes |-> [s \in Secrets |-> 0]]
  /\ pc = [t \in Threads |-> "idle"]
  /\ key \in [Threads -> Secrets]
  /\ got = [t \in Threads |-> 0]

Goto(t, label) == pc' = [pc EXCEPT ![t] = label]
Drop(t) == got' = [got EXCEPT ![t] = 0]

Begin(t, s, first) ==
  /\ pc[t] = "idle"
  /\ Goto(t, first)
  /\ key' = [key EXCEPT ![t] = s]
  /\ UNCHANGED <<seq, store, local, got>>

\* An exception or the end: from one of its labels the thread leaves.
Leave(t, labels, next) ==
  /\ pc[t] \in labels
  /\ Goto(t, next)
  /\ Drop(t)
  /\ UNCHANGED <<seq, store, local, key>>

-----------------------------------------------------------------------------
(* A read                                                                  *)

Hit(t) ==
  /\ pc[t] = "lookup" /\ local[Home[t]][key[t]] # 0
  /\ got' = [got EXCEPT ![t] = local[Home[t]][key[t]]]
  /\ Goto(t, "return")
  /\ UNCHANGED <<seq, store, local, key>>

Miss(t) ==
  /\ pc[t] = "lookup" /\ local[Home[t]][key[t]] = 0
  /\ Goto(t, "get")
  /\ UNCHANGED <<seq, store, local, key, got>>

GetPayload(t) ==
  /\ pc[t] = "get" /\ store[key[t]] # 0
  /\ got' = [got EXCEPT ![t] = store[key[t]]]
  /\ Goto(t, "insert")
  /\ UNCHANGED <<seq, store, local, key>>

\* An entry that is there stays; others may have to leave.
Insert(t) ==
  LET old == local[Home[t]]
      new == [old EXCEPT ![key[t]] = IF @ = 0 THEN got[t] ELSE @]
  IN
  /\ pc[t] = "insert"
  /\ \E E \in SUBSET (Secrets \ {key[t]}) :
       local' = [local EXCEPT ![Home[t]] =
                   [s \in Secrets |-> IF s \in E THEN 0 ELSE new[s]]]
  /\ Goto(t, "return")
  /\ UNCHANGED <<seq, store, key, got>>

-----------------------------------------------------------------------------
(* A write                                                                 *)

Apply(t) ==
  /\ pc[t] \in {"set", "del"}
  /\ seq' = seq + 1
  /\ store' = [store EXCEPT ![key[t]] = IF pc[t] = "set" THEN seq + 1 ELSE 0]
  /\ UNCHANGED <<local, key>>

Write(t) ==
  /\ Apply(t)
  /\ got' = [got EXCEPT ![t] = seq + 1]
  /\ Goto(t, "invalidate")

\* Redis applied the command, the caller sees an error: no invalidation.
WriteReplyLost(t, next) == Apply(t) /\ Drop(t) /\ Goto(t, next)

Invalidate(t, next) ==
  /\ pc[t] = "invalidate"
  /\ local' = [local EXCEPT ![Home[t]] = [s \in Secrets |-> 0]]
  /\ Drop(t)
  /\ Goto(t, next)
  /\ UNCHANGED <<seq, store, key>>

-----------------------------------------------------------------------------
(* The environment: a window ends, processes restart, Redis loses its data *)

Forget(p) ==
  /\ local' = [local EXCEPT ![p] = [s \in Secrets |-> 0]]
  /\ UNCHANGED <<seq, store, pc, key, got>>

\* The threads and memory caches of the processes of P are gone.
Restart(P) ==
  LET T == {t \in Threads : Home[t] \in P} IN
  /\ pc' = [t \in Threads |-> IF t \in T THEN "idle" ELSE pc[t]]
  /\ got' = [t \in Threads |-> IF t \in T THEN 0 ELSE got[t]]
  /\ local' = [p \in Processes |->
                 IF p \in P THEN [s \in Secrets |-> 0] ELSE local[p]]
  /\ UNCHANGED <<seq, store, key>>

Flush ==
  /\ store' = [s \in Secrets |-> 0]
  /\ UNCHANGED <<seq, local, pc, key, got>>

-----------------------------------------------------------------------------

Next ==
  \/ \E t \in Threads, s \in Secrets :
       Begin(t, s, "lookup") \/ Begin(t, s, "set") \/ Begin(t, s, "del")
  \/ \E t \in Threads :
       \/ Leave(t, {"get", "set", "del", "return"}, "idle")
       \/ Hit(t) \/ Miss(t) \/ GetPayload(t) \/ Insert(t)
       \/ Write(t) \/ WriteReplyLost(t, "idle") \/ Invalidate(t, "idle")
  \/ \E p \in Processes : Forget(p)
  \/ \E P \in SUBSET Processes : Restart(P)
  \/ Flush

Spec == Init /\ [][Next]_vars
=============================================================================
