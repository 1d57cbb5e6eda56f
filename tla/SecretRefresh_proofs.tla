------------------------ MODULE SecretRefresh_proofs ------------------------
(* Proofs about SecretRefresh, for any secrets, tasks, operations, events    *)
(* and bounds.                                                              *)
EXTENDS SecretRefresh, TLAPS

-----------------------------------------------------------------------------
(* Facts about the records the model is built from.                         *)

(* The constants of the two record types belong to them.                    *)
LEMMA ConstantRecords == NewRow \in Row /\ NoEntry \in Entry
BY DEF NewRow, NoEntry, Row, Entry, Statuses, Never

(* What a column of a row, and a field of a payload, may hold.              *)
LEMMA Columns ==
  /\ \A r \in Row : /\ r.cachePresent \in BOOLEAN
                    /\ r.lastRefreshed \in Nat
                    /\ r.lastAttempt \in Nat
                    /\ r.status \in Statuses
  /\ \A e \in Entry : e.ver \in Nat /\ e.refreshedAt \in Nat
  /\ \A v, n \in Nat : [ver |-> v, refreshedAt |-> n] \in Entry
BY DEF Row, Entry

(* Setting columns of an instance, as the operations do, gives an instance. *)
LEMMA AssignedColumns ==
  ASSUME NEW r \in Row, NEW n \in Nat
  PROVE  /\ [r EXCEPT !.lastAttempt = n] \in Row
         /\ [r EXCEPT !.lastRefreshed = n, !.status = "synced"] \in Row
         /\ [r EXCEPT !.cachePresent = TRUE] \in Row
         /\ [r EXCEPT !.cachePresent = FALSE] \in Row
BY DEF Row, Statuses

(* A save of some columns of an instance leaves a row.                      *)
LEMMA SavedColumns ==
  ASSUME NEW old \in Row, NEW new \in Row
  PROVE  /\ CachedColumns(old, new) \in Row
         /\ UncachedColumns(old, new) \in Row
         /\ FailureColumns(old, new) \in Row
         /\ [old EXCEPT !.cachePresent = new.cachePresent] \in Row
BY DEF Row, Statuses, CachedColumns, UncachedColumns, FailureColumns

(* The except block leaves an instance.                                     *)
LEMMA DowngradedColumns ==
  ASSUME NEW r \in Row, NEW o, NEW p
  PROVE  Downgraded(o, r, p) \in Row
BY DEF Row, Statuses, Downgraded, Caches, Never

-----------------------------------------------------------------------------
(* Every variable keeps its type, whatever the step.                        *)
LEMMA TypeStep == TypeOK /\ [Next]_vars => TypeOK'
<1> SUFFICES ASSUME TypeOK, [Next]_vars PROVE TypeOK'
  OBVIOUS
<1> USE ConstantRecords
    DEF TypeOK, PCs, vars, outside, stores, locals, history, Goto, Finish
<1>1. ASSUME NEW t \in Tasks, NEW s \in Secrets, NEW o \in OperationKinds,
             Load(t, s, o)
      PROVE TypeOK'
  BY <1>1 DEF Load
<1>2. ASSUME NEW t \in Tasks, Begin(t) PROVE TypeOK'
  <2>1. [inst[t] EXCEPT !.lastAttempt = now] \in Row
    BY AssignedColumns
  <2>2. QED
    BY <1>2, <2>1 DEF Begin
<1>3. ASSUME NEW t \in Tasks, Fetch(t) PROVE TypeOK'
  BY <1>3 DEF Fetch
<1>4. ASSUME NEW t \in Tasks, Store(t) PROVE TypeOK'
  BY <1>4 DEF Store
<1>5. ASSUME NEW t \in Tasks, RemoteFails(t) PROVE TypeOK'
  BY <1>5 DEF RemoteFails
<1>6. ASSUME NEW t \in Tasks, StoreReplyLost(t) PROVE TypeOK'
  BY <1>6 DEF StoreReplyLost
<1>7. ASSUME NEW t \in Tasks, Stamp(t) PROVE TypeOK'
  <2>1. [inst[t] EXCEPT !.lastRefreshed = now, !.status = "synced"] \in Row
    BY AssignedColumns
  <2>2. QED
    BY <1>7, <2>1 DEF Stamp
<1>8. ASSUME NEW t \in Tasks, WriteCache(t) PROVE TypeOK'
  <2>1. [inst[t] EXCEPT !.cachePresent = TRUE] \in Row /\ Payload(t) \in Entry
    BY AssignedColumns, Columns DEF Payload
  <2>2. QED
    BY <1>8, <2>1 DEF WriteCache
<1>9. ASSUME NEW t \in Tasks, WriteFails(t) PROVE TypeOK'
  BY <1>9 DEF WriteFails
<1>10. ASSUME NEW t \in Tasks, WriteReplyLost(t) PROVE TypeOK'
  <2>1. Payload(t) \in Entry
    BY Columns DEF Payload
  <2>2. QED
    BY <1>10, <2>1 DEF WriteReplyLost, Disturb
<1>11. ASSUME NEW t \in Tasks, Handle(t) PROVE TypeOK'
  <2>1. Downgraded(op[t], inst[t], Present(target[t])) \in Row
    BY DowngradedColumns
  <2>2. QED
    BY <1>11, <2>1 DEF Handle
<1>12. ASSUME NEW t \in Tasks, HandlerCacheDown(t) PROVE TypeOK'
  BY <1>12 DEF HandlerCacheDown
<1>13. ASSUME NEW t \in Tasks, SaveCached(t) PROVE TypeOK'
  <2>1. CachedColumns(row[target[t]], inst[t]) \in Row
    BY SavedColumns
  <2>2. QED
    BY <1>13, <2>1 DEF SaveCached, Settle
<1>14. ASSUME NEW t \in Tasks, SaveUncached(t) PROVE TypeOK'
  <2>1. UncachedColumns(row[target[t]], inst[t]) \in Row
    BY SavedColumns
  <2>2. QED
    BY <1>14, <2>1 DEF SaveUncached, Disturb
<1>15. ASSUME NEW t \in Tasks, SaveFindsNoRow(t) PROVE TypeOK'
  BY <1>15 DEF SaveFindsNoRow
<1>16. ASSUME NEW t \in Tasks, SaveFailure(t) PROVE TypeOK'
  <2>1. FailureColumns(row[target[t]], inst[t]) \in Row
    BY SavedColumns
  <2>2. QED
    BY <1>16, <2>1 DEF SaveFailure
<1>17. ASSUME NEW t \in Tasks, Purge(t) PROVE TypeOK'
  <2>1. [inst[t] EXCEPT !.cachePresent = FALSE] \in Row
    BY AssignedColumns
  <2>2. QED
    BY <1>17, <2>1 DEF Purge
<1>18. ASSUME NEW t \in Tasks, PurgeUnflagged(t) PROVE TypeOK'
  BY <1>18 DEF PurgeUnflagged, Settle
<1>19. ASSUME NEW t \in Tasks, PurgeFails(t) PROVE TypeOK'
  BY <1>19 DEF PurgeFails
<1>20. ASSUME NEW t \in Tasks, PurgeReplyLost(t) PROVE TypeOK'
  BY <1>20 DEF PurgeReplyLost, Disturb
<1>21. ASSUME NEW t \in Tasks, SaveFlag(t) PROVE TypeOK'
  <2>1. [row[target[t]] EXCEPT !.cachePresent = inst[t].cachePresent] \in Row
    BY SavedColumns
  <2>2. QED
    BY <1>21, <2>1 DEF SaveFlag, Settle
<1>22. ASSUME NEW t \in Tasks, DeleteRow(t) PROVE TypeOK'
  BY <1>22 DEF DeleteRow
<1>23. ASSUME NEW t \in Tasks, DeleteRowCacheDown(t) PROVE TypeOK'
  BY <1>23 DEF DeleteRowCacheDown, Disturb
<1>24. ASSUME NEW t \in Tasks, CommitDelete(t) PROVE TypeOK'
  BY <1>24 DEF CommitDelete, Settle
<1>25. ASSUME NEW t \in Tasks, SaveAll(t) PROVE TypeOK'
  BY <1>25 DEF SaveAll
<1>26. ASSUME NEW t \in Tasks, Crash(t) PROVE TypeOK'
  BY <1>26 DEF Crash, Disturb
<1>27. CASE Tick
  BY <1>27 DEF Tick
<1>28. CASE ToggleReadOnly
  BY <1>28 DEF ToggleReadOnly
<1>29. ASSUME NEW s \in Secrets, Rotate(s) PROVE TypeOK'
  BY <1>29 DEF Rotate
<1>30. ASSUME NEW s \in Secrets, Flush(s) PROVE TypeOK'
  BY <1>30 DEF Flush, Disturb
<1>31. CASE UNCHANGED vars
  BY <1>31
<1>32. QED
  BY <1>1, <1>2, <1>3, <1>4, <1>5, <1>6, <1>7, <1>8, <1>9, <1>10, <1>11,
     <1>12, <1>13, <1>14, <1>15, <1>16, <1>17, <1>18, <1>19, <1>20,
     <1>21, <1>22, <1>23, <1>24, <1>25, <1>26, <1>27, <1>28, <1>29,
     <1>30, <1>31 DEF Next, TaskStep, Environment

(* Every variable has its type at the start.                                *)
LEMMA InitTypeOK == Init => TypeOK
<1> SUFFICES ASSUME Init PROVE TypeOK
  OBVIOUS
<1>1. /\ row \in [Secrets -> Row]
      /\ redis \in [Secrets -> Entry]
      /\ inst \in [Tasks -> Row]
  BY ConstantRecords DEF Init
<1>2. QED
  BY <1>1 DEF Init, TypeOK, PCs

(* Every variable has its type in every reachable state.                    *)
THEOREM Typing == Spec => []TypeOK
BY InitTypeOK, TypeStep, PTL DEF Spec

-----------------------------------------------------------------------------
(* Stamps.                                                                  *)

(* No step leaves a stamp ahead of the clock or a status without its stamps. *)
LEMMA StampStep ==
  ASSUME TypeOK, TypeOK', StampInv, [Next]_vars
  PROVE  StampInv'
<1> USE DEF StampInv, SyncedOK, TypeOK, Row, Entry, Statuses, PCs, Never,
   Present, NewRow, NoEntry, vars, outside, stores, locals, history, Goto,
   Finish
<1>1. ASSUME NEW t \in Tasks, NEW s \in Secrets, NEW o \in OperationKinds,
             Load(t, s, o)
      PROVE StampInv'
  BY <1>1 DEF Load
<1>2. ASSUME NEW t \in Tasks, Begin(t) PROVE StampInv'
  BY <1>2 DEF Begin
<1>3. ASSUME NEW t \in Tasks, Fetch(t) PROVE StampInv'
  BY <1>3 DEF Fetch
<1>4. ASSUME NEW t \in Tasks, Store(t) PROVE StampInv'
  BY <1>4 DEF Store
<1>5. ASSUME NEW t \in Tasks, RemoteFails(t) PROVE StampInv'
  BY <1>5 DEF RemoteFails
<1>6. ASSUME NEW t \in Tasks, StoreReplyLost(t) PROVE StampInv'
  BY <1>6 DEF StoreReplyLost
<1>7. ASSUME NEW t \in Tasks, Stamp(t) PROVE StampInv'
  BY <1>7 DEF Stamp, Caches
<1>8. ASSUME NEW t \in Tasks, WriteCache(t) PROVE StampInv'
  BY <1>8 DEF WriteCache, Payload
<1>9. ASSUME NEW t \in Tasks, WriteFails(t) PROVE StampInv'
  BY <1>9 DEF WriteFails
<1>10. ASSUME NEW t \in Tasks, WriteReplyLost(t) PROVE StampInv'
  BY <1>10 DEF WriteReplyLost, Payload, Disturb
<1>11. ASSUME NEW t \in Tasks, Handle(t) PROVE StampInv'
  BY <1>11 DEF Handle, Downgraded, Caches
<1>12. ASSUME NEW t \in Tasks, HandlerCacheDown(t) PROVE StampInv'
  BY <1>12 DEF HandlerCacheDown
<1>13. ASSUME NEW t \in Tasks, SaveCached(t) PROVE StampInv'
  BY <1>13 DEF SaveCached, CachedColumns
<1>14. ASSUME NEW t \in Tasks, SaveUncached(t) PROVE StampInv'
  BY <1>14 DEF SaveUncached, UncachedColumns
<1>15. ASSUME NEW t \in Tasks, SaveFindsNoRow(t) PROVE StampInv'
  BY <1>15 DEF SaveFindsNoRow
<1>16. ASSUME NEW t \in Tasks, SaveFailure(t) PROVE StampInv'
  BY <1>16 DEF SaveFailure, FailureColumns
<1>17. ASSUME NEW t \in Tasks, Purge(t) PROVE StampInv'
  BY <1>17 DEF Purge
<1>18. ASSUME NEW t \in Tasks, PurgeUnflagged(t) PROVE StampInv'
  BY <1>18 DEF PurgeUnflagged
<1>19. ASSUME NEW t \in Tasks, PurgeFails(t) PROVE StampInv'
  BY <1>19 DEF PurgeFails
<1>20. ASSUME NEW t \in Tasks, PurgeReplyLost(t) PROVE StampInv'
  BY <1>20 DEF PurgeReplyLost
<1>21. ASSUME NEW t \in Tasks, SaveFlag(t) PROVE StampInv'
  BY <1>21 DEF SaveFlag
<1>22. ASSUME NEW t \in Tasks, DeleteRow(t) PROVE StampInv'
  BY <1>22 DEF DeleteRow
<1>23. ASSUME NEW t \in Tasks, DeleteRowCacheDown(t) PROVE StampInv'
  BY <1>23 DEF DeleteRowCacheDown
<1>24. ASSUME NEW t \in Tasks, CommitDelete(t) PROVE StampInv'
  BY <1>24 DEF CommitDelete
<1>25. ASSUME NEW t \in Tasks, SaveAll(t) PROVE StampInv'
  BY <1>25 DEF SaveAll
<1>26. ASSUME NEW t \in Tasks, Crash(t) PROVE StampInv'
  BY <1>26 DEF Crash
<1>27. CASE Tick
  BY <1>27 DEF Tick
<1>28. CASE ToggleReadOnly
  BY <1>28 DEF ToggleReadOnly
<1>29. ASSUME NEW s \in Secrets, Rotate(s) PROVE StampInv'
  BY <1>29 DEF Rotate
<1>30. ASSUME NEW s \in Secrets, Flush(s) PROVE StampInv'
  BY <1>30 DEF Flush
<1>31. CASE UNCHANGED vars
  BY <1>31
<1>32. QED
  BY <1>1, <1>2, <1>3, <1>4, <1>5, <1>6, <1>7, <1>8, <1>9, <1>10, <1>11,
     <1>12, <1>13, <1>14, <1>15, <1>16, <1>17, <1>18, <1>19, <1>20, <1>21,
     <1>22, <1>23, <1>24, <1>25, <1>26, <1>27, <1>28, <1>29, <1>30, <1>31
     DEF Next, TaskStep, Environment

-----------------------------------------------------------------------------
(* Who works on a secret.                                                   *)

(* A second task, or a delete under another task, disturbs the secret. *)
LEMMA OneAtATimeStep ==
  ASSUME TypeOK, TypeOK', OneAtATime, [Next]_vars
  PROVE  OneAtATime'
<1> USE DEF OneAtATime, TypeOK, PCs, Working, Disturb, Settle, Alone, vars,
   outside, stores, locals, history, Goto, Finish
<1>1. ASSUME NEW t \in Tasks, NEW s \in Secrets, NEW o \in OperationKinds,
             Load(t, s, o)
      PROVE OneAtATime'
  BY <1>1 DEF Load
<1>2. ASSUME NEW t \in Tasks, Begin(t) PROVE OneAtATime'
  BY <1>2 DEF Begin
<1>3. ASSUME NEW t \in Tasks, Fetch(t) PROVE OneAtATime'
  BY <1>3 DEF Fetch
<1>4. ASSUME NEW t \in Tasks, Store(t) PROVE OneAtATime'
  BY <1>4 DEF Store
<1>5. ASSUME NEW t \in Tasks, RemoteFails(t) PROVE OneAtATime'
  BY <1>5 DEF RemoteFails
<1>6. ASSUME NEW t \in Tasks, StoreReplyLost(t) PROVE OneAtATime'
  BY <1>6 DEF StoreReplyLost
<1>7. ASSUME NEW t \in Tasks, Stamp(t) PROVE OneAtATime'
  BY <1>7 DEF Stamp
<1>8. ASSUME NEW t \in Tasks, WriteCache(t) PROVE OneAtATime'
  BY <1>8 DEF WriteCache
<1>9. ASSUME NEW t \in Tasks, WriteFails(t) PROVE OneAtATime'
  BY <1>9 DEF WriteFails
<1>10. ASSUME NEW t \in Tasks, WriteReplyLost(t) PROVE OneAtATime'
  BY <1>10 DEF WriteReplyLost
<1>11. ASSUME NEW t \in Tasks, Handle(t) PROVE OneAtATime'
  BY <1>11 DEF Handle
<1>12. ASSUME NEW t \in Tasks, HandlerCacheDown(t) PROVE OneAtATime'
  BY <1>12 DEF HandlerCacheDown
<1>13. ASSUME NEW t \in Tasks, SaveCached(t) PROVE OneAtATime'
  BY <1>13 DEF SaveCached
<1>14. ASSUME NEW t \in Tasks, SaveUncached(t) PROVE OneAtATime'
  BY <1>14 DEF SaveUncached
<1>15. ASSUME NEW t \in Tasks, SaveFindsNoRow(t) PROVE OneAtATime'
  BY <1>15 DEF SaveFindsNoRow
<1>16. ASSUME NEW t \in Tasks, SaveFailure(t) PROVE OneAtATime'
  BY <1>16 DEF SaveFailure
<1>17. ASSUME NEW t \in Tasks, Purge(t) PROVE OneAtATime'
  BY <1>17 DEF Purge
<1>18. ASSUME NEW t \in Tasks, PurgeUnflagged(t) PROVE OneAtATime'
  BY <1>18 DEF PurgeUnflagged
<1>19. ASSUME NEW t \in Tasks, PurgeFails(t) PROVE OneAtATime'
  BY <1>19 DEF PurgeFails
<1>20. ASSUME NEW t \in Tasks, PurgeReplyLost(t) PROVE OneAtATime'
  BY <1>20 DEF PurgeReplyLost
<1>21. ASSUME NEW t \in Tasks, SaveFlag(t) PROVE OneAtATime'
  BY <1>21 DEF SaveFlag
<1>22. ASSUME NEW t \in Tasks, DeleteRow(t) PROVE OneAtATime'
  BY <1>22 DEF DeleteRow
<1>23. ASSUME NEW t \in Tasks, DeleteRowCacheDown(t) PROVE OneAtATime'
  BY <1>23 DEF DeleteRowCacheDown
<1>24. ASSUME NEW t \in Tasks, CommitDelete(t) PROVE OneAtATime'
  BY <1>24 DEF CommitDelete
<1>25. ASSUME NEW t \in Tasks, SaveAll(t) PROVE OneAtATime'
  BY <1>25 DEF SaveAll
<1>26. ASSUME NEW t \in Tasks, Crash(t) PROVE OneAtATime'
  BY <1>26 DEF Crash
<1>27. CASE Tick
  BY <1>27 DEF Tick
<1>28. CASE ToggleReadOnly
  BY <1>28 DEF ToggleReadOnly
<1>29. ASSUME NEW s \in Secrets, Rotate(s) PROVE OneAtATime'
  BY <1>29 DEF Rotate
<1>30. ASSUME NEW s \in Secrets, Flush(s) PROVE OneAtATime'
  BY <1>30 DEF Flush
<1>31. CASE UNCHANGED vars
  <2>1. UNCHANGED <<pc, target, live, trust>>
    BY <1>31
  <2>2. QED
    BY <2>1
<1>32. QED
  BY <1>1, <1>2, <1>3, <1>4, <1>5, <1>6, <1>7, <1>8, <1>9, <1>10, <1>11,
     <1>12, <1>13, <1>14, <1>15, <1>16, <1>17, <1>18, <1>19, <1>20, <1>21,
     <1>22, <1>23, <1>24, <1>25, <1>26, <1>27, <1>28, <1>29, <1>30, <1>31
     DEF Next, TaskStep, Environment

-----------------------------------------------------------------------------
(* The row and the cache.                                                   *)

(* What a task knows stays true when nothing it is about changes.           *)
LEMMA KnowsStill ==
  ASSUME NEW t \in Tasks, NEW s \in Secrets, Knows(t, s),
         pc'[t] = pc[t], op'[t] = op[t], inst'[t] = inst[t],
         Payload(t)' = Payload(t), row'[s] = row[s], redis'[s] = redis[s],
         trust'[s] = trust[s]
  PROVE  Knows(t, s)'
<1>1. Present(s)' = Present(s)
  BY DEF Present
<1>2. Caches(op[t])' = Caches(op[t])
  BY Zenon DEF Caches
<1>3. QED
  BY <1>1, <1>2, SMTT(30) DEF Knows

(* No step parts the row of a coherent secret from the cache. *)
LEMMA CoherenceStep ==
  ASSUME TypeOK, TypeOK', StampInv, OneAtATime, VersionInv, CoherenceInv, [Next]_vars
  PROVE  CoherenceInv'
<1> USE DEF OneAtATime, CoherenceInv, Knows, Describes, Present, TypeOK,
   PCs, Entry, Row, NoEntry, Payload, Never, StampInv, Working, Disturb,
   Settle, Alone, vars, outside, stores, locals, history, Goto, Finish
<1>1. ASSUME NEW t \in Tasks, NEW s \in Secrets, NEW o \in OperationKinds,
             Load(t, s, o)
      PROVE CoherenceInv'
  BY <1>1 DEF Load
<1>2. ASSUME NEW t \in Tasks, Begin(t) PROVE CoherenceInv'
  BY <1>2 DEF Begin, Caches
<1>3. ASSUME NEW t \in Tasks, Fetch(t) PROVE CoherenceInv'
  BY <1>3 DEF Fetch
<1>4. ASSUME NEW t \in Tasks, Store(t) PROVE CoherenceInv'
  <2>1. pc[t] = "remote" /\ pc' = [pc EXCEPT ![t] = "stamp"]
        /\ UNCHANGED <<now, stores, op, target, inst, history>>
    BY <1>4 DEF Store
  <2>2. \A u \in Tasks \ {t} : Payload(u)' = Payload(u)
    BY <1>4 DEF Store
  <2>3. ASSUME NEW s \in Secrets, trust'[s] # "disturbed",
               NEW u \in Tasks, Working(u, s)'
        PROVE  Knows(u, s)'
    <3>1. CASE u = t
      BY <2>1, <2>3, <3>1
    <3>2. CASE u # t
      <4>1. Working(u, s) /\ pc'[u] = pc[u] /\ trust' = trust
        BY <2>1, <2>3, <3>2
      <4>2. Knows(u, s)
        BY <2>3, <4>1
      <4> HIDE DEF Knows, Payload, Describes, TypeOK, StampInv, OneAtATime,
             CoherenceInv
      <4>3. QED
        BY <2>1, <2>2, <3>2, <4>1, <4>2, KnowsStill
    <3>3. QED
      BY <3>1, <3>2
  <2>4. ASSUME NEW s \in Secrets, trust'[s] # "disturbed"
        PROVE  \/ trust'[s] = "mending"
               \/ \E u \in Tasks :
                    Working(u, s)' /\ pc'[u] \in {"save", "saveFlag", "commit"}
               \/ Describes(s)'
    BY <2>1, <2>4
  <2>5. QED
    BY <2>3, <2>4
<1>5. ASSUME NEW t \in Tasks, RemoteFails(t) PROVE CoherenceInv'
  BY <1>5 DEF RemoteFails
<1>6. ASSUME NEW t \in Tasks, StoreReplyLost(t) PROVE CoherenceInv'
  BY <1>6 DEF StoreReplyLost
<1>7. ASSUME NEW t \in Tasks, Stamp(t) PROVE CoherenceInv'
  <2>1. /\ pc[t] = "stamp" /\ UNCHANGED <<outside, stores, op, target, history>>
        /\ pc' = [pc EXCEPT ![t] = IF Caches(op[t]) THEN "write" ELSE "save"]
        /\ inst'[t].cachePresent = inst[t].cachePresent
        /\ inst'[t].lastRefreshed = now
        /\ \A u \in Tasks \ {t} : inst'[u] = inst[u] /\ Payload(u)' = Payload(u)
    BY <1>7 DEF Stamp
  <2>2. ASSUME NEW s \in Secrets, trust'[s] # "disturbed",
               NEW u \in Tasks, Working(u, s)'
        PROVE  Knows(u, s)'
    <3>1. CASE u = t
      BY <2>1, <2>2, <3>1 DEF Caches
    <3>2. CASE u # t
      <4>1. Working(u, s) /\ pc'[u] = pc[u] /\ trust' = trust
        BY <2>1, <2>2, <3>2
      <4>2. Knows(u, s)
        BY <2>2, <4>1
      <4> HIDE DEF Knows, Payload, Describes, TypeOK, StampInv, OneAtATime,
             CoherenceInv
      <4>3. QED
        BY <2>1, <3>2, <4>1, <4>2, KnowsStill
    <3>3. QED
      BY <3>1, <3>2
  <2>3. ASSUME NEW s \in Secrets, trust'[s] # "disturbed"
        PROVE  \/ trust'[s] = "mending"
               \/ \E u \in Tasks :
                    Working(u, s)' /\ pc'[u] \in {"save", "saveFlag", "commit"}
               \/ Describes(s)'
    BY <2>1, <2>3
  <2>4. QED
    BY <2>2, <2>3
<1>8. ASSUME NEW t \in Tasks, WriteCache(t) PROVE CoherenceInv'
  BY <1>8 DEF WriteCache
<1>9. ASSUME NEW t \in Tasks, WriteFails(t) PROVE CoherenceInv'
  BY <1>9 DEF WriteFails
<1>10. ASSUME NEW t \in Tasks, WriteReplyLost(t) PROVE CoherenceInv'
  BY <1>10 DEF WriteReplyLost
<1>11. ASSUME NEW t \in Tasks, Handle(t) PROVE CoherenceInv'
  BY <1>11 DEF Handle, Downgraded, Caches
<1>12. ASSUME NEW t \in Tasks, HandlerCacheDown(t) PROVE CoherenceInv'
  BY <1>12 DEF HandlerCacheDown, Caches
<1>13. ASSUME NEW t \in Tasks, SaveCached(t) PROVE CoherenceInv'
  <2> SUFFICES ASSUME NEW s \in Secrets, trust'[s] # "disturbed"
               PROVE  /\ \A u \in Tasks : Working(u, s)' => Knows(u, s)'
                      /\ \/ trust'[s] = "mending"
                         \/ \E u \in Tasks :
                              /\ Working(u, s)'
                              /\ pc'[u] \in {"save", "saveFlag", "commit"}
                         \/ Describes(s)'
    OBVIOUS
  <2>1. CASE s = target[t]
    <3>1. trust[s] # "disturbed" /\ Knows(t, s)
      BY <1>13, <2>1 DEF SaveCached
    <3>2. \A u \in Tasks : ~Working(u, s)'
      BY <1>13, <2>1, <3>1 DEF SaveCached
    <3>3. redis'[s] = Payload(t) /\ held[t] # 0 /\ s \in live'
      BY <1>13, <2>1, <3>1 DEF SaveCached, VersionInv
    <3>4. row'[s] = inst[t]
      BY <1>13, <2>1 DEF SaveCached, CachedColumns
    <3>5. inst[t].cachePresent /\ inst[t].status = "synced"
      BY <1>13, <3>1 DEF SaveCached
    <3>6. Present(s)' /\ redis'[s].refreshedAt = inst[t].lastRefreshed
      BY <3>3
    <3>7. row'[s].status # "failed"
      BY <3>4, <3>5
    <3>8. Describes(s)'
      BY <3>3, <3>4, <3>5, <3>6, <3>7, Zenon DEF Describes
    <3>9. QED
      BY <3>2, <3>8, Zenon
  <2>2. CASE s # target[t]
    BY <1>13, <2>2 DEF SaveCached, CachedColumns
  <2>3. QED
    BY <2>1, <2>2
<1>14. ASSUME NEW t \in Tasks, SaveUncached(t) PROVE CoherenceInv'
  BY <1>14 DEF SaveUncached, UncachedColumns
<1>15. ASSUME NEW t \in Tasks, SaveFindsNoRow(t) PROVE CoherenceInv'
  BY <1>15 DEF SaveFindsNoRow
<1>16. ASSUME NEW t \in Tasks, SaveFailure(t) PROVE CoherenceInv'
  BY <1>16 DEF SaveFailure, FailureColumns
<1>17. ASSUME NEW t \in Tasks, Purge(t) PROVE CoherenceInv'
  BY <1>17 DEF Purge
<1>18. ASSUME NEW t \in Tasks, PurgeUnflagged(t) PROVE CoherenceInv'
  BY <1>18 DEF PurgeUnflagged
<1>19. ASSUME NEW t \in Tasks, PurgeFails(t) PROVE CoherenceInv'
  BY <1>19 DEF PurgeFails
<1>20. ASSUME NEW t \in Tasks, PurgeReplyLost(t) PROVE CoherenceInv'
  BY <1>20 DEF PurgeReplyLost
<1>21. ASSUME NEW t \in Tasks, SaveFlag(t) PROVE CoherenceInv'
  BY <1>21 DEF SaveFlag
<1>22. ASSUME NEW t \in Tasks, DeleteRow(t) PROVE CoherenceInv'
  BY <1>22 DEF DeleteRow
<1>23. ASSUME NEW t \in Tasks, DeleteRowCacheDown(t) PROVE CoherenceInv'
  BY <1>23 DEF DeleteRowCacheDown
<1>24. ASSUME NEW t \in Tasks, CommitDelete(t) PROVE CoherenceInv'
  BY <1>24 DEF CommitDelete
<1>25. ASSUME NEW t \in Tasks, SaveAll(t) PROVE CoherenceInv'
  BY <1>25 DEF SaveAll
<1>26. ASSUME NEW t \in Tasks, Crash(t) PROVE CoherenceInv'
  BY <1>26 DEF Crash
<1>27. CASE Tick
  BY <1>27 DEF Tick
<1>28. CASE ToggleReadOnly
  BY <1>28 DEF ToggleReadOnly
<1>29. ASSUME NEW s \in Secrets, Rotate(s) PROVE CoherenceInv'
  BY <1>29 DEF Rotate
<1>30. ASSUME NEW s \in Secrets, Flush(s) PROVE CoherenceInv'
  BY <1>30 DEF Flush
<1>31. CASE UNCHANGED vars
  BY <1>31
<1>32. QED
  BY <1>1, <1>2, <1>3, <1>4, <1>5, <1>6, <1>7, <1>8, <1>9, <1>10, <1>11,
     <1>12, <1>13, <1>14, <1>15, <1>16, <1>17, <1>18, <1>19, <1>20, <1>21,
     <1>22, <1>23, <1>24, <1>25, <1>26, <1>27, <1>28, <1>29, <1>30, <1>31
     DEF Next, TaskStep, Environment

-----------------------------------------------------------------------------
(* Versions.                                                                *)

(* No step brings back a version older than one reported. *)
LEMMA VersionStep ==
  ASSUME TypeOK, TypeOK', StampInv, OneAtATime, CoherenceInv, VersionInv, [Next]_vars
  PROVE  VersionInv'
<1> USE DEF OneAtATime, VersionInv, Present, TypeOK, PCs, Entry, NoEntry,
   Payload, Never, Working, Disturb, Settle, Alone, vars, outside, stores,
   locals, history, Goto, Finish
<1>1. ASSUME NEW t \in Tasks, NEW s \in Secrets, NEW o \in OperationKinds,
             Load(t, s, o)
      PROVE VersionInv'
  BY <1>1 DEF Load
<1>2. ASSUME NEW t \in Tasks, Begin(t) PROVE VersionInv'
  BY <1>2 DEF Begin
<1>3. ASSUME NEW t \in Tasks, Fetch(t) PROVE VersionInv'
  BY <1>3 DEF Fetch
<1>4. ASSUME NEW t \in Tasks, Store(t) PROVE VersionInv'
  BY <1>4 DEF Store
<1>5. ASSUME NEW t \in Tasks, RemoteFails(t) PROVE VersionInv'
  BY <1>5 DEF RemoteFails
<1>6. ASSUME NEW t \in Tasks, StoreReplyLost(t) PROVE VersionInv'
  BY <1>6 DEF StoreReplyLost
<1>7. ASSUME NEW t \in Tasks, Stamp(t) PROVE VersionInv'
  BY <1>7 DEF Stamp
<1>8. ASSUME NEW t \in Tasks, WriteCache(t) PROVE VersionInv'
  BY <1>8 DEF WriteCache
<1>9. ASSUME NEW t \in Tasks, WriteFails(t) PROVE VersionInv'
  BY <1>9 DEF WriteFails
<1>10. ASSUME NEW t \in Tasks, WriteReplyLost(t) PROVE VersionInv'
  BY <1>10 DEF WriteReplyLost
<1>11. ASSUME NEW t \in Tasks, Handle(t) PROVE VersionInv'
  BY <1>11 DEF Handle
<1>12. ASSUME NEW t \in Tasks, HandlerCacheDown(t) PROVE VersionInv'
  BY <1>12 DEF HandlerCacheDown
<1>13. ASSUME NEW t \in Tasks, SaveCached(t) PROVE VersionInv'
  BY <1>13 DEF SaveCached, CoherenceInv, Knows
<1>14. ASSUME NEW t \in Tasks, SaveUncached(t) PROVE VersionInv'
  BY <1>14 DEF SaveUncached
<1>15. ASSUME NEW t \in Tasks, SaveFindsNoRow(t) PROVE VersionInv'
  BY <1>15 DEF SaveFindsNoRow
<1>16. ASSUME NEW t \in Tasks, SaveFailure(t) PROVE VersionInv'
  BY <1>16 DEF SaveFailure
<1>17. ASSUME NEW t \in Tasks, Purge(t) PROVE VersionInv'
  BY <1>17 DEF Purge
<1>18. ASSUME NEW t \in Tasks, PurgeUnflagged(t) PROVE VersionInv'
  BY <1>18 DEF PurgeUnflagged
<1>19. ASSUME NEW t \in Tasks, PurgeFails(t) PROVE VersionInv'
  BY <1>19 DEF PurgeFails
<1>20. ASSUME NEW t \in Tasks, PurgeReplyLost(t) PROVE VersionInv'
  BY <1>20 DEF PurgeReplyLost
<1>21. ASSUME NEW t \in Tasks, SaveFlag(t) PROVE VersionInv'
  BY <1>21 DEF SaveFlag, CoherenceInv, Knows
<1>22. ASSUME NEW t \in Tasks, DeleteRow(t) PROVE VersionInv'
  BY <1>22 DEF DeleteRow
<1>23. ASSUME NEW t \in Tasks, DeleteRowCacheDown(t) PROVE VersionInv'
  BY <1>23 DEF DeleteRowCacheDown
<1>24. ASSUME NEW t \in Tasks, CommitDelete(t) PROVE VersionInv'
  BY <1>24 DEF CommitDelete, CoherenceInv, Knows
<1>25. ASSUME NEW t \in Tasks, SaveAll(t) PROVE VersionInv'
  BY <1>25 DEF SaveAll
<1>26. ASSUME NEW t \in Tasks, Crash(t) PROVE VersionInv'
  BY <1>26 DEF Crash
<1>27. CASE Tick
  BY <1>27 DEF Tick
<1>28. CASE ToggleReadOnly
  BY <1>28 DEF ToggleReadOnly
<1>29. ASSUME NEW s \in Secrets, Rotate(s) PROVE VersionInv'
  BY <1>29 DEF Rotate
<1>30. ASSUME NEW s \in Secrets, Flush(s) PROVE VersionInv'
  BY <1>30 DEF Flush
<1>31. CASE UNCHANGED vars
  BY <1>31
<1>32. QED
  BY <1>1, <1>2, <1>3, <1>4, <1>5, <1>6, <1>7, <1>8, <1>9, <1>10, <1>11,
     <1>12, <1>13, <1>14, <1>15, <1>16, <1>17, <1>18, <1>19, <1>20, <1>21,
     <1>22, <1>23, <1>24, <1>25, <1>26, <1>27, <1>28, <1>29, <1>30, <1>31
     DEF Next, TaskStep, Environment

-----------------------------------------------------------------------------
(* The inductive invariant holds in every reachable state.                  *)
THEOREM Invariance == Spec => []Inv
<1>1. Init => Inv
  <2> SUFFICES ASSUME Init PROVE Inv
    OBVIOUS
  <2>1. TypeOK
    BY InitTypeOK
  <2>2. StampInv
    BY DEF Init, StampInv, SyncedOK, Present, NewRow, NoEntry, Never
  <2>3. OneAtATime
    BY DEF Init, OneAtATime, Working
  <2>4. CoherenceInv
    BY DEF Init, CoherenceInv, Working, Describes, Present, NewRow, NoEntry,
           Never
  <2>5. VersionInv
    BY DEF Init, VersionInv, Present, NoEntry, Never
  <2>6. QED
    BY <2>1, <2>2, <2>3, <2>4, <2>5 DEF Inv
<1>2. Inv /\ [Next]_vars => Inv'
  BY TypeStep, StampStep, OneAtATimeStep, CoherenceStep, VersionStep DEF Inv
<1>3. QED
  BY <1>1, <1>2, PTL DEF Spec

(* A row that says synced carries the stamps of one refresh or set.         *)
THEOREM SyncedRows == Spec => []SyncedRowIsOneRefresh
<1>1. Inv => SyncedRowIsOneRefresh
  BY DEF Inv, StampInv, SyncedRowIsOneRefresh
<1>2. QED
  BY <1>1, Invariance, PTL

(* Undisturbed operations leave the row and the cache in agreement.         *)
THEOREM Coherence == Spec => []CoherentWhenQuiet
<1>1. Inv => CoherentWhenQuiet
  BY DEF Inv, TypeOK, CoherenceInv, CoherentWhenQuiet, Quiet
<1>2. QED
  BY <1>1, Invariance, PTL

(* Undisturbed operations never roll the cache back.                        *)
THEOREM NotRolledBack == Spec => []CoherentCacheNotRolledBack
<1>1. Inv => CoherentCacheNotRolledBack
  BY DEF Inv, VersionInv, CoherentCacheNotRolledBack
<1>2. QED
  BY <1>1, Invariance, PTL

(* On an undisturbed secret no step moves last_refreshed back.              *)
LEMMA StampKeptStep ==
  ASSUME Inv, [Next]_vars, NEW s \in Secrets PROVE StampKept(s)
<1> USE DEF Inv, TypeOK, StampKept, Row, vars, stores, history
<1>1. ASSUME NEW t \in Tasks, SaveCached(t) PROVE StampKept(s)
  BY <1>1 DEF SaveCached, CachedColumns, CoherenceInv, Knows, Working, Settle
<1>2. ASSUME NEW t \in Tasks, SaveUncached(t) PROVE StampKept(s)
  BY <1>2 DEF SaveUncached, UncachedColumns, Disturb
<1>3. ASSUME NEW t \in Tasks, SaveFailure(t) PROVE StampKept(s)
  BY <1>3 DEF SaveFailure, FailureColumns
<1>4. ASSUME NEW t \in Tasks, SaveFlag(t) PROVE StampKept(s)
  BY <1>4 DEF SaveFlag
<1>5. ASSUME NEW t \in Tasks, SaveAll(t) PROVE StampKept(s)
  BY <1>5 DEF SaveAll, CoherenceInv, Knows, Working
<1>6. CASE UNCHANGED row
  BY <1>6
<1>7. QED
  BY <1>1, <1>2, <1>3, <1>4, <1>5, <1>6
     DEF Next, TaskStep, Environment, Load, Begin, Fetch, Store, RemoteFails,
         StoreReplyLost, Stamp, WriteCache, WriteFails, WriteReplyLost,
         Handle, HandlerCacheDown, SaveFindsNoRow, Purge, PurgeUnflagged,
         PurgeFails, PurgeReplyLost, DeleteRow, DeleteRowCacheDown,
         CommitDelete, Tick, Rotate, ToggleReadOnly, Flush, Crash

(* last_refreshed of an undisturbed secret never moves back.                *)
THEOREM StampsForward == Spec => StampsMoveForward
<1>1. Inv /\ [Next]_vars => [\A s \in Secrets : StampKept(s)]_vars
  BY StampKeptStep
<1>2. QED
  BY <1>1, Invariance, PTL DEF Spec, StampsMoveForward

-----------------------------------------------------------------------------
(* The refinement of CachedSecret.                                          *)

(* What the parts of CachedSecret mean for one secret here.                 *)
LEMMA SameMeans ==
  ASSUME NEW s \in Secrets,
         upstream'[s] = upstream[s], reported'[s] = reported[s],
         Shown(s)' = Shown(s), Claimed(s)' = Claimed(s), Stage(s)' = Stage(s)
  PROVE  CS!Same(s)
BY DEF CS!Same, CS!SameVersion, CS!SameCache, CS!SameClaim, CS!SameReport

LEMMA PublishMeans ==
  ASSUME NEW s \in Secrets,
         upstream'[s] = upstream[s] + 1, reported'[s] = reported[s],
         Shown(s)' = Shown(s), Claimed(s)' = Claimed(s), Stage(s)' = Stage(s)
  PROVE  CS!Publish(s)
BY DEF CS!Publish, CS!SameCache, CS!SameClaim, CS!SameReport

LEMMA ReplaceMeans ==
  ASSUME NEW s \in Secrets,
         upstream'[s] = upstream[s], reported'[s] = reported[s],
         Claimed(s)' = Claimed(s), Stage(s) = "settled", Stage(s)' = "changed",
         \/ Shown(s)' = NoEntry
         \/ LET e == Shown(s)' IN
            /\ 0 < e.ver /\ e.ver <= upstream[s] /\ reported[s] <= e.ver
            /\ 0 < e.refreshedAt /\ Claimed(s) <= e.refreshedAt
  PROVE  CS!Replace(s)
BY DEF CS!Replace, CS!Fresh, CS!Nothing, NoEntry, Never,
       CS!SameVersion, CS!SameClaim, CS!SameReport

LEMMA ConfirmMeans ==
  ASSUME NEW s \in Secrets,
         upstream'[s] = upstream[s], Stage(s) \in {"changed", "mending"},
         Stage(s) = "changed" => Shown(s)' = Shown(s),
         Stage(s)' = "settled", Claimed(s)' = Shown(s)'.refreshedAt,
         \/ Shown(s)' = NoEntry /\ reported'[s] = reported[s]
         \/ Shown(s)'.ver >= reported[s] /\ reported'[s] = Shown(s)'.ver
  PROVE  CS!Confirm(s)
BY DEF CS!Confirm, CS!Nothing, NoEntry, Never,
       CS!SameVersion, CS!SameCache, CS!SameReport

LEMMA BreakMeans ==
  ASSUME NEW s \in Secrets,
         upstream'[s] = upstream[s], Stage(s)' = "broken",
         reported[s] <= reported'[s], reported'[s] <= upstream[s]
  PROVE  CS!Break(s)
BY DEF CS!Break, CS!SameVersion

LEMMA MendMeans ==
  ASSUME NEW s \in Secrets,
         upstream'[s] = upstream[s], reported'[s] = reported[s],
         Stage(s) \in {"broken", "mending"}, Stage(s)' = "mending",
         Stage(s) = "broken" =>
           Shown(s)' = Shown(s) /\ Claimed(s)' = Claimed(s)
  PROVE  CS!Mend(s)
BY DEF CS!Mend, CS!SameVersion, CS!SameCache, CS!SameClaim, CS!SameReport

(* What CachedSecret sees of a secret depends on its own row, payload and    *)
(* tasks alone.                                                             *)
LEMMA SameView ==
  ASSUME NEW s \in Secrets,
         row'[s] = row[s], redis'[s] = redis[s], s \in live' <=> s \in live,
         trust'[s] = trust[s], Changed(s)' <=> Changed(s)
  PROVE  Shown(s)' = Shown(s) /\ Claimed(s)' = Claimed(s) /\ Stage(s)' = Stage(s)
BY DEF Shown, Present, Claimed, Stage

(* A task touches no secret but its own.                                    *)
LEMMA OtherSecrets ==
  ASSUME TypeOK, NEW t \in Tasks, TaskStep(t) \/ Crash(t),
         NEW s \in Secrets \ {target[t]}
  PROVE  CS!Same(s)
<1> USE DEF TypeOK, TaskStep, Begin, Fetch, Store, RemoteFails, StoreReplyLost,
    Stamp, WriteCache, WriteFails, WriteReplyLost, Handle, HandlerCacheDown,
    SaveCached, SaveUncached, SaveFindsNoRow, SaveFailure, Purge,
    PurgeUnflagged, PurgeFails, PurgeReplyLost, SaveFlag, DeleteRow,
    DeleteRowCacheDown, CommitDelete, SaveAll, Crash, Disturb, Settle, Goto,
    Finish, vars, outside, stores, locals, history
<1>1. upstream'[s] = upstream[s] /\ reported'[s] = reported[s]
  OBVIOUS
<1>2. row'[s] = row[s] /\ redis'[s] = redis[s] /\ trust'[s] = trust[s]
  OBVIOUS
<1>3. s \in live' <=> s \in live
  OBVIOUS
<1>4. target' = target
  OBVIOUS
<1>5. \A u \in Tasks \ {t} : pc'[u] = pc[u] /\ op'[u] = op[u]
  OBVIOUS
<1>6. Changed(s)' <=> Changed(s)
  BY ONLY <1>4, <1>5, s \in Secrets \ {target[t]} DEF Changed, Working, Caches
<1>7. QED
  BY ONLY <1>1, <1>2, <1>3, <1>6, SameView, SameMeans

(* A task that takes a step works on its secret; nobody else moves.         *)
LEMMA OneMoves ==
  ASSUME TypeOK, NEW t \in Tasks, TaskStep(t) \/ Crash(t)
  PROVE  /\ pc[t] # "idle" /\ target' = target
         /\ \A u \in Tasks \ {t} : pc'[u] = pc[u] /\ op'[u] = op[u]
BY DEF TypeOK, TaskStep, Begin, Fetch, Store, RemoteFails, StoreReplyLost,
  Stamp, WriteCache, WriteFails, WriteReplyLost, Handle, HandlerCacheDown,
  SaveCached, SaveUncached, SaveFindsNoRow, SaveFailure, Purge,
  PurgeUnflagged, PurgeFails, PurgeReplyLost, SaveFlag, DeleteRow,
  DeleteRowCacheDown, CommitDelete, SaveAll, Crash, Goto, Finish, locals

(* On an undisturbed secret its task decides what stage it is in.           *)
ChangedBy(t) == \/ pc[t] = "save" /\ Caches(op[t])
                \/ pc[t] \in {"saveFlag", "commit"}
LEMMA OwnStage ==
  ASSUME Inv, NEW t \in Tasks, TaskStep(t) \/ Crash(t),
         NEW s \in Secrets, target[t] = s, trust[s] # "disturbed"
  PROVE  /\ Working(t, s) /\ Knows(t, s) /\ s \in live
         /\ Changed(s) <=> ChangedBy(t)
         /\ Changed(s)' <=> ChangedBy(t)'
         /\ trust[s] = "coherent" =>
              ChangedBy(t) \/ pc[t] = "save" \/ Describes(s)
<1>1. /\ pc[t] # "idle" /\ target' = target
      /\ \A u \in Tasks \ {t} : pc'[u] = pc[u] /\ op'[u] = op[u]
  BY OneMoves DEF Inv
<1>2. Working(t, s)
  BY <1>1 DEF Working
<1>3. \A u \in Tasks \ {t} : ~Working(u, s)
  BY <1>2 DEF Inv, OneAtATime
<1>4. Knows(t, s) /\ s \in live
  BY <1>2 DEF Inv, OneAtATime, CoherenceInv
<1>5. Changed(s) <=> ChangedBy(t)
  BY <1>2, <1>3 DEF Changed, ChangedBy
<1>6. Changed(s)' <=> ChangedBy(t)'
  BY <1>1, <1>3 DEF Changed, ChangedBy, Working
<1>7. trust[s] = "coherent" => ChangedBy(t) \/ pc[t] = "save" \/ Describes(s)
  BY <1>2, <1>3 DEF Inv, CoherenceInv, ChangedBy
<1>8. QED
  BY <1>2, <1>4, <1>5, <1>6, <1>7

(* What is reported never goes back, and only a save reports.               *)
LEMMA Reports ==
  ASSUME TypeOK, NEW t \in Tasks, TaskStep(t) \/ Crash(t),
         NEW s \in Secrets, target[t] = s
  PROVE  /\ reported[s] <= reported'[s]
         /\ SaveCached(t) \/ reported' = reported
<1>1. CASE SaveCached(t)
  BY <1>1 DEF TypeOK, SaveCached
<1>2. CASE ~SaveCached(t)
  <2>1. reported' = reported
    BY <1>2 DEF TaskStep, Begin, Fetch, Store, RemoteFails, StoreReplyLost,
      Stamp, WriteCache, WriteFails, WriteReplyLost, Handle, HandlerCacheDown,
      SaveUncached, SaveFindsNoRow, SaveFailure, Purge, PurgeUnflagged,
      PurgeFails, PurgeReplyLost, SaveFlag, DeleteRow, DeleteRowCacheDown,
      CommitDelete, SaveAll, Crash, history
  <2>2. QED
    BY <2>1 DEF TypeOK
<1>3. QED
  BY <1>1, <1>2

(* Steps on a disturbed secret, and those that disturb it.                  *)
LEMMA BreakStep ==
  ASSUME Inv, Inv', NEW t \in Tasks, TaskStep(t) \/ Crash(t),
         NEW s \in Secrets, target[t] = s,
         upstream'[s] = upstream[s], trust'[s] = "disturbed"
  PROVE  CS!Break(s)
<1>1. Stage(s)' = "broken"
  BY DEF Stage
<1>2. reported'[s] <= upstream[s]
  BY DEF Inv, VersionInv
<1>3. QED
  BY <1>1, <1>2, Reports, BreakMeans DEF Inv

(* Steps that leave a secret mending.                                       *)
LEMMA MendStep ==
  ASSUME Inv, NEW t \in Tasks, TaskStep(t) \/ Crash(t),
         NEW s \in Secrets, target[t] = s,
         upstream'[s] = upstream[s],
         trust[s] = "mending", trust'[s] = "mending"
  PROVE  CS!Mend(s)
<1>1. Stage(s) = "mending" /\ Stage(s)' = "mending"
  BY DEF Stage
<1>2. ~SaveCached(t)
  BY DEF Inv, TypeOK, SaveCached, Settle
<1>3. reported' = reported
  BY <1>2, Reports DEF Inv
<1>4. QED
  BY <1>1, <1>3, MendMeans

(* A new version, written by the plugin.                                    *)
LEMMA StoreStep ==
  ASSUME Inv, NEW t \in Tasks, Store(t) \/ StoreReplyLost(t),
         NEW s \in Secrets, target[t] = s
  PROVE  CS!Publish(s)
<1>1. upstream'[s] = upstream[s] + 1
  BY DEF Inv, TypeOK, Store, StoreReplyLost
<1>2. UNCHANGED <<stores, history, op, target>>
  BY DEF Store, StoreReplyLost
<1>3. Changed(s)' <=> Changed(s)
  BY <1>2 DEF Inv, TypeOK, Store, StoreReplyLost, Goto, Changed, Working
<1>4. QED
  BY <1>1, <1>2, <1>3, SameView, PublishMeans DEF stores, history

(* The cache of a coherent secret changes.                                  *)
LEMMA ReplaceStep ==
  ASSUME Inv, Inv', NEW t \in Tasks, NEW s \in Secrets, target[t] = s,
         WriteCache(t) \/ Purge(t) \/ DeleteRow(t), trust[s] = "coherent"
  PROVE  CS!Replace(s)
<1>1. TaskStep(t)
  BY DEF TaskStep
<1>2. UNCHANGED <<live, row, upstream, trust, reported>>
  BY DEF WriteCache, Purge, DeleteRow, outside, history
<1>3. ~ChangedBy(t)
  BY DEF WriteCache, Purge, DeleteRow, ChangedBy
<1>4. ChangedBy(t)'
  <2>1. Knows(t, s)
    BY <1>1, OwnStage
  <2>2. QED
    BY <2>1 DEF Inv, TypeOK, WriteCache, Purge, DeleteRow, Goto, ChangedBy, Knows
<1>5. Stage(s) = "settled" /\ Stage(s)' = "changed"
  BY <1>1, <1>2, <1>3, <1>4, OwnStage DEF Stage
<1>6. Claimed(s)' = Claimed(s)
  BY <1>2 DEF Claimed
<1>7. CASE WriteCache(t)
  <2>1. /\ redis'[s] = Payload(t) /\ pc[t] = "write"
        /\ 0 < held[t] /\ held[t] <= upstream[s]
        /\ inst[t].lastRefreshed > 0
    BY <1>7 DEF WriteCache, Inv, TypeOK, VersionInv, StampInv, SyncedOK, Never, Row
  <2>2. Shown(s)' = Payload(t)
    BY <2>1 DEF Shown, Present, Payload
  <2>3. reported[s] <= held[t] /\ Claimed(s) <= inst[t].lastRefreshed
    BY <1>1, <2>1, OwnStage DEF Inv, TypeOK, Row, VersionInv, Knows, Claimed, Never
  <2>4. QED
    BY <1>2, <1>5, <1>6, <2>1, <2>2, <2>3, ReplaceMeans DEF Payload
<1>8. CASE Purge(t) \/ DeleteRow(t)
  <2>1. Shown(s)' = NoEntry
    BY <1>8 DEF Inv, TypeOK, Purge, DeleteRow, Shown, Present, NoEntry
  <2>2. QED
    BY <1>2, <1>5, <1>6, <2>1, ReplaceMeans
<1>9. QED
  BY <1>7, <1>8

(* The row follows, or a mending operation ends.                            *)
LEMMA ConfirmStep ==
  ASSUME Inv, Inv', NEW t \in Tasks, NEW s \in Secrets, target[t] = s,
         SaveCached(t) \/ SaveFlag(t) \/ CommitDelete(t),
         trust[s] # "disturbed"
  PROVE  CS!Confirm(s)
<1>1. TaskStep(t)
  BY DEF TaskStep
<1>2. UNCHANGED <<upstream, redis>>
  BY DEF SaveCached, SaveFlag, CommitDelete, outside
<1>3. trust[s] \in {"coherent", "mending"} /\ trust'[s] = "coherent"
  BY DEF Inv, TypeOK, SaveCached, SaveFlag, CommitDelete, Settle
<1>4. ChangedBy(t) /\ ~ChangedBy(t)'
  BY DEF Inv, TypeOK, SaveCached, SaveFlag, CommitDelete, Finish, Goto,
         ChangedBy
<1>5. Stage(s) \in {"changed", "mending"} /\ Stage(s)' = "settled"
  BY <1>1, <1>3, <1>4, OwnStage DEF Stage
<1>6. Shown(s)' = Shown(s)
  BY <1>2 DEF Shown, Present
<1>7. Knows(t, s) /\ s \in live
  BY <1>1, OwnStage
<1>8. CASE SaveCached(t)
  <2>1. /\ redis[s] = Payload(t) /\ inst[t].cachePresent
        /\ 1 <= held[t] /\ reported[s] <= held[t] /\ held[t] \in Nat
    BY <1>7, <1>8 DEF SaveCached, Knows, Inv, TypeOK, VersionInv
  <2>2. Shown(s)' = Payload(t)
    BY <1>6, <2>1 DEF Shown, Present, Payload
  <2>3. Claimed(s)' = inst[t].lastRefreshed
    BY <1>8, <2>1 DEF SaveCached, CachedColumns, Inv, TypeOK, Claimed
  <2>4. reported'[s] = held[t]
    BY <1>8, <2>1 DEF SaveCached, Inv, TypeOK
  <2>5. /\ upstream'[s] = upstream[s]
        /\ Claimed(s)' = Shown(s)'.refreshedAt
        /\ Shown(s)'.ver >= reported[s] /\ reported'[s] = Shown(s)'.ver
    BY <1>2, <2>1, <2>2, <2>3, <2>4 DEF Payload
  <2>6. QED
    BY <1>5, <1>6, <2>5, ConfirmMeans
<1>9. CASE SaveFlag(t) \/ CommitDelete(t)
  <2>1. Shown(s)' = NoEntry
    BY <1>6, <1>7, <1>9 DEF SaveFlag, CommitDelete, Knows, Shown
  <2>2. Claimed(s)' = Never
    BY <1>7, <1>9 DEF SaveFlag, CommitDelete, Knows, Claimed, Inv, TypeOK, Row
  <2>3. reported' = reported
    BY <1>9 DEF SaveFlag, CommitDelete
  <2>4. /\ upstream'[s] = upstream[s] /\ reported'[s] = reported[s]
        /\ Claimed(s)' = Shown(s)'.refreshedAt
    BY <1>2, <2>1, <2>2, <2>3 DEF NoEntry
  <2>5. QED
    BY <1>5, <1>6, <2>1, <2>4, ConfirmMeans
<1>10. QED
  BY <1>8, <1>9

(* A clear of a secret whose row says that nothing is cached.               *)
LEMMA UnflaggedStep ==
  ASSUME Inv, NEW t \in Tasks, NEW s \in Secrets, target[t] = s,
         PurgeUnflagged(t), trust[s] # "disturbed"
  PROVE  CS!Confirm(s) \/ CS!Same(s)
<1>1. TaskStep(t)
  BY DEF TaskStep
<1>2. UNCHANGED <<upstream, reported, live, row>>
  BY DEF PurgeUnflagged, outside
<1>3. trust[s] \in {"coherent", "mending"} /\ trust'[s] = "coherent"
  BY DEF Inv, TypeOK, PurgeUnflagged, Settle
<1>4. ~ChangedBy(t) /\ ~ChangedBy(t)' /\ pc[t] # "save"
  BY DEF Inv, TypeOK, PurgeUnflagged, Finish, Goto, ChangedBy
<1>5. Stage(s) \in {"settled", "mending"} /\ Stage(s)' = "settled"
  BY <1>1, <1>3, <1>4, OwnStage DEF Stage
<1>6. ~row[s].cachePresent
  BY <1>1, OwnStage DEF PurgeUnflagged, Knows
<1>7. Claimed(s) = Never /\ Claimed(s)' = Never
  BY <1>2, <1>6 DEF Claimed
<1>8. Shown(s)' = NoEntry
  BY DEF Inv, TypeOK, PurgeUnflagged, Shown
<1>9. CASE trust[s] = "mending"
  <2>1. Stage(s) = "mending"
    BY <1>9 DEF Stage
  <2>2. QED
    BY <1>2, <1>5, <1>7, <1>8, <2>1, ConfirmMeans DEF NoEntry
<1>10. CASE trust[s] = "coherent"
  <2>1. Shown(s) = NoEntry
    BY <1>1, <1>4, <1>6, <1>10, OwnStage DEF Describes, Shown
  <2>2. Stage(s) = "settled"
    BY <1>5, <1>10 DEF Stage
  <2>3. QED
    BY <1>2, <1>5, <1>7, <1>8, <2>1, <2>2, SameMeans
<1>11. QED
  BY <1>3, <1>9, <1>10

(* Everything else that an undisturbed task does is not seen.               *)
LEMMA UnseenStep ==
  ASSUME Inv, NEW t \in Tasks, NEW s \in Secrets, target[t] = s,
         \/ Begin(t) \/ Fetch(t) \/ RemoteFails(t) \/ Stamp(t)
         \/ WriteFails(t) \/ Handle(t) \/ HandlerCacheDown(t)
         \/ SaveFailure(t) \/ PurgeFails(t) \/ SaveAll(t),
         trust[s] = "coherent"
  PROVE  CS!Same(s)
<1>1. TaskStep(t)
  BY DEF TaskStep
<1>2. ~ChangedBy(t) /\ ~ChangedBy(t)' /\ pc[t] # "save"
  BY DEF Inv, TypeOK, Begin, Fetch, RemoteFails, Stamp, WriteFails, Handle,
    HandlerCacheDown, SaveFailure, PurgeFails, SaveAll, Finish, Goto,
    ChangedBy
<1>3. UNCHANGED <<upstream, redis, reported, trust>>
  BY DEF Begin, Fetch, RemoteFails, Stamp, WriteFails, Handle,
    HandlerCacheDown, SaveFailure, PurgeFails, SaveAll, outside, stores,
    history
<1>4. /\ Stage(s)' = Stage(s)
      /\ Shown(s)' = Shown(s)
  BY <1>1, <1>2, <1>3, OwnStage DEF Stage, Shown, Present
<1>5. Knows(t, s) /\ s \in live /\ Describes(s)
  BY <1>1, <1>2, OwnStage
<1>6. CASE UNCHANGED <<live, row>>
  <2>1. Claimed(s)' = Claimed(s)
    BY <1>6 DEF Claimed
  <2>2. QED
    BY <1>3, <1>4, <2>1, SameMeans
<1>7. CASE SaveFailure(t)
  <2>1. inst[t].cachePresent <=> row[s].cachePresent
    BY <1>5, <1>7 DEF SaveFailure, Knows, Describes
  <2>2. Claimed(s)' = Claimed(s)
    BY <1>5, <1>7, <2>1
       DEF SaveFailure, FailureColumns, Claimed, Inv, TypeOK, Row
  <2>3. QED
    BY <1>3, <1>4, <2>2, SameMeans
<1>8. CASE SaveAll(t)
  <2>1. row'[s] = row[s] /\ s \in live'
    BY <1>5, <1>8 DEF SaveAll, Knows, Inv, TypeOK
  <2>2. Claimed(s)' = Claimed(s)
    BY <1>5, <2>1 DEF Claimed
  <2>3. QED
    BY <1>3, <1>4, <2>2, SameMeans
<1>9. QED
  BY <1>6, <1>7, <1>8 DEF Begin, Fetch, RemoteFails, Stamp, WriteFails,
    Handle, HandlerCacheDown, PurgeFails, stores

(* The step of a task, on its own secret.                                   *)
LEMMA OwnSecret ==
  ASSUME Inv, Inv', NEW t \in Tasks, TaskStep(t) \/ Crash(t),
         NEW s \in Secrets, target[t] = s
  PROVE  CS!Change(s) \/ CS!Same(s)
<1> USE DEF CS!Change
<1>1. CASE Store(t) \/ StoreReplyLost(t)
  BY <1>1, StoreStep
<1>2. CASE ~(Store(t) \/ StoreReplyLost(t))
  <2>1. upstream'[s] = upstream[s]
    BY <1>2 DEF TaskStep, Begin, Fetch, RemoteFails, Stamp, WriteCache,
      WriteFails, WriteReplyLost, Handle, HandlerCacheDown, SaveCached,
      SaveUncached, SaveFindsNoRow, SaveFailure, Purge, PurgeUnflagged,
      PurgeFails, PurgeReplyLost, SaveFlag, DeleteRow, DeleteRowCacheDown,
      CommitDelete, SaveAll, Crash, outside
  <2>2. trust[s] \in {"coherent", "mending", "disturbed"}
    BY DEF Inv, TypeOK
  <2>3. CASE trust'[s] = "disturbed"
    BY <2>1, <2>3, BreakStep
  <2>4. CASE SaveCached(t) \/ SaveFlag(t) \/ CommitDelete(t)
    <3>1. CASE trust[s] = "disturbed"
      BY <2>3, <2>4, <3>1
         DEF Inv, TypeOK, SaveCached, SaveFlag, CommitDelete, Settle
    <3>2. QED
      BY <2>4, <3>1, ConfirmStep
  <2>5. CASE PurgeUnflagged(t)
    <3>1. CASE trust[s] = "disturbed"
      BY <2>3, <2>5, <3>1 DEF Inv, TypeOK, PurgeUnflagged, Settle
    <3>2. QED
      BY <2>5, <3>1, UnflaggedStep
  <2>6. CASE WriteReplyLost(t) \/ SaveUncached(t) \/ PurgeReplyLost(t)
               \/ DeleteRowCacheDown(t) \/ Crash(t)
    BY <2>3, <2>6 DEF Inv, TypeOK, WriteReplyLost, SaveUncached,
      PurgeReplyLost, DeleteRowCacheDown, Crash, Disturb
  <2>7. CASE SaveFindsNoRow(t)
    <3>1. trust' = trust /\ s \notin live /\ TaskStep(t)
      BY <2>7 DEF SaveFindsNoRow, history, TaskStep
    <3>2. trust[s] = "disturbed"
      BY <3>1, OwnStage
    <3>3. QED
      BY <2>3, <3>1, <3>2
  <2>8. CASE \/ WriteCache(t) \/ Purge(t) \/ DeleteRow(t)
             \/ Begin(t) \/ Fetch(t) \/ RemoteFails(t) \/ Stamp(t)
             \/ WriteFails(t) \/ Handle(t) \/ HandlerCacheDown(t)
             \/ SaveFailure(t) \/ PurgeFails(t) \/ SaveAll(t)
    <3>1. trust' = trust
      BY <2>8 DEF WriteCache, Purge, DeleteRow, Begin, Fetch, RemoteFails,
        Stamp, WriteFails, Handle, HandlerCacheDown, SaveFailure, PurgeFails,
        SaveAll, history
    <3>2. CASE trust[s] = "coherent"
      BY <2>8, <3>2, ReplaceStep, UnseenStep
    <3>3. CASE trust[s] = "mending"
      BY <2>1, <3>1, <3>3, MendStep
    <3>4. QED
      BY <2>2, <2>3, <3>1, <3>2, <3>3
  <2>9. QED
    BY <1>2, <2>4, <2>5, <2>6, <2>7, <2>8 DEF TaskStep
<1>3. QED
  BY <1>1, <1>2

(* A step that is seen for at most one secret is one of CachedSecret.       *)
LEMMA OneSecret ==
  ASSUME TypeOK, TypeOK', NEW s \in Secrets, CS!Change(s) \/ CS!Same(s),
         \A r \in Secrets \ {s} : CS!Same(r)
  PROVE  CS!Next \/ UNCHANGED CS!vars
<1>1. CASE CS!Change(s)
  BY <1>1 DEF CS!Next
<1>2. CASE CS!Same(s)
  <2>1. \A r \in Secrets : /\ upstream'[r] = upstream[r]
                           /\ Shown(r)' = Shown(r)
                           /\ Claimed(r)' = Claimed(r)
                           /\ reported'[r] = reported[r]
                           /\ Stage(r)' = Stage(r)
    BY <1>2 DEF CS!Same, CS!SameVersion, CS!SameCache, CS!SameClaim,
                CS!SameReport
  <2>2. upstream' = upstream /\ reported' = reported
    BY <2>1 DEF TypeOK
  <2>3. QED
    BY <2>1, <2>2 DEF CS!vars
<1>3. QED
  BY <1>1, <1>2

(* A task loads a row.                                                      *)
LEMMA LoadStep ==
  ASSUME Inv, NEW t \in Tasks, NEW s \in Secrets, NEW o \in OperationKinds,
         Load(t, s, o)
  PROVE  /\ CS!Change(s) \/ CS!Same(s)
         /\ \A r \in Secrets \ {s} : CS!Same(r)
<1>1. UNCHANGED <<upstream, row, redis, live, reported>>
  BY DEF Load, outside, stores
<1>2. /\ pc[t] = "idle" /\ pc'[t] = "loaded" /\ target'[t] = s
      /\ \A u \in Tasks \ {t} :
           pc'[u] = pc[u] /\ op'[u] = op[u] /\ target'[u] = target[u]
  BY DEF Inv, TypeOK, Load, Goto
<1>3. \A r \in Secrets : Changed(r)' <=> Changed(r)
  BY <1>2 DEF Changed, Working, Caches
<1>4. \A r \in Secrets : Shown(r)' = Shown(r) /\ Claimed(r)' = Claimed(r)
  BY <1>1 DEF Shown, Present, Claimed
<1>5. \A r \in Secrets \ {s} : trust'[r] = trust[r]
  BY DEF Inv, TypeOK, Load
<1>6. ASSUME NEW r \in Secrets, trust'[r] = trust[r] PROVE CS!Same(r)
  BY <1>1, <1>3, <1>6, SameView, SameMeans
<1>7. CASE trust'[s] = "disturbed"
  <2>1. Stage(s)' = "broken"
    BY <1>7 DEF Stage
  <2>2. reported[s] <= reported'[s] /\ reported'[s] <= upstream[s]
    BY <1>1 DEF Inv, TypeOK, VersionInv
  <2>3. QED
    BY <1>1, <1>5, <1>6, <2>1, <2>2, BreakMeans DEF CS!Change
<1>8. CASE trust[s] = "disturbed" /\ trust'[s] = "mending"
  <2>1. Stage(s) = "broken" /\ Stage(s)' = "mending"
    BY <1>8 DEF Stage
  <2>2. QED
    BY <1>1, <1>4, <1>5, <1>6, <2>1, MendMeans DEF CS!Change
<1>9. CASE trust'[s] = trust[s]
  BY <1>5, <1>6, <1>9
<1>10. QED
  BY <1>7, <1>8, <1>9 DEF Inv, TypeOK, Load

(* The environment moves.                                                   *)
LEMMA EnvironmentStep ==
  ASSUME Inv, NEW s \in Secrets, Rotate(s) \/ Flush(s)
  PROVE  /\ CS!Change(s)
         /\ \A r \in Secrets \ {s} : CS!Same(r)
<1>1. UNCHANGED <<row, live, reported, pc, op, target>>
  BY DEF Rotate, Flush, stores, locals, history
<1>2. \A r \in Secrets : Changed(r)' <=> Changed(r)
  BY <1>1 DEF Changed, Working, Caches
<1>3. \A r \in Secrets \ {s} : /\ upstream'[r] = upstream[r]
                                /\ redis'[r] = redis[r]
                                /\ trust'[r] = trust[r]
  BY DEF Inv, TypeOK, Rotate, Flush, Disturb, outside, stores, history
<1>4. \A r \in Secrets \ {s} : CS!Same(r)
  BY <1>1, <1>2, <1>3, SameView, SameMeans
<1>5. CASE Rotate(s)
  <2>1. upstream'[s] = upstream[s] + 1 /\ redis' = redis /\ trust' = trust
    BY <1>5 DEF Rotate, Inv, TypeOK, stores, history
  <2>2. QED
    BY <1>1, <1>2, <1>4, <2>1, SameView, PublishMeans DEF CS!Change
<1>6. CASE Flush(s)
  <2>1. upstream' = upstream /\ trust'[s] = "disturbed"
    BY <1>6 DEF Flush, Disturb, Inv, TypeOK, outside
  <2>2. Stage(s)' = "broken"
    BY <2>1 DEF Stage
  <2>3. reported[s] <= reported'[s] /\ reported'[s] <= upstream[s]
    BY <1>1 DEF Inv, TypeOK, VersionInv
  <2>4. QED
    BY <1>4, <2>1, <2>2, <2>3, BreakMeans DEF CS!Change
<1>7. QED
  BY <1>4, <1>5, <1>6

(* Every step is one of CachedSecret.                                       *)
LEMMA RefinementStep ==
  ASSUME Inv, Inv', [Next]_vars
  PROVE  CS!Next \/ UNCHANGED CS!vars
<1> USE DEF Inv
<1>1. ASSUME NEW t \in Tasks, NEW s \in Secrets, NEW o \in OperationKinds,
             Load(t, s, o)
      PROVE CS!Next \/ UNCHANGED CS!vars
  BY <1>1, LoadStep, OneSecret
<1>2. ASSUME NEW t \in Tasks, TaskStep(t) \/ Crash(t)
      PROVE CS!Next \/ UNCHANGED CS!vars
  <2> SUFFICES ASSUME NEW s \in Secrets, target[t] = s
               PROVE  CS!Next \/ UNCHANGED CS!vars
    BY DEF TypeOK
  <2>1. CS!Change(s) \/ CS!Same(s)
    BY <1>2, OwnSecret
  <2>2. \A r \in Secrets \ {s} : CS!Same(r)
    BY <1>2, OtherSecrets
  <2>3. QED
    BY <2>1, <2>2, OneSecret
<1>3. ASSUME NEW s \in Secrets, Rotate(s) \/ Flush(s)
      PROVE CS!Next \/ UNCHANGED CS!vars
  BY <1>3, EnvironmentStep, OneSecret
<1>4. CASE Tick \/ ToggleReadOnly \/ UNCHANGED vars
  <2>1. UNCHANGED <<upstream, stores, locals, history>>
    BY <1>4 DEF Tick, ToggleReadOnly, vars, outside
  <2>2. \A s \in Secrets : Shown(s)' = Shown(s) /\ Claimed(s)' = Claimed(s)
                            /\ Stage(s)' = Stage(s)
    BY <2>1 DEF Shown, Present, Claimed, Stage, Changed, Working, Caches,
                stores, locals, history
  <2>3. QED
    BY <2>1, <2>2 DEF CS!vars, history
<1>5. QED
  BY <1>1, <1>2, <1>3, <1>4 DEF Next, Environment

(* Undisturbed operations are seen to change the cache, then the row, or    *)
(* nothing.                                                                 *)
THEOREM Refinement == Spec => ImplementsCachedSecret
<1>1. Init => CS!Init
  BY DEF Init, CS!Init, CS!Nothing, Shown, Present, Claimed, Stage, Changed,
         Working, NewRow, NoEntry, Never
<1>2. Inv /\ Inv' /\ [Next]_vars => [CS!Next]_(CS!vars)
  BY RefinementStep
<1>3. QED
  BY <1>1, <1>2, Invariance, PTL DEF Spec, ImplementsCachedSecret, CS!Spec

(* A coherent row and its cache are never more than one change apart.       *)
THEOREM OneChange == Spec => []OneChangeApart
<1>1. CS!SettledRowTells => OneChangeApart
  BY DEF CS!SettledRowTells, OneChangeApart, Stage, Shown, NoEntry,
         CS!Nothing, Never, Present
<1>2. QED
  BY <1>1, CS!RowTells, Refinement, PTL DEF ImplementsCachedSecret

-----------------------------------------------------------------------------
(* Operations end: what fairness is not needed for.                         *)

(* Every step of a task brings its operation nearer to the end.             *)
LEMMA OwnStepForward ==
  ASSUME TypeOK, NEW t \in Tasks, TaskStep(t)
  PROVE  target' = target /\ StepsLeft(pc'[t]) < StepsLeft(pc[t])
<1> USE DEF TypeOK, PCs, Goto, Finish, locals, StepsLeft
<1>1. CASE \/ Begin(t) \/ Fetch(t) \/ Store(t) \/ RemoteFails(t)
           \/ StoreReplyLost(t) \/ Stamp(t)
  BY <1>1 DEF Begin, Fetch, Store, RemoteFails, StoreReplyLost, Stamp
<1>2. CASE \/ WriteCache(t) \/ WriteFails(t) \/ WriteReplyLost(t)
           \/ Handle(t) \/ HandlerCacheDown(t)
  BY <1>2 DEF WriteCache, WriteFails, WriteReplyLost, Handle,
     HandlerCacheDown
<1>3. CASE \/ SaveCached(t) \/ SaveUncached(t) \/ SaveFindsNoRow(t)
           \/ SaveFailure(t) \/ SaveFlag(t) \/ SaveAll(t)
  BY <1>3 DEF SaveCached, SaveUncached, SaveFindsNoRow, SaveFailure,
     SaveFlag, SaveAll
<1>4. CASE \/ Purge(t) \/ PurgeUnflagged(t) \/ PurgeFails(t)
           \/ PurgeReplyLost(t)
  BY <1>4 DEF Purge, PurgeUnflagged, PurgeFails, PurgeReplyLost
<1>5. CASE DeleteRow(t) \/ DeleteRowCacheDown(t) \/ CommitDelete(t)
  BY <1>5 DEF DeleteRow, DeleteRowCacheDown, CommitDelete
<1>6. QED
  BY <1>1, <1>2, <1>3, <1>4, <1>5 DEF TaskStep

(* And touches no other task.                                               *)
LEMMA OthersUntouched ==
  ASSUME TypeOK, NEW u \in Tasks, TaskStep(u), NEW t \in Tasks \ {u}
  PROVE  target' = target /\ Untouched(t)
<1> USE DEF TypeOK, Goto, Finish, locals, Untouched
<1>1. CASE \/ Begin(u) \/ Fetch(u) \/ Store(u) \/ RemoteFails(u)
           \/ StoreReplyLost(u) \/ Stamp(u)
  BY <1>1 DEF Begin, Fetch, Store, RemoteFails, StoreReplyLost, Stamp
<1>2. CASE \/ WriteCache(u) \/ WriteFails(u) \/ WriteReplyLost(u)
           \/ Handle(u) \/ HandlerCacheDown(u)
  BY <1>2 DEF WriteCache, WriteFails, WriteReplyLost, Handle,
     HandlerCacheDown
<1>3. CASE \/ SaveCached(u) \/ SaveUncached(u) \/ SaveFindsNoRow(u)
           \/ SaveFailure(u) \/ SaveFlag(u) \/ SaveAll(u)
  BY <1>3 DEF SaveCached, SaveUncached, SaveFindsNoRow, SaveFailure,
     SaveFlag, SaveAll
<1>4. CASE \/ Purge(u) \/ PurgeUnflagged(u) \/ PurgeFails(u)
           \/ PurgeReplyLost(u)
  BY <1>4 DEF Purge, PurgeUnflagged, PurgeFails, PurgeReplyLost
<1>5. CASE DeleteRow(u) \/ DeleteRowCacheDown(u) \/ CommitDelete(u)
  BY <1>5 DEF DeleteRow, DeleteRowCacheDown, CommitDelete
<1>6. QED
  BY <1>1, <1>2, <1>3, <1>4, <1>5 DEF TaskStep

(* An operation makes at most six steps, none of them back, and no step of  *)
(* anybody else touches it, for any number of tasks and failures.           *)
THEOREM Forward == Spec => OperationsGoForward
<1>1. ASSUME TypeOK, [Next]_vars, NEW t \in Tasks, pc[t] # "idle"
      PROVE  GoesForward(t)
  <2>1. CASE TaskStep(t)
    BY <1>1, <2>1, OwnStepForward DEF GoesForward
  <2>2. ASSUME ~TaskStep(t), NEW u \in Tasks, TaskStep(u)
        PROVE  GoesForward(t)
    BY <1>1, <2>2, OthersUntouched DEF GoesForward
  <2>3. ASSUME ~TaskStep(t), NEW u \in Tasks, NEW s \in Secrets,
               NEW o \in OperationKinds, Load(u, s, o)
        PROVE  GoesForward(t)
    BY <1>1, <2>3 DEF TypeOK, Load, Goto, GoesForward, Untouched
  <2>4. ASSUME ~TaskStep(t), NEW u \in Tasks, Crash(u)
        PROVE  GoesForward(t)
    <3>1. CASE u = t
      BY <1>1, <2>4, <3>1
      DEF TypeOK, PCs, Crash, Finish, Goto, GoesForward, StepsLeft
    <3>2. CASE u # t
      BY <1>1, <2>4, <3>2
      DEF TypeOK, Crash, Finish, Goto, GoesForward, Untouched
    <3>3. QED
      BY <3>1, <3>2
  <2>5. ASSUME ~TaskStep(t), UNCHANGED locals PROVE GoesForward(t)
    BY <2>5 DEF locals, GoesForward, Untouched
  <2>6. \/ UNCHANGED locals
        \/ \E u \in Tasks : TaskStep(u) \/ Crash(u)
        \/ \E u \in Tasks, s \in Secrets, o \in OperationKinds :
             Load(u, s, o)
    BY <1>1 DEF Next, Environment, Tick, ToggleReadOnly, Rotate, Flush, vars
  <2>7. QED
    BY <2>1, <2>2, <2>3, <2>4, <2>5, <2>6
<1>2. TypeOK /\ [Next]_vars =>
        [\A t \in Tasks : pc[t] # "idle" => GoesForward(t)]_vars
  BY <1>1
<1>3. QED
  BY <1>2, Typing, PTL DEF Spec, OperationsGoForward

(* What the run UncachedSetHidesAge refutes holds of a coherent secret: not *)
(* due means that the cached value is younger than the interval.            *)
THEOREM FreshWhenCoherent ==
  Spec => [](\A s \in live :
               /\ trust[s] = "coherent" /\ Quiet(s) /\ Present(s)
               /\ ~RefreshDue(s)
               => now < redis[s].refreshedAt + Interval)
<1>1. TypeOK /\ CoherentWhenQuiet =>
        \A s \in live :
          /\ trust[s] = "coherent" /\ Quiet(s) /\ Present(s)
          /\ ~RefreshDue(s)
          => now < redis[s].refreshedAt + Interval
  BY Columns, BoundsAssumption
  DEF TypeOK, CoherentWhenQuiet, Describes, RefreshDue
<1>2. QED
  BY <1>1, Typing, Coherence, PTL
=============================================================================
