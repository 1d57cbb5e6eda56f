------------------------- MODULE SecretReads_proofs -------------------------
(* Proofs about SecretReads, for any threads, processes and secrets and any *)
(* number of writes.                                                        *)
EXTENDS SecretReads, TLAPS

(* The steps of the cache keep the types of its variables.                  *)
LEMMA CacheTypes ==
  ASSUME CacheOK
  PROVE  /\ \A t \in Threads, s \in Secrets, l \in PCs :
              Cache!Begin(t, s, l) => CacheOK'
         /\ \A t \in Threads, l \in PCs : \A from :
              Cache!Leave(t, from, l) => CacheOK'
         /\ \A t \in Threads, l \in PCs :
              Cache!Invalidate(t, l) \/ Cache!WriteReplyLost(t, l) => CacheOK'
         /\ \A t \in Threads :
              Cache!Hit(t) \/ Cache!Miss(t) \/ Cache!GetPayload(t)
                \/ Cache!Insert(t) \/ Cache!Write(t) => CacheOK'
         /\ (\E p \in Processes : Cache!Forget(p)) \/ Cache!Flush => CacheOK'
<1> USE HomeAssumption DEF CacheOK, PCs, Cache!Goto, Cache!Drop
<1>1. ASSUME NEW t \in Threads, NEW s \in Secrets, NEW l \in PCs,
             Cache!Begin(t, s, l)
      PROVE  CacheOK'
  BY <1>1 DEF Cache!Begin
<1>2. ASSUME NEW t \in Threads, NEW l \in PCs, NEW from,
             Cache!Leave(t, from, l)
      PROVE  CacheOK'
  BY <1>2 DEF Cache!Leave
<1>3. ASSUME NEW t \in Threads, NEW l \in PCs, Cache!Invalidate(t, l)
      PROVE  CacheOK'
  BY <1>3 DEF Cache!Invalidate
<1>4. ASSUME NEW t \in Threads, NEW l \in PCs, Cache!WriteReplyLost(t, l)
      PROVE  CacheOK'
  BY <1>4 DEF Cache!WriteReplyLost, Cache!Apply
<1>5. ASSUME NEW t \in Threads,
             Cache!Hit(t) \/ Cache!Miss(t) \/ Cache!GetPayload(t)
      PROVE  CacheOK'
  <2>1. CASE Cache!Hit(t)
    BY <2>1 DEF Cache!Hit
  <2>2. CASE Cache!Miss(t)
    BY <2>2 DEF Cache!Miss
  <2>3. CASE Cache!GetPayload(t)
    BY <2>3 DEF Cache!GetPayload
  <2>4. QED
    BY <1>5, <2>1, <2>2, <2>3
<1>6. ASSUME NEW t \in Threads, Cache!Insert(t) PROVE CacheOK'
  BY <1>6 DEF Cache!Insert
<1>7. ASSUME NEW t \in Threads, Cache!Write(t) PROVE CacheOK'
  BY <1>7 DEF Cache!Write, Cache!Apply
<1>8. ASSUME NEW p \in Processes, Cache!Forget(p) PROVE CacheOK'
  BY <1>8 DEF Cache!Forget
<1>9. ASSUME Cache!Flush PROVE CacheOK'
  BY <1>9 DEF Cache!Flush
<1>10. QED
  BY <1>1, <1>2, <1>3, <1>4, <1>5, <1>6, <1>7, <1>8, <1>9

(* Every variable keeps its type.                                           *)
LEMMA TypeStep ==
  ASSUME TypeOK, [Next]_vars
  PROVE  TypeOK'
<1> USE CacheTypes DEF TypeOK, CallOK, Goto, Cache!Goto, Raise, Rest, asked,
   Clean, PCs, Calls, Reads, Rows, Errors
<1>1. ASSUME Act PROVE CacheOK' /\ CallOK'
  <2>1. ASSUME NEW t \in Threads, NEW from, NEW l \in PCs, Move(t, from, l)
        PROVE  CacheOK' /\ CallOK'
    BY <2>1 DEF Move, CacheOK
  <2>2. ASSUME NEW t \in Threads, NEW l, NEW e \in Errors, Fail(t, l, e)
        PROVE  CacheOK' /\ CallOK'
    BY <2>2 DEF Fail
  <2>3. ASSUME NEW t \in Threads, NEW s \in Secrets, NEW c \in Calls,
               Ask(t, s, c)
        PROVE  CacheOK' /\ CallOK'
    <3>1. First(c, row[s]) \in PCs /\ row[s] \in Rows
      BY <2>3 DEF Ask, First
    <3>2. QED
      BY <2>3, <3>1 DEF Ask
  <2>4. ASSUME NEW t \in Threads,
               Fetch(t) \/ FetchFails(t) \/ SetFails(t) \/ Handle(t)
                 \/ Record(t) \/ Fallback(t) \/ DelFails(t)
        PROVE  CacheOK' /\ CallOK'
    BY <2>1, <2>2, <2>4
       DEF Fetch, FetchFails, SetFails, Handle, Record, Fallback, DelFails
  <2>5. ASSUME NEW t \in Threads,
               HandleRefused(t) \/ RecordRaises(t) \/ SaveRaises(t)
                 \/ FallbackRaises(t) \/ FallbackRefused(t)
                 \/ GetRaises(t) \/ GetRefused(t)
        PROVE  CacheOK' /\ CallOK'
    BY <2>2, <2>5
       DEF HandleRefused, RecordRaises, SaveRaises, FallbackRaises,
           FallbackRefused, GetRaises, GetRefused
  <2>6. ASSUME NEW t \in Threads, Set(t) \/ Del(t)
        PROVE  CacheOK' /\ CallOK'
    BY <2>6 DEF Set, Del
  <2>7. ASSUME NEW t \in Threads, SetReplyLost(t) \/ DelReplyLost(t)
        PROVE  CacheOK' /\ CallOK'
    BY <2>7 DEF SetReplyLost, DelReplyLost
  <2>8. ASSUME NEW t \in Threads, Invalidate(t)
        PROVE  CacheOK' /\ CallOK'
    BY <2>8 DEF Invalidate, AfterWrite
  <2>9. ASSUME NEW t \in Threads, Save(t) \/ Commit(t)
        PROVE  CacheOK' /\ CallOK'
    BY <2>9, ZenonT(30) DEF Save, Commit, CacheOK
  <2>10. ASSUME NEW t \in Threads,
                Hit(t) \/ Miss(t) \/ GetPayload(t) \/ Insert(t)
         PROVE  CacheOK' /\ CallOK'
    BY <2>10 DEF Hit, Miss, GetPayload, Insert
  <2>11. ASSUME NEW t \in Threads, End(t) PROVE CacheOK' /\ CallOK'
    BY <2>11 DEF End
  <2>12. ASSUME NEW s \in Secrets, Age(s) PROVE CacheOK' /\ CallOK'
    BY <2>12 DEF Age, cacheVars, CacheOK
  <2>13. ASSUME NEW p \in Processes, Forget(p) PROVE CacheOK' /\ CallOK'
    BY <2>13 DEF Forget
  <2>14. ASSUME Flush PROVE CacheOK' /\ CallOK'
    BY <2>14 DEF Flush
  <2>15. ASSUME NEW P \in SUBSET Processes, Restart(P),
                unreadable' \subseteq Secrets
         PROVE  CacheOK' /\ CallOK'
    BY <2>15 DEF Restart, Cache!Restart, CacheOK
  <2>16. ASSUME RestartOne \/ ChangeKey PROVE CacheOK' /\ CallOK'
    BY <2>15, <2>16 DEF RestartOne, ChangeKey
  <2>17. QED
    BY <1>1, <2>3, <2>4, <2>5, <2>6, <2>7, <2>8, <2>9, <2>10, <2>11, <2>12,
       <2>13, <2>14, <2>16 DEF Act, Step
<1>2. ASSUME CacheOK', Remember PROVE HistoryOK'
  BY <1>2 DEF HistoryOK, CacheOK, Remember
<1>3. CASE UNCHANGED vars
  BY <1>3 DEF vars, cacheVars, CacheOK, HistoryOK
<1>4. QED
  BY <1>1, <1>2, <1>3 DEF Next

(* What a step remembers of the call of a thread.                           *)
Recalled(t) ==
  /\ pc'[t] = "idle" => own'[t] = 0 /\ t \notin lacking'
  /\ pc'[t] # "idle" =>
       /\ pc[t] # "set" \/ pc'[t] # "invalidate" => own'[t] = own[t]
       /\ pc[t] = "set" /\ pc'[t] = "invalidate" => own'[t] = seq'
       /\ t \in overtaken => t \in overtaken'
       /\ pc[t] = "invalidate" /\ pc'[t] # "invalidate" /\ Loading(t)
            => t \in overtaken'
       /\ t \in lacking => t \in lacking'
       /\ Missing(key[t])' => t \in lacking'

LEMMA Histories ==
  ASSUME TypeOK, Remember, NEW t \in Threads
  PROVE  Recalled(t)
BY DEF TypeOK, HistoryOK, Remember, Recalled

(* No step lets a tolerant read raise while its payload is there.           *)
LEMMA OutageStep ==
  ASSUME TypeOK, CallInv, OutageTolerated, [Next]_vars
  PROVE  OutageTolerated'
<1>h. ASSUME Remember PROVE \A t \in Threads : Recalled(t)
  BY <1>h, Histories
<1>t. /\ seq \in Nat /\ store \in [Secrets -> Nat]
      /\ local \in [Processes -> [Secrets -> Nat]]
      /\ pc \in [Threads -> PCs] /\ key \in [Threads -> Secrets]
      /\ got \in [Threads -> Nat] /\ call \in [Threads -> Calls]
      /\ inst \in [Threads -> Rows] /\ error \in [Threads -> Errors]
      /\ own \in [Threads -> Nat]
  BY DEF TypeOK, CacheOK, CallOK, HistoryOK
<1> USE <1>h, <1>t, HomeAssumption
   DEF Goto, Cache!Goto, Cache!Drop, Raise, Rest, asked,
   Recalled, PCs, Calls, Reads, Rows, Errors,
   OutageTolerated, CallInv, Missing
<1>1. ASSUME NEW t \in Threads, NEW s \in Secrets, NEW c \in Calls,
             Ask(t, s, c), Remember
      PROVE  OutageTolerated'
  BY <1>1 DEF Ask, First, Cache!Begin
<1>2. ASSUME NEW t \in Threads, Fetch(t), Remember PROVE OutageTolerated'
  BY <1>2 DEF Fetch, Move
<1>3. ASSUME NEW t \in Threads, FetchFails(t), Remember
       PROVE OutageTolerated'
  BY <1>3 DEF FetchFails, Move
<1>4. ASSUME NEW t \in Threads, Set(t), Remember PROVE OutageTolerated'
  BY <1>4 DEF Set, Cache!Write, Cache!Apply
<1>5. ASSUME NEW t \in Threads, SetReplyLost(t), Remember
       PROVE OutageTolerated'
  BY <1>5 DEF SetReplyLost, Cache!WriteReplyLost, Cache!Apply
<1>6. ASSUME NEW t \in Threads, SetFails(t), Remember PROVE OutageTolerated'
  BY <1>6 DEF SetFails, Move
<1>7. ASSUME NEW t \in Threads, Invalidate(t), Remember
       PROVE OutageTolerated'
  BY <1>7 DEF Invalidate, AfterWrite, Cache!Invalidate
<1>8. ASSUME NEW t \in Threads, Handle(t), Remember PROVE OutageTolerated'
  BY <1>8 DEF Handle, Move
<1>9. ASSUME NEW t \in Threads, HandleRefused(t), Remember
       PROVE OutageTolerated'
  BY <1>9 DEF HandleRefused, Fail, Cache!Leave
<1>10. ASSUME NEW t \in Threads, Record(t), Remember PROVE OutageTolerated'
  BY <1>10 DEF Record, Move
<1>11. ASSUME NEW t \in Threads, RecordRaises(t), Remember
       PROVE OutageTolerated'
  <2>1. CASE Fail(t, "record", "database")
    BY <1>11, <2>1 DEF Fail, Cache!Leave
  <2>2. CASE call[t] = "refresh" /\ Fail(t, "record", "refresh")
    BY <1>11, <2>2 DEF Fail, Cache!Leave
  <2>3. QED
    BY <1>11, <2>1, <2>2 DEF RecordRaises
<1>12. ASSUME NEW t \in Threads, Save(t), Remember PROVE OutageTolerated'
  BY <1>12 DEF Save, Cache!Leave
<1>13. ASSUME NEW t \in Threads, SaveRaises(t), Remember
       PROVE OutageTolerated'
  BY <1>13 DEF SaveRaises, Fail, Cache!Leave
<1>14. ASSUME NEW t \in Threads, Fallback(t), Remember PROVE OutageTolerated'
  BY <1>14 DEF Fallback, Tolerates, Move
<1>15. ASSUME NEW t \in Threads, FallbackRaises(t), Remember
       PROVE OutageTolerated'
  <2>1. call[t] \in Reads \cup {"refresh"}
    BY <1>15 DEF FallbackRaises, Fail, Cache!Leave
  <2>2. call[t] = "tolerant" => store[key[t]] = 0
    BY <1>15 DEF FallbackRaises, Tolerates
  <2>3. /\ UNCHANGED <<store, key, unreadable, call>>
        /\ pc' = [pc EXCEPT ![t] = "raised"]
        /\ error' = [error EXCEPT ![t] = "refresh"]
    BY <1>15 DEF FallbackRaises, Fail, Cache!Leave
  <2>4. call[t] = "tolerant" => t \in lacking'
    BY <1>15, <2>2, <2>3
  <2>5. QED
    BY <1>15, <2>1, <2>3, <2>4
<1>16. ASSUME NEW t \in Threads, FallbackRefused(t), Remember
       PROVE OutageTolerated'
  BY <1>16 DEF FallbackRefused, Fail, Cache!Leave
<1>17. ASSUME NEW t \in Threads, Hit(t), Remember PROVE OutageTolerated'
  BY <1>17 DEF Hit, Cache!Hit
<1>18. ASSUME NEW t \in Threads, Miss(t), Remember PROVE OutageTolerated'
  BY <1>18 DEF Miss, Cache!Miss
<1>19. ASSUME NEW t \in Threads, GetPayload(t), Remember
       PROVE OutageTolerated'
  BY <1>19 DEF GetPayload, Cache!GetPayload
<1>20. ASSUME NEW t \in Threads, GetRaises(t), Remember PROVE OutageTolerated'
  BY <1>20 DEF GetRaises, Fail, Cache!Leave
<1>21. ASSUME NEW t \in Threads, GetRefused(t), Remember
       PROVE OutageTolerated'
  BY <1>21 DEF GetRefused, Fail, Cache!Leave
<1>22. ASSUME NEW t \in Threads, Insert(t), Remember PROVE OutageTolerated'
  BY <1>22 DEF Insert, Cache!Insert
<1>23. ASSUME NEW t \in Threads, End(t), Remember PROVE OutageTolerated'
  BY <1>23 DEF End, Clean, Cache!Leave
<1>24. ASSUME NEW t \in Threads, Del(t), Remember PROVE OutageTolerated'
  BY <1>24 DEF Del, Cache!Write, Cache!Apply
<1>25. ASSUME NEW t \in Threads, DelReplyLost(t), Remember
       PROVE OutageTolerated'
  BY <1>25 DEF DelReplyLost, Cache!WriteReplyLost, Cache!Apply
<1>26. ASSUME NEW t \in Threads, DelFails(t), Remember PROVE OutageTolerated'
  <2>1. CASE call[t] = "delete" /\ Move(t, "del", "commit")
    BY <1>26, <2>1 DEF Move
  <2>2. CASE call[t] = "clear" /\ Fail(t, "del", "cache")
    BY <1>26, <2>2 DEF Fail, Cache!Leave
  <2>3. QED
    BY <1>26, <2>1, <2>2 DEF DelFails
<1>27. ASSUME NEW t \in Threads, Commit(t), Remember PROVE OutageTolerated'
  BY <1>27 DEF Commit, Cache!Leave
<1>28. ASSUME NEW s \in Secrets, Age(s), Remember PROVE OutageTolerated'
  BY <1>28 DEF Age, cacheVars
<1>29. ASSUME NEW p \in Processes, Forget(p), Remember PROVE OutageTolerated'
  BY <1>29 DEF Forget, Cache!Forget
<1>30. ASSUME Flush, Remember PROVE OutageTolerated'
  BY <1>30 DEF Flush, Cache!Flush
<1>31. ASSUME RestartOne, Remember PROVE OutageTolerated'
  BY <1>31 DEF RestartOne, Restart, Cache!Restart,
     Clean
<1>32. ASSUME ChangeKey, Remember PROVE OutageTolerated'
  BY <1>32 DEF ChangeKey, Restart, Cache!Restart, Clean
<1>33. CASE UNCHANGED vars
  BY <1>33 DEF vars, cacheVars, Missing
<1>34. QED
  BY  <1>1, <1>2, <1>3, <1>4, <1>5, <1>6, <1>7, <1>8, <1>9, <1>10, <1>11,
     <1>12, <1>13, <1>14, <1>15, <1>16, <1>17, <1>18, <1>19, <1>20, <1>21,
     <1>22, <1>23, <1>24, <1>25, <1>26, <1>27, <1>28, <1>29, <1>30, <1>31,
     <1>32, <1>33 DEF Next, Act, Step


(* No step takes a call where it cannot be.                                 *)
LEMMA CallStep ==
  ASSUME TypeOK, CallInv, [Next]_vars
  PROVE  CallInv'
<1>h. ASSUME Remember PROVE \A t \in Threads : Recalled(t)
  BY <1>h, Histories
<1>t. /\ seq \in Nat /\ store \in [Secrets -> Nat]
      /\ local \in [Processes -> [Secrets -> Nat]]
      /\ pc \in [Threads -> PCs] /\ key \in [Threads -> Secrets]
      /\ got \in [Threads -> Nat] /\ call \in [Threads -> Calls]
      /\ inst \in [Threads -> Rows] /\ error \in [Threads -> Errors]
      /\ own \in [Threads -> Nat]
  BY DEF TypeOK, CacheOK, CallOK, HistoryOK
<1> USE <1>h, <1>t, HomeAssumption
   DEF Goto, Cache!Goto, Cache!Drop, Raise, Rest, asked,
   Recalled, PCs, Calls, Reads, Rows, Errors,
   CallInv, Due
<1>1. ASSUME NEW t \in Threads, NEW s \in Secrets, NEW c \in Calls,
             Ask(t, s, c), Remember
      PROVE  CallInv'
  BY <1>1 DEF Ask, First, Cache!Begin
<1>2. ASSUME NEW t \in Threads, Fetch(t), Remember PROVE CallInv'
  BY <1>2 DEF Fetch, Move
<1>3. ASSUME NEW t \in Threads, FetchFails(t), Remember PROVE CallInv'
  BY <1>3 DEF FetchFails, Move
<1>4. ASSUME NEW t \in Threads, Set(t), Remember PROVE CallInv'
  BY <1>4 DEF Set, Cache!Write, Cache!Apply
<1>5. ASSUME NEW t \in Threads, SetReplyLost(t), Remember PROVE CallInv'
  BY <1>5 DEF SetReplyLost, Cache!WriteReplyLost, Cache!Apply
<1>6. ASSUME NEW t \in Threads, SetFails(t), Remember PROVE CallInv'
  BY <1>6 DEF SetFails, Move
<1>7. ASSUME NEW t \in Threads, Invalidate(t), Remember PROVE CallInv'
  <2>1. \/ call[t] = "clear" /\ AfterWrite(t) = "return"
        \/ call[t] = "delete" /\ AfterWrite(t) = "commit"
        \/ call[t] \notin {"clear", "delete"} /\ AfterWrite(t) = "save"
    BY DEF AfterWrite
  <2>1a. call[t] # "plain"
    BY <1>7 DEF Invalidate, Cache!Invalidate
  <2>2. pc[t] = "invalidate" /\ pc' = [pc EXCEPT ![t] = AfterWrite(t)]
    BY <1>7 DEF Invalidate, Cache!Invalidate
  <2>3. UNCHANGED <<call, inst>> /\ own'[t] = own[t]
    BY <1>7, <2>1, <2>2 DEF Invalidate
  <2>4. ASSUME NEW u \in Threads \ {t}
        PROVE  /\ pc'[u] = pc[u]
               /\ own'[u] = own[u] \/ (own'[u] = 0 /\ pc[u] = "idle")
    BY <1>7, <2>2
  <2>5. pc'[t] = AfterWrite(t)
    BY <2>2
  <2>6. call[t] = "strict" /\ Due(inst[t]) => own[t] # 0
    BY <2>2
  <2>7. call[t] \in {"clear", "delete"} => own[t] = 0
    OBVIOUS
  <2>8. ASSUME NEW u \in Threads \ {t}
        PROVE  call'[u] = call[u] /\ inst'[u] = inst[u]
    BY <2>3
  <2>9. call'[t] = call[t] /\ inst'[t] = inst[t] /\ own'[t] = own[t]
    BY <2>3
  <2>10. QED
    BY <2>1, <2>1a, <2>4, <2>5, <2>6, <2>7, <2>8, <2>9
<1>8. ASSUME NEW t \in Threads, Handle(t), Remember PROVE CallInv'
  BY <1>8 DEF Handle, Move
<1>9. ASSUME NEW t \in Threads, HandleRefused(t), Remember PROVE CallInv'
  BY <1>9 DEF HandleRefused, Fail, Cache!Leave
<1>10. ASSUME NEW t \in Threads, Record(t), Remember PROVE CallInv'
  BY <1>10 DEF Record, Move
<1>11. ASSUME NEW t \in Threads, RecordRaises(t), Remember PROVE CallInv'
  <2>1. CASE Fail(t, "record", "database")
    BY <1>11, <2>1 DEF Fail, Cache!Leave
  <2>2. CASE call[t] = "refresh" /\ Fail(t, "record", "refresh")
    BY <1>11, <2>2 DEF Fail, Cache!Leave
  <2>3. QED
    BY <1>11, <2>1, <2>2 DEF RecordRaises
<1>12. ASSUME NEW t \in Threads, Save(t), Remember PROVE CallInv'
  BY <1>12 DEF Save, Cache!Leave
<1>13. ASSUME NEW t \in Threads, SaveRaises(t), Remember PROVE CallInv'
  BY <1>13 DEF SaveRaises, Fail, Cache!Leave
<1>14. ASSUME NEW t \in Threads, Fallback(t), Remember PROVE CallInv'
  BY <1>14 DEF Fallback, Tolerates, Move
<1>15. ASSUME NEW t \in Threads, FallbackRaises(t), Remember PROVE CallInv'
  BY <1>15 DEF FallbackRaises, Tolerates, Fail, Cache!Leave
<1>16. ASSUME NEW t \in Threads, FallbackRefused(t), Remember PROVE CallInv'
  BY <1>16 DEF FallbackRefused, Fail, Cache!Leave
<1>17. ASSUME NEW t \in Threads, Hit(t), Remember PROVE CallInv'
  BY <1>17 DEF Hit, Cache!Hit
<1>18. ASSUME NEW t \in Threads, Miss(t), Remember PROVE CallInv'
  BY <1>18 DEF Miss, Cache!Miss
<1>19. ASSUME NEW t \in Threads, GetPayload(t), Remember PROVE CallInv'
  BY <1>19 DEF GetPayload, Cache!GetPayload
<1>20. ASSUME NEW t \in Threads, GetRaises(t), Remember PROVE CallInv'
  BY <1>20 DEF GetRaises, Fail, Cache!Leave
<1>21. ASSUME NEW t \in Threads, GetRefused(t), Remember PROVE CallInv'
  BY <1>21 DEF GetRefused, Fail, Cache!Leave
<1>22. ASSUME NEW t \in Threads, Insert(t), Remember PROVE CallInv'
  BY <1>22 DEF Insert, Cache!Insert
<1>23. ASSUME NEW t \in Threads, End(t), Remember PROVE CallInv'
  BY <1>23 DEF End, Clean, Cache!Leave
<1>24. ASSUME NEW t \in Threads, Del(t), Remember PROVE CallInv'
  BY <1>24 DEF Del, Cache!Write, Cache!Apply
<1>25. ASSUME NEW t \in Threads, DelReplyLost(t), Remember PROVE CallInv'
  BY <1>25 DEF DelReplyLost, Cache!WriteReplyLost, Cache!Apply
<1>26. ASSUME NEW t \in Threads, DelFails(t), Remember PROVE CallInv'
  <2>1. CASE call[t] = "delete" /\ Move(t, "del", "commit")
    BY <1>26, <2>1 DEF Move
  <2>2. CASE call[t] = "clear" /\ Fail(t, "del", "cache")
    BY <1>26, <2>2 DEF Fail, Cache!Leave
  <2>3. QED
    BY <1>26, <2>1, <2>2 DEF DelFails
<1>27. ASSUME NEW t \in Threads, Commit(t), Remember PROVE CallInv'
  BY <1>27 DEF Commit, Cache!Leave
<1>28. ASSUME NEW s \in Secrets, Age(s), Remember PROVE CallInv'
  BY <1>28 DEF Age, cacheVars
<1>29. ASSUME NEW p \in Processes, Forget(p), Remember PROVE CallInv'
  BY <1>29 DEF Forget, Cache!Forget
<1>30. ASSUME Flush, Remember PROVE CallInv'
  BY <1>30 DEF Flush, Cache!Flush
<1>31. ASSUME RestartOne, Remember PROVE CallInv'
  BY <1>31 DEF RestartOne, Restart, Cache!Restart,
     Clean
<1>32. ASSUME ChangeKey, Remember PROVE CallInv'
  BY <1>32 DEF ChangeKey, Restart, Cache!Restart, Clean
<1>33. CASE UNCHANGED vars
  BY <1>33 DEF vars, cacheVars, Missing
<1>34. QED
  BY  <1>1, <1>2, <1>3, <1>4, <1>5, <1>6, <1>7, <1>8, <1>9, <1>10, <1>11,
     <1>12, <1>13, <1>14, <1>15, <1>16, <1>17, <1>18, <1>19, <1>20, <1>21,
     <1>22, <1>23, <1>24, <1>25, <1>26, <1>27, <1>28, <1>29, <1>30, <1>31,
     <1>32, <1>33 DEF Next, Act, Step


(* Redis never goes back behind a call's own SET.                           *)
LEMMA OwnStep ==
  ASSUME TypeOK, CallInv, OwnInv, [Next]_vars
  PROVE  OwnInv'
<1>h. ASSUME Remember PROVE \A t \in Threads : Recalled(t)
  BY <1>h, Histories
<1>t. /\ seq \in Nat /\ store \in [Secrets -> Nat]
      /\ local \in [Processes -> [Secrets -> Nat]]
      /\ pc \in [Threads -> PCs] /\ key \in [Threads -> Secrets]
      /\ got \in [Threads -> Nat] /\ call \in [Threads -> Calls]
      /\ inst \in [Threads -> Rows] /\ error \in [Threads -> Errors]
      /\ own \in [Threads -> Nat]
  BY DEF TypeOK, CacheOK, CallOK, HistoryOK
<1> USE <1>h, <1>t, HomeAssumption
   DEF Goto, Cache!Goto, Cache!Drop, Raise, Rest, asked,
   Recalled, PCs, Calls, Reads, Rows, Errors,
   OwnInv, CallInv
<1>1. ASSUME NEW t \in Threads, NEW s \in Secrets, NEW c \in Calls,
             Ask(t, s, c), Remember
      PROVE  OwnInv'
  BY <1>1 DEF Ask, First, Cache!Begin
<1>2. ASSUME NEW t \in Threads, Fetch(t), Remember PROVE OwnInv'
  BY <1>2 DEF Fetch, Move
<1>3. ASSUME NEW t \in Threads, FetchFails(t), Remember PROVE OwnInv'
  BY <1>3 DEF FetchFails, Move
<1>4. ASSUME NEW t \in Threads, Set(t), Remember PROVE OwnInv'
  BY <1>4 DEF Set, Cache!Write, Cache!Apply
<1>5. ASSUME NEW t \in Threads, SetReplyLost(t), Remember PROVE OwnInv'
  BY <1>5 DEF SetReplyLost, Cache!WriteReplyLost, Cache!Apply
<1>6. ASSUME NEW t \in Threads, SetFails(t), Remember PROVE OwnInv'
  BY <1>6 DEF SetFails, Move
<1>7. ASSUME NEW t \in Threads, Invalidate(t), Remember PROVE OwnInv'
  BY <1>7 DEF Invalidate, AfterWrite, Cache!Invalidate
<1>8. ASSUME NEW t \in Threads, Handle(t), Remember PROVE OwnInv'
  BY <1>8 DEF Handle, Move
<1>9. ASSUME NEW t \in Threads, HandleRefused(t), Remember PROVE OwnInv'
  BY <1>9 DEF HandleRefused, Fail, Cache!Leave
<1>10. ASSUME NEW t \in Threads, Record(t), Remember PROVE OwnInv'
  BY <1>10 DEF Record, Move
<1>11. ASSUME NEW t \in Threads, RecordRaises(t), Remember PROVE OwnInv'
  <2>1. CASE Fail(t, "record", "database")
    BY <1>11, <2>1 DEF Fail, Cache!Leave
  <2>2. CASE call[t] = "refresh" /\ Fail(t, "record", "refresh")
    BY <1>11, <2>2 DEF Fail, Cache!Leave
  <2>3. QED
    BY <1>11, <2>1, <2>2 DEF RecordRaises
<1>12. ASSUME NEW t \in Threads, Save(t), Remember PROVE OwnInv'
  BY <1>12 DEF Save, Cache!Leave
<1>13. ASSUME NEW t \in Threads, SaveRaises(t), Remember PROVE OwnInv'
  BY <1>13 DEF SaveRaises, Fail, Cache!Leave
<1>14. ASSUME NEW t \in Threads, Fallback(t), Remember PROVE OwnInv'
  BY <1>14 DEF Fallback, Tolerates, Move
<1>15. ASSUME NEW t \in Threads, FallbackRaises(t), Remember PROVE OwnInv'
  BY <1>15 DEF FallbackRaises, Tolerates, Fail, Cache!Leave
<1>16. ASSUME NEW t \in Threads, FallbackRefused(t), Remember PROVE OwnInv'
  BY <1>16 DEF FallbackRefused, Fail, Cache!Leave
<1>17. ASSUME NEW t \in Threads, Hit(t), Remember PROVE OwnInv'
  BY <1>17 DEF Hit, Cache!Hit
<1>18. ASSUME NEW t \in Threads, Miss(t), Remember PROVE OwnInv'
  BY <1>18 DEF Miss, Cache!Miss
<1>19. ASSUME NEW t \in Threads, GetPayload(t), Remember PROVE OwnInv'
  BY <1>19 DEF GetPayload, Cache!GetPayload
<1>20. ASSUME NEW t \in Threads, GetRaises(t), Remember PROVE OwnInv'
  BY <1>20 DEF GetRaises, Fail, Cache!Leave
<1>21. ASSUME NEW t \in Threads, GetRefused(t), Remember PROVE OwnInv'
  BY <1>21 DEF GetRefused, Fail, Cache!Leave
<1>22. ASSUME NEW t \in Threads, Insert(t), Remember PROVE OwnInv'
  BY <1>22 DEF Insert, Cache!Insert
<1>23. ASSUME NEW t \in Threads, End(t), Remember PROVE OwnInv'
  BY <1>23 DEF End, Clean, Cache!Leave
<1>24. ASSUME NEW t \in Threads, Del(t), Remember PROVE OwnInv'
  BY <1>24 DEF Del, Cache!Write, Cache!Apply
<1>25. ASSUME NEW t \in Threads, DelReplyLost(t), Remember PROVE OwnInv'
  BY <1>25, SMTT(30) DEF DelReplyLost, Cache!WriteReplyLost, Cache!Apply
<1>26. ASSUME NEW t \in Threads, DelFails(t), Remember PROVE OwnInv'
  <2>1. CASE call[t] = "delete" /\ Move(t, "del", "commit")
    BY <1>26, <2>1 DEF Move
  <2>2. CASE call[t] = "clear" /\ Fail(t, "del", "cache")
    BY <1>26, <2>2 DEF Fail, Cache!Leave
  <2>3. QED
    BY <1>26, <2>1, <2>2 DEF DelFails
<1>27. ASSUME NEW t \in Threads, Commit(t), Remember PROVE OwnInv'
  BY <1>27 DEF Commit, Cache!Leave
<1>28. ASSUME NEW s \in Secrets, Age(s), Remember PROVE OwnInv'
  BY <1>28 DEF Age, cacheVars
<1>29. ASSUME NEW p \in Processes, Forget(p), Remember PROVE OwnInv'
  BY <1>29 DEF Forget, Cache!Forget
<1>30. ASSUME Flush, Remember PROVE OwnInv'
  BY <1>30 DEF Flush, Cache!Flush
<1>31. ASSUME RestartOne, Remember PROVE OwnInv'
  BY <1>31 DEF RestartOne, Restart, Cache!Restart,
     Clean
<1>32. ASSUME ChangeKey, Remember PROVE OwnInv'
  BY <1>32 DEF ChangeKey, Restart, Cache!Restart, Clean
<1>33. CASE UNCHANGED vars
  BY <1>33 DEF vars, cacheVars, Missing
<1>34. QED
  BY  <1>1, <1>2, <1>3, <1>4, <1>5, <1>6, <1>7, <1>8, <1>9, <1>10, <1>11,
     <1>12, <1>13, <1>14, <1>15, <1>16, <1>17, <1>18, <1>19, <1>20, <1>21,
     <1>22, <1>23, <1>24, <1>25, <1>26, <1>27, <1>28, <1>29, <1>30, <1>31,
     <1>32, <1>33 DEF Next, Act, Step


(* Nor does the memory of its process, once it has been emptied.            *)
LEMMA ServedStep ==
  ASSUME TypeOK, CallInv, OwnInv, ServedInv, [Next]_vars
  PROVE  ServedInv'
<1>h. ASSUME Remember PROVE \A t \in Threads : Recalled(t)
  BY <1>h, Histories
<1>t. /\ seq \in Nat /\ store \in [Secrets -> Nat]
      /\ local \in [Processes -> [Secrets -> Nat]]
      /\ pc \in [Threads -> PCs] /\ key \in [Threads -> Secrets]
      /\ got \in [Threads -> Nat] /\ call \in [Threads -> Calls]
      /\ inst \in [Threads -> Rows] /\ error \in [Threads -> Errors]
      /\ own \in [Threads -> Nat]
  BY DEF TypeOK, CacheOK, CallOK, HistoryOK
<1> USE <1>h, <1>t, HomeAssumption
   DEF Goto, Cache!Goto, Cache!Drop, Raise, Rest, asked,
   Recalled, PCs, Calls, Reads, Rows, Errors,
   ServedInv, CallInv, OwnInv, Loading
<1>1. ASSUME NEW t \in Threads, NEW s \in Secrets, NEW c \in Calls,
             Ask(t, s, c), Remember
      PROVE  ServedInv'
  BY <1>1 DEF Ask, First, Cache!Begin
<1>2. ASSUME NEW t \in Threads, Fetch(t), Remember PROVE ServedInv'
  BY <1>2 DEF Fetch, Move
<1>3. ASSUME NEW t \in Threads, FetchFails(t), Remember PROVE ServedInv'
  BY <1>3 DEF FetchFails, Move
<1>4. ASSUME NEW t \in Threads, Set(t), Remember PROVE ServedInv'
  BY <1>4 DEF Set, Cache!Write, Cache!Apply
<1>5. ASSUME NEW t \in Threads, SetReplyLost(t), Remember PROVE ServedInv'
  BY <1>5 DEF SetReplyLost, Cache!WriteReplyLost, Cache!Apply
<1>6. ASSUME NEW t \in Threads, SetFails(t), Remember PROVE ServedInv'
  BY <1>6 DEF SetFails, Move
<1>7. ASSUME NEW t \in Threads, Invalidate(t), Remember PROVE ServedInv'
  BY <1>7 DEF Invalidate, AfterWrite, Cache!Invalidate
<1>8. ASSUME NEW t \in Threads, Handle(t), Remember PROVE ServedInv'
  BY <1>8 DEF Handle, Move
<1>9. ASSUME NEW t \in Threads, HandleRefused(t), Remember PROVE ServedInv'
  BY <1>9 DEF HandleRefused, Fail, Cache!Leave
<1>10. ASSUME NEW t \in Threads, Record(t), Remember PROVE ServedInv'
  BY <1>10 DEF Record, Move
<1>11. ASSUME NEW t \in Threads, RecordRaises(t), Remember PROVE ServedInv'
  <2>1. CASE Fail(t, "record", "database")
    BY <1>11, <2>1 DEF Fail, Cache!Leave
  <2>2. CASE call[t] = "refresh" /\ Fail(t, "record", "refresh")
    BY <1>11, <2>2 DEF Fail, Cache!Leave
  <2>3. QED
    BY <1>11, <2>1, <2>2 DEF RecordRaises
<1>12. ASSUME NEW t \in Threads, Save(t), Remember PROVE ServedInv'
  BY <1>12 DEF Save, Cache!Leave
<1>13. ASSUME NEW t \in Threads, SaveRaises(t), Remember PROVE ServedInv'
  BY <1>13 DEF SaveRaises, Fail, Cache!Leave
<1>14. ASSUME NEW t \in Threads, Fallback(t), Remember PROVE ServedInv'
  BY <1>14 DEF Fallback, Tolerates, Move
<1>15. ASSUME NEW t \in Threads, FallbackRaises(t), Remember PROVE ServedInv'
  BY <1>15 DEF FallbackRaises, Tolerates, Fail, Cache!Leave
<1>16. ASSUME NEW t \in Threads, FallbackRefused(t), Remember PROVE ServedInv'
  BY <1>16 DEF FallbackRefused, Fail, Cache!Leave
<1>17. ASSUME NEW t \in Threads, Hit(t), Remember PROVE ServedInv'
  BY <1>17 DEF Hit, Cache!Hit
<1>18. ASSUME NEW t \in Threads, Miss(t), Remember PROVE ServedInv'
  BY <1>18 DEF Miss, Cache!Miss
<1>19. ASSUME NEW t \in Threads, GetPayload(t), Remember PROVE ServedInv'
  BY <1>19 DEF GetPayload, Cache!GetPayload
<1>20. ASSUME NEW t \in Threads, GetRaises(t), Remember PROVE ServedInv'
  BY <1>20 DEF GetRaises, Fail, Cache!Leave
<1>21. ASSUME NEW t \in Threads, GetRefused(t), Remember PROVE ServedInv'
  BY <1>21 DEF GetRefused, Fail, Cache!Leave
<1>22. ASSUME NEW t \in Threads, Insert(t), Remember PROVE ServedInv'
  BY <1>22 DEF Insert, Cache!Insert
<1>23. ASSUME NEW t \in Threads, End(t), Remember PROVE ServedInv'
  BY <1>23, SMTT(30) DEF End, Clean, Cache!Leave
<1>24. ASSUME NEW t \in Threads, Del(t), Remember PROVE ServedInv'
  BY <1>24 DEF Del, Cache!Write, Cache!Apply
<1>25. ASSUME NEW t \in Threads, DelReplyLost(t), Remember PROVE ServedInv'
  BY <1>25 DEF DelReplyLost, Cache!WriteReplyLost, Cache!Apply
<1>26. ASSUME NEW t \in Threads, DelFails(t), Remember PROVE ServedInv'
  <2>1. CASE call[t] = "delete" /\ Move(t, "del", "commit")
    BY <1>26, <2>1 DEF Move
  <2>2. CASE call[t] = "clear" /\ Fail(t, "del", "cache")
    BY <1>26, <2>2 DEF Fail, Cache!Leave
  <2>3. QED
    BY <1>26, <2>1, <2>2 DEF DelFails
<1>27. ASSUME NEW t \in Threads, Commit(t), Remember PROVE ServedInv'
  BY <1>27 DEF Commit, Cache!Leave
<1>28. ASSUME NEW s \in Secrets, Age(s), Remember PROVE ServedInv'
  BY <1>28 DEF Age, cacheVars
<1>29. ASSUME NEW p \in Processes, Forget(p), Remember PROVE ServedInv'
  BY <1>29 DEF Forget, Cache!Forget
<1>30. ASSUME Flush, Remember PROVE ServedInv'
  BY <1>30 DEF Flush, Cache!Flush
<1>31. ASSUME RestartOne, Remember PROVE ServedInv'
  <2>1. PICK p \in Processes : Restart({p})
    BY <1>31 DEF RestartOne
  <2>2. \A u \in Threads : pc'[u] # "idle" =>
          /\ Home[u] # p /\ pc'[u] = pc[u]
          /\ got'[u] = got[u] /\ call'[u] = call[u]
    BY <2>1 DEF Restart, Cache!Restart, Clean
  <2>3. \A u \in Threads : pc'[u] # "idle" =>
          own'[u] = own[u] /\ (u \in overtaken => u \in overtaken')
    BY <1>31, <2>2
  <2>4. key' = key /\ \A q \in Processes \ {p} : local'[q] = local[q]
    BY <2>1 DEF Restart, Cache!Restart
  <2>5. SUFFICES ASSUME NEW u \in Threads, own'[u] # 0, u \notin overtaken',
                        pc'[u] \in {"save", "lookup", "get", "insert",
                                    "return"}
                 PROVE  /\ \/ local'[Home[u]][key'[u]] = 0
                           \/ own'[u] <= local'[Home[u]][key'[u]]
                        /\ \A v \in Threads :
                             pc'[v] = "insert" /\ Home[v] = Home[u]
                               /\ key'[v] = key'[u] => own'[u] <= got'[v]
                        /\ pc'[u] = "return" /\ call'[u] \in Reads =>
                             own'[u] <= got'[u]
    OBVIOUS
  <2>6. /\ own[u] = own'[u] /\ u \notin overtaken /\ pc'[u] = pc[u]
        /\ local'[Home[u]] = local[Home[u]] /\ call'[u] = call[u]
        /\ got'[u] = got[u]
    BY <2>2, <2>3, <2>4, <2>5
  <2>7. QED
    BY <2>2, <2>4, <2>5, <2>6
<1>32. ASSUME ChangeKey, Remember PROVE ServedInv'
  BY <1>32 DEF ChangeKey, Restart, Cache!Restart, Clean
<1>33. CASE UNCHANGED vars
  BY <1>33 DEF vars, cacheVars, Missing
<1>34. QED
  BY  <1>1, <1>2, <1>3, <1>4, <1>5, <1>6, <1>7, <1>8, <1>9, <1>10, <1>11,
     <1>12, <1>13, <1>14, <1>15, <1>16, <1>17, <1>18, <1>19, <1>20, <1>21,
     <1>22, <1>23, <1>24, <1>25, <1>26, <1>27, <1>28, <1>29, <1>30, <1>31,
     <1>32, <1>33 DEF Next, Act, Step

-----------------------------------------------------------------------------

(* The inductive invariant holds in every reachable state.                  *)
THEOREM Invariance == Spec => []Inv
<1>1. Init => Inv
  <2> SUFFICES ASSUME Init PROVE Inv
    OBVIOUS
  <2>1. TypeOK
    BY HomeAssumption DEF Init, Cache!Init, TypeOK, CacheOK, CallOK, HistoryOK,
       PCs, Calls, Reads, Rows, Errors
  <2>2. OutageTolerated /\ CallInv /\ OwnInv /\ ServedInv
    BY DEF Init, Cache!Init, OutageTolerated, CallInv, OwnInv, ServedInv, Due
  <2>3. QED
    BY <2>1, <2>2 DEF Inv
<1>2. Inv /\ [Next]_vars => Inv'
  BY TypeStep, OutageStep, CallStep, OwnStep, ServedStep DEF Inv
<1>3. QED
  BY <1>1, <1>2, PTL DEF Spec

(* Every variable has its type in every reachable state.                    *)
THEOREM Typing == Spec => []TypeOK
BY Invariance, PTL DEF Inv

(* A read that tolerates stale values survives every outage of Vault and    *)
(* every failed write, for any number of threads and processes.             *)
THEOREM Tolerance == Spec => []OutageTolerated
BY Invariance, PTL DEF Inv

(* A read that refreshed its secret serves nothing older than its own SET,  *)
(* and a strict read of a due secret has refreshed it.                      *)
THEOREM Freshness == Spec => []RefreshedReadIsFresh
<1>1. Inv => RefreshedReadIsFresh
  <2> SUFFICES ASSUME Inv, NEW t \in Threads, pc[t] = "return",
                      call[t] \in Reads
               PROVE  /\ call[t] = "strict" /\ Due(inst[t]) => own[t] # 0
                      /\ t \notin overtaken => got[t] >= own[t]
    BY DEF RefreshedReadIsFresh
  <2>1. call[t] = "strict" /\ Due(inst[t]) => own[t] # 0
    BY DEF Inv, CallInv
  <2>2. own[t] \in Nat /\ got[t] \in Nat
    BY DEF Inv, TypeOK, CacheOK, HistoryOK
  <2>3. ASSUME t \notin overtaken PROVE got[t] >= own[t]
    <3>1. CASE own[t] = 0
      BY <2>2, <3>1
    <3>2. CASE own[t] # 0
      BY <2>2, <2>3, <3>2 DEF Inv, ServedInv
    <3>3. QED
      BY <3>1, <3>2
  <2>4. QED
    BY <2>1, <2>3
<1>2. QED
  BY <1>1, Invariance, PTL

-----------------------------------------------------------------------------

(* How the stage follows the label and the call.                            *)
LEMMA StageFollows ==
  ASSUME TypeOK, NEW t \in Threads, NEW l,
         pc' = [pc EXCEPT ![t] = l]
  PROVE  /\ call' = call => stage' = [stage EXCEPT ![t] = StageOf(l, call[t])]
         /\ \A c : call' = [call EXCEPT ![t] = c] =>
                   stage' = [stage EXCEPT ![t] = StageOf(l, c)]
BY DEF stage, TypeOK, CacheOK, CallOK

(* A thread holds a payload only in its read and its write.                 *)
LEMMA StageInvStep ==
  ASSUME TypeOK, CallInv, StageInv, [Next]_vars
  PROVE  StageInv'
<1> USE DEF TypeOK, CacheOK, CallOK, StageInv, CallInv, stage, StageOf,
   Outside, Goto, Cache!Goto, Cache!Drop, Raise, Rest, asked, PCs, Reads
<1>1. ASSUME NEW t \in Threads, NEW l, NEW e, Fail(t, l, e)
      PROVE  StageInv'
  BY <1>1 DEF Fail, Cache!Leave
<1>2. ASSUME NEW t \in Threads, NEW s \in Secrets, NEW c \in Calls,
             Ask(t, s, c)
      PROVE  StageInv'
  BY <1>2 DEF Ask, First, Calls, Cache!Begin
<1>3. ASSUME NEW t \in Threads,
             Fetch(t) \/ FetchFails(t) \/ SetFails(t) \/ Handle(t)
               \/ Record(t) \/ Fallback(t)
      PROVE  StageInv'
  BY <1>3 DEF Fetch, FetchFails, SetFails, Handle, Record, Fallback,
     Tolerates, Move
<1>4. ASSUME NEW t \in Threads,
             HandleRefused(t) \/ RecordRaises(t) \/ SaveRaises(t)
               \/ FallbackRaises(t) \/ FallbackRefused(t)
               \/ GetRaises(t) \/ GetRefused(t)
      PROVE  StageInv'
  BY <1>1, <1>4
  DEF HandleRefused, RecordRaises, SaveRaises, FallbackRaises,
      FallbackRefused, GetRaises, GetRefused
<1>5. ASSUME NEW t \in Threads, Set(t) \/ Del(t) PROVE StageInv'
  BY <1>5 DEF Set, Del, Cache!Write, Cache!Apply
<1>6. ASSUME NEW t \in Threads, SetReplyLost(t) \/ DelReplyLost(t)
      PROVE  StageInv'
  BY <1>6 DEF SetReplyLost, DelReplyLost, Cache!WriteReplyLost, Cache!Apply
<1>7. ASSUME NEW t \in Threads, Invalidate(t) PROVE StageInv'
  BY <1>7 DEF Invalidate, AfterWrite, Cache!Invalidate
<1>8. ASSUME NEW t \in Threads, Save(t) \/ Commit(t) \/ End(t)
      PROVE  StageInv'
  BY <1>8 DEF Save, Commit, End, Clean, Cache!Leave
<1>9. ASSUME NEW t \in Threads,
             Hit(t) \/ Miss(t) \/ GetPayload(t) \/ Insert(t)
      PROVE  StageInv'
  BY <1>9 DEF Hit, Miss, GetPayload, Insert, Cache!Hit, Cache!Miss,
     Cache!GetPayload, Cache!Insert
<1>10. ASSUME NEW t \in Threads, DelFails(t) PROVE StageInv'
  <2>1. ASSUME Move(t, "del", "commit") PROVE StageInv'
    BY <2>1 DEF Move
  <2>2. QED
    BY <1>1, <1>10, <2>1 DEF DelFails
<1>11. ASSUME NEW P \in SUBSET Processes, Restart(P) PROVE StageInv'
  BY <1>11 DEF Restart, Clean, Cache!Restart
<1>12. CASE RestartOne \/ ChangeKey
  BY <1>11, <1>12 DEF RestartOne, ChangeKey
<1>13. CASE (\E s \in Secrets : Age(s)) \/ (\E p \in Processes : Forget(p))
              \/ Flush \/ UNCHANGED vars
  BY <1>13 DEF Age, Forget, Flush, Cache!Forget, Cache!Flush, vars, cacheVars
<1>14. QED
  BY <1>2, <1>3, <1>4, <1>5, <1>6, <1>7, <1>8, <1>9, <1>10, <1>12, <1>13
  DEF Next, Act, Step

(* Every step is a step of the abstract cache or leaves it as it is.        *)
LEMMA RefinementStep ==
  ASSUME TypeOK, CallInv, StageInv, [Next]_vars
  PROVE  [RTC!Next]_(RTC!vars)
<1>t. /\ pc \in [Threads -> PCs] /\ key \in [Threads -> Secrets]
      /\ got \in [Threads -> Nat] /\ call \in [Threads -> Calls]
      /\ row \in [Secrets -> Rows \cup {"gone"}]
  BY DEF TypeOK, CacheOK, CallOK
<1>s. \A t \in Threads, l \in PCs :
        pc' = [pc EXCEPT ![t] = l] /\ call' = call =>
          stage' = [stage EXCEPT ![t] = StageOf(l, call[t])]
  BY StageFollows
<1>o. \A t \in Threads : stage[t] = StageOf(pc[t], call[t])
  BY DEF stage
<1>p. stage = [t \in Threads |-> stage[t]]
  BY DEF stage
<1> USE <1>t, <1>o, <1>p, HomeAssumption
   DEF StageInv, CallInv, StageOf, Outside, Goto, Cache!Goto, Cache!Drop,
   RTC!Goto, RTC!Drop, RTC!vars, Raise, Rest, asked, PCs, Calls, Reads
<1>i. \A t \in Threads : stage[t] = "idle" =>
        [stage EXCEPT ![t] = "idle"] = stage /\ [got EXCEPT ![t] = 0] = got
  OBVIOUS
<1>0. ASSUME NEW t \in Threads,
             RTC!Leave(t, {"get", "set", "del", "return"}, "idle")
      PROVE  RTC!Next
  BY <1>0 DEF RTC!Next
<1>1. ASSUME NEW t \in Threads,
             NEW l \in {"handle", "record", "fallback", "save", "get", "del"},
             NEW e, Fail(t, l, e)
      PROVE  RTC!Next \/ UNCHANGED RTC!vars
  <2>1. stage' = [stage EXCEPT ![t] = "idle"]
    BY <1>1, <1>s DEF Fail, Cache!Leave
  <2>2. CASE l \in {"get", "del"}
    BY <1>0, <1>1, <2>1, <2>2 DEF Fail, Cache!Leave, RTC!Leave
  <2>3. CASE l \notin {"get", "del"}
    BY <1>1, <2>1, <2>3 DEF Fail, Cache!Leave
  <2>4. QED
    BY <2>2, <2>3
<1>2. ASSUME NEW t \in Threads, NEW s \in Secrets, NEW c \in Calls,
             Ask(t, s, c)
      PROVE  RTC!Next
  <2>1. stage' = [stage EXCEPT ![t] = StageOf(First(c, row[s]), c)]
    BY <1>2, StageFollows DEF Ask, Cache!Begin
  <2>2. StageOf(First(c, row[s]), c) \in {"lookup", "set", "del"}
    BY <1>2 DEF First, Ask, Rows
  <2>3. RTC!Begin(t, s, StageOf(First(c, row[s]), c))
    BY <1>2, <2>1 DEF Ask, Cache!Begin, RTC!Begin
  <2>4. QED
    BY <2>2, <2>3 DEF RTC!Next
<1>3. ASSUME NEW t \in Threads, Fetch(t) \/ Handle(t) \/ Record(t)
      PROVE  UNCHANGED RTC!vars
  BY <1>3, <1>s DEF Fetch, Handle, Record, Move
<1>4. ASSUME NEW t \in Threads, FetchFails(t) \/ SetFails(t)
      PROVE  RTC!Next
  <2>1. stage[t] = "set" /\ stage' = [stage EXCEPT ![t] = "idle"]
    BY <1>4, <1>s DEF FetchFails, SetFails, Move
  <2>2. got[t] = 0 /\ UNCHANGED <<seq, store, local, key, got>>
    BY <1>4, <2>1 DEF FetchFails, SetFails, Move
  <2>3. QED
    BY <1>0, <2>1, <2>2 DEF RTC!Leave
<1>5. ASSUME NEW t \in Threads, Fallback(t) PROVE RTC!Next
  <2>1. stage' = [stage EXCEPT ![t] = "lookup"]
    BY <1>5, <1>s DEF Fallback, Move
  <2>2. RTC!Begin(t, key[t], "lookup")
    BY <1>5, <2>1 DEF Fallback, Move, RTC!Begin
  <2>3. QED
    BY <2>2 DEF RTC!Next
<1>6. ASSUME NEW t \in Threads,
             HandleRefused(t) \/ RecordRaises(t) \/ SaveRaises(t)
               \/ FallbackRaises(t) \/ FallbackRefused(t)
               \/ GetRaises(t) \/ GetRefused(t)
      PROVE  RTC!Next \/ UNCHANGED RTC!vars
  BY <1>1, <1>6
  DEF HandleRefused, RecordRaises, SaveRaises, FallbackRaises,
      FallbackRefused, GetRaises, GetRefused
<1>7. ASSUME NEW t \in Threads, Set(t) \/ Del(t) PROVE RTC!Next
  <2>1. stage' = [stage EXCEPT ![t] = "invalidate"] /\ stage[t] = pc[t]
    BY <1>7, <1>s DEF Set, Del, Cache!Write, Cache!Apply
  <2>2. RTC!Write(t)
    BY <1>7, <2>1 DEF Set, Del, Cache!Write, Cache!Apply, RTC!Write, RTC!Apply
  <2>3. QED
    BY <2>2 DEF RTC!Next
<1>8. ASSUME NEW t \in Threads, SetReplyLost(t) \/ DelReplyLost(t)
      PROVE  RTC!Next
  <2>1. stage' = [stage EXCEPT ![t] = "idle"] /\ stage[t] = pc[t]
    BY <1>8, <1>s
    DEF SetReplyLost, DelReplyLost, Cache!WriteReplyLost, Cache!Apply
  <2>2. RTC!WriteReplyLost(t, "idle")
    BY <1>8, <2>1
    DEF SetReplyLost, DelReplyLost, Cache!WriteReplyLost, Cache!Apply,
        RTC!WriteReplyLost, RTC!Apply
  <2>3. QED
    BY <2>2 DEF RTC!Next
<1>9. ASSUME NEW t \in Threads, Invalidate(t) PROVE RTC!Next
  <2>1. stage' = [stage EXCEPT ![t] = "idle"] /\ stage[t] = "invalidate"
    BY <1>9, <1>s DEF Invalidate, AfterWrite, Cache!Invalidate
  <2>2. RTC!Invalidate(t, "idle")
    BY <1>9, <2>1 DEF Invalidate, Cache!Invalidate, RTC!Invalidate
  <2>3. QED
    BY <2>2 DEF RTC!Next
<1>10. ASSUME NEW t \in Threads, Save(t) PROVE RTC!Next \/ UNCHANGED RTC!vars
  <2>1. CASE call[t] \in Reads
    <3>1. stage' = [stage EXCEPT ![t] = "lookup"]
      BY <1>10, <1>s, <2>1 DEF Save, Cache!Leave
    <3>2. RTC!Begin(t, key[t], "lookup")
      BY <1>10, <3>1 DEF Save, Cache!Leave, RTC!Begin
    <3>3. QED
      BY <3>2 DEF RTC!Next
  <2>2. CASE call[t] \notin Reads
    <3>1. stage[t] = "idle" /\ stage' = [stage EXCEPT ![t] = "idle"]
      BY <1>10, <1>s, <2>2 DEF Save, Cache!Leave
    <3>2. QED
      BY <1>10, <1>i, <3>1 DEF Save, Cache!Leave
  <2>3. QED
    BY <2>1, <2>2
<1>11. ASSUME NEW t \in Threads, Commit(t) PROVE UNCHANGED RTC!vars
  <2>1. stage[t] = "idle" /\ stage' = [stage EXCEPT ![t] = "idle"]
    BY <1>11, <1>s DEF Commit, Cache!Leave
  <2>2. QED
    BY <1>11, <1>i, <2>1 DEF Commit, Cache!Leave
<1>12. ASSUME NEW t \in Threads, Hit(t) PROVE RTC!Hit(t)
  BY <1>12, <1>s DEF Hit, Cache!Hit, RTC!Hit
<1>13. ASSUME NEW t \in Threads, Miss(t) PROVE RTC!Miss(t)
  BY <1>13, <1>s DEF Miss, Cache!Miss, RTC!Miss
<1>14. ASSUME NEW t \in Threads, GetPayload(t) PROVE RTC!GetPayload(t)
  BY <1>14, <1>s DEF GetPayload, Cache!GetPayload, RTC!GetPayload
<1>15. ASSUME NEW t \in Threads, Insert(t) PROVE RTC!Insert(t)
  BY <1>15, <1>s DEF Insert, Cache!Insert, RTC!Insert
<1>16. ASSUME NEW t \in Threads, End(t) PROVE RTC!Next \/ UNCHANGED RTC!vars
  <2>1. stage' = [stage EXCEPT ![t] = "idle"]
    BY <1>16 DEF End, Clean, Cache!Leave, stage
  <2>2. CASE stage[t] = "return"
    BY <1>0, <1>16, <2>1, <2>2 DEF End, Cache!Leave, RTC!Leave
  <2>3. CASE stage[t] # "return"
    BY <1>16, <2>1, <2>3 DEF End, Cache!Leave
  <2>4. QED
    BY <2>2, <2>3
<1>17. ASSUME NEW t \in Threads, DelFails(t)
       PROVE  RTC!Next \/ UNCHANGED RTC!vars
  <2>1. ASSUME Move(t, "del", "commit") PROVE RTC!Next
    <3>1. stage[t] = "del" /\ stage' = [stage EXCEPT ![t] = "idle"]
      BY <1>s, <2>1 DEF Move
    <3>2. got[t] = 0 /\ UNCHANGED <<seq, store, local, key, got>>
      BY <2>1, <3>1 DEF Move
    <3>3. RTC!Leave(t, {"get", "set", "del", "return"}, "idle")
      BY <3>1, <3>2 DEF RTC!Leave
    <3>4. QED
      BY <1>0, <3>3
  <2>2. QED
    BY <1>1, <1>17, <2>1 DEF DelFails
<1>18. ASSUME NEW P \in SUBSET Processes, Restart(P) PROVE RTC!Next
  <2>1. stage' = [t \in Threads |->
                    IF Home[t] \in P THEN "idle" ELSE stage[t]]
    BY <1>18 DEF Restart, Clean, Cache!Restart, stage
  <2>2. RTC!Restart(P)
    BY <1>18, <2>1 DEF Restart, Cache!Restart, RTC!Restart
  <2>3. QED
    BY <2>2 DEF RTC!Next
<1>19. CASE RestartOne \/ ChangeKey
  BY <1>18, <1>19 DEF RestartOne, ChangeKey
<1>20. ASSUME NEW p \in Processes, Forget(p) PROVE RTC!Forget(p)
  BY <1>20 DEF Forget, Cache!Forget, RTC!Forget, stage
<1>21. ASSUME Flush PROVE RTC!Flush
  BY <1>21 DEF Flush, Cache!Flush, RTC!Flush, stage
<1>22. CASE (\E s \in Secrets : Age(s)) \/ UNCHANGED vars
  BY <1>22 DEF Age, vars, cacheVars, stage
<1>23. ASSUME NEW t \in Threads, Step(t)
       PROVE  RTC!Next \/ UNCHANGED RTC!vars
  BY <1>3, <1>4, <1>5, <1>6, <1>7, <1>8, <1>9, <1>10, <1>11, <1>12, <1>13,
     <1>14, <1>15, <1>16, <1>17, <1>23 DEF Step, RTC!Next
<1>24. CASE Act
  BY <1>2, <1>19, <1>20, <1>21, <1>22, <1>23, <1>24 DEF Act, RTC!Next
<1>25. QED
  BY <1>22, <1>24 DEF Next

(* With its refreshes, its fallbacks and every failure a read uses the      *)
(* cache as ReadThroughCache allows, for any number of threads.             *)
THEOREM Refinement == Spec => ImplementsReadThrough
<1>1. Init => RTC!Init /\ StageInv
  BY DEF Init, Cache!Init, RTC!Init, StageInv, stage, StageOf, Outside
<1>2. Inv /\ StageInv /\ [Next]_vars => StageInv' /\ [RTC!Next]_(RTC!vars)
  BY StageInvStep, RefinementStep DEF Inv
<1>3. QED
  BY <1>1, <1>2, Invariance, PTL DEF Spec, RTC!Spec, ImplementsReadThrough
===============================================================================
