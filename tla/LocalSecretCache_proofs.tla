---------------------- MODULE LocalSecretCache_proofs ----------------------
(* Proofs about LocalSecretCache, for any threads, processes and secrets,   *)
(* any time to live and any bound on the duration of a call.                *)
EXTENDS LocalSecretCache, TLAPS

(* The entry records of the model.                                          *)
LEMMA Entries ==
  /\ None \in Entry
  /\ \A v, n \in Nat : [seq |-> v, readAt |-> n] \in Entry
  /\ \A e \in Entry : e.seq \in Nat /\ e.readAt \in Nat
BY DEF Entry, None

(* Every variable keeps its type.                                           *)
LEMMA TypeStep ==
  ASSUME TypeOK, [Next]_vars
  PROVE  TypeOK'
<1> USE Entries, HomeAssumption, BoundsAssumption DEF vars, Goto, End,
   TypeOK, PCs
<1>1. ASSUME NEW t \in Threads, NEW s \in Secrets,
             NEW first \in {"check", "set", "del"}, Call(t, s, first)
      PROVE TypeOK'
  BY <1>1 DEF Call
<1>2. ASSUME NEW t \in Threads, Check(t) PROVE TypeOK'
  BY <1>2 DEF Check
<1>3. ASSUME NEW t \in Threads, Clear(t) PROVE TypeOK'
  BY <1>3 DEF Clear, ClearAll
<1>4. ASSUME NEW t \in Threads, Extend(t) PROVE TypeOK'
  BY <1>4 DEF Extend
<1>5. ASSUME NEW t \in Threads, Hit(t) PROVE TypeOK'
  BY <1>5 DEF Hit
<1>6. ASSUME NEW t \in Threads, Miss(t) PROVE TypeOK'
  BY <1>6 DEF Miss
<1>7. ASSUME NEW t \in Threads, GetPayload(t) PROVE TypeOK'
  BY <1>7 DEF GetPayload
<1>8. ASSUME NEW t \in Threads, GetRaises(t) PROVE TypeOK'
  BY <1>8 DEF GetRaises
<1>9. ASSUME NEW t \in Threads, InsertFound(t) PROVE TypeOK'
  BY <1>9 DEF InsertFound
<1>10. ASSUME NEW t \in Threads, Insert(t) PROVE TypeOK'
  BY <1>10 DEF Insert
<1>11. ASSUME NEW t \in Threads, InsertEvicting(t) PROVE TypeOK'
  <2>1. PICK s \in Cached(Home[t]) :
          local' = [local EXCEPT ![Home[t]] =
                     [local[Home[t]] EXCEPT ![s] = None, ![key[t]] = got[t]]]
    BY <1>11 DEF InsertEvicting
  <2>2. [local[Home[t]] EXCEPT ![s] = None, ![key[t]] = got[t]]
          \in [Secrets -> Entry]
    OBVIOUS
  <2>3. local' \in [Processes -> [Secrets -> Entry]]
    BY <2>1, <2>2
  <2>4. QED
    BY <1>11, <2>3 DEF InsertEvicting
<1>12. ASSUME NEW t \in Threads, Return(t) PROVE TypeOK'
  BY <1>12 DEF Return
<1>13. ASSUME NEW t \in Threads, Set(t) PROVE TypeOK'
  BY <1>13 DEF Set
<1>14. ASSUME NEW t \in Threads, Del(t) PROVE TypeOK'
  BY <1>14 DEF Del
<1>15. ASSUME NEW t \in Threads, WriteReplyLost(t) PROVE TypeOK'
  BY <1>15 DEF WriteReplyLost
<1>15a. ASSUME NEW t \in Threads, WriteFails(t) PROVE TypeOK'
  BY <1>15a DEF WriteFails
<1>16. ASSUME NEW t \in Threads, Invalidate(t) PROVE TypeOK'
  BY <1>16 DEF Invalidate, Settle, ClearAll
<1>17. CASE Tick
  BY <1>17 DEF Tick
<1>18. CASE Flush
  BY <1>18 DEF Flush
<1>19. CASE UNCHANGED vars
  BY <1>19
<1>20. QED
  BY <1>1, <1>2, <1>3, <1>4, <1>5, <1>6, <1>7, <1>8, <1>9, <1>10, <1>11,
     <1>12, <1>13, <1>14, <1>15, <1>15a, <1>16, <1>17, <1>18, <1>19 DEF Next, Step

(* No call outlasts its bound, no window is longer than the TTL.            *)
LEMMA ClockStep ==
  ASSUME TypeOK, TypeOK', ClockInv, [Next]_vars
  PROVE  ClockInv'
<1> USE HomeAssumption, BoundsAssumption DEF vars, Goto, End, TypeOK, PCs,
   ClockInv
<1>1. ASSUME NEW t \in Threads, NEW s \in Secrets,
             NEW first \in {"check", "set", "del"}, Call(t, s, first)
      PROVE ClockInv'
  BY <1>1 DEF Call
<1>2. ASSUME NEW t \in Threads, Check(t) PROVE ClockInv'
  BY <1>2 DEF Check
<1>3. ASSUME NEW t \in Threads, Clear(t) PROVE ClockInv'
  BY <1>3 DEF Clear
<1>4. ASSUME NEW t \in Threads, Extend(t) PROVE ClockInv'
  BY <1>4 DEF Extend
<1>5. ASSUME NEW t \in Threads, Hit(t) PROVE ClockInv'
  BY <1>5 DEF Hit
<1>6. ASSUME NEW t \in Threads, Miss(t) PROVE ClockInv'
  BY <1>6 DEF Miss
<1>7. ASSUME NEW t \in Threads, GetPayload(t) PROVE ClockInv'
  BY <1>7 DEF GetPayload
<1>8. ASSUME NEW t \in Threads, GetRaises(t) PROVE ClockInv'
  BY <1>8 DEF GetRaises
<1>9. ASSUME NEW t \in Threads, InsertFound(t) PROVE ClockInv'
  BY <1>9 DEF InsertFound
<1>10. ASSUME NEW t \in Threads, Insert(t) PROVE ClockInv'
  BY <1>10 DEF Insert
<1>11. ASSUME NEW t \in Threads, InsertEvicting(t) PROVE ClockInv'
  BY <1>11 DEF InsertEvicting
<1>12. ASSUME NEW t \in Threads, Return(t) PROVE ClockInv'
  BY <1>12 DEF Return
<1>13. ASSUME NEW t \in Threads, Set(t) PROVE ClockInv'
  BY <1>13 DEF Set
<1>14. ASSUME NEW t \in Threads, Del(t) PROVE ClockInv'
  BY <1>14 DEF Del
<1>15. ASSUME NEW t \in Threads, WriteReplyLost(t) PROVE ClockInv'
  BY <1>15 DEF WriteReplyLost
<1>15a. ASSUME NEW t \in Threads, WriteFails(t) PROVE ClockInv'
  BY <1>15a DEF WriteFails
<1>16. ASSUME NEW t \in Threads, Invalidate(t) PROVE ClockInv'
  BY <1>16 DEF Invalidate, Settle
<1>17. CASE Tick
  BY <1>17 DEF Tick
<1>18. CASE Flush
  BY <1>18 DEF Flush
<1>19. CASE UNCHANGED vars
  BY <1>19
<1>20. QED
  BY <1>1, <1>2, <1>3, <1>4, <1>5, <1>6, <1>7, <1>8, <1>9, <1>10, <1>11,
     <1>12, <1>13, <1>14, <1>15, <1>15a, <1>16, <1>17, <1>18, <1>19 DEF Next, Step

(* No step lets the window of an entry end too late.                        *)
LEMMA WindowStep ==
  ASSUME TypeOK, TypeOK', ClockInv, WindowInv, CallInv, [Next]_vars
  PROVE  WindowInv'
<1> USE HomeAssumption, BoundsAssumption DEF vars, Goto, End, TypeOK, PCs,
   ClockInv, WindowInv, CallInv, Cached, Entry
<1>1. ASSUME NEW t \in Threads, NEW s \in Secrets,
             NEW first \in {"check", "set", "del"}, Call(t, s, first)
      PROVE WindowInv'
  BY <1>1 DEF Call
<1>2. ASSUME NEW t \in Threads, Check(t) PROVE WindowInv'
  BY <1>2 DEF Check
<1>3. ASSUME NEW t \in Threads, Clear(t) PROVE WindowInv'
  BY <1>3 DEF Clear, ClearAll, None
<1>4. ASSUME NEW t \in Threads, Extend(t) PROVE WindowInv'
  <2> SUFFICES ASSUME NEW p \in Processes, NEW s \in Secrets,
                      local'[p][s].seq # 0
               PROVE  /\ expiration'[p] <= local'[p][s].readAt + TTL + 2 * MaxCall
                      /\ \A u \in Threads : pc'[u] = "extend" /\ Home[u] = p =>
                           began'[u] <= local'[p][s].readAt + MaxCall
    OBVIOUS
  <2>1. local[p][s].readAt \in Nat /\ began[t] \in Nat /\ now \in Nat
    OBVIOUS
  <2>2. \A u \in Threads : pc'[u] = "extend" => pc[u] = "extend"
    BY <1>4 DEF Extend
  <2>3. CASE p = Home[t]
    <3>1. began[t] <= local[p][s].readAt + MaxCall
      BY <1>4, <2>3 DEF Extend
    <3>2. now <= began[t] + MaxCall /\ expiration'[p] = now + TTL
      BY <1>4, <2>3 DEF Extend
    <3>3. QED
      BY <1>4, <2>1, <2>2, <3>1, <3>2 DEF Extend
  <2>4. CASE p # Home[t]
    BY <1>4, <2>2, <2>4 DEF Extend
  <2>5. QED
    BY <2>3, <2>4
<1>5. ASSUME NEW t \in Threads, Hit(t) PROVE WindowInv'
  BY <1>5 DEF Hit
<1>6. ASSUME NEW t \in Threads, Miss(t) PROVE WindowInv'
  BY <1>6 DEF Miss
<1>7. ASSUME NEW t \in Threads, GetPayload(t) PROVE WindowInv'
  BY <1>7 DEF GetPayload
<1>8. ASSUME NEW t \in Threads, GetRaises(t) PROVE WindowInv'
  BY <1>8 DEF GetRaises
<1>9. ASSUME NEW t \in Threads, InsertFound(t) PROVE WindowInv'
  BY <1>9 DEF InsertFound
<1>10. ASSUME NEW t \in Threads, Insert(t) PROVE WindowInv'
  <2> SUFFICES ASSUME NEW p \in Processes, NEW s \in Secrets,
                      local'[p][s].seq # 0
               PROVE  /\ expiration'[p] <= local'[p][s].readAt + TTL + 2 * MaxCall
                      /\ \A u \in Threads : pc'[u] = "extend" /\ Home[u] = p =>
                           began'[u] <= local'[p][s].readAt + MaxCall
    OBVIOUS
  <2>1. \A u \in Threads : pc'[u] = "extend" => pc[u] = "extend"
    BY <1>10 DEF Insert
  <2>2. CASE p = Home[t] /\ s = key[t]
    <3>1. local'[p][s] = got[t]
      BY <1>10, <2>2 DEF Insert
    <3>2. now <= got[t].readAt + MaxCall /\ got[t].readAt \in Nat
      <4>1. began[t] <= got[t].readAt /\ now <= began[t] + MaxCall
        BY <1>10 DEF Insert
      <4>2. got[t].readAt \in Nat /\ began[t] \in Nat /\ now \in Nat
        BY Entries
      <4>3. QED
        BY <4>1, <4>2
    <3>3. expiration'[p] <= now + TTL
      BY <1>10, <2>2 DEF Insert
    <3>4. \A u \in Threads : pc[u] = "extend" => began'[u] <= now
      BY <1>10 DEF Insert
    <3>5. now \in Nat /\ expiration'[p] \in Nat
      OBVIOUS
    <3>6. expiration'[p] <= local'[p][s].readAt + TTL + 2 * MaxCall
      BY <3>1, <3>2, <3>3, <3>5
    <3>7. ASSUME NEW u \in Threads, pc'[u] = "extend"
          PROVE  began'[u] <= local'[p][s].readAt + MaxCall
      <4>1. began'[u] <= now /\ began'[u] \in Nat
        BY <2>1, <3>4, <3>7
      <4>2. QED
        BY <4>1, <3>1, <3>2, <3>5
    <3>8. QED
      BY <3>6, <3>7
  <2>3. CASE ~(p = Home[t] /\ s = key[t])
    <3>1. local'[p][s] = local[p][s]
      BY <1>10, <2>3 DEF Insert
    <3>2. QED
      BY <1>10, <2>1, <3>1 DEF Insert
  <2>4. QED
    BY <2>2, <2>3
<1>11. ASSUME NEW t \in Threads, InsertEvicting(t) PROVE WindowInv'
  <2> SUFFICES ASSUME NEW p \in Processes, NEW s \in Secrets,
                      local'[p][s].seq # 0
               PROVE  /\ expiration'[p] <= local'[p][s].readAt + TTL + 2 * MaxCall
                      /\ \A u \in Threads : pc'[u] = "extend" /\ Home[u] = p =>
                           began'[u] <= local'[p][s].readAt + MaxCall
    OBVIOUS
  <2>1. PICK v \in Secrets :
          local' = [local EXCEPT ![Home[t]] =
                     [local[Home[t]] EXCEPT ![v] = None, ![key[t]] = got[t]]]
    BY <1>11 DEF InsertEvicting
  <2>2. \A u \in Threads : pc'[u] = "extend" => pc[u] = "extend"
    BY <1>11 DEF InsertEvicting
  <2>3. CASE p = Home[t] /\ s = key[t]
    <3>1. local'[p][s] = got[t]
      BY <1>11, <2>3, <2>1 DEF InsertEvicting
    <3>2. now <= got[t].readAt + MaxCall /\ got[t].readAt \in Nat
      <4>1. began[t] <= got[t].readAt /\ now <= began[t] + MaxCall
        BY <1>11 DEF InsertEvicting
      <4>2. got[t].readAt \in Nat /\ began[t] \in Nat /\ now \in Nat
        BY Entries
      <4>3. QED
        BY <4>1, <4>2
    <3>3. expiration'[p] <= now + TTL
      BY <1>11, <2>3 DEF InsertEvicting
    <3>4. \A u \in Threads : pc[u] = "extend" => began'[u] <= now
      BY <1>11 DEF InsertEvicting
    <3>5. now \in Nat /\ expiration'[p] \in Nat
      OBVIOUS
    <3>6. expiration'[p] <= local'[p][s].readAt + TTL + 2 * MaxCall
      BY <3>1, <3>2, <3>3, <3>5
    <3>7. ASSUME NEW u \in Threads, pc'[u] = "extend"
          PROVE  began'[u] <= local'[p][s].readAt + MaxCall
      <4>1. began'[u] <= now /\ began'[u] \in Nat
        BY <2>2, <3>4, <3>7
      <4>2. QED
        BY <4>1, <3>1, <3>2, <3>5
    <3>8. QED
      BY <3>6, <3>7
  <2>4. CASE ~(p = Home[t] /\ s = key[t])
    <3>1. local'[p][s] = local[p][s]
      BY <2>1, <2>4 DEF None
    <3>2. QED
      BY <1>11, <2>2, <3>1 DEF InsertEvicting
  <2>5. QED
    BY <2>3, <2>4
<1>12. ASSUME NEW t \in Threads, Return(t) PROVE WindowInv'
  BY <1>12 DEF Return
<1>13. ASSUME NEW t \in Threads, Set(t) PROVE WindowInv'
  BY <1>13 DEF Set
<1>14. ASSUME NEW t \in Threads, Del(t) PROVE WindowInv'
  BY <1>14 DEF Del
<1>15. ASSUME NEW t \in Threads, WriteReplyLost(t) PROVE WindowInv'
  BY <1>15 DEF WriteReplyLost
<1>15a. ASSUME NEW t \in Threads, WriteFails(t) PROVE WindowInv'
  BY <1>15a DEF WriteFails
<1>16. ASSUME NEW t \in Threads, Invalidate(t) PROVE WindowInv'
  BY <1>16 DEF Invalidate, Settle, ClearAll, None
<1>17. CASE Tick
  BY <1>17 DEF Tick
<1>18. CASE Flush
  BY <1>18 DEF Flush
<1>19. CASE UNCHANGED vars
  BY <1>19
<1>20. QED
  BY <1>1, <1>2, <1>3, <1>4, <1>5, <1>6, <1>7, <1>8, <1>9, <1>10, <1>11,
     <1>12, <1>13, <1>14, <1>15, <1>15a, <1>16, <1>17, <1>18, <1>19 DEF Next, Step

(* No step gives a call an entry of a window that ended before it.          *)
LEMMA CallStep ==
  ASSUME TypeOK, TypeOK', ClockInv, WindowInv, CallInv, [Next]_vars
  PROVE  CallInv'
<1> USE HomeAssumption, BoundsAssumption DEF vars, Goto, End, TypeOK, PCs,
   ClockInv, WindowInv, CallInv, Cached, Entry
<1>1. ASSUME NEW t \in Threads, NEW s \in Secrets,
             NEW first \in {"check", "set", "del"}, Call(t, s, first)
      PROVE CallInv'
  BY <1>1 DEF Call
<1>2. ASSUME NEW t \in Threads, Check(t) PROVE CallInv'
  <2>1. CASE Expired(Home[t])
    BY <1>2, <2>1 DEF Check
  <2>2. CASE ~Expired(Home[t])
    <3>1. began[t] <= now /\ now < expiration[Home[t]]
      <4>1. ~(now >= expiration[Home[t]])
        BY <2>2 DEF Expired
      <4>2. now \in Nat /\ expiration[Home[t]] \in Nat
        OBVIOUS
      <4>3. began[t] <= now
        BY <1>2 DEF Check
      <4>4. QED
        BY <4>1, <4>2, <4>3
    <3>2. began[t] < expiration[Home[t]]
      <4>1. now \in Nat /\ expiration[Home[t]] \in Nat /\ began[t] \in Nat
        OBVIOUS
      <4>2. QED
        BY <3>1, <4>1
    <3>3. QED
      BY <1>2, <2>2, <3>2 DEF Check
  <2>3. QED
    BY <2>1, <2>2
<1>3. ASSUME NEW t \in Threads, Clear(t) PROVE CallInv'
  BY <1>3 DEF Clear
<1>4. ASSUME NEW t \in Threads, Extend(t) PROVE CallInv'
  <2>1. \A p \in Processes : expiration'[p] >= expiration[p]
    BY <1>4 DEF Extend
  <2>2. began[t] < expiration'[Home[t]]
    <3>1. began[t] <= now /\ expiration'[Home[t]] = now + TTL
      BY <1>4 DEF Extend
    <3>2. began[t] \in Nat /\ now \in Nat
      OBVIOUS
    <3>3. QED
      BY <3>1, <3>2
  <2>3. QED
    BY <1>4, <2>1, <2>2 DEF Extend
<1>5. ASSUME NEW t \in Threads, Hit(t) PROVE CallInv'
  BY <1>5 DEF Hit
<1>6. ASSUME NEW t \in Threads, Miss(t) PROVE CallInv'
  BY <1>6 DEF Miss
<1>7. ASSUME NEW t \in Threads, GetPayload(t) PROVE CallInv'
  BY <1>7 DEF GetPayload
<1>8. ASSUME NEW t \in Threads, GetRaises(t) PROVE CallInv'
  BY <1>8 DEF GetRaises
<1>9. ASSUME NEW t \in Threads, InsertFound(t) PROVE CallInv'
  BY <1>9 DEF InsertFound
<1>10. ASSUME NEW t \in Threads, Insert(t) PROVE CallInv'
  BY <1>10 DEF Insert
<1>11. ASSUME NEW t \in Threads, InsertEvicting(t) PROVE CallInv'
  BY <1>11 DEF InsertEvicting
<1>12. ASSUME NEW t \in Threads, Return(t) PROVE CallInv'
  BY <1>12 DEF Return
<1>13. ASSUME NEW t \in Threads, Set(t) PROVE CallInv'
  BY <1>13 DEF Set
<1>14. ASSUME NEW t \in Threads, Del(t) PROVE CallInv'
  BY <1>14 DEF Del
<1>15. ASSUME NEW t \in Threads, WriteReplyLost(t) PROVE CallInv'
  BY <1>15 DEF WriteReplyLost
<1>15a. ASSUME NEW t \in Threads, WriteFails(t) PROVE CallInv'
  BY <1>15a DEF WriteFails
<1>16. ASSUME NEW t \in Threads, Invalidate(t) PROVE CallInv'
  BY <1>16 DEF Invalidate, Settle
<1>17. CASE Tick
  BY <1>17 DEF Tick
<1>18. CASE Flush
  BY <1>18 DEF Flush
<1>19. CASE UNCHANGED vars
  BY <1>19
<1>20. QED
  BY <1>1, <1>2, <1>3, <1>4, <1>5, <1>6, <1>7, <1>8, <1>9, <1>10, <1>11,
     <1>12, <1>13, <1>14, <1>15, <1>15a, <1>16, <1>17, <1>18, <1>19 DEF Next, Step

(* No step puts an older number over a newer one, except in Redis.          *)
LEMMA OrderStep ==
  ASSUME TypeOK, TypeOK', OrderInv, [Next]_vars
  PROVE  OrderInv'
<1> USE HomeAssumption, Entries DEF vars, Goto, End, TypeOK, PCs, OrderInv, Cached
<1>1. ASSUME NEW t \in Threads, NEW s \in Secrets,
             NEW first \in {"check", "set", "del"}, Call(t, s, first)
      PROVE OrderInv'
  BY <1>1 DEF Call
<1>2. ASSUME NEW t \in Threads, Check(t) PROVE OrderInv'
  BY <1>2 DEF Check
<1>3. ASSUME NEW t \in Threads, Clear(t) PROVE OrderInv'
  BY <1>3 DEF Clear, ClearAll, None
<1>4. ASSUME NEW t \in Threads, Extend(t) PROVE OrderInv'
  BY <1>4 DEF Extend
<1>5. ASSUME NEW t \in Threads, Hit(t) PROVE OrderInv'
  BY <1>5 DEF Hit
<1>6. ASSUME NEW t \in Threads, Miss(t) PROVE OrderInv'
  BY <1>6 DEF Miss
<1>7. ASSUME NEW t \in Threads, GetPayload(t) PROVE OrderInv'
  BY <1>7 DEF GetPayload
<1>8. ASSUME NEW t \in Threads, GetRaises(t) PROVE OrderInv'
  BY <1>8 DEF GetRaises
<1>9. ASSUME NEW t \in Threads, InsertFound(t) PROVE OrderInv'
  BY <1>9 DEF InsertFound
<1>10. ASSUME NEW t \in Threads, Insert(t) PROVE OrderInv'
  BY <1>10 DEF Insert
<1>11. ASSUME NEW t \in Threads, InsertEvicting(t) PROVE OrderInv'
  <2>1. PICK v \in Secrets :
          local' = [local EXCEPT ![Home[t]] =
                     [local[Home[t]] EXCEPT ![v] = None, ![key[t]] = got[t]]]
    BY <1>11 DEF InsertEvicting
  <2>2. UNCHANGED <<store, seq, settled, floor, key, got>>
    BY <1>11 DEF InsertEvicting
  <2>3. ASSUME NEW p \in Processes, NEW s \in Secrets, s \in Cached(p)'
        PROVE  settled'[p][s] <= local'[p][s].seq
    <3>1. CASE p = Home[t] /\ s = key[t]
      <4>1. local'[p][s] = got[t]
        BY <2>1, <3>1
      <4>2. settled[p][s] <= got[t].seq
        BY <1>11, <3>1 DEF InsertEvicting
      <4>3. QED
        BY <4>1, <4>2, <2>2
    <3>2. CASE ~(p = Home[t] /\ s = key[t])
      <4>1. local'[p][s] = local[p][s]
        BY <2>1, <2>3, <3>2 DEF None
      <4>2. QED
        BY <4>1, <2>2, <2>3
    <3>3. QED
      BY <3>1, <3>2
  <2>4. ASSUME NEW u \in Threads
        PROVE  /\ pc'[u] = "invalidate" => pc[u] = "invalidate"
               /\ pc'[u] = "insert" => pc[u] = "insert"
               /\ pc'[u] = "return" => pc[u] = "return" \/ u = t
    BY <1>11 DEF InsertEvicting
  <2>5. floor[t] <= got[t].seq
    <3>1. /\ floor[t] <= settled[Home[t]][key[t]]
          /\ settled[Home[t]][key[t]] <= got[t].seq
      BY <1>11 DEF InsertEvicting
    <3>2. /\ floor[t] \in Nat /\ got[t].seq \in Nat
          /\ settled[Home[t]][key[t]] \in Nat
      OBVIOUS
    <3>3. QED
      BY <3>1, <3>2
  <2>6. QED
    BY <2>2, <2>3, <2>4, <2>5
<1>12. ASSUME NEW t \in Threads, Return(t) PROVE OrderInv'
  BY <1>12 DEF Return
<1>13. ASSUME NEW t \in Threads, Set(t) PROVE OrderInv'
  BY <1>13 DEF Set
<1>14. ASSUME NEW t \in Threads, Del(t) PROVE OrderInv'
  BY <1>14 DEF Del
<1>15. ASSUME NEW t \in Threads, WriteReplyLost(t) PROVE OrderInv'
  BY <1>15 DEF WriteReplyLost
<1>15a. ASSUME NEW t \in Threads, WriteFails(t) PROVE OrderInv'
  BY <1>15a DEF WriteFails
<1>16. ASSUME NEW t \in Threads, Invalidate(t) PROVE OrderInv'
  BY <1>16 DEF Invalidate, Settle, Loading, ClearAll, None
<1>17. CASE Tick
  BY <1>17 DEF Tick
<1>18. CASE Flush
  BY <1>18 DEF Flush
<1>19. CASE UNCHANGED vars
  BY <1>19
<1>20. QED
  BY <1>1, <1>2, <1>3, <1>4, <1>5, <1>6, <1>7, <1>8, <1>9, <1>10, <1>11,
     <1>12, <1>13, <1>14, <1>15, <1>15a, <1>16, <1>17, <1>18, <1>19 DEF Next, Step

(* The inductive invariant holds in every reachable state.                  *)
THEOREM Invariance == Spec => []Inv
<1>1. Init => Inv
  <2> SUFFICES ASSUME Init PROVE Inv
    OBVIOUS
  <2>1. TypeOK
    BY Entries, BoundsAssumption DEF Init, TypeOK, PCs
  <2>2. ClockInv /\ CallInv
    BY BoundsAssumption DEF Init, ClockInv, CallInv
  <2>3. WindowInv
    BY DEF Init, WindowInv, Cached, None
  <2>4. OrderInv
    BY <2>1, Entries, HomeAssumption DEF Init, TypeOK, OrderInv, Cached, None
  <2>5. QED
    BY <2>1, <2>2, <2>3, <2>4 DEF Inv
<1>2. Inv /\ [Next]_vars => Inv'
  BY TypeStep, ClockStep, WindowStep, CallStep, OrderStep DEF Inv
<1>3. QED
  BY <1>1, <1>2, PTL DEF Spec

(* Every variable has its type in every reachable state.                    *)
THEOREM Typing == Spec => []TypeOK
BY Invariance, PTL DEF Inv

(* A value that is returned was in Redis less than the TTL and three calls  *)
(* ago.                                                                     *)
THEOREM Staleness == Spec => []StalenessBounded
<1>1. Inv => StalenessBounded
  <2> SUFFICES ASSUME Inv, NEW t \in Threads, pc[t] = "return"
               PROVE  now < got[t].readAt + TTL + 3 * MaxCall
    BY DEF StalenessBounded
  <2>1. began[t] < got[t].readAt + TTL + 2 * MaxCall
    BY DEF Inv, CallInv
  <2>2. now <= began[t] + MaxCall
    BY DEF Inv, ClockInv
  <2>3. now \in Nat /\ began[t] \in Nat /\ got[t].readAt \in Nat
    BY Entries DEF Inv, TypeOK
  <2>4. QED
    BY <2>1, <2>2, <2>3, BoundsAssumption
<1>2. QED
  BY <1>1, Invariance, PTL

(* A call serves nothing older than what its process had settled before.    *)
THEOREM OwnWrites == Spec => []OwnWritesSeen
<1>1. Inv => OwnWritesSeen
  BY Entries DEF Inv, TypeOK, OrderInv, OwnWritesSeen
<1>2. QED
  BY <1>1, Invariance, PTL
-----------------------------------------------------------------------------
(* The two levels implement ReadThroughCache                               *)

(* How the abstract variables read, and how they follow the detailed ones.  *)
LEMMA Reading ==
  ASSUME TypeOK
  PROVE  /\ \A t \in Threads : payload[t] = got[t].seq
         /\ \A t \in Threads :
              pc[t] \notin {"check", "clear", "extend"} => stage[t] = pc[t]
         /\ \A t \in Threads :
              pc[t] \in {"check", "clear", "extend"} => stage[t] = "lookup"
         /\ \A p \in Processes, s \in Secrets : memory[p][s] = local[p][s].seq
         /\ memory \in [Processes -> [Secrets -> Nat]]
<1>1. memory \in [Processes -> [Secrets -> Nat]]
  BY Entries DEF TypeOK, memory
<1>2. \A p \in Processes, s \in Secrets : memory[p][s] = local[p][s].seq
  BY DEF memory
<1>3. \A t \in Threads : payload[t] = got[t].seq
  BY DEF payload
<1>4. QED
  BY <1>1, <1>2, <1>3 DEF stage

LEMMA StageFollows ==
  ASSUME TypeOK, NEW t \in Threads, NEW l \in PCs \ {"check", "clear", "extend"},
         pc' = [pc EXCEPT ![t] = l]
  PROVE  stage' = [stage EXCEPT ![t] = l]
BY DEF TypeOK, stage

LEMMA PayloadFollows ==
  ASSUME TypeOK, NEW t \in Threads, NEW e \in Entry, got' = [got EXCEPT ![t] = e]
  PROVE  payload' = [payload EXCEPT ![t] = e.seq]
BY DEF TypeOK, payload

LEMMA MemoryCleared ==
  ASSUME TypeOK, NEW p \in Processes, local' = [local EXCEPT ![p] = ClearAll]
  PROVE  memory' = [memory EXCEPT ![p] = [s \in Secrets |-> 0]]
BY DEF TypeOK, memory, ClearAll, None

LEMMA Unmoved ==
  /\ pc' = pc => stage' = stage
  /\ got' = got => payload' = payload
  /\ local' = local => memory' = memory
BY DEF stage, payload, memory

(* Every step is a step of the abstract cache or leaves it as it is: the    *)
(* threads' race to end a window shows only as a cache that forgets.        *)
LEMMA RefinementStep ==
  ASSUME TypeOK, TypeOK', [Next]_vars
  PROVE  [RTC!Next]_RTC!vars
<1> USE HomeAssumption, Entries, Reading, Unmoved DEF vars, Goto, End, PCs,
   Cached, RTC!vars, RTC!Goto, RTC!Drop
<1>a. /\ key \in [Threads -> Secrets] /\ got \in [Threads -> Entry]
      /\ seq \in Nat /\ store \in [Secrets -> Nat]
      /\ local \in [Processes -> [Secrets -> Entry]]
  BY DEF TypeOK
<1> USE <1>a
<1>b. \A t \in Threads, l \in PCs \ {"check", "clear", "extend"} :
        pc' = [pc EXCEPT ![t] = l] => stage' = [stage EXCEPT ![t] = l]
  BY StageFollows
<1>c. \A t \in Threads, e \in Entry :
        got' = [got EXCEPT ![t] = e] => payload' = [payload EXCEPT ![t] = e.seq]
  BY PayloadFollows
<1>1. ASSUME NEW t \in Threads, NEW s \in Secrets, Call(t, s, "check")
      PROVE  RTC!Begin(t, s, "lookup")
  <2>1. stage' = [stage EXCEPT ![t] = "lookup"]
    BY <1>1 DEF Call, stage, TypeOK
  <2>2. QED
    BY <1>1, <2>1 DEF Call, RTC!Begin
<1>2. ASSUME NEW t \in Threads, NEW s \in Secrets,
             NEW first \in {"set", "del"}, Call(t, s, first)
      PROVE  RTC!Begin(t, s, first)
  BY <1>2, <1>b DEF Call, RTC!Begin
<1>3. ASSUME NEW t \in Threads, Check(t) PROVE UNCHANGED RTC!vars
  BY <1>3 DEF Check, stage, TypeOK
<1>4. ASSUME NEW t \in Threads, Clear(t) PROVE RTC!Forget(Home[t])
  <2>1. stage' = stage
    BY <1>4 DEF Clear, stage, TypeOK
  <2>2. memory' = [memory EXCEPT ![Home[t]] = [s \in Secrets |-> 0]]
    BY <1>4, MemoryCleared DEF Clear
  <2>3. QED
    BY <1>4, <2>1, <2>2 DEF Clear, RTC!Forget
<1>5. ASSUME NEW t \in Threads, Extend(t) PROVE UNCHANGED RTC!vars
  BY <1>5 DEF Extend, stage, TypeOK
<1>6. ASSUME NEW t \in Threads, Hit(t) PROVE RTC!Hit(t)
  <2>1. /\ stage[t] = "lookup" /\ stage' = [stage EXCEPT ![t] = "return"]
        /\ memory[Home[t]][key[t]] # 0
    BY <1>6, <1>b DEF Hit
  <2>2. payload' = [payload EXCEPT ![t] = memory[Home[t]][key[t]]]
    <3> DEFINE e == local[Home[t]][key[t]]
    <3>1. e \in Entry /\ e.seq = memory[Home[t]][key[t]]
      OBVIOUS
    <3>2. got' = [got EXCEPT ![t] = e]
      BY <1>6 DEF Hit
    <3> HIDE DEF e
    <3>3. payload' = [payload EXCEPT ![t] = e.seq]
      BY <3>1, <3>2, <1>c
    <3>4. QED
      BY <3>1, <3>3
  <2>3. UNCHANGED <<seq, store, memory, key>>
    BY <1>6 DEF Hit
  <2>4. QED
    BY <2>1, <2>2, <2>3 DEF RTC!Hit
<1>7. ASSUME NEW t \in Threads, Miss(t) PROVE RTC!Miss(t)
  <2>1. /\ stage[t] = "lookup" /\ stage' = [stage EXCEPT ![t] = "get"]
    BY <1>7, <1>b DEF Miss
  <2>1a. memory[Home[t]][key[t]] = 0
    <3>1. local[Home[t]][key[t]].seq = 0
      BY <1>7 DEF Miss
    <3>2. QED
      BY <3>1
  <2>2. UNCHANGED <<seq, store, memory, key, payload>>
    BY <1>7 DEF Miss
  <2>3. QED
    BY <2>1, <2>1a, <2>2 DEF RTC!Miss
<1>8. ASSUME NEW t \in Threads, GetPayload(t) PROVE RTC!GetPayload(t)
  <2>1. [seq |-> store[key[t]], readAt |-> now] \in Entry
    BY DEF TypeOK
  <2>2. payload' = [payload EXCEPT ![t] = store[key[t]]]
    BY <1>8, <1>c, <2>1 DEF GetPayload
  <2>3. QED
    BY <1>8, <1>b, <2>2 DEF GetPayload, RTC!GetPayload
<1>9. ASSUME NEW t \in Threads,
             GetRaises(t) \/ WriteFails(t) \/ Return(t)
      PROVE  RTC!Leave(t, {"get", "set", "del", "return"}, "idle")
  <2>1. stage' = [stage EXCEPT ![t] = "idle"]
    BY <1>9, <1>b DEF GetRaises, WriteFails, Return
  <2>2. payload' = [payload EXCEPT ![t] = 0]
    BY <1>9, <1>c DEF GetRaises, WriteFails, Return, None
  <2>3. QED
    BY <1>9, <2>1, <2>2 DEF GetRaises, WriteFails, Return, RTC!Leave
<1>10. ASSUME NEW t \in Threads,
              InsertFound(t) \/ Insert(t) \/ InsertEvicting(t)
       PROVE  RTC!Insert(t)
  <2> DEFINE old == memory[Home[t]]
             new == [old EXCEPT ![key[t]] = IF @ = 0 THEN payload[t] ELSE @]
             Kept(E) == [s \in Secrets |-> IF s \in E THEN 0 ELSE new[s]]
  <2>1. PICK E \in SUBSET (Secrets \ {key[t]}) :
          memory' = [memory EXCEPT ![Home[t]] = Kept(E)]
    <3>1. CASE InsertFound(t)
      <4>1. memory' = memory /\ memory[Home[t]][key[t]] # 0
        BY <3>1 DEF InsertFound
      <4>2. Kept({}) = memory[Home[t]]
        BY <4>1
      <4>3. memory' = [memory EXCEPT ![Home[t]] = Kept({})]
        <5> HIDE DEF Kept
        <5>1. QED
          BY <4>1, <4>2
      <4>4. {} \in SUBSET (Secrets \ {key[t]})
        OBVIOUS
      <4>5. QED
        BY <4>3, <4>4
    <3>2. CASE Insert(t)
      <4> DEFINE m == [local[Home[t]] EXCEPT ![key[t]] = got[t]]
      <4>1. m \in [Secrets -> Entry] /\ local' = [local EXCEPT ![Home[t]] = m]
        BY <3>2 DEF Insert
      <4>2. memory[Home[t]][key[t]] = 0
        BY <3>2 DEF Insert
      <4>3. Kept({}) = [s \in Secrets |-> m[s].seq]
        BY <4>2
      <4>4. memory' = [memory EXCEPT ![Home[t]] = Kept({})]
        <5> HIDE DEF m, Kept
        <5>1. memory' = [p \in Processes |-> [s \in Secrets |-> local'[p][s].seq]]
          BY DEF memory
        <5>2. \A p \in Processes \ {Home[t]} : local'[p] = local[p]
          BY <4>1
        <5>3. local'[Home[t]] = m
          BY <4>1
        <5>4. [s \in Secrets |-> local'[Home[t]][s].seq] = Kept({})
          BY <5>3, <4>3
        <5>5. QED
          BY ONLY <5>1, <5>2, <5>4 DEF memory
      <4>5. {} \in SUBSET (Secrets \ {key[t]})
        OBVIOUS
      <4>6. QED
        BY <4>4, <4>5
    <3>3. CASE InsertEvicting(t)
      <4>1. PICK v \in Cached(Home[t]) :
              local' = [local EXCEPT ![Home[t]] =
                         [local[Home[t]] EXCEPT ![v] = None, ![key[t]] = got[t]]]
        BY <3>3 DEF InsertEvicting
      <4> DEFINE m == [local[Home[t]] EXCEPT ![v] = None, ![key[t]] = got[t]]
      <4>2. v # key[t] /\ memory[Home[t]][key[t]] = 0
        BY <3>3, <4>1 DEF InsertEvicting
      <4>3. m \in [Secrets -> Entry] /\ local' = [local EXCEPT ![Home[t]] = m]
        BY <4>1
      <4>4. Kept({v}) = [s \in Secrets |-> m[s].seq]
        BY <4>2 DEF None
      <4>5. memory' = [memory EXCEPT ![Home[t]] = Kept({v})]
        <5> HIDE DEF m, Kept
        <5>1. memory' = [p \in Processes |-> [s \in Secrets |-> local'[p][s].seq]]
          BY DEF memory
        <5>2. \A p \in Processes \ {Home[t]} : local'[p] = local[p]
          BY <4>3
        <5>3. local'[Home[t]] = m
          BY <4>3
        <5>4. [s \in Secrets |-> local'[Home[t]][s].seq] = Kept({v})
          BY <5>3, <4>4
        <5>5. QED
          BY ONLY <5>1, <5>2, <5>4 DEF memory
      <4>6. {v} \in SUBSET (Secrets \ {key[t]})
        BY <4>2
      <4>7. QED
        BY <4>5, <4>6
    <3>4. QED
      BY <1>10, <3>1, <3>2, <3>3
  <2>2. /\ stage[t] = "insert" /\ stage' = [stage EXCEPT ![t] = "return"]
        /\ UNCHANGED <<seq, store, key, payload>>
    BY <1>10, <1>b DEF InsertFound, Insert, InsertEvicting
  <2>3. QED
    BY <2>1, <2>2 DEF RTC!Insert
<1>11. ASSUME NEW t \in Threads, Set(t) \/ Del(t) PROVE RTC!Write(t)
  <2>1. [seq |-> seq + 1, readAt |-> now] \in Entry
    BY DEF TypeOK
  <2>2. payload' = [payload EXCEPT ![t] = seq + 1]
    BY <1>11, <1>c, <2>1 DEF Set, Del
  <2>3. stage' = [stage EXCEPT ![t] = "invalidate"]
    BY <1>11, <1>b DEF Set, Del
  <2>4. QED
    BY <1>11, <2>2, <2>3 DEF Set, Del, RTC!Write, RTC!Apply
<1>12. ASSUME NEW t \in Threads, WriteReplyLost(t)
       PROVE  RTC!WriteReplyLost(t, "idle")
  <2>1. stage' = [stage EXCEPT ![t] = "idle"]
    BY <1>12, <1>b DEF WriteReplyLost
  <2>2. payload' = [payload EXCEPT ![t] = 0]
    BY <1>12, <1>c DEF WriteReplyLost, None
  <2>3. QED
    BY <1>12, <2>1, <2>2 DEF WriteReplyLost, RTC!WriteReplyLost, RTC!Apply
<1>13. ASSUME NEW t \in Threads, Invalidate(t)
       PROVE  RTC!Invalidate(t, "idle")
  <2>1. memory' = [memory EXCEPT ![Home[t]] = [s \in Secrets |-> 0]]
    BY <1>13, MemoryCleared DEF Invalidate
  <2>2. stage' = [stage EXCEPT ![t] = "idle"]
    BY <1>13, <1>b DEF Invalidate
  <2>3. payload' = [payload EXCEPT ![t] = 0]
    BY <1>13, <1>c DEF Invalidate, None
  <2>4. QED
    BY <1>13, <2>1, <2>2, <2>3 DEF Invalidate, RTC!Invalidate
<1>14. CASE Tick
  BY <1>14 DEF Tick
<1>15. ASSUME Flush PROVE RTC!Flush
  BY <1>15 DEF Flush, RTC!Flush
<1>16. CASE UNCHANGED vars
  BY <1>16
<1>17. QED
  BY <1>1, <1>2, <1>3, <1>4, <1>5, <1>6, <1>7, <1>8, <1>9, <1>10, <1>11,
     <1>12, <1>13, <1>14, <1>15, <1>16 DEF Next, Step, RTC!Next

(* A caller that knows ReadThroughCache knows all it may rely on: every     *)
(* behaviour of the two levels is one of it.                                *)
THEOREM Refinement == Spec => ImplementsReadThrough
<1>1. Init => RTC!Init
  BY DEF Init, None, RTC!Init, stage, payload, memory
<1>2. TypeOK /\ TypeOK' /\ [Next]_vars => [RTC!Next]_RTC!vars
  BY RefinementStep
<1>3. QED
  BY <1>1, <1>2, Typing, PTL DEF Spec, RTC!Spec, ImplementsReadThrough
-----------------------------------------------------------------------------
(* What the run LocalFillRace refutes for two threads holds for one.        *)

(* One thread does all the calls, those of every process.                   *)
OneThread == \A t, u \in Threads : t = u

(* With one thread, as in a process of a synchronous server, and no outage, *)
(* no load is overtaken by a write of the secret.                           *)
LEMMA SoleStep ==
  ASSUME OneThread, Events = {}, TypeOK, SoleInv, [Next]_vars
  PROVE  SoleInv'
<1> USE DEF vars, Goto, End
<1> DEFINE Agrees(p, s) ==
      \/ local[p][s].seq = 0
      \/ local[p][s].seq = store[s]
      \/ \E t \in Threads : pc[t] = "invalidate" /\ key[t] = s
<1>a. /\ \A p \in Processes, s \in Secrets : Agrees(p, s)
      /\ \A t \in Threads : pc[t] = "insert" => got[t].seq = store[key[t]]
      /\ \A p \in Processes, s \in Secrets :
           local[p][s].seq # 0 => \E t \in Threads : Home[t] = p
  BY DEF SoleInv, OnlyProcessHoldsCurrent, Cached
<1>b. ASSUME \A p \in Processes, s \in Secrets : Agrees(p, s)',
             \A t \in Threads :
               pc'[t] = "insert" => got'[t].seq = store'[key'[t]],
             \A p \in Processes, s \in Secrets :
               local'[p][s].seq # 0 => \E t \in Threads : Home[t] = p
      PROVE  SoleInv'
  BY <1>b DEF SoleInv, OnlyProcessHoldsCurrent, Cached
<1>c. ASSUME NEW t \in Threads PROVE \A u \in Threads : u = t
  BY DEF OneThread
<1> USE Entries, HomeAssumption, BoundsAssumption DEF TypeOK, PCs, None
<1>1. ASSUME NEW t \in Threads, NEW s \in Secrets,
             NEW first \in {"check", "set", "del"}, Call(t, s, first)
      PROVE SoleInv'
  <2>1. pc[t] = "idle" /\ pc'[t] \in {"check", "set", "del"}
        /\ UNCHANGED <<local, store>>
    BY <1>1 DEF Call
  <2>2. QED
    BY <1>a, <1>b, <1>c, <2>1
<1>2. ASSUME NEW t \in Threads,
             Check(t) \/ Extend(t) \/ Hit(t) \/ Miss(t) \/ GetPayload(t)
      PROVE SoleInv'
  <2>1. /\ pc[t] # "invalidate" /\ UNCHANGED <<local, store>>
        /\ pc'[t] = "insert" => got'[t].seq = store'[key'[t]]
    BY <1>2 DEF Check, Extend, Hit, Miss, GetPayload
  <2>2. QED
    BY <1>a, <1>b, <1>c, <2>1
<1>3. ASSUME NEW t \in Threads, GetRaises(t) \/ InsertFound(t) \/ Return(t)
      PROVE SoleInv'
  <2>1. /\ pc[t] # "invalidate" /\ UNCHANGED <<local, store>>
        /\ pc'[t] # "insert"
    BY <1>3 DEF GetRaises, InsertFound, Return
  <2>2. QED
    BY <1>a, <1>b, <1>c, <2>1
<1>4. ASSUME NEW t \in Threads, Clear(t) \/ Invalidate(t) PROVE SoleInv'
  <2>1. /\ pc'[t] # "insert" /\ UNCHANGED <<store, key>>
        /\ \A s \in Secrets : local'[Home[t]][s].seq = 0
        /\ \A p \in Processes \ {Home[t]} : local'[p] = local[p]
    BY <1>4 DEF Clear, Invalidate, ClearAll
  <2>2. ASSUME NEW p \in Processes, NEW s \in Secrets
        PROVE  local'[p][s].seq = 0
    <3>1. CASE p = Home[t]
      BY <2>1, <3>1
    <3>2. CASE p # Home[t]
      <4>1. local[p][s].seq = 0
        BY <1>a, <1>c, <3>2
      <4>2. QED
        BY <2>1, <3>2, <4>1
    <3>3. QED
      BY <3>1, <3>2
  <2>3. QED
    BY <1>b, <1>c, <2>1, <2>2
<1>5. ASSUME NEW t \in Threads, Insert(t) \/ InsertEvicting(t) PROVE SoleInv'
  <2>1. /\ pc[t] = "insert" /\ pc'[t] # "insert" /\ UNCHANGED store
        /\ \A p \in Processes, s \in Secrets :
             \/ local'[p][s] = local[p][s]
             \/ local'[p][s].seq = 0
             \/ p = Home[t] /\ s = key[t] /\ local'[p][s] = got[t]
    <3>1. CASE Insert(t)
      BY <3>1 DEF Insert
    <3>2. CASE InsertEvicting(t)
      <4>1. PICK e \in Secrets :
              local' = [local EXCEPT ![Home[t]] =
                         [@ EXCEPT ![e] = None, ![key[t]] = got[t]]]
        BY <3>2 DEF InsertEvicting, Cached
      <4>2. QED
        BY <3>2, <4>1, SMTT(30) DEF InsertEvicting
    <3>3. QED
      BY <1>5, <3>1, <3>2
  <2>2. ASSUME NEW p \in Processes, NEW s \in Secrets
        PROVE  /\ local'[p][s].seq = 0 \/ local'[p][s].seq = store'[s]
               /\ local'[p][s].seq # 0 => Home[t] = p
    BY <1>a, <1>c, <2>1
  <2>3. QED
    BY <1>b, <1>c, <2>1, <2>2
<1>6. ASSUME NEW t \in Threads, Set(t) \/ Del(t) PROVE SoleInv'
  <2>1. /\ pc[t] # "invalidate" /\ pc'[t] = "invalidate"
        /\ UNCHANGED <<local, key>>
        /\ \A s \in Secrets \ {key[t]} : store'[s] = store[s]
    BY <1>6 DEF Set, Del
  <2>2. QED
    BY <1>a, <1>b, <1>c, <2>1
<1>7. ASSUME NEW t \in Threads PROVE ~WriteReplyLost(t) /\ ~WriteFails(t)
  BY DEF WriteReplyLost, WriteFails
<1>8. CASE Tick \/ UNCHANGED vars
  <2>1. UNCHANGED <<local, store, pc, key, got>>
    BY <1>8 DEF Tick
  <2>2. QED
    BY <1>a, <1>b, <2>1
<1>9. ~Flush
  BY DEF Flush
<1>10. QED
  BY <1>1, <1>2, <1>3, <1>4, <1>5, <1>6, <1>7, <1>8, <1>9
  DEF Next, Step

(* One thread and a Redis that answers: a memory cache holds what Redis     *)
(* holds, except between a write and its invalidation.                      *)
THEOREM SoleThread ==
  ASSUME OneThread, Events = {}
  PROVE  Spec => []OnlyProcessHoldsCurrent
<1>1. Init => SoleInv
  BY DEF Init, SoleInv, OnlyProcessHoldsCurrent, Cached, None
<1>2. TypeOK /\ SoleInv /\ [Next]_vars => SoleInv'
  BY SoleStep
<1>3. SoleInv => OnlyProcessHoldsCurrent
  BY DEF SoleInv
<1>4. QED
  BY <1>1, <1>2, <1>3, Typing, PTL DEF Spec
=============================================================================
