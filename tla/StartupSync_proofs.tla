------------------------- MODULE StartupSync_proofs -------------------------
(* Proofs about StartupSync, for any processes, secrets, failures and times *)
(* to live.                                                                 *)
EXTENDS StartupSync, TLAPS

(* Every variable keeps its type.                                           *)
LEMMA TypeStep ==
  ASSUME TypeOK, [Next]_vars
  PROVE  TypeOK'
<1>0. trouble' \in {"none", "outage", "work"}
  BY DEF TypeOK, vars, Next, ProcessStep, ThreadStep, Disturbance, Trouble
<1> USE <1>0, TTLAssumption DEF vars, keys, needs, locals, history, Goto,
   Leave, LeaveAfter, Forget, Visited, Lease, Less, Working, Section, PCs,
   TypeOK
<1>1. ASSUME NEW p \in Processes, Start(p) PROVE TypeOK'
  BY <1>1 DEF Start
<1>2. ASSUME NEW p \in Processes, TablesNotReady(p) PROVE TypeOK'
  BY <1>2 DEF TablesNotReady
<1>3. ASSUME NEW p \in Processes, CheckMarker(p) PROVE TypeOK'
  BY <1>3 DEF CheckMarker
<1>4. ASSUME NEW p \in Processes, RedisDownAtStart(p) PROVE TypeOK'
  BY <1>4 DEF RedisDownAtStart
<1>5. ASSUME NEW p \in Processes, Acquire(p) PROVE TypeOK'
  BY <1>5 DEF Acquire
<1>6. ASSUME NEW p \in Processes, AcquireRefused(p) PROVE TypeOK'
  BY <1>6 DEF AcquireRefused
<1>7. ASSUME NEW p \in Processes, AcquireReplyLost(p) PROVE TypeOK'
  BY <1>7 DEF AcquireReplyLost
<1>8. ASSUME NEW p \in Processes, Query(p) PROVE TypeOK'
  BY <1>8 DEF Query
<1>9. ASSUME NEW p \in Processes, PassAborts(p) PROVE TypeOK'
  BY <1>9 DEF PassAborts, Finish, Visits
<1>10. ASSUME NEW p \in Processes, PassEnds(p) PROVE TypeOK'
  BY <1>10 DEF PassEnds
<1>11. ASSUME NEW p \in Processes, Mark(p) PROVE TypeOK'
  BY <1>11 DEF Mark, Finish
<1>12. ASSUME NEW p \in Processes, MarkFails(p) PROVE TypeOK'
  BY <1>12 DEF MarkFails, Finish
<1>13. ASSUME NEW p \in Processes, Compare(p) PROVE TypeOK'
  BY <1>13 DEF Compare
<1>14. ASSUME NEW p \in Processes, CompareDiffers(p) PROVE TypeOK'
  BY <1>14 DEF CompareDiffers
<1>15. ASSUME NEW p \in Processes, DeleteLock(p) PROVE TypeOK'
  BY <1>15 DEF DeleteLock
<1>16. ASSUME NEW p \in Processes, ReleaseFails(p) PROVE TypeOK'
  BY <1>16 DEF ReleaseFails
<1>17. ASSUME NEW p \in Processes, Restart(p) PROVE TypeOK'
  BY <1>17 DEF Restart
<1>18. ASSUME NEW p \in Processes, NEW s \in Secrets, Skip(p, s)
      PROVE TypeOK'
  BY <1>18 DEF Skip, Told
<1>19. ASSUME NEW p \in Processes, NEW s \in Secrets, RefreshOne(p, s)
      PROVE TypeOK'
  BY <1>19 DEF RefreshOne, Tried, Told, Behind
<1>20. ASSUME NEW p \in Processes, NEW s \in Secrets, RefreshOneFails(p, s)
      PROVE TypeOK'
  BY <1>20 DEF RefreshOneFails, Tried, Told, Behind
<1>21. CASE Tick
  <2>1. lockTTL' \in 0 .. LockTTL /\ marker' \in 0 .. MarkerTTL
    BY <1>21 DEF Tick
  <2>2. lock' \in Processes \cup {NoOne}
    BY <1>21 DEF Tick
  <2>3. late' \subseteq Processes /\ lost' \in BOOLEAN
    BY <1>21 DEF Tick
  <2>4. UNCHANGED <<pc, needs, locals, tried, robbed>>
    BY <1>21 DEF Tick
  <2>5. QED
    BY <2>1, <2>2, <2>3, <2>4
<1>22. CASE Flush
  BY <1>22 DEF Flush
<1>23. ASSUME NEW s \in Secrets, Age(s) PROVE TypeOK'
  BY <1>23 DEF Age
<1>24. CASE UNCHANGED vars
  BY <1>24
<1>25. QED
  BY <1>1, <1>2, <1>3, <1>4, <1>5, <1>6, <1>7, <1>8, <1>9, <1>10, <1>11,
     <1>12, <1>13, <1>14, <1>15, <1>16, <1>17, <1>18, <1>19, <1>20, <1>21,
     <1>22, <1>23, <1>24
  DEF Next, ProcessStep, ThreadStep, RunStep, Outage, Disturbance

(* Until it is lost, the lock names whoever works.                          *)
LEMMA HoldsLockStep ==
  ASSUME TypeOK, HoldsLock, [Next]_vars
  PROVE  HoldsLock'
<1> USE NoOneAssumption DEF HoldsLock, vars, keys, needs, locals, history,
   Goto, Leave, LeaveAfter, Forget, Visited, Lease, Less, Working, Section,
   PCs, TypeOK
<1>1. ASSUME NEW p \in Processes, Start(p) PROVE HoldsLock'
  BY <1>1 DEF Start
<1>2. ASSUME NEW p \in Processes, TablesNotReady(p) PROVE HoldsLock'
  BY <1>2 DEF TablesNotReady
<1>3. ASSUME NEW p \in Processes, CheckMarker(p) PROVE HoldsLock'
  BY <1>3 DEF CheckMarker
<1>4. ASSUME NEW p \in Processes, RedisDownAtStart(p) PROVE HoldsLock'
  BY <1>4 DEF RedisDownAtStart
<1>5. ASSUME NEW p \in Processes, Acquire(p) PROVE HoldsLock'
  BY <1>5 DEF Acquire
<1>6. ASSUME NEW p \in Processes, AcquireRefused(p) PROVE HoldsLock'
  BY <1>6 DEF AcquireRefused
<1>7. ASSUME NEW p \in Processes, AcquireReplyLost(p) PROVE HoldsLock'
  BY <1>7 DEF AcquireReplyLost
<1>8. ASSUME NEW p \in Processes, Query(p) PROVE HoldsLock'
  BY <1>8 DEF Query
<1>9. ASSUME NEW p \in Processes, PassAborts(p) PROVE HoldsLock'
  BY <1>9 DEF PassAborts, Finish, Visits
<1>10. ASSUME NEW p \in Processes, PassEnds(p) PROVE HoldsLock'
  BY <1>10 DEF PassEnds
<1>11. ASSUME NEW p \in Processes, Mark(p) PROVE HoldsLock'
  BY <1>11 DEF Mark, Finish
<1>12. ASSUME NEW p \in Processes, MarkFails(p) PROVE HoldsLock'
  BY <1>12 DEF MarkFails, Finish
<1>13. ASSUME NEW p \in Processes, Compare(p) PROVE HoldsLock'
  BY <1>13 DEF Compare
<1>14. ASSUME NEW p \in Processes, CompareDiffers(p) PROVE HoldsLock'
  BY <1>14 DEF CompareDiffers
<1>15. ASSUME NEW p \in Processes, DeleteLock(p) PROVE HoldsLock'
  BY <1>15 DEF DeleteLock
<1>16. ASSUME NEW p \in Processes, ReleaseFails(p) PROVE HoldsLock'
  BY <1>16 DEF ReleaseFails
<1>17. ASSUME NEW p \in Processes, Restart(p) PROVE HoldsLock'
  BY <1>17 DEF Restart
<1>18. ASSUME NEW p \in Processes, NEW s \in Secrets, Skip(p, s)
      PROVE HoldsLock'
  BY <1>18 DEF Skip, Told
<1>19. ASSUME NEW p \in Processes, NEW s \in Secrets, RefreshOne(p, s)
      PROVE HoldsLock'
  BY <1>19 DEF RefreshOne, Tried, Told, Behind
<1>20. ASSUME NEW p \in Processes, NEW s \in Secrets, RefreshOneFails(p, s)
      PROVE HoldsLock'
  BY <1>20 DEF RefreshOneFails, Tried, Told, Behind
<1>21. CASE Tick
  BY <1>21 DEF Tick
<1>22. CASE Flush
  BY <1>22 DEF Flush
<1>23. ASSUME NEW s \in Secrets, Age(s) PROVE HoldsLock'
  BY <1>23 DEF Age
<1>24. CASE UNCHANGED vars
  BY <1>24
<1>25. QED
  BY <1>1, <1>2, <1>3, <1>4, <1>5, <1>6, <1>7, <1>8, <1>9, <1>10, <1>11,
     <1>12, <1>13, <1>14, <1>15, <1>16, <1>17, <1>18, <1>19, <1>20, <1>21,
     <1>22, <1>23, <1>24
  DEF Next, ProcessStep, ThreadStep, RunStep, Outage, Disturbance

(* What a step does to the rows that the passes have read.                  *)
LEMMA StepKinds ==
  ASSUME TypeOK, [Next]_vars
  PROVE  \/ \E p \in Processes : Query(p)
         \/ \E p \in Processes, s \in Secrets :
              Skip(p, s) \/ RefreshOne(p, s) \/ RefreshOneFails(p, s)
         \/ \E s \in Secrets : Age(s)
         \/ \E p \in Processes, label \in PCs \ {"visit"} :
              /\ Goto(p, label) /\ Forget(p) /\ UNCHANGED <<due, flagged>>
              /\ lost /\ ~lost' => \A q \in Processes \ {p} : ~Working(q)
         \/ /\ UNCHANGED <<locals, due, flagged>>
            /\ lost /\ ~lost' => \A p \in Processes : ~Working(p)
            /\ \A p \in Processes : pc'[p] = "visit" <=> pc[p] = "visit"
<1> USE DEF TypeOK, PCs, vars, keys, needs, locals, history, Goto, Leave,
   LeaveAfter
<1> DEFINE Ends == \E p \in Processes, label \in PCs \ {"visit"} :
              /\ Goto(p, label) /\ Forget(p) /\ UNCHANGED <<due, flagged>>
              /\ lost /\ ~lost' => \A q \in Processes \ {p} : ~Working(q)
           Elsewhere ==
            /\ UNCHANGED <<locals, due, flagged>>
            /\ lost /\ ~lost' => \A p \in Processes : ~Working(p)
            /\ \A p \in Processes : pc'[p] = "visit" <=> pc[p] = "visit"
<1>1. ASSUME NEW p \in Processes, NEW label \in {"off", "done"},
             NEW victims \in SUBSET Processes,
             LeaveAfter(p, label, victims), UNCHANGED needs
      PROVE  Ends
  BY <1>1
<1>2. ASSUME NEW p \in Processes,
             \/ TablesNotReady(p) \/ RedisDownAtStart(p)
             \/ AcquireReplyLost(p) \/ AcquireRefused(p)
             \/ CompareDiffers(p) \/ ReleaseFails(p) \/ Restart(p)
      PROVE  Ends
  <2>1. /\ \E label \in {"off", "done"} : LeaveAfter(p, label, {})
        /\ UNCHANGED needs
    BY <1>2 DEF TablesNotReady, RedisDownAtStart, AcquireReplyLost,
       AcquireRefused, CompareDiffers, ReleaseFails, Restart
  <2>2. QED
    BY <1>1, <2>1
<1>3. ASSUME NEW p \in Processes, DeleteLock(p) PROVE Ends
  <2>1. /\ LeaveAfter(p, "done", {q \in Processes : lock = q /\ Working(q)})
        /\ UNCHANGED needs
    BY <1>3 DEF DeleteLock
  <2>2. {q \in Processes : lock = q /\ Working(q)} \in SUBSET Processes
    OBVIOUS
  <2>3. QED
    BY <1>1, <2>1, <2>2
<1>4. ASSUME NEW p \in Processes, PassEnds(p) \/ PassAborts(p) PROVE Ends
  BY <1>4 DEF PassEnds, PassAborts, Finish
<1>5. ASSUME NEW p \in Processes, CheckMarker(p) PROVE Ends \/ Elsewhere
  <2>1. CASE marker > 0
    <3>1. LeaveAfter(p, "done", {}) /\ UNCHANGED needs
      BY <1>5, <2>1 DEF CheckMarker
    <3>2. QED
      BY <1>1, <3>1
  <2>2. CASE ~(marker > 0)
    BY <1>5, <2>2 DEF CheckMarker
  <2>3. QED
    BY <2>1, <2>2
<1>6. ASSUME NEW p \in Processes,
             \/ Start(p) \/ Acquire(p) \/ Mark(p) \/ MarkFails(p)
             \/ Compare(p)
      PROVE  Elsewhere
  BY <1>6 DEF Start, Acquire, Mark, MarkFails, Compare, Finish
<1>7. CASE Tick
  BY <1>7 DEF Tick
<1>8. CASE Flush
  BY <1>8 DEF Flush
<1>9. CASE UNCHANGED vars
  BY <1>9
<1>10. QED
  BY <1>2, <1>3, <1>4, <1>5, <1>6, <1>7, <1>8, <1>9
  DEF Next, ProcessStep, ThreadStep, RunStep, Outage, Disturbance

(* Only a pass has read rows.                                               *)
LEMMA ReadByPassStep ==
  ASSUME TypeOK, ReadByPass, [Next]_vars
  PROVE  ReadByPass'
<1> USE DEF ReadByPass, TypeOK, PCs, Goto
<1>1. ASSUME NEW p \in Processes, Query(p) PROVE ReadByPass'
  BY <1>1 DEF Query
<1>2. ASSUME NEW p \in Processes, NEW s \in Secrets,
             \/ Skip(p, s) \/ RefreshOne(p, s) \/ RefreshOneFails(p, s)
      PROVE  ReadByPass'
  BY <1>2 DEF Skip, RefreshOne, RefreshOneFails, Tried, Visits, Visited, keys
<1>3. ASSUME NEW s \in Secrets, Age(s) PROVE ReadByPass'
  BY <1>3 DEF Age
<1>4. ASSUME NEW p \in Processes, NEW label \in PCs \ {"visit"},
             Goto(p, label), Forget(p)
      PROVE  ReadByPass'
  BY <1>4 DEF Forget
<1>5. ASSUME UNCHANGED locals,
             \A p \in Processes : pc'[p] = "visit" <=> pc[p] = "visit"
      PROVE  ReadByPass'
  BY <1>5 DEF locals
<1>6. QED
  BY <1>1, <1>2, <1>3, <1>4, <1>5, StepKinds

(* What a pass knows of rows, it knows of rows it has yet to visit.         *)
LEMMA OfTheRowsStep ==
  ASSUME TypeOK, ReadByPass, OfTheRows, [Next]_vars
  PROVE  OfTheRows'
<1> USE DEF ReadByPass, OfTheRows, TypeOK
<1>1. ASSUME NEW p \in Processes, Query(p) PROVE OfTheRows'
  BY <1>1 DEF Query
<1>2. ASSUME NEW p \in Processes, NEW s \in Secrets,
             \/ Skip(p, s) \/ RefreshOne(p, s) \/ RefreshOneFails(p, s)
      PROVE  OfTheRows'
  <2>1. /\ todo' = [todo EXCEPT ![p] = @ \ {s}]
        /\ flags' = [flags EXCEPT ![p] = @ \ {s}]
        /\ \E Q \in SUBSET Behind(p, s) : seen' = Told(seen, p, s, Q)
        /\ \E Q \in SUBSET Behind(p, s) : touched' = Told(touched, p, s, Q)
    BY <1>2 DEF Skip, RefreshOne, RefreshOneFails, Tried, Visited
  <2>2. ASSUME NEW f \in [Processes -> SUBSET Secrets],
               NEW Q \in SUBSET Behind(p, s),
               \A q \in Processes : f[q] \subseteq todo[q]
        PROVE  \A q \in Processes : Told(f, p, s, Q)[q] \subseteq todo'[q]
    BY <2>1, <2>2 DEF Told, Behind
  <2>3. \A q \in Processes : seen'[q] \subseteq todo'[q]
    BY <2>1, <2>2
  <2>4. \A q \in Processes : touched'[q] \subseteq todo'[q]
    BY <2>1, <2>2
  <2>5. \A q \in Processes : flags'[q] \subseteq todo'[q]
    BY <2>1
  <2>6. QED
    BY <2>3, <2>4, <2>5
<1>3. ASSUME NEW s \in Secrets, Age(s) PROVE OfTheRows'
  BY <1>3 DEF Age
<1>4. ASSUME NEW p \in Processes, Forget(p) PROVE OfTheRows'
  BY <1>4 DEF Forget
<1>5. ASSUME UNCHANGED locals PROVE OfTheRows'
  BY <1>5 DEF locals
<1>6. QED
  BY <1>1, <1>2, <1>3, <1>4, <1>5, StepKinds

(* Until the lock is lost, nobody else is at the rows that a pass has read. *)
LEMMA NothingTouchedStep ==
  ASSUME TypeOK, HoldsLock, ReadByPass, OfTheRows, NothingTouched,
         [Next]_vars
  PROVE  NothingTouched'
<1> USE DEF TypeOK, NothingTouched
<1> SUFFICES ASSUME ~lost' PROVE \A p \in Processes : touched'[p] = {}
  OBVIOUS
<1>0. ASSUME NEW q \in Processes, ~Working(q) PROVE touched[q] = {}
  BY <1>0 DEF ReadByPass, OfTheRows, Working, Section
<1>1. ASSUME NEW p \in Processes, Query(p)
      PROVE  \A q \in Processes : touched'[q] = {}
  BY <1>1 DEF Query, history
<1>2. ASSUME NEW p \in Processes, NEW s \in Secrets,
             \/ Skip(p, s) \/ RefreshOne(p, s) \/ RefreshOneFails(p, s)
      PROVE  \A q \in Processes : touched'[q] = {}
  <2>1. /\ pc[p] = "visit" /\ UNCHANGED lost
        /\ \/ touched' = Told(touched, p, s, {})
           \/ touched' = Told(touched, p, s, Behind(p, s))
    BY <1>2 DEF Skip, RefreshOne, RefreshOneFails, Tried, Visits
  <2>2. Behind(p, s) = {}
    BY <2>1, NoOneAssumption
    DEF Behind, HoldsLock, ReadByPass, Working, Section
  <2>3. QED
    BY <2>1, <2>2 DEF Told
<1>3. ASSUME NEW s \in Secrets, Age(s)
      PROVE  \A q \in Processes : touched'[q] = {}
  BY <1>3 DEF Age, history
<1>4. ASSUME NEW p \in Processes, Forget(p),
             lost => \A q \in Processes \ {p} : ~Working(q)
      PROVE  \A q \in Processes : touched'[q] = {}
  BY <1>0, <1>4 DEF Forget
<1>5. ASSUME UNCHANGED locals, lost => \A p \in Processes : ~Working(p)
      PROVE  \A q \in Processes : touched'[q] = {}
  BY <1>0, <1>5 DEF locals
<1>6. QED
  BY <1>1, <1>2, <1>3, <1>4, <1>5, StepKinds

(* What a pass has read of a row is what the row says, unless another pass  *)
(* has tried to refresh it since.                                           *)
LEMMA AsReadStep ==
  ASSUME TypeOK, ReadByPass, OfTheRows, AsRead, [Next]_vars
  PROVE  AsRead'
<1> USE DEF TypeOK, AsRead
<1>1. ASSUME NEW p \in Processes, Query(p) PROVE AsRead'
  BY <1>1 DEF Query, needs
<1>2. ASSUME NEW p \in Processes, NEW s \in Secrets,
             \/ Skip(p, s) \/ RefreshOne(p, s) \/ RefreshOneFails(p, s)
      PROVE  AsRead'
  <2> SUFFICES ASSUME NEW q \in Processes,
                      NEW r \in todo'[q] \ touched'[q]
               PROVE  /\ r \in seen'[q] <=> r \in due'
                      /\ r \in flags'[q] <=> r \in flagged'
    OBVIOUS
  <2>1. /\ todo' = [todo EXCEPT ![p] = @ \ {s}]
        /\ flags' = [flags EXCEPT ![p] = @ \ {s}]
    BY <1>2 DEF Skip, RefreshOne, RefreshOneFails, Tried, Visited
  <2>2. CASE r = s
    <3>1. q # p /\ s \in todo[q] /\ q \in Behind(p, s)
      BY <2>1, <2>2 DEF Behind
    <3>2. touched' = Told(touched, p, s, {}) /\ Skip(p, s)
      BY <1>2, <2>2, <3>1 DEF Skip, RefreshOne, RefreshOneFails, Tried, Told
    <3>3. seen' = Told(seen, p, s, {}) /\ UNCHANGED <<due, flagged>>
      BY <3>2 DEF Skip, needs
    <3>4. QED
      BY <2>1, <2>2, <3>1, <3>2, <3>3 DEF Told
  <2>3. CASE r # s
    <3>1. r \in todo[q] /\ r \notin touched[q]
      BY <1>2, <2>1, <2>3
      DEF Skip, RefreshOne, RefreshOneFails, Tried, Told, Behind
    <3>2. r \in seen'[q] <=> r \in seen[q]
      BY <1>2, <2>3 DEF Skip, RefreshOne, RefreshOneFails, Told
    <3>3. (r \in due' <=> r \in due) /\ (r \in flagged' <=> r \in flagged)
      BY <1>2, <2>3 DEF Skip, RefreshOne, RefreshOneFails, needs
    <3>4. QED
      BY <2>1, <2>3, <3>1, <3>2, <3>3
  <2>4. QED
    BY <2>2, <2>3
<1>3. ASSUME NEW s \in Secrets, Age(s) PROVE AsRead'
  BY <1>3 DEF Age
<1>4. ASSUME NEW p \in Processes, Forget(p), UNCHANGED <<due, flagged>>
      PROVE  AsRead'
  BY <1>4 DEF Forget
<1>5. ASSUME UNCHANGED <<locals, due, flagged>> PROVE AsRead'
  BY <1>5 DEF locals
<1>6. QED
  BY <1>1, <1>2, <1>3, <1>4, <1>5, StepKinds

(* Every variable has its type at the start.                                *)
LEMMA InitTypeOK == Init => TypeOK
<1> SUFFICES ASSUME Init PROVE TypeOK
  OBVIOUS
<1>1. lockTTL \in 0 .. LockTTL /\ marker \in 0 .. MarkerTTL
  BY TTLAssumption DEF Init
<1>2. /\ pc \in [Processes -> PCs]
      /\ todo \in [Processes -> SUBSET Secrets]
      /\ seen \in [Processes -> SUBSET Secrets]
      /\ flags \in [Processes -> SUBSET Secrets]
      /\ touched \in [Processes -> SUBSET Secrets]
  BY DEF Init, PCs
<1>3. QED
  BY <1>1, <1>2 DEF Init, TypeOK

(* The inductive invariant holds in every reachable state.                  *)
THEOREM Invariance == Spec => []Inv
<1>1. Init => Inv
  BY InitTypeOK DEF Init, Inv, HoldsLock, ReadByPass, OfTheRows,
                      NothingTouched, AsRead, Working, Section
<1>2. Inv /\ [Next]_vars => Inv'
  BY TypeStep, HoldsLockStep, ReadByPassStep, OfTheRowsStep,
     NothingTouchedStep, AsReadStep
  DEF Inv
<1>3. QED
  BY <1>1, <1>2, PTL DEF Spec

(* Every variable has its type in every reachable state.                    *)
THEOREM Typing == Spec => []TypeOK
BY Invariance, PTL DEF Inv

(* Until a working process loses the lock, one process works at a time.     *)
THEOREM Exclusion == Spec => []ExclusionUntilLost
<1>1. Inv => ExclusionUntilLost
  BY DEF Inv, HoldsLock, ExclusionUntilLost
<1>2. QED
  BY <1>1, Invariance, PTL

(* Until then no pass finds its work done by another pass.                  *)
THEOREM WorkedOnce == Spec => []NoWorkRepeated
<1>1. Inv => NoWorkRepeated
  BY DEF Inv, NothingTouched, AsRead, NoWorkRepeated, Selected, pending,
         missing
<1>2. QED
  BY <1>1, Invariance, PTL

(* Whoever works without its token in the lock is counted as late or robbed, *)
(* and whoever is counted works.                                            *)
LEMMA LeaseInvStep ==
  ASSUME TypeOK, LeaseInv, [Next]_vars
  PROVE  LeaseInv'
<1> USE NoOneAssumption DEF LeaseInv, vars, keys, needs, locals, history,
   Goto, Leave, LeaveAfter, Forget, Visited, Lease, Less, Working, Section,
   PCs, TypeOK
<1>1. ASSUME NEW p \in Processes, Start(p) PROVE LeaseInv'
  BY <1>1 DEF Start
<1>2. ASSUME NEW p \in Processes, TablesNotReady(p) PROVE LeaseInv'
  BY <1>2 DEF TablesNotReady
<1>3. ASSUME NEW p \in Processes, CheckMarker(p) PROVE LeaseInv'
  BY <1>3 DEF CheckMarker
<1>4. ASSUME NEW p \in Processes, RedisDownAtStart(p) PROVE LeaseInv'
  BY <1>4 DEF RedisDownAtStart
<1>5. ASSUME NEW p \in Processes, Acquire(p) PROVE LeaseInv'
  BY <1>5 DEF Acquire
<1>6. ASSUME NEW p \in Processes, AcquireRefused(p) PROVE LeaseInv'
  BY <1>6 DEF AcquireRefused
<1>7. ASSUME NEW p \in Processes, AcquireReplyLost(p) PROVE LeaseInv'
  BY <1>7 DEF AcquireReplyLost
<1>8. ASSUME NEW p \in Processes, Query(p) PROVE LeaseInv'
  BY <1>8 DEF Query
<1>9. ASSUME NEW p \in Processes, PassAborts(p) PROVE LeaseInv'
  BY <1>9 DEF PassAborts, Finish, Visits
<1>10. ASSUME NEW p \in Processes, PassEnds(p) PROVE LeaseInv'
  BY <1>10 DEF PassEnds
<1>11. ASSUME NEW p \in Processes, Mark(p) PROVE LeaseInv'
  BY <1>11 DEF Mark, Finish
<1>12. ASSUME NEW p \in Processes, MarkFails(p) PROVE LeaseInv'
  BY <1>12 DEF MarkFails, Finish
<1>13. ASSUME NEW p \in Processes, Compare(p) PROVE LeaseInv'
  BY <1>13 DEF Compare
<1>14. ASSUME NEW p \in Processes, CompareDiffers(p) PROVE LeaseInv'
  BY <1>14 DEF CompareDiffers
<1>15. ASSUME NEW p \in Processes, DeleteLock(p) PROVE LeaseInv'
  BY <1>15 DEF DeleteLock
<1>16. ASSUME NEW p \in Processes, ReleaseFails(p) PROVE LeaseInv'
  BY <1>16 DEF ReleaseFails
<1>17. ASSUME NEW p \in Processes, Restart(p) PROVE LeaseInv'
  BY <1>17 DEF Restart
<1>18. ASSUME NEW p \in Processes, NEW s \in Secrets, Skip(p, s)
      PROVE LeaseInv'
  BY <1>18 DEF Skip, Told
<1>19. ASSUME NEW p \in Processes, NEW s \in Secrets, RefreshOne(p, s)
      PROVE LeaseInv'
  BY <1>19 DEF RefreshOne, Tried, Told, Behind
<1>20. ASSUME NEW p \in Processes, NEW s \in Secrets, RefreshOneFails(p, s)
      PROVE LeaseInv'
  BY <1>20 DEF RefreshOneFails, Tried, Told, Behind
<1>21. CASE Tick
  BY <1>21 DEF Tick
<1>22. CASE Flush
  BY <1>22 DEF Flush
<1>23. ASSUME NEW s \in Secrets, Age(s) PROVE LeaseInv'
  BY <1>23 DEF Age
<1>24. CASE UNCHANGED vars
  BY <1>24
<1>25. QED
  BY <1>1, <1>2, <1>3, <1>4, <1>5, <1>6, <1>7, <1>8, <1>9, <1>10, <1>11,
     <1>12, <1>13, <1>14, <1>15, <1>16, <1>17, <1>18, <1>19, <1>20, <1>21,
     <1>22, <1>23, <1>24
  DEF Next, ProcessStep, ThreadStep, RunStep, Outage, Disturbance

(* Whatever was lost before, two processes work beside each other only if   *)
(* the lease of one has ended under it or a release has deleted its lock.   *)
THEOREM RunningLeases == Spec => []RunningLeaseExcludes
<1>1. Init => LeaseInv
  BY DEF Init, LeaseInv, Working, Section
<1>2. LeaseInv => RunningLeaseExcludes
  BY DEF LeaseInv, RunningLeaseExcludes
<1>3. Inv /\ LeaseInv /\ [Next]_vars => LeaseInv'
  BY LeaseInvStep DEF Inv
<1>4. QED
  BY <1>1, <1>2, <1>3, Invariance, PTL DEF Spec

(* A lock has a time to live, and a step shortens it or frees the lock.     *)
LEMMA LeaseStep ==
  ASSUME TypeOK, LockExpires, [Next]_vars
  PROVE  /\ LockExpires'
         /\ lock # NoOne => \/ lock' = NoOne
                            \/ /\ lock' = lock
                               /\ lockTTL' <= lockTTL /\ lockTTL' > 0
<1> USE NoOneAssumption, TTLAssumption DEF LockExpires, TypeOK, keys, vars
<1>1. ASSUME NEW p \in Processes, Acquire(p) \/ AcquireReplyLost(p)
      PROVE  lock = NoOne /\ lock' = p /\ lockTTL' > 0
  BY <1>1 DEF Acquire, AcquireReplyLost, Lease
<1>2. ASSUME NEW p \in Processes, DeleteLock(p)
      PROVE  lock' = NoOne /\ lockTTL' = 0
  BY <1>2 DEF DeleteLock
<1>3. ASSUME Flush PROVE lock' = NoOne /\ lockTTL' = 0
  BY <1>3 DEF Flush
<1>4. ASSUME Tick
      PROVE  \/ UNCHANGED lock /\ lockTTL' = 0 /\ lockTTL = 0
             \/ lock' = NoOne /\ lockTTL' = 0
             \/ UNCHANGED lock /\ lockTTL' = lockTTL - 1 /\ lockTTL' > 0
  BY <1>4 DEF Tick, Less
<1>5. CASE UNCHANGED <<lock, lockTTL>>
  BY <1>5
<1>6. \/ UNCHANGED <<lock, lockTTL>> \/ Flush \/ Tick
      \/ \E p \in Processes :
           Acquire(p) \/ AcquireReplyLost(p) \/ DeleteLock(p)
  BY DEF Next, ProcessStep, ThreadStep, RunStep, Outage, Disturbance, Start,
     CheckMarker, AcquireRefused, Query, Skip, RefreshOne, PassEnds, Mark,
     Compare, CompareDiffers, TablesNotReady, RedisDownAtStart,
     RefreshOneFails, Tried, Visits, PassAborts, MarkFails, ReleaseFails,
     Restart, Age
<1>7. QED
  BY <1>1, <1>2, <1>3, <1>4, <1>5, <1>6

(* A lease is not renewed and not taken over: until its lock is gone the    *)
(* token stays and its time gets less.                                      *)
THEOREM LeasesRunOut == Spec => []LockExpires /\ LeaseOnlyRunsOut
<1>1. Init => LockExpires
  BY DEF Init, LockExpires
<1>2. TypeOK /\ LockExpires /\ [Next]_vars =>
        /\ LockExpires'
        /\ lock # NoOne => \/ lock' = NoOne
                           \/ /\ lock' = lock
                              /\ lockTTL' <= lockTTL /\ lockTTL' > 0
  BY LeaseStep
<1>3. QED
  BY <1>1, <1>2, Typing, PTL DEF Spec, LeaseOnlyRunsOut

(* A loss is remembered only while somebody works.                          *)
LEMMA LostAtWorkStep ==
  ASSUME TypeOK, LostAtWork, [Next]_vars
  PROVE  LostAtWork'
<1> USE DEF LostAtWork, Working, Section, TypeOK, PCs, Goto, Leave,
   LeaveAfter, vars, keys, needs, locals, history
<1>1. ASSUME NEW p \in Processes, Start(p) \/ RunStep(p) PROVE LostAtWork'
  BY <1>1 DEF Start, RunStep, CheckMarker, Acquire, AcquireRefused, Query,
     Skip, RefreshOne, Tried, Visits, PassEnds, Mark, Finish, Compare,
     CompareDiffers, DeleteLock
<1>2. ASSUME NEW p \in Processes,
             Outage(p) \/ \E s \in Secrets : RefreshOneFails(p, s)
      PROVE  LostAtWork'
  BY <1>2 DEF Outage, TablesNotReady, RedisDownAtStart, AcquireReplyLost,
     RefreshOneFails, Tried, Visits, PassAborts, MarkFails, Finish, ReleaseFails
<1>3. CASE Disturbance
  BY <1>3 DEF Disturbance, Restart, Flush, Age
<1>4. CASE Tick
  BY <1>4 DEF Tick
<1>5. CASE UNCHANGED vars
  BY <1>5
<1>6. QED
  BY <1>1, <1>2, <1>3, <1>4, <1>5 DEF Next, ProcessStep, ThreadStep

(* Whoever is not in a pass has counted nothing.                            *)
LEMMA CountedInPassStep ==
  ASSUME TypeOK, CountedInPass, [Next]_vars
  PROVE  CountedInPass'
<1> USE DEF CountedInPass, InPass, Working, Section, TypeOK, PCs, Goto,
   Leave, LeaveAfter, vars, keys, needs, locals, history
<1>1. ASSUME NEW p \in Processes, Start(p) \/ RunStep(p) PROVE CountedInPass'
  BY <1>1 DEF Start, RunStep, CheckMarker, Acquire, AcquireRefused, Query,
     Skip, RefreshOne, Tried, Visits, PassEnds, Mark, Finish, Compare,
     CompareDiffers, DeleteLock
<1>2. ASSUME NEW p \in Processes,
             Outage(p) \/ \E s \in Secrets : RefreshOneFails(p, s)
      PROVE  CountedInPass'
  BY <1>2 DEF Outage, TablesNotReady, RedisDownAtStart, AcquireReplyLost,
     RefreshOneFails, Tried, Visits, PassAborts, MarkFails, Finish, ReleaseFails
<1>3. CASE Disturbance
  BY <1>3 DEF Disturbance, Restart, Flush, Age
<1>4. CASE Tick
  BY <1>4 DEF Tick
<1>5. CASE UNCHANGED vars
  BY <1>5
<1>6. QED
  BY <1>1, <1>2, <1>3, <1>4, <1>5 DEF Next, ProcessStep, ThreadStep

(* A pass has read whatever is due and still before it.                     *)
LEMMA NothingOverlookedStep ==
  ASSUME TypeOK, NothingOverlooked, [Next]_vars
  PROVE  NothingOverlooked'
<1> USE DEF NothingOverlooked, TypeOK
<1>1. ASSUME NEW p \in Processes, Query(p) PROVE NothingOverlooked'
  BY <1>1 DEF Query, needs
<1>2. ASSUME NEW p \in Processes, NEW s \in Secrets,
             \/ Skip(p, s) \/ RefreshOne(p, s) \/ RefreshOneFails(p, s)
      PROVE  NothingOverlooked'
  <2>1. /\ todo' = [todo EXCEPT ![p] = @ \ {s}] /\ due' \subseteq due
        /\ \E Q \in SUBSET Processes : seen' = Told(seen, p, s, Q)
    BY <1>2
    DEF Skip, RefreshOne, RefreshOneFails, Tried, Visited, Behind, needs
  <2>2. QED
    BY <2>1 DEF Told
<1>3. ASSUME NEW s \in Secrets, Age(s) PROVE NothingOverlooked'
  BY <1>3 DEF Age
<1>4. ASSUME NEW p \in Processes, Forget(p), UNCHANGED due
      PROVE  NothingOverlooked'
  BY <1>4 DEF Forget
<1>5. ASSUME UNCHANGED <<locals, due>> PROVE NothingOverlooked'
  BY <1>5 DEF locals
<1>6. QED
  BY <1>1, <1>2, <1>3, <1>4, <1>5, StepKinds

(* Every step is a step of WarmUp or leaves it as it is.                    *)
LEMMA RefinementStep ==
  ASSUME Inv, LostAtWork, CountedInPass, [Next]_vars
  PROVE  [WU!Next]_(WU!vars)
<1> USE DEF Inv, TypeOK, Goto, InPass, Working, Section, PCs, pending,
   missing, WU!vars
<1>1. ASSUME NEW p \in Processes, Start(p) PROVE UNCHANGED WU!vars
  BY <1>1 DEF Start, keys, needs, locals, history
<1>2. ASSUME NEW p \in Processes, Acquire(p) PROVE WU!Enter(p)
  BY <1>2, NoOneAssumption
  DEF Acquire, Lease, needs, locals, history, HoldsLock, WU!Enter,
      WU!OthersOut
<1>3. ASSUME NEW p \in Processes, NEW label \in {"off", "done"},
             NEW victims \in SUBSET Processes,
             LeaveAfter(p, label, victims), UNCHANGED <<marker, needs>>
      PROVE  WU!Exit(p) \/ UNCHANGED WU!vars
  BY <1>3 DEF LeaveAfter, Forget, needs, ReadByPass, OfTheRows, LostAtWork,
     CountedInPass, WU!Exit, WU!OthersOut
<1>4. ASSUME NEW p \in Processes, Query(p) PROVE WU!Begin(p)
  BY <1>4 DEF Query, keys, needs, history, WU!Begin
<1>5. ASSUME NEW p \in Processes, Compare(p) PROVE UNCHANGED WU!vars
  BY <1>5 DEF Compare, keys, needs, locals, history
<1>6. ASSUME NEW p \in Processes, NEW s \in Secrets, Skip(p, s)
      PROVE  WU!PassOver(p, s)
  <2>1. s \in todo[p] /\ (s \notin pending \/ s \in touched[p])
    BY <1>6 DEF Skip, Visits, Selected, AsRead
  <2>2. /\ todo' = [todo EXCEPT ![p] = @ \ {s}]
        /\ tried' = [tried EXCEPT ![p] = {}]
        /\ touched' = [touched EXCEPT ![p] = @ \ {s}]
        /\ UNCHANGED <<pc, due, flagged, keyed, marker, lost>>
    BY <1>6 DEF Skip, Visited, Told, keys, needs
  <2>3. QED
    BY <2>1, <2>2 DEF WU!PassOver
<1>7. ASSUME NEW p \in Processes, NEW s \in Secrets,
             RefreshOne(p, s) \/ RefreshOneFails(p, s)
      PROVE  WU!Try(p, s)
  <2>1. Tried(p, s)
    BY <1>7 DEF RefreshOne, RefreshOneFails
  <2>2. s \in todo[p] /\ (s \in pending \/ s \in touched[p])
    BY <2>1 DEF Tried, Visits, Selected, AsRead, OfTheRows
  <2>3. /\ todo' = [todo EXCEPT ![p] = @ \ {s}]
        /\ tried' = [tried EXCEPT ![p] = {s}]
        /\ UNCHANGED <<pc, marker, lost>>
    BY <2>1 DEF Tried, Visited, keys
  <2>4. touched' = [q \in Processes |->
                      IF q = p THEN touched[q] \ {s}
                      ELSE touched[q] \cup ({s} \cap todo[q])]
    BY <2>1 DEF Tried, Told, Behind
  <2>5. pending' \in {pending, pending \ {s}}
    BY <1>7 DEF RefreshOne, RefreshOneFails
  <2>6. QED
    BY <2>2, <2>3, <2>4, <2>5 DEF WU!Try
<1>8. ASSUME NEW p \in Processes, PassEnds(p) PROVE UNCHANGED WU!vars
  BY <1>8 DEF PassEnds, Forget, keys, needs, history, OfTheRows
<1>9. ASSUME NEW p \in Processes, Mark(p) PROVE WU!Complete(p)
  <2>1. /\ pc[p] = "mark" /\ pc' = [pc EXCEPT ![p] = "compare"]
        /\ todo[p] = {} /\ marker' > 0
        /\ tried' = [tried EXCEPT ![p] = {}]
        /\ UNCHANGED <<due, flagged, keyed, todo, touched, lost>>
    BY <1>9, TTLAssumption
    DEF Mark, Finish, needs, locals, ReadByPass
  <2>2. QED
    BY <2>1 DEF WU!Complete
<1>10. ASSUME NEW p \in Processes, PassAborts(p) \/ MarkFails(p)
       PROVE  WU!Abort(p)
  <2>1. /\ pc[p] \in {"visit", "mark"} /\ pc' = [pc EXCEPT ![p] = "compare"]
        /\ tried' = [tried EXCEPT ![p] = {}]
        /\ UNCHANGED <<marker, due, flagged, keyed, lost>>
    BY <1>10 DEF PassAborts, MarkFails, Visits, Finish, keys, needs
  <2>2. CASE PassAborts(p)
    BY <2>1, <2>2 DEF PassAborts, Forget, WU!Abort
  <2>3. CASE MarkFails(p)
    <3>1. todo[p] = {} /\ touched[p] = {} /\ UNCHANGED <<todo, touched>>
      BY <2>3 DEF MarkFails, locals, ReadByPass, OfTheRows
    <3>2. QED
      BY <2>1, <3>1 DEF WU!Abort
  <2>4. QED
    BY <1>10, <2>2, <2>3
<1>11. CASE Tick
  <2>1. /\ UNCHANGED <<pc, due, flagged, keyed, todo, tried, touched>>
        /\ (marker' > 0) => (marker > 0)
    BY <1>11 DEF Tick, Less, needs, locals
  <2>2. /\ lost' \in BOOLEAN /\ (lost => lost')
        /\ lost' => \E p \in Processes : Working(p)
    BY <1>11 DEF Tick, LostAtWork
  <2>3. (marker' > 0) \in BOOLEAN
    OBVIOUS
  <2>4. pending' = pending /\ pending \in SUBSET Secrets
    BY <2>1
  <2>5. WU!Decay
    BY <2>1, <2>2, <2>3, <2>4 DEF WU!Decay
  <2>6. QED
    BY <2>5 DEF WU!Next
<1>12. CASE Flush
  <2>1. /\ UNCHANGED <<pc, todo, tried, touched>> /\ marker' = 0
        /\ pending' \in SUBSET Secrets /\ pending \subseteq pending'
    BY <1>12 DEF Flush, locals
  <2>2. /\ lost' \in BOOLEAN /\ (lost => lost')
        /\ lost' => \E p \in Processes : Working(p)
    BY <1>12 DEF Flush, LostAtWork
  <2>3. (marker' > 0) = FALSE
    BY <2>1
  <2>4. WU!Decay
    BY <2>1, <2>2, <2>3 DEF WU!Decay
  <2>5. QED
    BY <2>4 DEF WU!Next
<1>13. ASSUME NEW s \in Secrets, Age(s) PROVE WU!Decay
  BY <1>13 DEF Age, keys, history, LostAtWork, WU!Decay
<1>14. ASSUME NEW p \in Processes,
              \/ RunStep(p) \/ Outage(p) \/ Restart(p)
              \/ \E s \in Secrets : RefreshOneFails(p, s)
       PROVE  [WU!Next]_(WU!vars)
  <2>1. \/ CheckMarker(p) /\ marker = 0
        \/ Query(p) \/ Compare(p) \/ PassEnds(p) \/ Acquire(p)
        \/ \E s \in Secrets :
             Skip(p, s) \/ RefreshOne(p, s) \/ RefreshOneFails(p, s)
        \/ Mark(p) \/ PassAborts(p) \/ MarkFails(p)
        \/ DeleteLock(p)
        \/ /\ Leave(p, "done") \/ Leave(p, "off")
           /\ UNCHANGED <<marker, needs>>
    BY <1>14 DEF RunStep, Outage, CheckMarker, AcquireRefused,
       CompareDiffers, TablesNotReady, RedisDownAtStart,
       AcquireReplyLost, ReleaseFails, Restart, keys
  <2>2. CASE CheckMarker(p) /\ marker = 0
    BY <2>2 DEF CheckMarker, keys, needs, locals, history
  <2>3. CASE DeleteLock(p)
    <3> DEFINE victims == {q \in Processes : lock = q /\ Working(q)}
    <3>1. /\ victims \in SUBSET Processes
          /\ LeaveAfter(p, "done", victims) /\ UNCHANGED <<marker, needs>>
      BY <2>3 DEF DeleteLock
    <3> HIDE DEF victims
    <3>2. QED
      BY <1>3, <3>1 DEF WU!Next
  <2>4. CASE /\ Leave(p, "done") \/ Leave(p, "off")
             /\ UNCHANGED <<marker, needs>>
    <3>1. /\ LeaveAfter(p, "done", {}) \/ LeaveAfter(p, "off", {})
          /\ UNCHANGED <<marker, needs>>
      BY <2>4 DEF Leave
    <3>2. {} \in SUBSET Processes
      OBVIOUS
    <3>3. QED
      BY <1>3, <3>1, <3>2 DEF WU!Next
  <2>5. QED
    BY <1>2, <1>4, <1>5, <1>6, <1>7, <1>8, <1>9, <1>10, <2>1, <2>2, <2>3,
       <2>4
    DEF WU!Next
<1>15. CASE UNCHANGED vars
  BY <1>15 DEF vars, keys, needs, locals, history
<1>16. QED
  BY <1>1, <1>11, <1>12, <1>13, <1>14, <1>15
  DEF Next, ProcessStep, ThreadStep, Disturbance, WU!Next

(* The warm-up implements its abstract specification: one pass at a time    *)
(* until a loss, no secret is passed over that needs a refresh unless       *)
(* another pass was at it, and completion is declared only at the end of a  *)
(* pass, with any failures and any number of processes.                     *)
THEOREM Refinement == Spec => ImplementsWarmUp
<1>1. Init => LostAtWork /\ CountedInPass
  BY DEF Init, LostAtWork, CountedInPass
<1>2. Inv /\ LostAtWork /\ CountedInPass /\ [Next]_vars
      => LostAtWork' /\ CountedInPass'
  BY LostAtWorkStep, CountedInPassStep DEF Inv
<1>3. Init => WU!Init
  BY DEF Init, WU!Init, InPass, Working, Section, pending, missing
<1>4. Inv /\ LostAtWork /\ CountedInPass /\ [Next]_vars
      => [WU!Next]_(WU!vars)
  BY RefinementStep
<1>5. QED
  BY <1>1, <1>2, <1>3, <1>4, Invariance, PTL
  DEF Spec, ImplementsWarmUp, WU!Spec

(* No step leaves work behind a pass, and marks only when all is done.      *)
LEMMA DoneStep ==
  ASSUME TypeOK, NothingOverlooked, DoneBehind, MarkedMeansDone, [Next]_vars
  PROVE  DoneBehind' /\ MarkedMeansDone'
<1> USE DEF TypeOK, NothingOverlooked, DoneBehind, MarkedMeansDone, Goto,
   Leave, LeaveAfter, Forget, Visits, Visited, Told, Behind, pending,
   missing, keys, needs, locals, history, vars
<1>1. ASSUME NEW p \in Processes, NEW s \in Secrets, Skip(p, s)
      PROVE  trouble' = trouble => DoneBehind' /\ MarkedMeansDone'
  BY <1>1 DEF Skip, Selected
<1>2. ASSUME NEW p \in Processes, NEW s \in Secrets, RefreshOne(p, s)
      PROVE  trouble' = trouble => DoneBehind' /\ MarkedMeansDone'
  BY <1>2 DEF RefreshOne, Tried
<1>3. ASSUME NEW p \in Processes, Start(p) \/ RunStep(p), UNCHANGED trouble
      PROVE  DoneBehind' /\ MarkedMeansDone'
  BY <1>1, <1>2, <1>3
  DEF Start, RunStep, CheckMarker, Acquire, AcquireRefused, Query, PassEnds,
      Mark, Finish, Compare, CompareDiffers, DeleteLock
<1>4. ASSUME NEW p \in Processes, Outage(p), Trouble
      PROVE  DoneBehind' /\ MarkedMeansDone'
  BY <1>4 DEF Outage, Trouble, TablesNotReady, RedisDownAtStart,
     AcquireReplyLost, PassAborts, MarkFails, Finish, ReleaseFails
<1>5. CASE Disturbance
  <2>1. ASSUME NEW p \in Processes, Restart(p), Trouble
        PROVE  DoneBehind' /\ MarkedMeansDone'
    BY <2>1 DEF Restart, Trouble
  <2>2. CASE trouble' = "work"
    BY <2>2
  <2>3. QED
    BY <1>5, <2>1, <2>2 DEF Disturbance
<1>6. CASE Tick /\ UNCHANGED trouble
  BY <1>6 DEF Tick, Less
<1>7. CASE UNCHANGED vars
  BY <1>7
<1>8. CASE trouble' = "work"
  BY <1>8
<1>9. QED
  BY <1>3, <1>4, <1>5, <1>6, <1>7, <1>8 DEF Next, ProcessStep, ThreadStep

(* Completion is marked only when nothing is left to refresh, whatever      *)
(* crashes, outages and lost leases there were, unless a refresh has failed *)
(* or there is new work.                                                    *)
THEOREM Completion == Spec => []MarkedMeansDone
<1>1. Init => NothingOverlooked /\ DoneBehind /\ MarkedMeansDone
  BY DEF Init, NothingOverlooked, DoneBehind, MarkedMeansDone
<1>2. /\ TypeOK /\ NothingOverlooked /\ DoneBehind /\ MarkedMeansDone
      /\ [Next]_vars
      => NothingOverlooked' /\ DoneBehind' /\ MarkedMeansDone'
  BY NothingOverlookedStep, DoneStep
<1>3. QED
  BY <1>1, <1>2, Typing, PTL DEF Spec
=============================================================================
