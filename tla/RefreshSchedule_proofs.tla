----------------------- MODULE RefreshSchedule_proofs -----------------------
(* Proofs about RefreshSchedule, for any number of secrets, any intervals   *)
(* and any length of an hour that has room for a pass.                      *)
EXTENDS RefreshSchedule, FiniteSetTheorems, TLAPS

(* What the constants are numbers of.                                       *)
LEMMA Numbers ==
  /\ Hour \in Nat /\ MaxDelay \in Nat /\ MaxCall \in Nat
  /\ PassTime \in Nat /\ PassTime < Hour
  /\ \A s \in Secrets : Period(s) \in Nat
<1>1. Cardinality(Secrets) \in Nat
  BY SecretsAssumption, FS_CardinalityType
<1>2. Cardinality(Secrets) * MaxCall \in Nat
  BY <1>1, TimeAssumption
<1>3. \A s \in Secrets : Period(s) \in Nat
  BY IntervalAssumption, TimeAssumption DEF Period
<1>4. QED
  BY <1>1, <1>2, <1>3, TimeAssumption DEF PassTime

(* The time used for visited secrets grows by one call with each of them,   *)
(* and one call less than the whole pass is used while one is left.         *)
LEMMA UsedBounds ==
  ASSUME NEW T \in SUBSET Secrets
  PROVE  LET U(X) == Cardinality(Secrets \ X) * MaxCall
         IN /\ U(T) \in Nat
            /\ U(T) <= Cardinality(Secrets) * MaxCall
            /\ \A s \in T : /\ U(T \ {s}) = U(T) + MaxCall
                            /\ U(T) + MaxCall <= Cardinality(Secrets) * MaxCall
<1> DEFINE C(X) == Cardinality(Secrets \ X)
<1>1. ASSUME NEW X \in SUBSET Secrets
      PROVE  C(X) \in Nat /\ C(X) <= Cardinality(Secrets)
  <2>1. IsFiniteSet(Secrets \ X) /\ C(X) <= Cardinality(Secrets)
    BY SecretsAssumption, FS_Subset
  <2>2. QED
    BY <2>1, FS_CardinalityType
<1>2. ASSUME NEW s \in T PROVE C(T \ {s}) = C(T) + 1
  <2>1. Secrets \ (T \ {s}) = (Secrets \ T) \cup {s} /\ s \notin Secrets \ T
    BY <1>2
  <2>2. IsFiniteSet(Secrets \ T)
    BY SecretsAssumption, FS_Subset
  <2>3. QED
    BY <2>1, <2>2, FS_AddElement
<1>3. ASSUME NEW j \in Nat, NEW k \in Nat, j <= k
      PROVE  j * MaxCall \in Nat /\ j * MaxCall <= k * MaxCall
  BY <1>3, TimeAssumption, SMT
<1>4. ASSUME NEW j \in Nat PROVE (j + 1) * MaxCall = j * MaxCall + MaxCall
  BY TimeAssumption, SMT
<1>5. Cardinality(Secrets) \in Nat
  BY SecretsAssumption, FS_CardinalityType
<1>6. C(T) * MaxCall \in Nat /\ C(T) * MaxCall <= Cardinality(Secrets) * MaxCall
  BY <1>1, <1>3, <1>5
<1>7. ASSUME NEW s \in T
      PROVE  /\ C(T \ {s}) * MaxCall = C(T) * MaxCall + MaxCall
             /\ C(T) * MaxCall + MaxCall <= Cardinality(Secrets) * MaxCall
  <2>1. C(T \ {s}) * MaxCall = C(T) * MaxCall + MaxCall
    BY <1>1, <1>2, <1>4
  <2>2. C(T \ {s}) * MaxCall <= Cardinality(Secrets) * MaxCall
    BY <1>1, <1>3, <1>5
  <2>3. QED
    BY <2>1, <2>2
<1>8. QED
  BY <1>6, <1>7

(* The same of the pass that runs, as parts of PassTime.                    *)
LEMMA UsedInPass ==
  ASSUME TypeOK
  PROVE  /\ Used \in Nat /\ MaxDelay + Used <= PassTime
         /\ todo # {} => MaxDelay + Used + MaxCall <= PassTime
         /\ todo' = todo => Used' = Used
         /\ \A s \in todo : todo' = todo \ {s} => Used' = Used + MaxCall
<1> DEFINE N == Cardinality(Secrets) * MaxCall
<1>1. todo \in SUBSET Secrets
  BY DEF TypeOK
<1>2. /\ Used \in Nat /\ Used <= N
      /\ \A s \in todo : /\ Cardinality(Secrets \ (todo \ {s})) * MaxCall
                              = Used + MaxCall
                         /\ Used + MaxCall <= N
  BY <1>1, UsedBounds DEF Used
<1>3. N \in Nat
  <2>1. Cardinality(Secrets) \in Nat
    BY SecretsAssumption, FS_CardinalityType
  <2>2. QED
    BY <2>1, TimeAssumption
<1>4. PassTime = MaxDelay + N
  BY DEF PassTime
<1>5. todo' = todo => Used' = Used
  BY DEF Used
<1>6. ASSUME NEW s \in todo, todo' = todo \ {s} PROVE Used' = Used + MaxCall
  <2>1. Used' = Cardinality(Secrets \ (todo \ {s})) * MaxCall
    BY <1>6 DEF Used
  <2>2. QED
    BY <2>1, <1>2
<1> HIDE DEF N
<1>7. MaxDelay + Used <= PassTime
  BY <1>2, <1>3, <1>4, Numbers
<1>8. ASSUME todo # {} PROVE MaxDelay + Used + MaxCall <= PassTime
  <2>1. Used + MaxCall <= N
    BY <1>2, <1>8
  <2>2. QED
    BY <2>1, <1>2, <1>3, <1>4, Numbers
<1>9. QED
  BY <1>2, <1>5, <1>6, <1>7, <1>8

(* Every variable keeps its type.                                           *)
LEMMA TypeStep ==
  ASSUME TypeOK, WaitInv, [Next]_vars
  PROVE  TypeOK'
<1> USE Numbers DEF vars, times, olds, TypeOK
<1>1. CASE JobStarts
  BY <1>1 DEF JobStarts, Selection, WaitInv
<1>2. CASE JobEnds
  BY <1>2 DEF JobEnds
<1>3. CASE ManualStarts
  BY <1>3 DEF ManualStarts, Selection
<1>4. CASE Tick
  <2>1. phase' \in 0 .. Hour - 1 /\ job' \in {"waiting", "running", "done"}
    BY <1>4 DEF Tick
  <2>2. age' \in [Secrets -> Nat] /\ \A s \in Secrets : age'[s] <= Period(s)
    BY <1>4 DEF Tick, Older
  <2>3. waits' \in [Secrets -> Nat] /\ gap' \in [Secrets -> Nat]
    BY <1>4 DEF Tick
  <2>4. spent' \in 0 .. MaxCall
    BY <1>4 DEF Tick
  <2>5. UNCHANGED <<enabled, usable, todo, manual, olds>>
    BY <1>4 DEF Tick
  <2>6. QED
    BY <2>1, <2>2, <2>3, <2>4, <2>5
<1>5. ASSUME NEW s \in Secrets, JobRefreshes(s) PROVE TypeOK'
  BY <1>5 DEF JobRefreshes, Success, Tried
<1>6. ASSUME NEW s \in Secrets, JobFailsOn(s) PROVE TypeOK'
  BY <1>6 DEF JobFailsOn, Tried
<1>7. ASSUME NEW s \in Secrets, ManualRefreshes(s) PROVE TypeOK'
  BY <1>7 DEF ManualRefreshes, Success, Tried
<1>8. ASSUME NEW s \in Secrets, ManualFailsOn(s) PROVE TypeOK'
  BY <1>8 DEF ManualFailsOn, Tried
<1>9. ASSUME NEW s \in Secrets, Lose(s) PROVE TypeOK'
  BY <1>9 DEF Lose
<1>10. ASSUME NEW s \in Secrets, SetUncached(s) PROVE TypeOK'
  BY <1>10 DEF SetUncached, Tried
<1>11. ASSUME NEW s \in Secrets, Toggle(s) PROVE TypeOK'
  BY <1>11 DEF Toggle, Tried
<1>12. ASSUME NEW s \in Secrets, EditStale(s) PROVE TypeOK'
  BY <1>12 DEF EditStale, FormSaves
<1>r. ASSUME NEW s \in Secrets, Readdress(s) PROVE TypeOK'
  BY <1>r DEF Readdress, FormSaves
<1>13. CASE UNCHANGED vars
  BY <1>13
<1>14. QED
  BY <1>1, <1>2, <1>3, <1>4, <1>5, <1>6, <1>7, <1>8, <1>9, <1>10, <1>11,
     <1>12, <1>r, <1>13 DEF Next

(* What can be said of a wait survives every step.                          *)
LEMMA WaitStep ==
  ASSUME TypeOK, WaitInv, [Next]_vars
  PROVE  WaitInv'
<1> USE Numbers DEF vars, times, olds, TypeOK, WaitInv, Selection, Due
<1>u. /\ Used \in Nat /\ MaxDelay + Used <= PassTime
      /\ todo # {} => MaxDelay + Used + MaxCall <= PassTime
      /\ todo' = todo => Used' = Used
      /\ \A s \in todo : todo' = todo \ {s} => Used' = Used + MaxCall
  BY UsedInPass
<1>1. CASE JobStarts
  <2>1. Used' \in Nat
    <3>1. todo' \in SUBSET Secrets
      BY <1>1 DEF JobStarts
    <3>2. QED
      BY <3>1, UsedBounds DEF Used
  <2>2. job' = "running" /\ spent' = 0 /\ phase' = phase /\ waits' = waits
    BY <1>1 DEF JobStarts
  <2>3. \A s \in Secrets :
          IF s \in todo' THEN waits[s] <= Hour + phase ELSE waits[s] = 0
    BY <1>1 DEF JobStarts
  <2>4. \A s \in Secrets : waits'[s] # 0 => s \in Selection'
    BY <1>1 DEF JobStarts
  <2>5. phase <= MaxDelay
    BY <1>1 DEF JobStarts
  <2>6. phase' <= MaxDelay + Used' + spent'
    <3>1. ASSUME NEW u \in Nat PROVE phase <= MaxDelay + u + 0
      BY <2>5
    <3>2. QED
      BY <2>1, <2>2, <3>1
  <2>7. ASSUME NEW s \in Secrets
        PROVE  waits'[s] <= IF s \in todo'
                            THEN Hour + MaxDelay + Used' + spent' ELSE phase'
    <3>1. CASE s \in todo'
      BY <2>1, <2>2, <2>3, <2>5, <3>1
    <3>2. CASE s \notin todo'
      BY <2>2, <2>3, <3>2
    <3>3. QED
      BY <3>1, <3>2
  <2>8. QED
    BY <2>2, <2>4, <2>6, <2>7
<1>2. CASE JobEnds
  BY <1>2 DEF JobEnds
<1>3. CASE ManualStarts
  BY <1>3, <1>u DEF ManualStarts
<1>4. CASE Tick
  <2>1. Used' = Used
    BY <1>4, <1>u DEF Tick
  <2>2. \A s \in Secrets : waits'[s] # 0 => s \in Selection'
    BY <1>4 DEF Tick, Older
  <2>3. \A s \in Secrets : waits'[s] <= waits[s] + 1
    BY <1>4 DEF Tick
  <2>4. CASE job = "waiting"
    BY <1>4, <1>u, <2>2, <2>3, <2>4 DEF Tick
  <2>5. CASE job = "running"
    <3>1. phase + 1 < Hour
      BY <1>4, <1>u, <2>5 DEF Tick
    <3>2. QED
      BY <1>4, <1>u, <2>1, <2>2, <2>3, <2>5, <3>1 DEF Tick
  <2>6. CASE job = "done"
    BY <1>4, <2>2, <2>3, <2>6 DEF Tick
  <2>7. QED
    BY <2>4, <2>5, <2>6
<1>5. ASSUME NEW s \in Secrets, JobRefreshes(s) PROVE WaitInv'
  <2>1. Used' = Used + MaxCall /\ spent <= MaxCall
    BY <1>5, <1>u DEF JobRefreshes
  <2>2. QED
    BY <1>5, <1>u, <2>1 DEF JobRefreshes, Success, Tried
<1>6. ASSUME NEW s \in Secrets, JobFailsOn(s) PROVE WaitInv'
  <2>1. Used' = Used + MaxCall /\ spent <= MaxCall
    BY <1>6, <1>u DEF JobFailsOn
  <2>2. QED
    BY <1>6, <1>u, <2>1 DEF JobFailsOn, Tried
<1>7. ASSUME NEW s \in Secrets, ManualRefreshes(s) PROVE WaitInv'
  BY <1>7, <1>u DEF ManualRefreshes, Success, Tried
<1>8. ASSUME NEW s \in Secrets, ManualFailsOn(s) PROVE WaitInv'
  BY <1>8, <1>u DEF ManualFailsOn, Tried
<1>9. ASSUME NEW s \in Secrets, Lose(s) PROVE WaitInv'
  BY <1>9, <1>u DEF Lose
<1>10. ASSUME NEW s \in Secrets, SetUncached(s) PROVE WaitInv'
  BY <1>10, <1>u DEF SetUncached, Tried
<1>11. ASSUME NEW s \in Secrets, Toggle(s) PROVE WaitInv'
  BY <1>11, <1>u DEF Toggle, Tried
<1>12. ASSUME NEW s \in Secrets, EditStale(s) PROVE WaitInv'
  BY <1>12, <1>u DEF EditStale, FormSaves
<1>r. ASSUME NEW s \in Secrets, Readdress(s) PROVE WaitInv'
  BY <1>r, <1>u DEF Readdress, FormSaves
<1>13. CASE UNCHANGED vars
  BY <1>13, <1>u
<1>14. QED
  BY <1>1, <1>2, <1>3, <1>4, <1>5, <1>6, <1>7, <1>8, <1>9, <1>10, <1>11,
     <1>12, <1>r, <1>13 DEF Next

(* A number of hours below the interval and one more hour is at most the    *)
(* interval.                                                                *)
LEMMA WholeHours ==
  ASSUME NEW s \in Secrets, NEW k \in Nat, k * Hour < Period(s) + Hour
  PROVE  k * Hour <= Period(s)
<1> DEFINE i == Interval[s]
<1>1. i \in Nat /\ Hour \in Nat
  BY IntervalAssumption, TimeAssumption
<1> HIDE DEF i
<1>2. CASE k <= i
  <2>1. k * Hour <= i * Hour
    BY <1>1, <1>2, SMT
  <2>2. QED
    BY <2>1 DEF Period, i
<1>3. CASE k >= i + 1
  <2>1. k * Hour >= (i + 1) * Hour
    BY <1>1, <1>3, SMT
  <2>2. (i + 1) * Hour = i * Hour + Hour
    BY <1>1, SMT
  <2>3. k * Hour >= Period(s) + Hour
    BY <2>1, <2>2 DEF Period, i
  <2>4. QED
    BY <2>3, <1>1, Numbers
<1>4. QED
  BY <1>1, <1>2, <1>3

(* A gap that begins within the hour is in its bounds.                      *)
LEMMA GapOfThisHour ==
  ASSUME TypeOK', NEW s \in Secrets, gap'[s] <= phase'
  PROVE  GapBounded(s)'
<1> USE Numbers DEF TypeOK
<1>1. gap'[s] <= phase' + 0 * Hour /\ phase' + 0 * Hour < age'[s] + Hour
  OBVIOUS
<1>2. QED
  BY <1>1 DEF GapBounded

(* A gap stays in its bounds while its row gets older at once, in an edit.  *)
LEMMA GapKept ==
  ASSUME TypeOK, TypeOK', NEW s \in Secrets, GapBounded(s),
         phase' = phase, gap'[s] = gap[s], age'[s] >= age[s],
         job = "waiting" \/ s \in todo => job' = "waiting" \/ s \in todo'
  PROVE  GapBounded(s)'
<1> USE Numbers DEF TypeOK
<1>1. CASE Due(s)
  BY <1>1 DEF Due, GapBounded
<1>2. CASE ~Due(s)
  <2>1. PICK k \in Nat : /\ gap[s] <= phase + k * Hour
                         /\ phase + k * Hour < age[s] + Hour
    BY <1>2 DEF GapBounded
  <2> DEFINE K == k * Hour
  <2>2. K \in Nat
    BY <2>1
  <2>3. gap'[s] <= phase' + K /\ phase' + K < age'[s] + Hour
    <3> HIDE DEF K
    <3>1. gap[s] <= phase + K /\ phase + K < age[s] + Hour
      BY <2>1 DEF K
    <3>2. QED
      BY <2>2, <3>1
  <2>4. CASE Due(s)'
    <3>1. K <= Period(s)
      <4>1. K < Period(s) + Hour
        <5> HIDE DEF K
        <5>1. QED
          BY <2>2, <2>3, <2>4 DEF Due
      <4>2. QED
        BY <4>1, WholeHours
    <3>2. gap'[s] <= Period(s) + phase'
      <4> HIDE DEF K
      <4>1. QED
        BY <2>2, <2>3, <3>1
    <3>3. QED
      BY <2>4, <3>2 DEF GapBounded
  <2>5. CASE ~Due(s)'
    BY <2>3, <2>5 DEF GapBounded
  <2>6. QED
    BY <2>4, <2>5
<1>3. QED
  BY <1>1, <1>2

(* A tick makes a gap one tick longer and keeps it in its bounds.           *)
LEMMA GapTick ==
  ASSUME TypeOK, TypeOK', WaitInv, GapInv, Tick, NEW s \in Secrets
  PROVE  GapBounded(s)'
<1> USE Numbers DEF TypeOK
<1>1. CASE s \notin enabled \/ s \in usable
  BY <1>1, GapOfThisHour DEF Tick
<1>2. CASE s \in enabled \ usable /\ phase < Hour - 1
  <2>1. /\ phase' = phase + 1 /\ gap'[s] = gap[s] + 1
        /\ UNCHANGED <<job, todo>>
    BY <1>2 DEF Tick
  <2>2. CASE Due(s)
    BY <2>1, <2>2 DEF Tick, Older, Due, GapBounded, GapInv
  <2>3. CASE ~Due(s)
    <3>1. PICK k \in Nat : /\ gap[s] <= phase + k * Hour
                           /\ phase + k * Hour < age[s] + Hour
      BY <2>3 DEF GapInv, GapBounded
    <3> DEFINE K == k * Hour
    <3>2. K \in Nat
      BY <3>1
    <3>3. age'[s] = age[s] + 1
      BY <2>3 DEF Tick, Older, Due
    <3>4. gap'[s] <= phase' + K /\ phase' + K < age'[s] + Hour
      <4> HIDE DEF K
      <4>1. gap[s] <= phase + K /\ phase + K < age[s] + Hour
        BY <3>1 DEF K
      <4>2. QED
        BY <2>1, <3>2, <3>3, <4>1
    <3>5. CASE Due(s)'
      <4>1. K < Period(s) + Hour
        <5> HIDE DEF K
        <5>1. QED
          BY <3>2, <3>4, <3>5 DEF Due
      <4>2. K <= Period(s)
        BY <4>1, WholeHours
      <4>3. gap'[s] <= Period(s) + phase'
        <5> HIDE DEF K
        <5>1. QED
          BY <3>2, <3>4, <4>2
      <4>4. QED
        BY <3>5, <4>3 DEF GapBounded
    <3>6. CASE ~Due(s)'
      BY <3>4, <3>6 DEF GapBounded
    <3>7. QED
      BY <3>5, <3>6
  <2>4. QED
    BY <2>2, <2>3
<1>3. CASE s \in enabled \ usable /\ phase = Hour - 1
  <2>1. /\ phase' = 0 /\ gap'[s] = gap[s] + 1 /\ job' = "waiting"
        /\ todo' = todo
    BY <1>3 DEF Tick
  <2>2. job = "done" /\ todo = {}
    <3>1. CASE job = "waiting"
      <4>1. MaxDelay <= PassTime
        BY UsedInPass
      <4>2. QED
        BY <1>3, <3>1, <4>1 DEF Tick
    <3>2. CASE job = "running"
      BY <1>3, <3>2, UsedInPass DEF Tick, WaitInv
    <3>3. QED
      BY <3>1, <3>2 DEF WaitInv
  <2>3. CASE Due(s)
    <3>1. gap[s] <= Period(s) + phase
      BY <2>2, <2>3 DEF GapInv, GapBounded
    <3>2. QED
      BY <1>3, <2>1, <2>3, <3>1 DEF Tick, Older, Due, GapBounded
  <2>4. CASE ~Due(s)
    <3>1. PICK k \in Nat : /\ gap[s] <= phase + k * Hour
                           /\ phase + k * Hour < age[s] + Hour
      BY <2>4 DEF GapInv, GapBounded
    <3> DEFINE K == k * Hour
    <3>2. K \in Nat /\ (k + 1) * Hour = K + Hour
      BY <3>1
    <3>3. age'[s] = age[s] + 1
      BY <2>4 DEF Tick, Older, Due
    <3>4. /\ gap'[s] <= phase' + (K + Hour)
          /\ phase' + (K + Hour) < age'[s] + Hour
      <4> HIDE DEF K
      <4>1. gap[s] <= phase + K /\ phase + K < age[s] + Hour
        BY <3>1 DEF K
      <4>2. QED
        BY <1>3, <2>1, <3>2, <3>3, <4>1
    <3>5. CASE Due(s)'
      <4>1. (k + 1) * Hour < Period(s) + Hour
        <5> HIDE DEF K
        <5>1. QED
          BY <2>1, <3>2, <3>4, <3>5 DEF Due
      <4>2. K + Hour <= Period(s)
        <5>1. k + 1 \in Nat
          OBVIOUS
        <5>2. (k + 1) * Hour <= Period(s)
          BY <4>1, <5>1, WholeHours
        <5>3. QED
          BY <3>2, <5>2
      <4>3. gap'[s] <= Period(s) + phase'
        <5> HIDE DEF K
        <5>1. QED
          BY <3>2, <3>4, <4>2
      <4>4. QED
        BY <3>5, <4>3 DEF GapBounded
    <3>6. CASE ~Due(s)'
      <4>1. \E n \in Nat : /\ gap'[s] <= phase' + n * Hour
                           /\ phase' + n * Hour < age'[s] + Hour
        <5> WITNESS k + 1 \in Nat
        <5>1. QED
          BY <3>2, <3>4
      <4>2. QED
        BY <3>6, <4>1 DEF GapBounded
    <3>7. QED
      BY <3>5, <3>6
  <2>5. QED
    BY <2>3, <2>4
<1>4. QED
  BY <1>1, <1>2, <1>3

(* Gaps stay in their bounds in every step.                                 *)
LEMMA GapStep ==
  ASSUME TypeOK, TypeOK', WaitInv, GapInv, [Next]_vars
  PROVE  GapInv'
<1> USE Numbers DEF vars, times, olds, TypeOK
<1>k. ASSUME NEW r \in Secrets, phase' = phase, gap'[r] = gap[r],
             age'[r] >= age[r], r \in oldJob' => r \in oldJob,
             enabled' = enabled,
             job = "waiting" \/ r \in todo => job' = "waiting" \/ r \in todo'
      PROVE  /\ r \notin enabled' => gap'[r] = 0
             /\ r \in oldJob' => gap'[r] <= phase'
             /\ GapBounded(r)'
  BY <1>k, GapKept DEF GapInv
<1>0. ASSUME NEW r \in Secrets, gap'[r] = 0
      PROVE  /\ r \notin enabled' => gap'[r] = 0
             /\ r \in oldJob' => gap'[r] <= phase'
             /\ GapBounded(r)'
  BY <1>0, GapOfThisHour
<1> SUFFICES ASSUME NEW r \in Secrets
             PROVE  /\ r \notin enabled' => gap'[r] = 0
                    /\ r \in oldJob' => gap'[r] <= phase'
                    /\ GapBounded(r)'
  BY DEF GapInv
<1> DEFINE Goal == /\ r \notin enabled' => gap'[r] = 0
                   /\ r \in oldJob' => gap'[r] <= phase'
                   /\ GapBounded(r)'
<1>1. CASE JobStarts
  <2>1. CASE r \in todo' \/ ~Due(r)
    <3>1. CASE r \in todo'
      BY <1>1, <1>k, <3>1 DEF JobStarts
    <3>2. CASE ~Due(r)
      BY <1>1, <3>2 DEF JobStarts, GapInv, GapBounded, Due
    <3>3. QED
      BY <2>1, <3>1, <3>2
  <2>2. CASE r \notin todo' /\ Due(r)
    <3>1. r \notin enabled /\ gap' = gap
      BY <1>1, <2>2 DEF JobStarts, Selection
    <3>2. QED
      BY <1>0, <3>1 DEF GapInv
  <2>3. QED
    BY <2>1, <2>2
<1>2. CASE JobEnds
  BY <1>2, <1>k DEF JobEnds
<1>3. CASE ManualStarts
  BY <1>3, <1>k DEF ManualStarts
<1>4. CASE Tick
  <2>1. r \notin enabled' => gap'[r] = 0
    BY <1>4 DEF Tick
  <2>2. ASSUME r \in oldJob' PROVE gap'[r] <= phase'
    <3>1. r \in oldJob /\ job = "running"
      BY <1>4, <2>2 DEF Tick, WaitInv
    <3>2. phase + 1 < Hour
      BY <1>4, <3>1, UsedInPass DEF Tick, WaitInv
    <3>3. QED
      BY <1>4, <3>1, <3>2 DEF Tick, GapInv
  <2>3. QED
    BY <1>4, <2>1, <2>2, GapTick
<1>5. ASSUME NEW s \in Secrets, JobRefreshes(s) PROVE Goal
  <2>1. CASE r = s /\ s \in oldJob
    <3>1. gap'[r] <= phase' /\ gap' = gap /\ enabled' = enabled
      BY <1>5, <2>1 DEF JobRefreshes, GapInv
    <3>2. QED
      BY <3>1, GapOfThisHour DEF GapInv
  <2>2. CASE r = s /\ s \notin oldJob
    BY <1>0, <1>5, <2>2 DEF JobRefreshes
  <2>3. CASE r # s
    BY <1>5, <1>k, <2>3 DEF JobRefreshes, Success
  <2>4. QED
    BY <2>1, <2>2, <2>3
<1>6. ASSUME NEW s \in Secrets, JobFailsOn(s) PROVE Goal
  BY <1>0, <1>6, <1>k DEF JobFailsOn, Tried
<1>7. ASSUME NEW s \in Secrets, ManualRefreshes(s) PROVE Goal
  BY <1>0, <1>7, <1>k DEF ManualRefreshes, Success, Tried
<1>8. ASSUME NEW s \in Secrets, ManualFailsOn(s) PROVE Goal
  BY <1>0, <1>8, <1>k DEF ManualFailsOn, Tried
<1>9. ASSUME NEW s \in Secrets, Lose(s) PROVE Goal
  BY <1>9, <1>k DEF Lose
<1>10. ASSUME NEW s \in Secrets, SetUncached(s) PROVE Goal
  BY <1>0, <1>10, <1>k DEF SetUncached, Tried
<1>11. ASSUME NEW s \in Secrets, Toggle(s) PROVE Goal
  <2>1. CASE r = s
    BY <1>0, <1>11, <2>1 DEF Toggle, Tried
  <2>2. CASE r # s
    BY <1>11, <2>2, GapKept DEF Toggle, Tried, GapInv
  <2>3. QED
    BY <2>1, <2>2
<1>12. ASSUME NEW s \in Secrets, EditStale(s) PROVE Goal
  BY <1>12, <1>k DEF EditStale, FormSaves
<1>r. ASSUME NEW s \in Secrets, Readdress(s) PROVE Goal
  BY <1>0, <1>r, <1>k DEF Readdress, FormSaves
<1>13. CASE UNCHANGED vars
  BY <1>13, <1>k
<1>14. QED
  BY <1>1, <1>2, <1>3, <1>4, <1>5, <1>6, <1>7, <1>8, <1>9, <1>10, <1>11,
     <1>12, <1>r, <1>13 DEF Next

(* The inductive invariant holds in every reachable state.                  *)
THEOREM Invariance == Spec => []Inv
<1>1. Init => Inv
  <2> SUFFICES ASSUME Init PROVE Inv
    OBVIOUS
  <2>1. TypeOK /\ WaitInv
    BY Numbers DEF Init, TypeOK, WaitInv
  <2>2. ASSUME NEW s \in Secrets PROVE GapBounded(s)
    BY <2>2, Numbers DEF Init, Due, GapBounded
  <2>3. QED
    BY <2>1, <2>2 DEF Init, Inv, GapInv
<1>2. Inv /\ [Next]_vars => Inv'
  BY TypeStep, WaitStep, GapStep DEF Inv
<1>3. QED
  BY <1>1, <1>2, PTL DEF Spec

(* Every variable has its type in every reachable state.                    *)
THEOREM Typing == Spec => []TypeOK
BY Invariance, PTL DEF Inv

(* No wait is longer than an hour and a pass.                               *)
LEMMA WaitBound ==
  ASSUME Inv
  PROVE  DueIsTried
<1> USE Numbers DEF Inv, TypeOK, WaitInv
<1> SUFFICES ASSUME NEW s \in Secrets PROVE waits[s] <= Hour + PassTime
  BY DEF DueIsTried
<1>1. CASE job = "running" /\ s \in todo
  <2>1. MaxDelay + Used + MaxCall <= PassTime /\ Used \in Nat
    BY <1>1, UsedInPass DEF TypeOK
  <2>2. QED
    BY <1>1, <2>1
<1>2. CASE job = "running" /\ s \notin todo
  BY <1>2
<1>3. CASE job # "running"
  <2>1. MaxDelay <= PassTime
    BY UsedInPass DEF TypeOK
  <2>2. QED
    BY <1>3, <2>1
<1>4. QED
  BY <1>1, <1>2, <1>3

(* A due secret is tried within an hour and a pass, for any number of       *)
(* secrets, failures and users.                                             *)
THEOREM TriedInTime == Spec => []DueIsTried
BY Invariance, WaitBound, PTL

(* Every gap is within the interval, an hour and a pass.                    *)
LEMMA GapBound ==
  ASSUME Inv
  PROVE  CacheComesBack
<1> USE Numbers DEF Inv, TypeOK
<1> SUFFICES ASSUME NEW s \in Secrets
             PROVE  gap[s] <= Period(s) + Hour + PassTime
  BY DEF CacheComesBack
<1>1. CASE ~Due(s)
  <2>1. PICK k \in Nat : /\ gap[s] <= phase + k * Hour
                         /\ phase + k * Hour < age[s] + Hour
    BY <1>1 DEF GapInv, GapBounded
  <2>2. k * Hour \in Nat
    BY <2>1
  <2>3. QED
    BY <2>1, <2>2
<1>2. CASE Due(s) /\ (job = "waiting" \/ s \in todo)
  <2>1. gap[s] <= Period(s) + phase + Hour
    BY <1>2 DEF GapInv, GapBounded
  <2>2. phase <= PassTime
    <3>1. CASE job = "waiting"
      BY <3>1, UsedInPass DEF WaitInv
    <3>2. CASE s \in todo
      <4>1. /\ Used \in Nat /\ MaxDelay + Used + MaxCall <= PassTime
            /\ phase <= MaxDelay + Used + spent
        BY <3>2, UsedInPass DEF WaitInv
      <4>2. QED
        BY <4>1
    <3>3. QED
      BY <1>2, <3>1, <3>2
  <2>3. QED
    BY <2>1, <2>2
<1>3. CASE Due(s) /\ job # "waiting" /\ s \notin todo
  BY <1>3 DEF GapInv, GapBounded
<1>4. QED
  BY <1>1, <1>2, <1>3

(* A payload that is lost or of an old address is replaced within the       *)
(* interval, an hour and a pass, for any number of secrets and users.       *)
THEOREM ComesBack == Spec => []CacheComesBack
BY Invariance, GapBound, PTL
=============================================================================
