---------------------------- MODULE OutboxProofs ----------------------------
(***************************************************************************)
(* Proofs about Outbox: type correctness for every value of the constants, *)
(* and, when the clock's text sorts by time (ChronologicalStamps), ordered *)
(* delivery per key and the refinement of OrderedDelivery.  Then that a    *)
(* grant revives one dead letter and that a dead letter was earned.        *)
(***************************************************************************)
EXTENDS Outbox, FiniteSetTheorems, TLAPS

USE DEF Event, None, Instant, Exhausted, Confirms

-----------------------------------------------------------------------------
(* The clock                                                               *)

\* A clock that ticks once a second writes no fractions: its text sorts by time.
LEMMA WholeSecondsAreChronological ==
  ASSUME TicksPerSecond = 1
  PROVE  ChronologicalStamps
<1>1. ASSUME NEW t \in Nat PROVE Stamp(t) = t * 2 + 1
  <2>1. t % 1 = 0 /\ t \div 1 = t
    OBVIOUS
  <2>2. QED
    BY <2>1 DEF Stamp
<1>2. QED
  BY <1>1, BoundsAssumption DEF ChronologicalStamps

\* With any finer clock the first whole second already sorts after the tick
\* that follows it, so the assumption cannot be dropped.
LEMMA FinerClocksAreNot ==
  ASSUME TicksPerSecond > 1, TicksPerSecond + 1 \in Instant
  PROVE  ~ ChronologicalStamps
<1> DEFINE T == TicksPerSecond
<1>1. T \in Nat /\ T \in Instant
  BY BoundsAssumption
<1>2. Stamp(T) = T + 1 + T
  <2>1. T % T = 0 /\ T \div T = 1
    BY BoundsAssumption
  <2>2. QED
    BY <2>1, <1>1 DEF Stamp
<1>3. Stamp(T + 1) = T + 1 + 1
  <2>1. (T + 1) % T = 1 /\ (T + 1) \div T = 1
    BY BoundsAssumption
  <2>2. QED
    BY <2>1, <1>1 DEF Stamp
<1>4. QED
  BY <1>1, <1>2, <1>3 DEF ChronologicalStamps

-----------------------------------------------------------------------------
(* Type correctness, with what it needs to be inductive                    *)

\* The part of IInv that does not depend on how time is written.
TInv == TypeOK /\ RowsInOrder /\ ClaimsAreLive

LEMMA InitTInv == Init => TInv
BY BoundsAssumption, NamesAssumption
   DEF Init, TInv, TypeOK, RowsInOrder, ClaimsAreLive, Statuses, Places, Worker

\* The two ways a worker's variables are reset.
LEMMA DropType ==
  ASSUME TypeOK, NEW w \in Worker, Drop(w)
  PROVE  claim' \in [Worker -> Event \union {None}] /\ counted' \in [Worker -> 0..MaxAttempts]
<1>1. claim \in [Worker -> Event \union {None}] /\ counted \in [Worker -> 0..MaxAttempts]
  BY DEF TypeOK
<1>2. claim' = [claim EXCEPT ![w] = None] /\ counted' = [counted EXCEPT ![w] = 0]
  BY DEF Drop
<1>3. None \in Event \union {None} /\ 0 \in 0..MaxAttempts
  BY BoundsAssumption
<1>4. QED
  BY <1>1, <1>2, <1>3

LEMMA EnterType ==
  ASSUME TypeOK, NEW w \in Worker, NEW place \in Places, Enter(w, place)
  PROVE  pc' \in [Worker -> Places]
BY DEF TypeOK, Enter

\* Counting an attempt stays within MaxAttempts, saturating or not.
LEMMA CountType ==
  ASSUME NEW n \in 0..MaxAttempts
  PROVE  /\ (IF n < MaxAttempts THEN n + 1 ELSE n) \in 0..MaxAttempts
         /\ n < MaxAttempts => n + 1 \in 0..MaxAttempts
BY BoundsAssumption

LEMMA StepTypeOK == TInv /\ [Next]_vars => TypeOK'
<1> SUFFICES ASSUME TInv, [Next]_vars PROVE TypeOK'
  OBVIOUS
<1> USE BoundsAssumption DEF TInv, TypeOK, Statuses, Places
<1>0. Background \in Worker /\ \A r \in Request : r \in Worker
  BY DEF Worker
<1>1. ASSUME NEW k \in Key, NEW n \in 1..MaxBatch, NEW t \in Instant, Enqueue(k, n, t)
      PROVE  TypeOK'
  <2>1. /\ inserted' \in 0..MaxEvents
        /\ keyOf' \in [Event -> Key \union {NoKey}]
        /\ status' \in [Event -> Statuses]
        /\ due' \subseteq Event
    BY <1>1 DEF Enqueue
  <2>2. createdAt' \in [Event -> 0..MaxInstant]
    <3>1. \A e \in inserted+1 .. inserted+n : t + (e - (inserted + 1)) \in 0..MaxInstant
      BY <1>1 DEF Enqueue
    <3>2. QED
      BY <1>1, <3>1 DEF Enqueue
  <2>3. QED
    BY <1>1, <2>1, <2>2 DEF Enqueue, workers, history
<1>2. CASE Start
  BY <1>0, <1>2 DEF Start, RecoverStaleClaims, Enter, table, history
<1>3. ASSUME NEW r \in Request, SyncNow(r) PROVE TypeOK'
  BY <1>0, <1>3 DEF SyncNow, RecoverStaleClaims, Enter, table, history
<1>4. ASSUME NEW r \in Request, Return(r) PROVE TypeOK'
  BY <1>0, <1>4 DEF Return, Enter, table, history
<1>5. ASSUME NEW r \in Request, Abandon(r) PROVE TypeOK'
  <2>1. pc' \in [Worker -> Places]
    BY <1>0, <1>5, EnterType DEF Abandon
  <2>2. claim' \in [Worker -> Event \union {None}] /\ counted' \in [Worker -> 0..MaxAttempts]
    BY <1>0, <1>5, DropType DEF Abandon
  <2>3. QED
    BY <1>5, <2>1, <2>2 DEF Abandon, table, history
<1>6. ASSUME NEW w \in Worker, NEW e \in Event, ClaimNext(w, e) PROVE TypeOK'
  BY <1>6 DEF ClaimNext, Enter, table, history
<1>7. ASSUME NEW w \in Worker, Acknowledged(w) PROVE TypeOK'
  BY <1>7 DEF Acknowledged, Enter, table, history
<1>8. ASSUME NEW w \in Worker, Rejected(w) PROVE TypeOK'
  <2>1. claim[w] \in Event
    BY <1>8 DEF Rejected, ClaimsAreLive
  <2>2. failures' \in [Event -> 0..MaxAttempts]
    <3>1. failures' = [failures EXCEPT ![claim[w]] =
                         IF failures[claim[w]] < MaxAttempts THEN failures[claim[w]] + 1
                         ELSE failures[claim[w]]]
      BY <1>8 DEF Rejected
    <3>2. failures[claim[w]] \in 0..MaxAttempts
      BY <2>1
    <3>3. (IF failures[claim[w]] < MaxAttempts THEN failures[claim[w]] + 1
           ELSE failures[claim[w]]) \in 0..MaxAttempts
      BY <3>2, CountType
    <3>4. QED
      BY <3>1, <3>3
  <2>3. QED
    BY <1>8, <2>2 DEF Rejected, Enter, table
<1>9. ASSUME NEW w \in Worker, MarkPublished(w) PROVE TypeOK'
  <2>1. status' \in [Event -> Statuses] /\ locked' \subseteq Event /\ expired' \subseteq Event
    BY <1>9 DEF MarkPublished
  <2>2. pc' \in [Worker -> Places]
    BY <1>9 DEF MarkPublished, Enter
  <2>3. claim' \in [Worker -> Event \union {None}] /\ counted' \in [Worker -> 0..MaxAttempts]
    BY <1>9, DropType DEF MarkPublished
  <2>4. QED
    BY <1>9, <2>1, <2>2, <2>3 DEF MarkPublished, table, history
<1>10. ASSUME NEW w \in Worker, CountFailure(w) PROVE TypeOK'
  <2>1. claim[w] \in Event
    BY <1>10 DEF CountFailure, ClaimsAreLive
  <2>2. pc' \in [Worker -> Places]
    BY <1>10 DEF CountFailure, Enter
  <2>3. CASE Owned(claim[w])
    <3>1. attempts[claim[w]] + 1 \in 0..MaxAttempts
      <4>1. attempts[claim[w]] < MaxAttempts /\ attempts[claim[w]] \in 0..MaxAttempts
        BY <2>1, <2>3 DEF Owned, ClaimsAreLive
      <4>2. QED
        BY <4>1, CountType
    <3>2. QED
      BY <1>10, <2>2, <2>3, <3>1 DEF CountFailure, table, history
  <2>4. CASE ~ Owned(claim[w])
    <3>1. claim' \in [Worker -> Event \union {None}] /\ counted' \in [Worker -> 0..MaxAttempts]
      BY <1>10, <2>4, DropType DEF CountFailure
    <3>2. QED
      BY <1>10, <2>2, <3>1 DEF CountFailure, table, history
  <2>5. QED
    BY <2>3, <2>4
<1>11. ASSUME NEW w \in Worker, MarkFailed(w) PROVE TypeOK'
  <2>1. claim[w] \in Event /\ counted[w] \in 0..MaxAttempts
    BY <1>11 DEF MarkFailed, ClaimsAreLive
  <2>2. pc' \in [Worker -> Places]
    BY <1>11 DEF MarkFailed, Enter
  <2>3. claim' \in [Worker -> Event \union {None}] /\ counted' \in [Worker -> 0..MaxAttempts]
    BY <1>11, DropType DEF MarkFailed
  <2>4. status' \in [Event -> Statuses] /\ attempts' \in [Event -> 0..MaxAttempts]
    BY <1>11, <2>1 DEF MarkFailed
  <2>5. due' \subseteq Event /\ locked' \subseteq Event /\ expired' \subseteq Event
    BY <1>11 DEF MarkFailed
  <2>6. QED
    BY <1>11, <2>2, <2>3, <2>4, <2>5 DEF MarkFailed, table, history
<1>12. CASE Crash
  <2>1. pc' \in [Worker -> Places]
    BY <1>12 DEF Crash
  <2>2. claim' \in [Worker -> Event \union {None}] /\ counted' \in [Worker -> 0..MaxAttempts]
    BY <1>12 DEF Crash
  <2>3. QED
    <3>1. crashes' \in 0..MaxCrashes
      BY <1>12 DEF Crash
    <3>2. QED
      BY <1>12, <2>1, <2>2, <3>1 DEF Crash, table
<1>13. CASE Sleep
  <2>1. expired' \subseteq Event /\ due' \subseteq Event /\ sleeps' \in 0..MaxSleeps
    BY <1>13 DEF Sleep
  <2>2. QED
    BY <1>13, <2>1 DEF Sleep, table, workers
<1>14. ASSUME NEW g \in Grant, ApplyAuthorizedRecovery(g) PROVE TypeOK'
  <2>1. GrantFor[g] \in Event
    BY NamesAssumption
  <2>2. /\ status' = [status EXCEPT ![GrantFor[g]] = "pending"]
        /\ attempts' = [attempts EXCEPT ![GrantFor[g]] = 0]
        /\ revived' = [revived EXCEPT ![GrantFor[g]] = revived[GrantFor[g]] + 1]
    BY <1>14 DEF ApplyAuthorizedRecovery
  <2>3. status' \in [Event -> Statuses] /\ attempts' \in [Event -> 0..MaxAttempts]
    <3>1. 0 \in 0..MaxAttempts /\ "pending" \in Statuses
      OBVIOUS
    <3>2. QED
      BY <2>2, <3>1
  <2>5. revived' \in [Event -> Nat]
    <3>1. revived \in [Event -> Nat]
      OBVIOUS
    <3>2. revived[GrantFor[g]] \in Nat
      BY <2>1, <3>1
    <3>3. \A n \in Nat : n + 1 \in Nat
      OBVIOUS
    <3>4. QED
      BY <2>2, <3>1, <3>2, <3>3
  <2>4. QED
    BY <1>14, <2>1, <2>2, <2>3, <2>5 DEF ApplyAuthorizedRecovery, table, workers
<1>15. ASSUME NEW e \in Event, Skip(e) PROVE TypeOK'
  BY <1>15 DEF Skip, table, workers
<1>16. ASSUME NEW e \in Event, CentralReceives(e) PROVE TypeOK'
  BY <1>16 DEF CentralReceives, table, workers, history
<1>17. ASSUME NEW e \in Event, BackoffElapses(e) PROVE TypeOK'
  BY <1>17 DEF BackoffElapses, table, workers, history
<1>18. ASSUME NEW e \in Event, LeaseExpires(e) PROVE TypeOK'
  BY <1>18 DEF LeaseExpires, table, workers, history
<1>19. CASE UNCHANGED vars
  BY <1>19 DEF vars, table, workers, history
<1>20. QED
  BY <1>1, <1>2, <1>3, <1>4, <1>5, <1>6, <1>7, <1>8, <1>9, <1>10, <1>11, <1>12,
     <1>13, <1>14, <1>15, <1>16, <1>17, <1>18, <1>19, <1>0
  DEF Next, Producers, Claim, Finish

LEMMA StepRowsInOrder == TInv /\ [Next]_vars => RowsInOrder'
<1> SUFFICES ASSUME TInv, [Next]_vars PROVE RowsInOrder'
  OBVIOUS
<1> USE BoundsAssumption DEF TInv
\* Only Enqueue inserts rows.
<1>1. ASSUME NEW k \in Key, NEW n \in 1..MaxBatch, NEW t \in Instant, Enqueue(k, n, t)
      PROVE  RowsInOrder'
  <2> DEFINE new == inserted+1 .. inserted+n
  <2>1. /\ inserted' = inserted + n /\ inserted' \in 0..MaxEvents /\ inserted \in 0..MaxEvents
        /\ createdAt \in [Event -> 0..MaxInstant] /\ status \in [Event -> Statuses]
    BY <1>1 DEF Enqueue, TypeOK
  <2>2. \A e \in Event : createdAt'[e] = IF e \in new THEN t + (e - (inserted + 1)) ELSE createdAt[e]
    BY <1>1 DEF Enqueue
  <2>3. \A e \in Event : status'[e] = IF e \in new THEN "pending" ELSE status[e]
    BY <1>1 DEF Enqueue
  <2>4. t > LastInstant /\ t + n - 1 <= MaxInstant
    BY <1>1 DEF Enqueue
  <2>5. \A e \in Event : status'[e] = "absent" <=> e > inserted'
    BY <2>1, <2>3 DEF RowsInOrder
  <2>6. \A e \in new : createdAt'[e] \in Instant /\ createdAt'[e] >= t
    BY <2>1, <2>2, <2>4
  <2>7. \A e \in 1..inserted : createdAt[e] <= LastInstant /\ createdAt'[e] = createdAt[e]
    BY <2>1, <2>2 DEF LastInstant, RowsInOrder
  <2>8. \A e \in 1..inserted' : createdAt'[e] \in Instant
    BY <2>1, <2>6, <2>7 DEF RowsInOrder
  <2>9. ASSUME NEW d \in 1..inserted', NEW e \in 1..inserted', d < e
        PROVE  createdAt'[d] < createdAt'[e]
    <3>1. CASE e \in 1..inserted
      BY <2>1, <2>7, <2>9, <3>1 DEF RowsInOrder
    <3>2. CASE d \in 1..inserted /\ e \in new
      <4>1. createdAt'[d] \in Instant /\ createdAt'[d] <= LastInstant /\ LastInstant \in 0..MaxInstant
        BY <2>1, <2>7, <2>8, <3>2 DEF LastInstant
      <4>2. QED
        BY <2>4, <2>6, <3>2, <4>1
    <3>3. CASE d \in new /\ e \in new
      BY <2>1, <2>2, <2>9, <3>3
    <3>4. QED
      BY <2>1, <2>9, <3>1, <3>2, <3>3
  <2>10. QED
    BY <2>5, <2>8, <2>9 DEF RowsInOrder
\* No other action adds a row or makes one absent.
<1>2. ASSUME UNCHANGED table,
             \A e \in Event : status'[e] = "absent" <=> status[e] = "absent"
      PROVE  RowsInOrder'
  BY <1>2 DEF RowsInOrder, table, TypeOK
<1>3. ASSUME UNCHANGED <<table, status>> PROVE RowsInOrder'
  BY <1>2, <1>3
<1>4. ASSUME RecoverStaleClaims, UNCHANGED table PROVE RowsInOrder'
  BY <1>2, <1>4 DEF RecoverStaleClaims, TypeOK
<1>5. ASSUME NEW w \in Worker, NEW e \in Event, ClaimNext(w, e) PROVE RowsInOrder'
  BY <1>2, <1>5 DEF ClaimNext, NextClaim, Claimable, TypeOK
<1>6. ASSUME NEW w \in Worker, MarkPublished(w) PROVE RowsInOrder'
  BY <1>2, <1>6 DEF MarkPublished, Owned, TypeOK
<1>7. ASSUME NEW w \in Worker, MarkFailed(w) PROVE RowsInOrder'
  BY <1>2, <1>7 DEF MarkFailed, Owned, TypeOK
<1>8. ASSUME NEW g \in Grant, ApplyAuthorizedRecovery(g) PROVE RowsInOrder'
  BY <1>2, <1>8 DEF ApplyAuthorizedRecovery, TypeOK
<1>9. ASSUME NEW e \in Event, Skip(e) PROVE RowsInOrder'
  BY <1>2, <1>9 DEF Skip, TypeOK
<1>10. QED
  BY <1>1, <1>3, <1>4, <1>5, <1>6, <1>7, <1>8, <1>9
  DEF Next, Producers, Claim, Finish, Start, SyncNow, Return, Abandon, Acknowledged,
      Rejected, CountFailure, Crash, Sleep, CentralReceives, BackoffElapses,
      LeaseExpires, vars

\* What is at Central or on its way stays there.
LEMMA NothingIsUnsent ==
  ASSUME [Next]_vars
  PROVE  posted \subseteq posted' /\ received \subseteq received'
BY DEF Next, Producers, Claim, Finish, Enqueue, Start, SyncNow, Return, Abandon,
       ClaimNext, Acknowledged, Rejected, MarkPublished, CountFailure, MarkFailed,
       Crash, Sleep, ApplyAuthorizedRecovery, Skip, CentralReceives,
       BackoffElapses, LeaseExpires, vars

LEMMA StepClaimsAreLive == TInv /\ [Next]_vars => ClaimsAreLive'
<1> SUFFICES ASSUME TInv, [Next]_vars PROVE ClaimsAreLive'
  OBVIOUS
<1> USE BoundsAssumption DEF TInv
<1> DEFINE
      Busy == {"posting", "acked", "rejected", "counted"}
      Open == {"absent", "pending", "failed", "processing"}
      Sent == \A e \in Event : status[e] = "processing" => e \in posted
      Left == \A e \in Event : status[e] \in Open => attempts[e] < MaxAttempts
      Held == /\ \A w \in Worker : pc[w] \in Busy => claim[w] \in posted
              /\ \A w \in Worker : pc[w] = "acked" => claim[w] \in received
<1>1. Sent /\ Left /\ Held /\ posted \subseteq posted' /\ received \subseteq received'
  BY NothingIsUnsent DEF ClaimsAreLive
<1>2. /\ status \in [Event -> Statuses] /\ attempts \in [Event -> 0..MaxAttempts]
      /\ pc \in [Worker -> Places] /\ claim \in [Worker -> Event \union {None}]
      /\ counted \in [Worker -> 0..MaxAttempts]
  BY DEF TypeOK
\* Rows: which actions may start a claim or change attempt_count.
<1>3. ASSUME UNCHANGED attempts,
             \A e \in Event : /\ status'[e] = "processing" => e \in posted'
                              /\ status'[e] \in Open => status[e] \in Open
      PROVE  Sent' /\ Left'
  BY <1>1, <1>3
<1>4. ASSUME UNCHANGED <<status, attempts>> PROVE Sent' /\ Left'
  BY <1>1, <1>4
<1>5. ASSUME RecoverStaleClaims, UNCHANGED attempts PROVE Sent' /\ Left'
  BY <1>1, <1>2, <1>3, <1>5 DEF RecoverStaleClaims
<1>6. ASSUME NEW k \in Key, NEW n \in 1..MaxBatch, NEW t \in Instant, Enqueue(k, n, t)
      PROVE  Sent' /\ Left'
  BY <1>1, <1>2, <1>3, <1>6 DEF Enqueue, RowsInOrder, TypeOK
<1>7. ASSUME NEW w \in Worker, NEW e \in Event, ClaimNext(w, e) PROVE Sent' /\ Left'
  BY <1>1, <1>2, <1>3, <1>7 DEF ClaimNext, NextClaim, Claimable
<1>8. ASSUME NEW w \in Worker, MarkPublished(w) PROVE Sent' /\ Left'
  BY <1>1, <1>2, <1>3, <1>8 DEF MarkPublished
<1>9. ASSUME NEW w \in Worker, MarkFailed(w) PROVE Sent' /\ Left'
  <2>1. CASE Owned(claim[w])
    <3> DEFINE e == claim[w]
    <3>1. /\ attempts' = [attempts EXCEPT ![e] = counted[w]]
          /\ status' = [status EXCEPT ![e] =
                          IF counted[w] >= MaxAttempts THEN "dead_letter" ELSE "failed"]
      BY <1>9, <2>1 DEF MarkFailed
    <3>2. counted[w] \in Nat
      BY <1>2
    <3>3. QED
      BY <1>1, <1>2, <3>1, <3>2
  <2>2. CASE ~ Owned(claim[w])
    BY <1>4, <1>9, <2>2 DEF MarkFailed
  <2>3. QED
    BY <2>1, <2>2
<1>10. ASSUME NEW g \in Grant, ApplyAuthorizedRecovery(g) PROVE Sent' /\ Left'
  <2>1. /\ GrantFor[g] \in Event
        /\ attempts' = [attempts EXCEPT ![GrantFor[g]] = 0]
        /\ status' = [status EXCEPT ![GrantFor[g]] = "pending"]
    BY <1>10, NamesAssumption DEF ApplyAuthorizedRecovery
  <2>2. QED
    BY <1>1, <1>2, <2>1
<1>11. ASSUME NEW e \in Event, Skip(e) PROVE Sent' /\ Left'
  BY <1>1, <1>2, <1>3, <1>11 DEF Skip
<1>12. Sent' /\ Left'
  BY <1>4, <1>5, <1>6, <1>7, <1>8, <1>9, <1>10, <1>11
  DEF Next, Producers, Claim, Finish, Start, SyncNow, Return, Abandon, Acknowledged,
      Rejected, CountFailure, Crash, Sleep, CentralReceives, BackoffElapses,
      LeaseExpires, vars
\* Workers: a worker becomes busy only with a row it has just posted.
<1>13. ASSUME UNCHANGED <<pc, claim>> PROVE Held'
  BY <1>1, <1>13
<1>14. ASSUME NEW w \in Worker, NEW place \in Places, Enter(w, place),
              \A v \in Worker : v # w => claim'[v] = claim[v],
              place \in Busy => claim'[w] \in posted',
              place = "acked" => claim'[w] \in received'
       PROVE  Held'
  BY <1>1, <1>2, <1>14 DEF Enter
<1>15. ASSUME NEW w \in Worker, Drop(w)
       PROVE  \A v \in Worker : v # w => claim'[v] = claim[v]
  BY <1>2, <1>15 DEF Drop
<1>16. Background \in Worker /\ \A r \in Request : r \in Worker
  BY DEF Worker
<1> HIDE DEF Held
<1>17. ASSUME Start PROVE Held'
  <2>1. Enter(Background, "ready") /\ UNCHANGED claim
    BY <1>17 DEF Start
  <2>2. QED
    BY <1>14, <1>16, <2>1 DEF Places
<1>18. ASSUME NEW r \in Request, SyncNow(r) \/ Return(r) PROVE Held'
  BY <1>14, <1>16, <1>18 DEF SyncNow, Return, Places
<1>19. ASSUME NEW r \in Request, Abandon(r) PROVE Held'
  BY <1>14, <1>15, <1>16, <1>19 DEF Abandon, Places
<1>20. ASSUME NEW w \in Worker, NEW e \in Event, ClaimNext(w, e) PROVE Held'
  <2>1. claim' = [claim EXCEPT ![w] = e] /\ e \in posted' /\ Enter(w, "posting")
    BY <1>20 DEF ClaimNext
  <2>2. QED
    BY <1>2, <1>14, <2>1 DEF Places
<1>21. ASSUME NEW w \in Worker, Acknowledged(w) PROVE Held'
  <2>1. /\ Enter(w, "acked") /\ UNCHANGED <<claim, received, posted>>
        /\ claim[w] \in received /\ pc[w] = "posting"
    BY <1>21 DEF Acknowledged
  <2>2. claim'[w] \in posted'
    BY <1>1, <2>1 DEF Held
  <2>3. QED
    BY <1>14, <2>1, <2>2 DEF Places
<1>22. ASSUME NEW w \in Worker, Rejected(w) PROVE Held'
  <2>1. Enter(w, "rejected") /\ UNCHANGED <<claim, posted>> /\ pc[w] = "posting"
    BY <1>22 DEF Rejected
  <2>2. claim'[w] \in posted'
    BY <1>1, <2>1 DEF Held
  <2>3. QED
    BY <1>14, <2>1, <2>2 DEF Places
<1>23. ASSUME NEW w \in Worker, MarkPublished(w) \/ MarkFailed(w) PROVE Held'
  <2>1. Drop(w) /\ (Enter(w, "ready") \/ Enter(w, "off"))
    BY <1>23 DEF MarkPublished, MarkFailed
  <2>2. QED
    BY <1>14, <1>15, <2>1 DEF Places
<1>24. ASSUME NEW w \in Worker, CountFailure(w) PROVE Held'
  <2>1. CASE Owned(claim[w])
    <3>1. Enter(w, "counted") /\ UNCHANGED <<claim, posted>> /\ pc[w] = "rejected"
      BY <1>24, <2>1 DEF CountFailure
    <3>2. claim'[w] \in posted'
      BY <1>1, <3>1 DEF Held
    <3>3. QED
      BY <1>14, <3>1, <3>2 DEF Places
  <2>2. CASE ~ Owned(claim[w])
    <3>1. Drop(w) /\ (Enter(w, "ready") \/ Enter(w, "off"))
      BY <1>24, <2>2 DEF CountFailure
    <3>2. QED
      BY <1>14, <1>15, <3>1 DEF Places
  <2>3. QED
    BY <2>1, <2>2
<1>25. ASSUME Crash PROVE Held'
  <2>1. \A w \in Worker : pc'[w] = "off"
    BY <1>25 DEF Crash
  <2>2. QED
    BY <2>1 DEF Held
<1>26. Held'
  <2>1. CASE \/ Producers \/ Sleep
             \/ \E g \in Grant : ApplyAuthorizedRecovery(g)
             \/ \E e \in Event :
                  Skip(e) \/ CentralReceives(e) \/ BackoffElapses(e) \/ LeaseExpires(e)
             \/ UNCHANGED vars
    BY <1>13, <2>1
    DEF Producers, Enqueue, Sleep, ApplyAuthorizedRecovery, Skip, CentralReceives,
        BackoffElapses, LeaseExpires, vars, workers
  <2>2. QED
    BY <2>1, <1>17, <1>18, <1>19, <1>20, <1>21, <1>22, <1>23, <1>24, <1>25
    DEF Next, Claim, Finish
<1>27. QED
  BY <1>12, <1>26 DEF ClaimsAreLive, Held

LEMMA StepTInv == TInv /\ [Next]_vars => TInv'
BY StepTypeOK, StepRowsInOrder, StepClaimsAreLive DEF TInv

\* Type correctness: attempt_count never exceeds maxAttempts, a worker always
\* works on a row of the table, and every status is one the schema's CHECK allows.
THEOREM OutboxTypeOK == Spec => []TypeOK
<1>1. TInv /\ [Next]_vars => TInv'
  BY StepTypeOK, StepRowsInOrder, StepClaimsAreLive DEF TInv
<1>2. TInv => TypeOK
  BY DEF TInv
<1>3. QED
  BY InitTInv, <1>1, <1>2, PTL DEF Spec

-----------------------------------------------------------------------------
(* A published event stays published                                       *)

LEMMA PublishedStays ==
  ASSUME TInv, [Next]_vars, NEW d \in Event, status[d] = "published"
  PROVE  status'[d] = "published"
<1> USE DEF TInv, TypeOK
<1>1. ASSUME UNCHANGED status PROVE status'[d] = "published"
  BY <1>1
<1>2. ASSUME RecoverStaleClaims PROVE status'[d] = "published"
  BY <1>2 DEF RecoverStaleClaims
<1>3. ASSUME NEW k \in Key, NEW n \in 1..MaxBatch, NEW t \in Instant, Enqueue(k, n, t)
      PROVE  status'[d] = "published"
  BY <1>3, BoundsAssumption DEF Enqueue, RowsInOrder
<1>4. ASSUME NEW w \in Worker, NEW e \in Event, ClaimNext(w, e)
      PROVE  status'[d] = "published"
  BY <1>4 DEF ClaimNext, NextClaim, Claimable
<1>5. ASSUME NEW w \in Worker, MarkPublished(w) PROVE status'[d] = "published"
  BY <1>5 DEF MarkPublished
<1>6. ASSUME NEW w \in Worker, MarkFailed(w) PROVE status'[d] = "published"
  <2>1. CASE Owned(claim[w])
    <3>1. claim[w] # d
      BY <2>1 DEF Owned
    <3>2. QED
      BY <1>6, <3>1 DEF MarkFailed
  <2>2. CASE ~ Owned(claim[w])
    BY <1>6, <2>2 DEF MarkFailed
  <2>3. QED
    BY <2>1, <2>2
<1>7. ASSUME NEW g \in Grant, ApplyAuthorizedRecovery(g) PROVE status'[d] = "published"
  BY <1>7 DEF ApplyAuthorizedRecovery
<1>8. ASSUME NEW e \in Event, Skip(e) PROVE status'[d] = "published"
  BY <1>8 DEF Skip
<1>9. QED
  BY <1>1, <1>2, <1>3, <1>4, <1>5, <1>6, <1>7, <1>8
  DEF Next, Producers, Claim, Finish, Start, SyncNow, Return, Abandon, Acknowledged,
      Rejected, CountFailure, Crash, Sleep, CentralReceives, BackoffElapses,
      LeaseExpires, vars

\* No late answer, stale recovery, grant or failure of any worker reopens a
\* published event, whatever the constants.
THEOREM OutboxPublishedIsFinal == Spec => PublishedIsFinal
<1>1. TInv /\ [Next]_vars =>
        [\A e \in Event : status[e] = "published" => status'[e] = "published"]_vars
  BY PublishedStays
<1>2. QED
  BY InitTInv, StepTInv, <1>1, PTL DEF Spec, PublishedIsFinal

-----------------------------------------------------------------------------
(* Published events are at Central                                         *)

LEMMA StepPublishedIsAtCentral ==
  TInv /\ PublishedIsAtCentral /\ [Next]_vars => PublishedIsAtCentral'
<1> SUFFICES ASSUME TInv, PublishedIsAtCentral, [Next]_vars,
                    NEW e \in 1..inserted', status'[e] = "published"
             PROVE  e \in received' \union skipped'
  BY DEF PublishedIsAtCentral
<1>1. e \in Event /\ inserted' \in 0..MaxEvents
  BY StepTypeOK, BoundsAssumption DEF TypeOK
<1>2. skipped \subseteq skipped' /\ received \subseteq received'
  BY NothingIsUnsent
  DEF Next, Producers, Claim, Finish, Enqueue, Start, SyncNow, Return, Abandon,
      ClaimNext, Acknowledged, Rejected, MarkPublished, CountFailure, MarkFailed,
      Crash, Sleep, ApplyAuthorizedRecovery, Skip, CentralReceives,
      BackoffElapses, LeaseExpires, vars, history
<1>3. CASE status[e] = "published"
  <2>1. e \in 1..inserted
    BY <1>1, <1>3, BoundsAssumption DEF TInv, RowsInOrder, TypeOK
  <2>2. QED
    BY <1>2, <1>3, <2>1 DEF PublishedIsAtCentral
<1>4. CASE status[e] # "published"
  <2> USE <1>4 DEF TInv, TypeOK
  <2>1. ASSUME UNCHANGED status PROVE FALSE
    BY <2>1
  <2>2. ASSUME RecoverStaleClaims PROVE FALSE
    BY <1>1, <2>2 DEF RecoverStaleClaims
  <2>3. ASSUME NEW k \in Key, NEW n \in 1..MaxBatch, NEW t \in Instant, Enqueue(k, n, t)
        PROVE  FALSE
    BY <1>1, <2>3 DEF Enqueue
  <2>4. ASSUME NEW w \in Worker, NEW d \in Event, ClaimNext(w, d) PROVE FALSE
    BY <1>1, <2>4 DEF ClaimNext
  <2>5. ASSUME NEW w \in Worker, MarkPublished(w) PROVE e \in received'
    <3>1. claim[w] \in received
      BY <2>5 DEF MarkPublished, ClaimsAreLive
    <3>2. e = claim[w]
      BY <1>1, <2>5 DEF MarkPublished
    <3>3. QED
      BY <1>2, <3>1, <3>2
  <2>6. ASSUME NEW w \in Worker, MarkFailed(w) PROVE FALSE
    BY <1>1, <2>6 DEF MarkFailed
  <2>7. ASSUME NEW g \in Grant, ApplyAuthorizedRecovery(g) PROVE FALSE
    BY <1>1, <2>7 DEF ApplyAuthorizedRecovery
  <2>8. ASSUME NEW d \in Event, Skip(d) PROVE e \in skipped'
    BY <1>1, <2>8 DEF Skip
  <2>9. QED
    BY <2>1, <2>2, <2>3, <2>4, <2>5, <2>6, <2>7, <2>8
    DEF Next, Producers, Claim, Finish, Start, SyncNow, Return, Abandon, Acknowledged,
        Rejected, CountFailure, Crash, Sleep, CentralReceives, BackoffElapses,
        LeaseExpires, vars
<1>5. QED
  BY <1>3, <1>4

\* The store never settles a fact Central does not have, unless a manager
\* skipped it: for any number of workers, crashes, sleeps and lost answers.
THEOREM OutboxPublishedIsAtCentral == Spec => []PublishedIsAtCentral
<1>1. Init => PublishedIsAtCentral
  BY DEF Init, PublishedIsAtCentral
<1>2. QED
  BY InitTInv, StepTInv, StepPublishedIsAtCentral, <1>1, PTL DEF Spec

-----------------------------------------------------------------------------
(* Ordered delivery                                                        *)

\* When the clock's text sorts by time, created_at orders rows as they were
\* inserted.
LEMMA PrecedesIsOrder ==
  ASSUME ChronologicalStamps, TypeOK, RowsInOrder,
         NEW d \in 1..inserted, NEW e \in 1..inserted, d < e
  PROVE  Precedes(d, e)
BY DEF ChronologicalStamps, RowsInOrder, Precedes

LEMMA StepPostedInOrder ==
  ASSUME ChronologicalStamps
  PROVE  TInv /\ PostedInOrder /\ [Next]_vars => PostedInOrder'
<1> SUFFICES ASSUME TInv, PostedInOrder, [Next]_vars PROVE PostedInOrder'
  OBVIOUS
<1> USE DEF TInv
<1>1. TypeOK /\ TypeOK' /\ RowsInOrder
  BY StepTypeOK
<1>2. inserted \in 0..MaxEvents /\ inserted' \in 0..MaxEvents /\ MaxEvents \in Nat
  BY <1>1, BoundsAssumption DEF TypeOK
\* The rows an action does not insert keep their keys.
<1>3. /\ inserted <= inserted'
      /\ \A e \in 1..inserted : keyOf'[e] = keyOf[e]
  <2>1. CASE UNCHANGED table
    BY <1>2, <2>1 DEF table
  <2>2. ASSUME NEW k \in Key, NEW n \in 1..MaxBatch, NEW t \in Instant, Enqueue(k, n, t)
        PROVE  /\ inserted <= inserted'
               /\ \A e \in 1..inserted : keyOf'[e] = keyOf[e]
    BY <1>2, <2>2, BoundsAssumption DEF Enqueue
  <2>3. QED
    BY <2>1, <2>2
    DEF Next, Producers, Claim, Finish, Start, SyncNow, Return, Abandon, ClaimNext,
        Acknowledged, Rejected, MarkPublished, CountFailure, MarkFailed, Crash, Sleep,
        ApplyAuthorizedRecovery, Skip, CentralReceives, BackoffElapses, LeaseExpires, vars
<1>4. ASSUME NEW e \in posted, NEW d \in 1..inserted', d < e, keyOf'[d] = keyOf'[e]
      PROVE  status'[d] = "published"
  <2>1. e \in 1..inserted /\ d \in 1..inserted /\ d \in Event
    BY <1>2, <1>4 DEF PostedInOrder
  <2>2. status[d] = "published"
    BY <1>3, <1>4, <2>1 DEF PostedInOrder
  <2>3. QED
    BY <2>1, <2>2, PublishedStays
<1>5. ASSUME UNCHANGED posted
      PROVE  \A e \in posted', d \in 1..inserted' :
               d < e /\ keyOf'[d] = keyOf'[e] => status'[d] = "published"
  BY <1>4, <1>5
<1>6. ASSUME NEW w \in Worker, NEW c \in Event, ClaimNext(w, c)
      PROVE  /\ posted' \subseteq 1..inserted'
             /\ \A e \in posted', d \in 1..inserted' :
                  d < e /\ keyOf'[d] = keyOf'[e] => status'[d] = "published"
  <2>1. /\ UNCHANGED table /\ posted' = posted \union {c}
        /\ Claimable(c)
    BY <1>6 DEF ClaimNext, NextClaim
  <2>2. c \in 1..inserted
    BY <1>1, <1>2, <2>1 DEF Claimable, RowsInOrder
  <2>3. ASSUME NEW d \in 1..inserted', d < c, keyOf'[d] = keyOf'[c]
        PROVE  status'[d] = "published"
    <3>1. d \in 1..inserted /\ d \in Event /\ keyOf[d] = keyOf[c]
      BY <1>2, <2>1, <2>3 DEF table
    <3>2. Precedes(d, c)
      BY <1>1, <2>2, <2>3, <3>1, PrecedesIsOrder
    <3>3. status[d] = "published"
      BY <2>1, <3>1, <3>2 DEF Claimable, AtHead
    <3>4. QED
      BY <3>1, <3>3, PublishedStays
  <2>4. QED
    BY <1>4, <2>1, <2>2, <2>3 DEF PostedInOrder, table
<1>7. posted' \subseteq 1..inserted' /\
      \A e \in posted', d \in 1..inserted' :
        d < e /\ keyOf'[d] = keyOf'[e] => status'[d] = "published"
  <2>1. ASSUME UNCHANGED posted PROVE posted' \subseteq 1..inserted'
    BY <1>2, <1>3, <2>1 DEF PostedInOrder
  <2>2. QED
    BY <1>5, <1>6, <2>1
    DEF Next, Producers, Claim, Finish, Enqueue, Start, SyncNow, Return, Abandon,
        Acknowledged, Rejected, MarkPublished, CountFailure, MarkFailed, Crash, Sleep,
        ApplyAuthorizedRecovery, Skip, CentralReceives, BackoffElapses, LeaseExpires, vars
<1>8. received' \subseteq posted'
  <2>1. ASSUME UNCHANGED received PROVE received' \subseteq posted'
    BY <2>1, NothingIsUnsent DEF PostedInOrder
  <2>2. ASSUME NEW e \in Event, CentralReceives(e) PROVE received' \subseteq posted'
    BY <2>2 DEF CentralReceives, PostedInOrder
  <2>3. QED
    BY <2>1, <2>2
    DEF Next, Producers, Claim, Finish, Enqueue, Start, SyncNow, Return, Abandon,
        ClaimNext, Acknowledged, Rejected, MarkPublished, CountFailure, MarkFailed, Crash,
        Sleep, ApplyAuthorizedRecovery, Skip, BackoffElapses, LeaseExpires, vars
<1>9. skipped' \subseteq 1..inserted'
  <2>1. ASSUME UNCHANGED skipped PROVE skipped' \subseteq 1..inserted'
    BY <1>2, <1>3, <2>1 DEF PostedInOrder
  <2>2. ASSUME NEW e \in Event, Skip(e) PROVE skipped' \subseteq 1..inserted'
    BY <1>1, <1>2, <1>3, <2>2 DEF Skip, PostedInOrder, RowsInOrder
  <2>3. QED
    BY <2>1, <2>2
    DEF Next, Producers, Claim, Finish, Enqueue, Start, SyncNow, Return, Abandon,
        ClaimNext, Acknowledged, Rejected, MarkPublished, CountFailure, MarkFailed, Crash,
        Sleep, ApplyAuthorizedRecovery, CentralReceives, BackoffElapses, LeaseExpires,
        vars, history
<1>10. QED
  BY <1>7, <1>8, <1>9 DEF PostedInOrder

LEMMA OutboxIInv ==
  ASSUME ChronologicalStamps
  PROVE  Spec => []IInv
<1>1. Init => IInv
  BY InitTInv DEF Init, IInv, TInv, PostedInOrder, PublishedIsAtCentral
<1>2. IInv /\ [Next]_vars => IInv'
  BY StepTInv, StepPostedInOrder, StepPublishedIsAtCentral DEF IInv, TInv
<1>3. QED
  BY <1>1, <1>2, PTL DEF Spec

\* ClaimNext's promise for every number of keys, rows, workers, crashes and
\* sleeps, as long as the clock's text sorts by time: no later fact of a key is
\* at Central before an earlier one, except past a skipped one.
THEOREM OutboxNoOvertaking ==
  ASSUME ChronologicalStamps
  PROVE  Spec => []NoOvertaking
<1>1. IInv => NoOvertaking
  <2> SUFFICES ASSUME IInv, NEW d \in 1..inserted, NEW e \in 1..inserted,
                      keyOf[d] = keyOf[e], d < e, e \in received
               PROVE  d \in received \union skipped
    BY DEF NoOvertaking
  <2>1. status[d] = "published"
    BY DEF IInv, PostedInOrder
  <2>2. QED
    BY <2>1 DEF IInv, PublishedIsAtCentral
<1>2. QED
  BY <1>1, OutboxIInv, PTL

\* Two workers never have two events of one key in flight, under the same
\* assumption.
THEOREM OutboxOneClaimPerKey ==
  ASSUME ChronologicalStamps
  PROVE  Spec => []OneClaimPerKey
<1>1. IInv => OneClaimPerKey
  <2> SUFFICES ASSUME IInv, NEW d \in 1..inserted, NEW e \in 1..inserted, keyOf[d] = keyOf[e],
                      status[d] = "processing", status[e] = "processing", d # e
               PROVE  FALSE
    BY DEF OneClaimPerKey
  <2>1. d \in posted /\ e \in posted
    BY BoundsAssumption DEF IInv, ClaimsAreLive, TypeOK
  <2>2. d < e \/ e < d
    BY BoundsAssumption DEF IInv, TypeOK
  <2>3. QED
    BY <2>1, <2>2 DEF IInv, PostedInOrder
<1>2. QED
  BY <1>1, OutboxIInv, PTL

-----------------------------------------------------------------------------
(* Refinement                                                              *)

\* A step of the outbox is a step of ordered delivery or leaves it alone.
LEMMA StepImplements ==
  ASSUME IInv, IInv', [Next]_vars
  PROVE  [Promise!Next]_(Promise!vars)
<1> USE DEF Promise!Event
<1>1. /\ TInv /\ PostedInOrder /\ RowsInOrder /\ ClaimsAreLive /\ TypeOK
      /\ TypeOK' /\ RowsInOrder'
  BY DEF IInv, TInv
<1>2. inserted \in 0..MaxEvents /\ MaxEvents \in Nat /\ status \in [Event -> Statuses]
  BY <1>1, BoundsAssumption DEF TypeOK
<1>3. ASSUME UNCHANGED <<inserted, keyOf, received, skipped>>, UNCHANGED Settled
      PROVE  UNCHANGED Promise!vars
  BY <1>3 DEF Promise!vars
<1>4. ASSUME UNCHANGED <<table, received, skipped>>,
             \A e \in 1..inserted : status'[e] = "published" <=> status[e] = "published"
      PROVE  UNCHANGED Promise!vars
  BY <1>3, <1>4 DEF Settled, table
<1>5. ASSUME UNCHANGED <<table, received, skipped>>, UNCHANGED status
      PROVE  UNCHANGED Promise!vars
  BY <1>4, <1>5
<1>6. ASSUME NEW k \in Key, NEW n \in 1..MaxBatch, NEW t \in Instant, Enqueue(k, n, t)
      PROVE  Promise!Next
  <2>1. n \in 1..MaxEvents
    BY <1>2, <1>6, BoundsAssumption DEF Enqueue
  <2>2. UNCHANGED Settled
    BY <1>1, <1>2, <1>6, BoundsAssumption DEF Enqueue, Settled, RowsInOrder
  <2>3. Promise!Accept(k, n)
    BY <1>6, <2>2 DEF Enqueue, Promise!Accept, history
  <2>4. QED
    BY <2>1, <2>3 DEF Promise!Next
<1>7. ASSUME RecoverStaleClaims, UNCHANGED <<table, received, skipped>>
      PROVE  UNCHANGED Promise!vars
  BY <1>2, <1>4, <1>7 DEF RecoverStaleClaims
<1>8. ASSUME NEW w \in Worker, NEW e \in Event, ClaimNext(w, e)
      PROVE  UNCHANGED Promise!vars
  BY <1>2, <1>4, <1>8 DEF ClaimNext, NextClaim, Claimable, history
<1>9. ASSUME NEW w \in Worker, MarkPublished(w), Owned(claim[w])
      PROVE  Promise!Next
  <2> DEFINE e == claim[w]
  <2>1. e \in received /\ e \in 1..inserted
    BY <1>1, <1>9 DEF MarkPublished, ClaimsAreLive, PostedInOrder
  <2>2. /\ UNCHANGED <<table, received, skipped>> /\ status[e] = "processing"
        /\ status' = [status EXCEPT ![e] = "published"]
    BY <1>9 DEF MarkPublished, Owned, history
  <2>3. Settled' = Settled \union {e} /\ e \notin Settled
    BY <1>2, <2>1, <2>2 DEF Settled, table
  <2>4. Promise!Settle(e)
    BY <2>1, <2>2, <2>3 DEF Promise!Settle, table
  <2>5. QED
    BY <1>2, <2>1, <2>4 DEF Promise!Next
<1>10. ASSUME NEW w \in Worker, MarkPublished(w), ~ Owned(claim[w])
       PROVE  UNCHANGED Promise!vars
  BY <1>5, <1>10 DEF MarkPublished, history
<1>11. ASSUME NEW w \in Worker, MarkFailed(w)
       PROVE  UNCHANGED Promise!vars
  <2>1. CASE Owned(claim[w])
    <3>1. /\ UNCHANGED <<table, received, skipped>> /\ status[claim[w]] = "processing"
          /\ status' = [status EXCEPT ![claim[w]] =
                          IF counted[w] >= MaxAttempts THEN "dead_letter" ELSE "failed"]
      BY <1>11, <2>1 DEF MarkFailed, Owned, history
    <3>2. QED
      BY <1>2, <1>4, <3>1
  <2>2. CASE ~ Owned(claim[w])
    BY <1>5, <1>11, <2>2 DEF MarkFailed, history
  <2>3. QED
    BY <2>1, <2>2
<1>12. ASSUME NEW g \in Grant, ApplyAuthorizedRecovery(g)
       PROVE  UNCHANGED Promise!vars
  BY <1>2, <1>4, <1>12 DEF ApplyAuthorizedRecovery
<1>13. ASSUME NEW e \in Event, Skip(e)
       PROVE  Promise!Next
  <2>1. /\ UNCHANGED <<table, received>> /\ status[e] # "published" /\ status[e] # "absent"
        /\ status' = [status EXCEPT ![e] = "published"] /\ skipped' = skipped \union {e}
    BY <1>13 DEF Skip
  <2>2. e \in 1..inserted
    BY <1>1, <1>2, <2>1 DEF RowsInOrder
  <2>3. Settled' = Settled \union {e} /\ e \notin Settled
    BY <1>2, <2>1, <2>2 DEF Settled, table
  <2>4. Promise!WriteOff(e)
    BY <1>2, <2>1, <2>2, <2>3 DEF Promise!WriteOff, table
  <2>5. QED
    BY <2>4 DEF Promise!Next
<1>14. ASSUME NEW e \in Event, CentralReceives(e)
       PROVE  Promise!Next
  <2>1. /\ UNCHANGED <<table, status, skipped>> /\ e \in posted /\ e \notin received
        /\ received' = received \union {e}
    BY <1>14 DEF CentralReceives, history
  <2>2. UNCHANGED Settled
    BY <2>1 DEF Settled, table
  <2>3. e <= inserted /\ \A d \in 1..e-1 : keyOf[d] = keyOf[e] => d \in Settled
    BY <1>1, <1>2, <2>1 DEF PostedInOrder, Settled
  <2>4. Promise!Deliver(e)
    BY <2>1, <2>2, <2>3 DEF Promise!Deliver, table
  <2>5. QED
    BY <2>4 DEF Promise!Next
<1>15. QED
  BY <1>5, <1>6, <1>7, <1>8, <1>9, <1>10, <1>11, <1>12, <1>13, <1>14
  DEF Next, Producers, Claim, Finish, Start, SyncNow, Return, Abandon, Acknowledged,
      Rejected, CountFailure, Crash, Sleep, BackoffElapses, LeaseExpires, vars, history

\* The outbox, with its claims, leases, retries, crashes and recoveries,
\* implements ordered delivery when the clock's text sorts by time.
THEOREM OutboxImplementsOrderedDelivery ==
  ASSUME ChronologicalStamps
  PROVE  Spec => ImplementsOrderedDelivery
<1>1. Init => Promise!Init
  BY DEF Init, Promise!Init, Promise!Event, Settled
<1>2. QED
  BY <1>1, StepImplements, OutboxIInv, PTL
  DEF Spec, ImplementsOrderedDelivery, Promise!Spec

-----------------------------------------------------------------------------
(* Grants                                                                  *)

\* GrantRevivesOnce of every row, and what makes counting possible.
GrantsCounted ==
  /\ IsFiniteSet(consumed)
  /\ \A e \in Event : revived[e] = Cardinality({g \in consumed : GrantFor[g] = e})

LEMMA StepGrantsCounted == TInv /\ GrantsCounted /\ [Next]_vars => GrantsCounted'
<1> SUFFICES ASSUME TInv, GrantsCounted, [Next]_vars PROVE GrantsCounted'
  OBVIOUS
<1>1. ASSUME NEW g \in Grant, ApplyAuthorizedRecovery(g) PROVE GrantsCounted'
  <2> DEFINE Used(e) == {h \in consumed : GrantFor[h] = e}
  <2>1. /\ g \notin consumed /\ consumed' = consumed \union {g}
        /\ revived' = [revived EXCEPT ![GrantFor[g]] = @ + 1]
    BY <1>1 DEF ApplyAuthorizedRecovery, Unused
  <2>2. IsFiniteSet(consumed')
    BY <2>1, FS_AddElement DEF GrantsCounted
  <2>3. ASSUME NEW e \in Event PROVE revived'[e] = Cardinality(Used(e)')
    <3>1. revived[e] = Cardinality(Used(e)) /\ IsFiniteSet(Used(e))
      BY FS_Subset DEF GrantsCounted
    <3>2. revived \in [Event -> Nat]
      BY DEF TInv, TypeOK
    <3>3. CASE e = GrantFor[g]
      <4>1. Used(e)' = Used(e) \union {g} /\ g \notin Used(e)
        BY <2>1, <3>3
      <4>2. Cardinality(Used(e)') = Cardinality(Used(e)) + 1
        BY <3>1, <4>1, FS_AddElement
      <4>3. QED
        BY <2>1, <3>1, <3>2, <3>3, <4>2
    <3>4. CASE e # GrantFor[g]
      <4>1. Used(e)' = Used(e)
        BY <2>1, <3>4
      <4>2. QED
        BY <2>1, <3>1, <3>2, <3>4, <4>1
    <3>5. QED
      BY <3>3, <3>4
  <2>4. QED
    BY <2>2, <2>3 DEF GrantsCounted
<1>2. CASE UNCHANGED <<consumed, revived>>
  BY <1>2 DEF GrantsCounted
<1>3. QED
  BY <1>1, <1>2
  DEF Next, Producers, Enqueue, Claim, ClaimNext, Finish, Start, SyncNow, Return, Abandon,
      Acknowledged, Rejected, MarkPublished, MarkFailed, CountFailure, Crash, Sleep, Skip,
      CentralReceives, BackoffElapses, LeaseExpires, history, vars

\* A grant revives one dead letter at most, for any number of grants, also when
\* several name one event: ApplyAuthorizedRecovery records it with the revival.
THEOREM OutboxGrantRevivesOnce == Spec => []GrantRevivesOnce
<1>1. Init => GrantsCounted
  <2>1. IsFiniteSet({}) /\ Cardinality({}) = 0
    BY FS_EmptySet
  <2>2. QED
    BY <2>1 DEF Init, GrantsCounted
<1>2. TInv /\ GrantsCounted => GrantRevivesOnce
  BY BoundsAssumption DEF TInv, TypeOK, GrantsCounted, GrantRevivesOnce
<1>3. QED
  BY InitTInv, StepTInv, StepGrantsCounted, <1>1, <1>2, PTL DEF Spec

-----------------------------------------------------------------------------
(* Dead letters                                                            *)

\* Workers whose delivery of e was rejected and that have not read its count.
Rejecting(e) == {w \in Worker : claim[w] = e /\ pc[w] = "rejected"}

\* Unless enough deliveries of e were rejected it is no dead letter, and its
\* count, or one a worker is about to write, leaves room for the rejections
\* that are still to be counted.
EarnedBy(e) ==
  /\ IsFiniteSet(Rejecting(e))
  /\ failures[e] < MaxAttempts =>
       /\ status[e] # "dead_letter"
       /\ attempts[e] + Cardinality(Rejecting(e)) <= failures[e]
       /\ \A w \in Worker : pc[w] = "counted" /\ claim[w] = e =>
            counted[w] + Cardinality(Rejecting(e)) <= failures[e]

Earned == \A e \in Event : EarnedBy(e)

\* A step that rejects no delivery of e and raises no count of it.
LEMMA NothingWorse ==
  ASSUME TInv, TInv', NEW e \in Event, EarnedBy(e),
         Rejecting(e)' \subseteq Rejecting(e), failures'[e] = failures[e],
         attempts'[e] <= attempts[e], status'[e] = "dead_letter" => status[e] = "dead_letter",
         \A w \in Worker : pc'[w] = "counted" /\ claim'[w] = e =>
           pc[w] = "counted" /\ claim[w] = e /\ counted'[w] = counted[w]
  PROVE  EarnedBy(e)'
<1> DEFINE R == Rejecting(e)
<1>1. /\ IsFiniteSet(R) /\ IsFiniteSet(R') /\ Cardinality(R') <= Cardinality(R)
      /\ Cardinality(R) \in Nat /\ Cardinality(R') \in Nat
  BY FS_Subset, FS_CardinalityType DEF EarnedBy
<1>2. /\ failures[e] \in Nat /\ attempts[e] \in Nat /\ attempts'[e] \in Nat
      /\ \A w \in Worker : counted[w] \in Nat /\ counted'[w] \in Nat
  BY BoundsAssumption DEF TInv, TypeOK
<1> HIDE DEF R
<1>3. ASSUME failures'[e] < MaxAttempts
      PROVE  /\ status'[e] # "dead_letter"
             /\ attempts'[e] + Cardinality(R') <= failures'[e]
             /\ \A w \in Worker : pc'[w] = "counted" /\ claim'[w] = e =>
                  counted'[w] + Cardinality(R') <= failures'[e]
  BY <1>1, <1>2, <1>3 DEF EarnedBy, R
<1>4. QED
  BY <1>1, <1>3 DEF EarnedBy, R

\* Worker w goes to another place, and only it does.
LEMMA Moves ==
  ASSUME TInv, NEW w \in Worker, NEW place \in Places, Enter(w, place)
  PROVE  pc'[w] = place /\ \A v \in Worker : v # w => pc'[v] = pc[v]
BY DEF TInv, TypeOK, Enter

LEMMA Drops ==
  ASSUME TInv, NEW w \in Worker, Drop(w)
  PROVE  \A v \in Worker : v # w => claim'[v] = claim[v] /\ counted'[v] = counted[v]
BY DEF TInv, TypeOK, Drop

LEMMA RejectedEarned ==
  ASSUME TInv, TInv', Earned, NEW w \in Worker, Rejected(w)
  PROVE  Earned'
<1>1. /\ pc[w] = "posting" /\ pc'[w] = "rejected"
      /\ \A v \in Worker : v # w => pc'[v] = pc[v]
      /\ claim' = claim /\ counted' = counted /\ attempts' = attempts /\ status' = status
  BY Moves DEF Rejected, Places
<1>2. claim[w] \in Event
  BY <1>1 DEF TInv, TypeOK, ClaimsAreLive
<1>3. failures' = [failures EXCEPT ![claim[w]] = IF @ < MaxAttempts THEN @ + 1 ELSE @]
  BY DEF Rejected
<1>4. failures \in [Event -> 0..MaxAttempts] /\ attempts \in [Event -> 0..MaxAttempts]
      /\ counted \in [Worker -> 0..MaxAttempts] /\ MaxAttempts \in Nat
  BY BoundsAssumption DEF TInv, TypeOK
<1>5. ASSUME NEW e \in Event, e # claim[w] PROVE EarnedBy(e)'
  <2>1. failures'[e] = failures[e]
    BY <1>3, <1>4, <1>5
  <2>2. Rejecting(e)' \subseteq Rejecting(e)
    BY <1>1, <1>5 DEF Rejecting
  <2>3. \A v \in Worker : pc'[v] = "counted" /\ claim'[v] = e =>
          pc[v] = "counted" /\ claim[v] = e /\ counted'[v] = counted[v]
    BY <1>1
  <2>4. attempts'[e] <= attempts[e]
    BY <1>1, <1>4
  <2>5. QED
    BY <1>1, <2>1, <2>2, <2>3, <2>4, NothingWorse DEF Earned
<1>6. EarnedBy(claim[w])'
  <2> DEFINE e == claim[w]
             R == Rejecting(e)
  <2>1. IsFiniteSet(R) /\ w \notin R /\ Rejecting(e)' = R \union {w}
    BY <1>1, <1>2 DEF Earned, EarnedBy, Rejecting
  <2>2. /\ IsFiniteSet(Rejecting(e)') /\ Cardinality(Rejecting(e)') = Cardinality(R) + 1
        /\ Cardinality(R) \in Nat
    BY <2>1, FS_AddElement, FS_CardinalityType
  <2>3. e \in Event /\ e' = e
    BY <1>1, <1>2
  <2> HIDE DEF e, R
  <2>4. failures'[e] < MaxAttempts => failures[e] < MaxAttempts /\ failures'[e] = failures[e] + 1
    BY <1>3, <1>4, <2>3 DEF e
  <2>5. /\ failures[e] \in Nat /\ attempts[e] \in Nat
        /\ \A v \in Worker : counted[v] \in Nat
    BY <1>4, <2>3
  <2>6. failures[e] < MaxAttempts =>
          /\ status[e] # "dead_letter"
          /\ attempts[e] + Cardinality(R) <= failures[e]
          /\ \A v \in Worker : pc[v] = "counted" /\ claim[v] = e =>
               counted[v] + Cardinality(R) <= failures[e]
    BY <2>3 DEF Earned, EarnedBy, R
  <2>7. \A v \in Worker : pc'[v] = "counted" => pc[v] = "counted"
    BY <1>1
  <2>8. ASSUME failures'[e] < MaxAttempts
        PROVE  /\ status'[e] # "dead_letter"
               /\ attempts'[e] + Cardinality(Rejecting(e)') <= failures'[e]
               /\ \A v \in Worker : pc'[v] = "counted" /\ claim'[v] = e =>
                    counted'[v] + Cardinality(Rejecting(e)') <= failures'[e]
    BY <1>1, <2>2, <2>4, <2>5, <2>6, <2>7, <2>8
  <2>9. EarnedBy(e)'
    BY <2>2, <2>3, <2>8 DEF EarnedBy
  <2>10. QED
    BY <2>9 DEF e
<1>7. QED
  BY <1>1, <1>5, <1>6 DEF Earned

LEMMA CountFailureEarned ==
  ASSUME TInv, TInv', Earned, NEW w \in Worker, CountFailure(w)
  PROVE  Earned'
<1>1. failures' = failures /\ attempts' = attempts /\ status' = status /\ pc[w] = "rejected"
  BY DEF CountFailure, history
<1>2. claim[w] \in Event
  BY <1>1 DEF TInv, TypeOK, ClaimsAreLive
<1>3. failures \in [Event -> 0..MaxAttempts] /\ attempts \in [Event -> 0..MaxAttempts]
      /\ counted \in [Worker -> 0..MaxAttempts] /\ MaxAttempts \in Nat
  BY BoundsAssumption DEF TInv, TypeOK
<1>4. CASE ~ Owned(claim[w])
  <2>1. /\ Drop(w) /\ pc'[w] \in {"ready", "off"}
        /\ \A v \in Worker : v # w => pc'[v] = pc[v]
    BY <1>4, Moves DEF CountFailure, Places
  <2>2. \A v \in Worker : v # w => claim'[v] = claim[v] /\ counted'[v] = counted[v]
    BY <2>1, Drops
  <2>3. ASSUME NEW e \in Event PROVE EarnedBy(e)'
    <3>1. Rejecting(e)' \subseteq Rejecting(e)
      BY <2>1, <2>2 DEF Rejecting
    <3>2. \A v \in Worker : pc'[v] = "counted" /\ claim'[v] = e =>
            pc[v] = "counted" /\ claim[v] = e /\ counted'[v] = counted[v]
      BY <2>1, <2>2
    <3>3. attempts'[e] <= attempts[e]
      BY <1>1, <1>3
    <3>4. QED
      BY <1>1, <3>1, <3>2, <3>3, NothingWorse DEF Earned
  <2>4. QED
    BY <2>3 DEF Earned
<1>5. CASE Owned(claim[w])
  <2>1. /\ claim' = claim /\ counted' = [counted EXCEPT ![w] = attempts[claim[w]] + 1]
        /\ pc'[w] = "counted" /\ \A v \in Worker : v # w => pc'[v] = pc[v]
    BY <1>5, Moves DEF CountFailure, Places
  <2>2. ASSUME NEW e \in Event, e # claim[w] PROVE EarnedBy(e)'
    <3>1. Rejecting(e)' \subseteq Rejecting(e)
      BY <2>1 DEF Rejecting
    <3>2. \A v \in Worker : pc'[v] = "counted" /\ claim'[v] = e =>
            pc[v] = "counted" /\ claim[v] = e /\ counted'[v] = counted[v]
      BY <2>1, <2>2, <1>3
    <3>3. attempts'[e] <= attempts[e]
      BY <1>1, <1>3
    <3>4. QED
      BY <1>1, <3>1, <3>2, <3>3, NothingWorse DEF Earned
  <2>3. EarnedBy(claim[w])'
    <3> DEFINE e == claim[w]
               R == Rejecting(e)
    <3>1. IsFiniteSet(R) /\ w \in R /\ Rejecting(e)' = R \ {w}
      BY <1>1, <1>2, <2>1 DEF Earned, EarnedBy, Rejecting
    <3>2. /\ IsFiniteSet(Rejecting(e)') /\ Cardinality(Rejecting(e)') = Cardinality(R) - 1
          /\ Cardinality(R) \in Nat
      BY <3>1, FS_RemoveElement, FS_CardinalityType
    <3>3. e \in Event /\ e' = e
      BY <1>2, <2>1
    <3>4. counted'[w] = attempts[e] + 1 /\ \A v \in Worker : v # w => counted'[v] = counted[v]
      BY <1>3, <2>1
    <3> HIDE DEF e, R
    <3>5. /\ failures[e] \in Nat /\ attempts[e] \in Nat
          /\ \A v \in Worker : counted[v] \in Nat
      BY <1>3, <3>3
    <3>6. failures[e] < MaxAttempts =>
            /\ status[e] # "dead_letter"
            /\ attempts[e] + Cardinality(R) <= failures[e]
            /\ \A v \in Worker : pc[v] = "counted" /\ claim[v] = e =>
                 counted[v] + Cardinality(R) <= failures[e]
      BY <3>3 DEF Earned, EarnedBy, R
    <3>7. \A v \in Worker : v # w /\ pc'[v] = "counted" => pc[v] = "counted"
      BY <2>1
    <3>8. ASSUME failures'[e] < MaxAttempts
          PROVE  /\ status'[e] # "dead_letter"
                 /\ attempts'[e] + Cardinality(Rejecting(e)') <= failures'[e]
                 /\ \A v \in Worker : pc'[v] = "counted" /\ claim'[v] = e =>
                      counted'[v] + Cardinality(Rejecting(e)') <= failures'[e]
      BY <1>1, <2>1, <3>2, <3>4, <3>5, <3>6, <3>7, <3>8
    <3>9. EarnedBy(e)'
      BY <3>2, <3>3, <3>8 DEF EarnedBy
    <3>10. QED
      BY <3>9 DEF e
  <2>4. QED
    BY <2>1, <2>2, <2>3 DEF Earned
<1>6. QED
  BY <1>4, <1>5

LEMMA MarkFailedEarned ==
  ASSUME TInv, TInv', Earned, NEW w \in Worker, MarkFailed(w)
  PROVE  Earned'
<1>1. /\ pc[w] = "counted" /\ failures' = failures
      /\ Drop(w) /\ pc'[w] \in {"ready", "off"}
      /\ \A v \in Worker : v # w => pc'[v] = pc[v]
  BY Moves DEF MarkFailed, history, Places
<1>2. \A v \in Worker : v # w => claim'[v] = claim[v] /\ counted'[v] = counted[v]
  BY <1>1, Drops
<1>3. failures \in [Event -> 0..MaxAttempts] /\ attempts \in [Event -> 0..MaxAttempts]
      /\ counted \in [Worker -> 0..MaxAttempts] /\ MaxAttempts \in Nat
      /\ status \in [Event -> Statuses]
  BY BoundsAssumption DEF TInv, TypeOK
<1>4. claim[w] \in Event
  BY <1>1 DEF TInv, TypeOK, ClaimsAreLive
<1>5. ASSUME NEW e \in Event
      PROVE  /\ Rejecting(e)' \subseteq Rejecting(e)
             /\ \A v \in Worker : pc'[v] = "counted" /\ claim'[v] = e =>
                  pc[v] = "counted" /\ claim[v] = e /\ counted'[v] = counted[v]
  BY <1>1, <1>2 DEF Rejecting
<1>6. ASSUME NEW e \in Event, e # claim[w] \/ ~ Owned(claim[w]) PROVE EarnedBy(e)'
  <2>1. status'[e] = status[e] /\ attempts'[e] = attempts[e]
    BY <1>3, <1>6 DEF MarkFailed
  <2>2. QED
    BY <1>1, <1>3, <1>5, <2>1, NothingWorse DEF Earned
<1>7. ASSUME Owned(claim[w]), NEW e \in Event, e = claim[w] PROVE EarnedBy(e)'
  <2>1. /\ attempts'[e] = counted[w]
        /\ status'[e] = IF counted[w] >= MaxAttempts THEN "dead_letter" ELSE "failed"
    BY <1>3, <1>7 DEF MarkFailed
  <2>2. /\ IsFiniteSet(Rejecting(e)) /\ IsFiniteSet(Rejecting(e)')
        /\ Cardinality(Rejecting(e)') <= Cardinality(Rejecting(e))
        /\ Cardinality(Rejecting(e)) \in Nat /\ Cardinality(Rejecting(e)') \in Nat
    BY <1>5, FS_Subset, FS_CardinalityType DEF Earned, EarnedBy
  <2>3. failures[e] \in Nat /\ \A v \in Worker : counted[v] \in Nat
    BY <1>3
  <2>4. failures[e] < MaxAttempts =>
          \A v \in Worker : pc[v] = "counted" /\ claim[v] = e =>
            counted[v] + Cardinality(Rejecting(e)) <= failures[e]
    BY DEF Earned, EarnedBy
  <2>5. failures[e] < MaxAttempts => counted[w] + Cardinality(Rejecting(e)) <= failures[e]
    BY <1>1, <1>7, <2>4
  <2>6. failures'[e] < MaxAttempts =>
          /\ status'[e] # "dead_letter"
          /\ attempts'[e] + Cardinality(Rejecting(e)') <= failures'[e]
    BY <1>1, <1>3, <2>1, <2>2, <2>3, <2>5
  <2>7. \A v \in Worker : pc'[v] = "counted" /\ claim'[v] = e =>
          counted'[v] = counted[v] /\ pc[v] = "counted" /\ claim[v] = e
    BY <1>5
  <2>8. failures'[e] < MaxAttempts =>
          \A v \in Worker : pc'[v] = "counted" /\ claim'[v] = e =>
            counted'[v] + Cardinality(Rejecting(e)') <= failures'[e]
    BY <1>1, <2>2, <2>3, <2>4, <2>7
  <2>9. QED
    BY <2>2, <2>6, <2>8 DEF EarnedBy
<1>8. QED
  BY <1>6, <1>7 DEF Earned

\* Only Rejected brings a worker to where its rejection is to be counted, and
\* only CountFailure and MarkFailed take the count on.
LEMMA StepEarned == TInv /\ Earned /\ [Next]_vars => Earned'
<1> SUFFICES ASSUME TInv, TInv', Earned, [Next]_vars PROVE Earned'
  BY StepTInv
<1>1. failures \in [Event -> 0..MaxAttempts] /\ attempts \in [Event -> 0..MaxAttempts]
      /\ MaxAttempts \in Nat /\ status \in [Event -> Statuses]
  BY BoundsAssumption DEF TInv, TypeOK
<1>2. ASSUME failures' = failures,
             \A e \in Event : /\ attempts'[e] <= attempts[e]
                              /\ status'[e] = "dead_letter" => status[e] = "dead_letter",
             \A v \in Worker :
               /\ pc'[v] = "rejected" => pc[v] = "rejected" /\ claim'[v] = claim[v]
               /\ pc'[v] = "counted" =>
                    pc[v] = "counted" /\ claim'[v] = claim[v] /\ counted'[v] = counted[v]
      PROVE  Earned'
  <2>1. ASSUME NEW e \in Event PROVE EarnedBy(e)'
    <3>1. Rejecting(e)' \subseteq Rejecting(e)
      BY <1>2 DEF Rejecting
    <3>2. QED
      BY <1>2, <3>1, NothingWorse DEF Earned
  <2>2. QED
    BY <2>1 DEF Earned
<1>3. ASSUME UNCHANGED <<status, attempts>>
      PROVE  \A e \in Event : /\ attempts'[e] <= attempts[e]
                              /\ status'[e] = "dead_letter" => status[e] = "dead_letter"
  BY <1>1, <1>3
<1>4. CASE Producers
  <2>1. \A e \in Event : status'[e] = "dead_letter" => status[e] = "dead_letter"
    BY <1>1, <1>4 DEF Producers, Enqueue
  <2>2. QED
    BY <1>1, <1>2, <1>4, <2>1 DEF Producers, Enqueue, workers, history
<1>5. ASSUME NEW w \in Worker, pc[w] = "off", RecoverStaleClaims, Enter(w, "ready"),
             UNCHANGED <<attempts, claim, counted, failures>>
      PROVE  Earned'
  <2>1. \A e \in Event : status'[e] = "dead_letter" => status[e] = "dead_letter"
    BY <1>1, <1>5 DEF RecoverStaleClaims
  <2>2. pc'[w] = "ready" /\ \A v \in Worker : v # w => pc'[v] = pc[v]
    BY <1>5, Moves DEF Places
  <2>3. QED
    BY <1>1, <1>2, <1>5, <2>1, <2>2
<1>6. CASE Start \/ \E r \in Request : SyncNow(r)
  BY <1>5, <1>6 DEF Start, SyncNow, Worker, history
<1>7. ASSUME NEW r \in Request, Return(r) PROVE Earned'
  <2>1. r \in Worker /\ pc'[r] = "off" /\ \A v \in Worker : v # r => pc'[v] = pc[v]
    BY <1>7, Moves DEF Return, Places, Worker
  <2>2. QED
    BY <1>2, <1>3, <1>7, <2>1 DEF Return, history
<1>8. ASSUME NEW w \in Worker, NEW e \in Event, ClaimNext(w, e) PROVE Earned'
  <2>1. pc'[w] = "posting" /\ \A v \in Worker : v # w => pc'[v] = pc[v]
    BY <1>8, Moves DEF ClaimNext, Places
  <2>2. \A v \in Worker : v # w => claim'[v] = claim[v]
    BY <1>8 DEF ClaimNext, TInv, TypeOK
  <2>3. \A d \in Event : status'[d] = "dead_letter" => status[d] = "dead_letter"
    BY <1>1, <1>8 DEF ClaimNext
  <2>4. QED
    BY <1>1, <1>2, <1>8, <2>1, <2>2, <2>3 DEF ClaimNext, history
<1>9. ASSUME NEW w \in Worker, Acknowledged(w) PROVE Earned'
  <2>1. pc'[w] = "acked" /\ \A v \in Worker : v # w => pc'[v] = pc[v]
    BY <1>9, Moves DEF Acknowledged, Places
  <2>2. QED
    BY <1>2, <1>3, <1>9, <2>1 DEF Acknowledged, history
<1>10. ASSUME NEW w \in Worker, MarkPublished(w) PROVE Earned'
  <2>1. Drop(w) /\ pc'[w] \in {"ready", "off"} /\ \A v \in Worker : v # w => pc'[v] = pc[v]
    BY <1>10, Moves DEF MarkPublished, Places
  <2>2. \A v \in Worker : v # w => claim'[v] = claim[v] /\ counted'[v] = counted[v]
    BY <2>1, Drops
  <2>3. \A d \in Event : status'[d] = "dead_letter" => status[d] = "dead_letter"
    BY <1>1, <1>10 DEF MarkPublished
  <2>4. QED
    BY <1>1, <1>2, <1>10, <2>1, <2>2, <2>3 DEF MarkPublished, history
<1>11. ASSUME NEW r \in Request, Abandon(r) PROVE Earned'
  <2>1. r \in Worker /\ Drop(r) /\ pc'[r] = "off" /\ \A v \in Worker : v # r => pc'[v] = pc[v]
    BY <1>11, Moves DEF Abandon, Places, Worker
  <2>2. \A v \in Worker : v # r => claim'[v] = claim[v] /\ counted'[v] = counted[v]
    BY <2>1, Drops
  <2>3. QED
    BY <1>2, <1>3, <1>11, <2>1, <2>2 DEF Abandon, history
<1>12. CASE Crash
  <2>1. \A v \in Worker : pc'[v] = "off"
    BY <1>12 DEF Crash
  <2>2. QED
    BY <1>2, <1>3, <1>12, <2>1 DEF Crash
<1>13. ASSUME NEW g \in Grant, ApplyAuthorizedRecovery(g) PROVE Earned'
  <2>1. \A d \in Event : /\ attempts'[d] <= attempts[d]
                         /\ status'[d] = "dead_letter" => status[d] = "dead_letter"
    BY <1>1, <1>13 DEF ApplyAuthorizedRecovery
  <2>2. QED
    BY <1>2, <1>13, <2>1 DEF ApplyAuthorizedRecovery, workers
<1>14. ASSUME NEW e \in Event, Skip(e) PROVE Earned'
  <2>1. \A d \in Event : status'[d] = "dead_letter" => status[d] = "dead_letter"
    BY <1>1, <1>14 DEF Skip
  <2>2. QED
    BY <1>1, <1>2, <1>14, <2>1 DEF Skip, workers
<1>15. CASE \/ Sleep
            \/ \E e \in Event : CentralReceives(e) \/ BackoffElapses(e) \/ LeaseExpires(e)
            \/ UNCHANGED vars
  BY <1>2, <1>3, <1>15
  DEF Sleep, CentralReceives, BackoffElapses, LeaseExpires, vars, workers, history
<1>16. QED
  BY <1>4, <1>6, <1>7, <1>8, <1>9, <1>10, <1>11, <1>12, <1>13, <1>14, <1>15,
     RejectedEarned, CountFailureEarned, MarkFailedEarned
  DEF Next, Claim, Finish

\* An event is poisoned only after MaxAttempts rejected deliveries, for any
\* number of workers: whatever is counted twice was rejected twice.
THEOREM OutboxDeadLetterIsEarned == Spec => []DeadLetterIsEarned
<1>1. Init => Earned
  <2>1. IsFiniteSet({}) /\ Cardinality({}) = 0
    BY FS_EmptySet
  <2>2. ASSUME Init, NEW e \in Event PROVE EarnedBy(e)
    <3>1. Rejecting(e) = {} /\ \A w \in Worker : pc[w] # "counted"
      BY <2>2 DEF Init, Rejecting
    <3>2. QED
      BY <2>1, <2>2, <3>1 DEF Init, EarnedBy
  <2>3. QED
    BY <2>2 DEF Earned
<1>2. TInv /\ Earned => DeadLetterIsEarned
  <2>1. SUFFICES ASSUME TInv, Earned, NEW e \in 1..inserted, status[e] = "dead_letter"
                 PROVE  failures[e] = MaxAttempts
    BY DEF DeadLetterIsEarned
  <2>2. e \in Event /\ failures[e] \in 0..MaxAttempts
    BY <2>1, BoundsAssumption DEF TInv, TypeOK
  <2>3. QED
    BY <2>1, <2>2, BoundsAssumption DEF Earned, EarnedBy
<1>3. QED
  BY InitTInv, StepTInv, StepEarned, <1>1, <1>2, PTL DEF Spec

=============================================================================
