------------------ MODULE NotificationOutboxAccountProofs ------------------
(***************************************************************************)
(* Theorems about NotificationOutbox that keep an account: what a replica  *)
(* may have in hand, how often a row may be claimed and how often it may   *)
(* be sent, for every set of rows and workers, every batch limit, retry    *)
(* budget and number of faults.                                            *)
(***************************************************************************)
EXTENDS NotificationOutboxProofs, FiniteSetTheorems

\* A row that no worker will look at again.
Closed(j) == status[j] \in {"SENT", "FAILED"}

\* What a condition that holds adds to an account.
Bit(b) == IF b THEN 1 ELSE 0

\* Only faults are added to the number of faults.
LEMMA FaultsGrow ==
    ASSUME TypeOK, [Next]_vars
    PROVE  faults \in Nat /\ faults' \in {faults, faults + 1}
BY BoundsAssumption
   DEF TypeOK, Next, CreateOutbox, BackoffElapses, LockAges, HandleQueue, FinishBatch, Crash,
       ProcessJob, StartSend, Timeout, SaveSent, GiveUp, Retry, FailureWriteLost,
       EnqueuePushFallback, ProviderAnswers, SendWithFallback, AlimtalkAnswers, SmsAnswers,
       SensAnswers, RecordDelivery, CleanZombies, Fault, NoFault, vars

-----------------------------------------------------------------------------
(* What one replica has in hand *)

InHand == AtWork \cup {"falling"}

\* A worker whose flag is down has settled its last batch; one whose flag is up has at most
\* one batch in hand.
OneBatch ==
    \A w \in Workers :
        /\ w \notin busy => Unsettled(w) = {}
        /\ IsFiniteSet(Unsettled(w))
        /\ Cardinality(Unsettled(w)) <= BatchLimit

BatchInv == ClaimInv /\ OneBatch

\* Fewer unsettled tasks are no more than the batch limit.
LEMMA BatchShrinks ==
    ASSUME OneBatch, NEW w \in Workers, Unsettled(w)' \subseteq Unsettled(w)
    PROVE  IsFiniteSet(Unsettled(w))' /\ (Cardinality(Unsettled(w)) <= BatchLimit)'
<1> DEFINE S == Unsettled(w)
           T == Unsettled(w)'
<1>1. IsFiniteSet(S) /\ Cardinality(S) <= BatchLimit
  BY DEF OneBatch
<1>2. T \in SUBSET S
  OBVIOUS
<1> HIDE DEF S, T
<1>3. IsFiniteSet(T) /\ Cardinality(T) <= Cardinality(S)
  BY <1>1, <1>2, FS_Subset
<1>4. Cardinality(S) \in Nat /\ Cardinality(T) \in Nat
  BY <1>1, <1>3, FS_CardinalityType
<1>5. IsFiniteSet(T) /\ Cardinality(T) <= BatchLimit
  BY <1>1, <1>3, <1>4, BoundsAssumption
<1>6. QED
  BY <1>5 DEF T

\* A step that takes nothing in hand and lowers no flag.
LEMMA BatchKept ==
    ASSUME OneBatch, UNCHANGED <<busy, owner>>,
           \A c \in Claims : task'[c] \in InHand => task[c] \in InHand
    PROVE  OneBatch'
<1> SUFFICES ASSUME NEW w \in Workers
             PROVE  /\ w \notin busy' => Unsettled(w)' = {}
                    /\ IsFiniteSet(Unsettled(w))'
                    /\ (Cardinality(Unsettled(w)) <= BatchLimit)'
  BY DEF OneBatch
<1>1. Unsettled(w)' \subseteq Unsettled(w)
  BY DEF Unsettled, InHand
<1>2. w \notin busy' => Unsettled(w)' = {}
  BY <1>1 DEF OneBatch
<1>3. QED
  BY <1>1, <1>2, BatchShrinks

\* A batch has no more claims than rows.
LEMMA BatchIsSmall ==
    ASSUME NEW B \in Batches
    PROVE  LET new == {NextClaim(j) : j \in B}
           IN  IsFiniteSet(new) /\ Cardinality(new) <= BatchLimit
<1>1. B \subseteq Jobs /\ Cardinality(B) <= BatchLimit
  BY DEF Batches, Due
<1>2. IsFiniteSet(B)
  BY <1>1, FS_Subset, JobsAssumption
<1> DEFINE new == {NextClaim(j) : j \in B}
           claimOf == [j \in B |-> NextClaim(j)]
<1>3. claimOf \in Surjection(B, new)
  BY DEF Surjection
<1> HIDE DEF claimOf, new
<1>4. IsFiniteSet(new) /\ Cardinality(new) <= Cardinality(B)
  BY <1>2, <1>3, FS_Surjection
<1>5. Cardinality(B) \in Nat /\ Cardinality(new) \in Nat
  BY <1>2, <1>4, FS_CardinalityType
<1>6. QED
  BY <1>1, <1>4, <1>5, BoundsAssumption DEF new

\* Every step leaves every replica with at most one batch.
LEMMA BatchStep ==
    ASSUME BatchInv, [Next]_vars
    PROVE  BatchInv'
<1>0. ClaimInv /\ ClaimInv' /\ TypeOK /\ OneBatch
  BY ClaimStep DEF BatchInv, ClaimInv
<1>1. ASSUME NEW j \in Jobs, CreateOutbox(j) \/ BackoffElapses(j) \/ LockAges(j) PROVE OneBatch'
  BY <1>0, <1>1, BatchKept DEF CreateOutbox, BackoffElapses, LockAges, taskVars
<1>2. ASSUME NEW v \in Workers, HandleQueue(v) PROVE OneBatch'
  <2>1. PICK B \in Batches : HandleQueue(v)!2!(B)
    BY <1>2 DEF HandleQueue
  <2> DEFINE new == {NextClaim(j) : j \in B}
  <2>2. v \notin busy /\ busy' = busy \cup {v}
    BY <1>2 DEF HandleQueue, MayTick
  <2>3. Unsettled(v) = {}
    BY <1>0, <2>2 DEF OneBatch
  <2>4. Unsettled(v)' \subseteq new
    BY <2>1, <2>3 DEF Unsettled
  <2>5. IsFiniteSet(new) /\ Cardinality(new) <= BatchLimit
    BY BatchIsSmall
  <2>6. IsFiniteSet(Unsettled(v))' /\ (Cardinality(Unsettled(v)) <= BatchLimit)'
    <3> DEFINE T == Unsettled(v)'
    <3> HIDE DEF new, T
    <3>1. T \in SUBSET new
      BY <2>4 DEF T
    <3>2. IsFiniteSet(T) /\ Cardinality(T) <= Cardinality(new)
      BY <2>5, <3>1, FS_Subset
    <3>3. Cardinality(T) \in Nat /\ Cardinality(new) \in Nat
      BY <2>5, <3>2, FS_CardinalityType
    <3>4. IsFiniteSet(T) /\ Cardinality(T) <= BatchLimit
      BY <2>5, <3>2, <3>3, BoundsAssumption
    <3>5. QED
      BY <3>4 DEF T
  <2>7. ASSUME NEW w \in Workers, w # v
        PROVE  /\ w \notin busy' => Unsettled(w)' = {}
               /\ IsFiniteSet(Unsettled(w))'
               /\ (Cardinality(Unsettled(w)) <= BatchLimit)'
    <3>1. Unsettled(w)' \subseteq Unsettled(w)
      BY <2>1, <2>7 DEF Unsettled
    <3>2. QED
      BY <1>0, <2>2, <2>7, <3>1, BatchShrinks DEF OneBatch
  <2>8. QED
    BY <2>2, <2>6, <2>7 DEF OneBatch
<1>3. ASSUME NEW v \in Workers, FinishBatch(v) PROVE OneBatch'
  <2>1. Unsettled(v) = {} /\ busy' = busy \ {v} /\ UNCHANGED <<task, owner>>
    BY <1>3 DEF FinishBatch, taskVars
  <2>2. \A w \in Workers : Unsettled(w)' = Unsettled(w)
    BY <2>1 DEF Unsettled
  <2>3. QED
    BY <1>0, <2>1, <2>2, BatchShrinks DEF OneBatch
<1>4. ASSUME NEW v \in Workers, Crash(v) PROVE OneBatch'
  <2>1. /\ busy' = busy \ {v} /\ owner' = owner
        /\ \A c \in Claims : task'[c] = IF v \in owner[c] THEN "settled" ELSE task[c]
    BY <1>4 DEF Crash
  <2>2. Unsettled(v)' = {}
    BY <2>1 DEF Unsettled, AtWork
  <2>3. \A w \in Workers : Unsettled(w)' \subseteq Unsettled(w)
    BY <2>1 DEF Unsettled, AtWork
  <2>4. QED
    BY <1>0, <2>1, <2>2, <2>3, BatchShrinks DEF OneBatch
<1>5. ASSUME NEW c \in Claims, ProcessJob(c) PROVE OneBatch'
  <2>1. UNCHANGED <<busy, owner>>
    BY <1>5 DEF ProcessJob, StartSend, Timeout, SaveSent, GiveUp, Retry, FailureWriteLost,
                EnqueuePushFallback
  <2>2. task[c] \in InHand
    BY <1>5 DEF ProcessJob, StartSend, Timeout, SaveSent, GiveUp, Exhausted, Retry,
                FailureWriteLost, EnqueuePushFallback, InHand, AtWork
  <2>3. \A d \in Claims : d # c => task'[d] = task[d]
    BY <1>0, <1>5 DEF ProcessJob, StartSend, Timeout, SaveSent, GiveUp, Retry,
                FailureWriteLost, EnqueuePushFallback, TypeOK
  <2>4. QED
    BY <1>0, <2>1, <2>2, <2>3, BatchKept
<1>6. ASSUME NEW c \in Claims, ProviderAnswers(c) \/ SendWithFallback(c) PROVE OneBatch'
  <2>1. UNCHANGED <<busy, owner>>
    BY <1>6 DEF ProviderAnswers, SendWithFallback, AlimtalkAnswers, SmsAnswers, SensAnswers,
                RecordDelivery, Settle
  <2>2. \A d \in Claims : task'[d] = task[d] \/ task[d] = "sending"
    BY <1>0, <1>6 DEF ProviderAnswers, SendWithFallback, AlimtalkAnswers, SmsAnswers,
                SensAnswers, RecordDelivery, Settle, TypeOK
  <2>3. QED
    BY <1>0, <2>1, <2>2, BatchKept DEF InHand, AtWork
<1>7. ASSUME CleanZombies PROVE OneBatch'
  BY <1>0, <1>7, BatchKept DEF CleanZombies, taskVars
<1>8. ASSUME UNCHANGED vars PROVE OneBatch'
  BY <1>0, <1>8, BatchKept DEF vars, taskVars
<1>9. OneBatch'
  BY <1>1, <1>2, <1>3, <1>4, <1>5, <1>6, <1>7, <1>8 DEF Next
<1>10. QED
  BY <1>0, <1>9 DEF BatchInv

\* Nothing is in hand at the start.
LEMMA BatchInit == Init => BatchInv
<1>1. ASSUME Init, NEW w \in Workers PROVE Unsettled(w) = {}
  BY <1>1 DEF Init, Unsettled, AtWork
<1>2. Init => OneBatch
  BY <1>1, FS_EmptySet, BoundsAssumption DEF OneBatch
<1>3. QED
  BY <1>2, ClaimInit DEF BatchInv

\* A replica never works on more rows than the argument of claimPendingBatch, whatever
\* faults happen: the isProcessing flag of handleQueue.
THEOREM BatchesAreBounded == Spec => []BatchBound
<1>1. BatchInv /\ [Next]_vars => BatchInv'
  BY BatchStep
<1>2. BatchInv => BatchBound
  BY DEF BatchInv, OneBatch, BatchBound
<1>3. QED
  BY <1>1, <1>2, BatchInit, PTL DEF Spec
-----------------------------------------------------------------------------
(* How often a row is claimed *)

\* An attempt that may still be counted: one whose time-out has not been decided.
Trying(c) == task[c] \in AtWork \ {"hanging"}
Attempted(j) == \E c \in Claims : Job(c) = j /\ Trying(c)

\* The claims made, and the one to come unless the row is closed or its attempt may still be
\* counted, are paid for by the first claim, the counted retries and the faults.
AttemptPaid(j) ==
    claims[j] + Bit(~ (Closed(j) \/ Attempted(j))) <= 1 + retryCount[j] + faults

AttemptsPaid == \A j \in Jobs : AttemptPaid(j)

AttemptInv == WorkInv /\ AttemptsPaid

\* What a step other than a claim may do to a row's attempts: be a fault, count a retry,
\* close the row, or end no attempt.
Moved(j) ==
    /\ claims'[j] = claims[j]
    /\ \/ retryCount'[j] = retryCount[j] /\ faults' = faults + 1
       \/ retryCount'[j] = retryCount[j] + 1
       \/ /\ retryCount'[j] = retryCount[j]
          /\ \/ Closed(j)'
             \/ \A c \in Claims : Job(c) = j /\ Trying(c) => Trying(c)'

\* Such a step keeps the account of the row.
LEMMA AttemptKept ==
    ASSUME AttemptInv, WorkInv', [Next]_vars, NEW j \in Jobs, Moved(j)
    PROVE  AttemptPaid(j)'
<1>1. /\ claims[j] \in Nat /\ retryCount[j] \in Nat
      /\ faults \in Nat /\ faults' \in {faults, faults + 1}
  BY FaultsGrow, BoundsAssumption DEF AttemptInv, WorkInv, ClaimInv, TypeOK
<1>2. AttemptPaid(j)
  BY DEF AttemptInv, AttemptsPaid
<1>3. Bit(~ (Closed(j) \/ Attempted(j))) \in {0, 1} /\ Bit(~ (Closed(j) \/ Attempted(j)))' \in {0, 1}
  BY DEF Bit
<1>4. CASE retryCount'[j] = retryCount[j] /\ faults' = faults + 1
  BY <1>1, <1>2, <1>3, <1>4 DEF AttemptPaid, Moved
<1>5. CASE retryCount'[j] = retryCount[j] + 1
  BY <1>1, <1>2, <1>3, <1>5 DEF AttemptPaid, Moved
<1>6. CASE /\ retryCount'[j] = retryCount[j]
           /\ \/ Closed(j)'
              \/ \A c \in Claims : Job(c) = j /\ Trying(c) => Trying(c)'
  <2>1. Closed(j) => Closed(j)'
    BY ClosedIsFinal DEF Closed, AttemptInv
  <2>2. Closed(j) \/ Attempted(j) => Closed(j)' \/ Attempted(j)'
    BY <1>6, <2>1 DEF Attempted
  <2>3. Bit(~ (Closed(j) \/ Attempted(j)))' <= Bit(~ (Closed(j) \/ Attempted(j)))
    BY <2>2 DEF Bit
  <2>4. QED
    BY <1>1, <1>2, <1>3, <1>6, <2>3 DEF AttemptPaid, Moved
<1>7. QED
  BY <1>4, <1>5, <1>6 DEF Moved

\* Only the rows that handleQueue claims are claimed once more.
LEMMA ClaimedNextIsPaid ==
    ASSUME AttemptInv, ClaimInv', [Next]_vars, NEW w \in Workers, HandleQueue(w), NEW j \in Jobs
    PROVE  AttemptPaid(j)'
<1>0. TypeOK /\ WorkInv /\ AttemptsPaid /\ claims[j] \in Nat /\ retryCount[j] \in Nat
  BY BoundsAssumption DEF AttemptInv, WorkInv, ClaimInv, TypeOK
<1>1. PICK B \in Batches : HandleQueue(w)!2!(B)
  BY DEF HandleQueue
<1>2. retryCount' = retryCount /\ faults' = faults /\ faults \in Nat
  BY FaultsGrow, <1>0 DEF HandleQueue
<1>3. CASE j \in B
  <2>1. status[j] \in Claimable /\ claims[j] < MaxClaims
    BY <1>3 DEF Batches, Due
  <2>2. ~ Closed(j)
    BY <2>1 DEF Claimable, Closed
  <2>3. ~ Attempted(j)
    BY <2>1, <1>0 DEF Attempted, Trying, Claimable, WorkInv, WorkingTaskHoldsClaim, HoldsClaim
  <2>4. claims[j] + 1 <= 1 + retryCount[j] + faults
    BY <1>0, <2>2, <2>3 DEF AttemptsPaid, AttemptPaid, Bit
  <2>5. Attempted(j)'
    <3>1. NextClaim(j) \in Claims /\ Job(NextClaim(j)) = j
      BY <1>0, <2>1, NextClaimParts DEF TypeOK
    <3>2. task'[NextClaim(j)] = "claimed"
      BY <1>1, <1>3, <3>1
    <3>3. QED
      BY <3>1, <3>2 DEF Attempted, Trying, AtWork
  <2>6. claims'[j] = claims[j] + 1
    BY <1>1, <1>3
  <2>7. QED
    BY <1>0, <1>2, <2>4, <2>5, <2>6 DEF AttemptPaid, Bit
<1>4. CASE j \notin B
  <2>1. claims'[j] = claims[j] /\ status'[j] = status[j]
    BY <1>1, <1>4
  <2>2. \A c \in Claims : Trying(c) => Trying(c)'
    BY <1>1 DEF Trying, AtWork
  <2>3. Closed(j) \/ Attempted(j) => Closed(j)' \/ Attempted(j)'
    BY <2>1, <2>2 DEF Closed, Attempted
  <2>4. QED
    BY <1>0, <1>2, <2>1, <2>3 DEF AttemptsPaid, AttemptPaid, Bit
<1>5. QED
  BY <1>3, <1>4

\* Every step but a claim moves a row's attempts in one of those ways.
LEMMA AttemptMoves ==
    ASSUME TypeOK, [Next]_vars, \A w \in Workers : ~ HandleQueue(w), NEW j \in Jobs
    PROVE  Moved(j)
<1>0. TypeOK
  OBVIOUS
<1>1. ASSUME UNCHANGED <<claims, retryCount>>,
             \A c \in Claims : Job(c) = j /\ Trying(c) => Trying(c)'
      PROVE  Moved(j)
  BY <1>1 DEF Moved
<1>2. ASSUME UNCHANGED <<claims, retryCount>>, faults' = faults + 1 PROVE Moved(j)
  BY <1>2 DEF Moved
<1>3. ASSUME NEW i \in Jobs, CreateOutbox(i) \/ BackoffElapses(i) \/ LockAges(i)
      PROVE  Moved(j)
  BY <1>1, <1>3 DEF CreateOutbox, BackoffElapses, LockAges, taskVars, Trying
<1>4. ASSUME NEW w \in Workers, FinishBatch(w) \/ Crash(w) PROVE Moved(j)
  <2>1. CASE FinishBatch(w)
    BY <1>1, <2>1 DEF FinishBatch, rowVars, taskVars, Trying
  <2>2. CASE Crash(w)
    BY <1>2, <2>2 DEF Crash, Fault, rowVars
  <2>3. QED
    BY <1>4, <2>1, <2>2
<1>5. ASSUME NEW c \in Claims, ProcessJob(c) PROVE Moved(j)
  <2>0. /\ Job(c) \in Jobs
        /\ claims' = claims
        /\ \A d \in Claims : d # c => task'[d] = task[d]
    BY <1>0, <1>5, ClaimParts
       DEF ProcessJob, StartSend, Timeout, SaveSent, GiveUp, Retry, FailureWriteLost,
           EnqueuePushFallback, TypeOK
  <2>1. ASSUME UNCHANGED retryCount, Job(c) # j PROVE Moved(j)
    BY <1>1, <2>0, <2>1 DEF Trying
  <2>2. CASE StartSend(c)
    <3>1. UNCHANGED retryCount
      BY <2>2 DEF StartSend, rowVars
    <3>2. CASE faults' = faults + 1
      BY <1>2, <2>0, <3>1, <3>2
    <3>3. CASE task' = [task EXCEPT ![c] = "sending"]
      BY <1>0, <1>1, <2>0, <3>1, <3>3 DEF Trying, AtWork, TypeOK
    <3>4. QED
      BY <2>2, <3>2, <3>3 DEF StartSend, Fault
  <2>3. CASE Timeout(c)
    BY <1>1, <2>0, <2>3 DEF Timeout, rowVars, Trying
  <2>4. CASE SaveSent(c)
    <3>1. CASE Fault("db") /\ UNCHANGED rowVars
      BY <1>2, <2>0, <3>1 DEF Fault, rowVars
    <3>2. CASE UpdateStatus(Job(c), "SENT")
      <4>1. UNCHANGED retryCount
        BY <3>2 DEF UpdateStatus
      <4>2. CASE Job(c) = j
        <5>1. Closed(j)'
          BY <1>0, <3>2, <4>2 DEF UpdateStatus, Closed, TypeOK
        <5>2. QED
          BY <2>0, <4>1, <5>1 DEF Moved
      <4>3. QED
        BY <2>1, <4>1, <4>2
    <3>3. QED
      BY <2>4, <3>1, <3>2 DEF SaveSent
  <2>5. CASE GiveUp(c)
    <3>1. UpdateStatus(Job(c), "FAILED") /\ UNCHANGED retryCount
      BY <2>5 DEF GiveUp, UpdateStatus
    <3>2. CASE Job(c) = j
      <4>1. Closed(j)'
        BY <1>0, <3>1, <3>2 DEF UpdateStatus, Closed, TypeOK
      <4>2. QED
        BY <2>0, <3>1, <4>1 DEF Moved
    <3>3. QED
      BY <2>1, <3>1, <3>2
  <2>6. CASE Retry(c)
    <3>1. \A i \in Jobs : retryCount'[i] = IF i = Job(c) THEN retryCount[i] + 1 ELSE retryCount[i]
      BY <1>0, <2>0, <2>6 DEF Retry, IncrementRetry, TypeOK
    <3>2. Job(c) # j => \A d \in Claims : Job(d) = j /\ Trying(d) => Trying(d)'
      BY <2>0 DEF Trying
    <3>3. QED
      BY <2>0, <3>1, <3>2 DEF Moved
  <2>7. CASE FailureWriteLost(c)
    BY <1>2, <2>0, <2>7 DEF FailureWriteLost, Fault, rowVars
  <2>8. CASE EnqueuePushFallback(c)
    BY <1>1, <2>0, <2>8 DEF EnqueuePushFallback, Trying, AtWork
  <2>9. QED
    BY <1>5, <2>2, <2>3, <2>4, <2>5, <2>6, <2>7, <2>8 DEF ProcessJob
<1>6. ASSUME NEW c \in Claims, ProviderAnswers(c) \/ SendWithFallback(c) PROVE Moved(j)
  <2>1. UNCHANGED <<claims, retryCount>>
    BY <1>6 DEF ProviderAnswers, SendWithFallback, AlimtalkAnswers, SmsAnswers, SensAnswers,
                RecordDelivery, rowVars
  <2>2. \A d \in Claims : task'[d] = task[d] \/ task'[d] \in {"saving", "failing", "failingForGood"}
    BY <1>0, <1>6 DEF ProviderAnswers, SendWithFallback, AlimtalkAnswers, SmsAnswers,
                SensAnswers, RecordDelivery, Settle, Verdict, TypeOK
  <2>3. QED
    BY <1>1, <2>1, <2>2 DEF Trying, AtWork
<1>7. ASSUME CleanZombies PROVE Moved(j)
  BY <1>1, <1>7 DEF CleanZombies, taskVars, Trying
<1>8. ASSUME UNCHANGED vars PROVE Moved(j)
  BY <1>1, <1>8 DEF vars, rowVars, taskVars, Trying
<1>9. QED
  BY <1>3, <1>4, <1>5, <1>6, <1>7, <1>8 DEF Next

\* With prompt workers every step keeps the account.
LEMMA AttemptStep ==
    ASSUME PromptWorkers, AttemptInv, [Next]_vars
    PROVE  AttemptInv'
<1>0. WorkInv /\ WorkInv' /\ ClaimInv' /\ TypeOK
  BY WorkStep DEF AttemptInv, WorkInv, ClaimInv
<1> SUFFICES ASSUME NEW j \in Jobs PROVE AttemptPaid(j)'
  BY <1>0 DEF AttemptInv, AttemptsPaid
<1>1. ASSUME NEW w \in Workers, HandleQueue(w) PROVE AttemptPaid(j)'
  BY <1>0, <1>1, ClaimedNextIsPaid
<1>2. CASE \A w \in Workers : ~ HandleQueue(w)
  <2>1. Moved(j)
    BY <1>0, <1>2, AttemptMoves
  <2>2. QED
    BY <1>0, <2>1, AttemptKept
<1>3. QED
  BY <1>1, <1>2

\* The first claim of every row is free.
LEMMA AttemptInit == Init => AttemptInv
<1>1. Init => AttemptsPaid
  BY DEF Init, AttemptsPaid, AttemptPaid, Bit
<1>2. QED
  BY <1>1, WorkInit DEF AttemptInv

\* With prompt workers every claim of a row beyond the first and its retry budget is paid
\* for by a fault: a timed-out, crashed or unwritten attempt goes back to the queue without
\* being counted (reapStuckNotifications), and nothing else does.
THEOREM AttemptsArePaidFor ==
    ASSUME PromptWorkers
    PROVE  Spec => []AttemptsNeedFaults
<1>1. AttemptInv /\ [Next]_vars => AttemptInv'
  BY AttemptStep
<1>2. AttemptInv => AttemptsNeedFaults
  <2> SUFFICES ASSUME AttemptInv, NEW j \in Jobs
               PROVE  claims[j] <= 1 + MaxRetries(j) + faults
    BY DEF AttemptsNeedFaults
  <2>1. /\ claims[j] \in Nat /\ retryCount[j] \in Nat /\ faults \in Nat
        /\ retryCount[j] <= MaxRetries(j) /\ MaxRetries(j) \in Nat
    BY MaxRetriesNat, BoundsAssumption DEF AttemptInv, WorkInv, ClaimInv, TypeOK, RetryBudget
  <2>2. AttemptPaid(j) /\ Bit(~ (Closed(j) \/ Attempted(j))) \in {0, 1}
    BY DEF AttemptInv, AttemptsPaid, Bit
  <2>3. QED
    BY <2>1, <2>2 DEF AttemptPaid
<1>3. QED
  BY <1>1, <1>2, AttemptInit, PTL DEF Spec
-----------------------------------------------------------------------------
(* How often a row is sent *)

Sens(j) == Channel[j] \in {"KAKAO", "SMS"}

\* A sender that has not settled is awaited, or its task has timed out; only KAKAO and SMS
\* rows have the senders that record a delivery.
SenderIsAwaited ==
    \A c \in Claims : sender[c] \notin {"none", "settled"} =>
        /\ task[c] \in {"sending", "hanging", "settled"}
        /\ sender[c] # "calling" => Sens(Job(c))

SendInv == ClaimInv /\ OverdueIsLocked /\ SenderIsAwaited

\* After every step, only a locked row has a lock that ages.
LEMMA OverdueKept ==
    ASSUME TypeOK, OverdueIsLocked, [Next]_vars
    PROVE  OverdueIsLocked'
<1>1. ASSUME NEW j \in Jobs, CreateOutbox(j) \/ BackoffElapses(j) \/ LockAges(j)
      PROVE  OverdueIsLocked'
  BY <1>1 DEF CreateOutbox, BackoffElapses, LockAges, OverdueIsLocked, TypeOK
<1>2. ASSUME NEW w \in Workers, HandleQueue(w) PROVE OverdueIsLocked'
  <2>1. PICK B \in Batches : HandleQueue(w)!2!(B)
    BY <1>2 DEF HandleQueue
  <2>2. overdue' = overdue
    BY <1>2 DEF HandleQueue
  <2>3. QED
    BY <2>1, <2>2 DEF OverdueIsLocked, TypeOK
<1>3. ASSUME NEW w \in Workers, FinishBatch(w) \/ Crash(w) PROVE OverdueIsLocked'
  BY <1>3 DEF FinishBatch, Crash, rowVars, OverdueIsLocked
<1>4. ASSUME NEW c \in Claims, ProcessJob(c) PROVE OverdueIsLocked'
  <2>1. Job(c) \in Jobs
    BY ClaimParts
  <2>2. ASSUME NEW s, UpdateStatus(Job(c), s) \/ IncrementRetry(Job(c)) PROVE OverdueIsLocked'
    BY <2>1, <2>2 DEF UpdateStatus, IncrementRetry, OverdueIsLocked, TypeOK
  <2>3. ASSUME NEW k \in Jobs, OpenFallback(Job(c), k), UNCHANGED overdue PROVE OverdueIsLocked'
    BY <2>3 DEF OpenFallback, OverdueIsLocked, TypeOK
  <2>4. ASSUME UNCHANGED <<status, overdue>> PROVE OverdueIsLocked'
    BY <2>4 DEF OverdueIsLocked
  <2>5. QED
    BY <1>4, <2>2, <2>3, <2>4
       DEF ProcessJob, StartSend, Timeout, SaveSent, GiveUp, Retry, FailureWriteLost,
           EnqueuePushFallback, rowVars
<1>5. ASSUME NEW c \in Claims, ProviderAnswers(c) \/ SendWithFallback(c) PROVE OverdueIsLocked'
  BY <1>5 DEF ProviderAnswers, SendWithFallback, AlimtalkAnswers, SmsAnswers, SensAnswers,
              RecordDelivery, rowVars, OverdueIsLocked
<1>6. ASSUME CleanZombies PROVE OverdueIsLocked'
  BY <1>6 DEF CleanZombies, Zombies, OverdueIsLocked, TypeOK
<1>7. ASSUME UNCHANGED vars PROVE OverdueIsLocked'
  BY <1>7 DEF vars, rowVars, OverdueIsLocked
<1>8. QED
  BY <1>1, <1>2, <1>3, <1>4, <1>5, <1>6, <1>7 DEF Next

\* Every step leaves a sender with the task that awaits it.
LEMMA SendStep ==
    ASSUME SendInv, [Next]_vars
    PROVE  SendInv'
<1>0. ClaimInv /\ ClaimInv' /\ TypeOK /\ OverdueIsLocked' /\ SenderIsAwaited
  BY ClaimStep, OverdueKept DEF SendInv, ClaimInv
<1>1. ASSUME UNCHANGED <<task, sender>> PROVE SenderIsAwaited'
  BY <1>0, <1>1 DEF SenderIsAwaited, Sens
<1>2. ASSUME NEW j \in Jobs, CreateOutbox(j) \/ BackoffElapses(j) \/ LockAges(j)
      PROVE  SenderIsAwaited'
  BY <1>1, <1>2 DEF CreateOutbox, BackoffElapses, LockAges, taskVars
<1>3. ASSUME NEW w \in Workers, HandleQueue(w) PROVE SenderIsAwaited'
  <2>1. PICK B \in Batches : HandleQueue(w)!2!(B)
    BY <1>3 DEF HandleQueue
  <2>2. sender' = sender
    BY <1>3 DEF HandleQueue
  <2>3. ASSUME NEW c \in Claims, sender[c] # "none" PROVE task'[c] = task[c]
    <3>1. ASSUME NEW j \in B PROVE c # NextClaim(j)
      <4>1. j \in Jobs /\ claims[j] \in 0 .. MaxClaims /\ claims[j] < MaxClaims
        BY <1>0 DEF Batches, Due, TypeOK
      <4>2. Job(NextClaim(j)) = j /\ Number(NextClaim(j)) = claims[j] + 1
        BY <4>1, NextClaimParts
      <4>3. Number(c) <= claims[Job(c)]
        BY <1>0, <2>3, RunningIsClaimed
      <4>4. QED
        BY <4>1, <4>2, <4>3, BoundsAssumption
    <3>2. QED
      BY <2>1, <3>1
  <2>4. QED
    BY <1>0, <2>2, <2>3 DEF SenderIsAwaited, Sens
<1>4. ASSUME NEW w \in Workers, FinishBatch(w) \/ Crash(w) PROVE SenderIsAwaited'
  BY <1>0, <1>4 DEF FinishBatch, Crash, taskVars, SenderIsAwaited, Sens
<1>5. ASSUME NEW c \in Claims, ProcessJob(c) PROVE SenderIsAwaited'
  <2>1. CASE StartSend(c)
    BY <1>0, <2>1 DEF StartSend, FirstCall, Sens, SenderIsAwaited, TypeOK
  <2>2. CASE Timeout(c)
    BY <1>0, <2>2 DEF Timeout, Sens, SenderIsAwaited, TypeOK
  <2>3. ASSUME sender' = sender, task[c] \notin {"sending", "hanging", "settled"},
               \A d \in Claims : d # c => task'[d] = task[d]
        PROVE  SenderIsAwaited'
    BY <1>0, <2>3 DEF SenderIsAwaited, Sens
  <2>4. QED
    BY <1>0, <1>5, <2>1, <2>2, <2>3
       DEF ProcessJob, SaveSent, GiveUp, Exhausted, Retry, FailureWriteLost,
           EnqueuePushFallback, TypeOK
<1>6. ASSUME NEW c \in Claims, ProviderAnswers(c) \/ RecordDelivery(c) PROVE SenderIsAwaited'
  <2>1. \E next \in TaskStates : Settle(c, next)
    BY <1>6 DEF ProviderAnswers, RecordDelivery, Verdict, TaskStates, AtWork
  <2>2. QED
    BY <1>0, <2>1 DEF Settle, SenderIsAwaited, Sens, TypeOK
<1>7. ASSUME NEW c \in Claims, AlimtalkAnswers(c) \/ SmsAnswers(c) PROVE SenderIsAwaited'
  BY <1>0, <1>7 DEF AlimtalkAnswers, SmsAnswers, SensAnswers, SenderIsAwaited, Sens, TypeOK
<1>8. ASSUME CleanZombies PROVE SenderIsAwaited'
  BY <1>1, <1>8 DEF CleanZombies, taskVars
<1>9. ASSUME UNCHANGED vars PROVE SenderIsAwaited'
  BY <1>1, <1>9 DEF vars, taskVars
<1>10. SenderIsAwaited'
  BY <1>2, <1>3, <1>4, <1>5, <1>6, <1>7, <1>8, <1>9 DEF Next, SendWithFallback
<1>11. QED
  BY <1>0, <1>10 DEF SendInv

\* A message that may still be accepted, or whose failure may still put the row back in the
\* queue: one token of the row's account each.
OnItsWay(c) == \/ sender[c] \in {"calling", "alimtalk", "sms"}
               \/ task[c] \in {"claimed", "failing", "failingForGood"}
               \/ task[c] = "sending" /\ sender[c] = "recordFailed"

ToCome(j) == {n \in 1 .. MaxClaims : OnItsWay(<<j, n>>)}

\* Attempts whose time-out is decided: the fault is counted, the row not yet put back.
Hanging(c) == task[c] = "hanging"
Hung(j) == {n \in 1 .. MaxClaims : Hanging(<<j, n>>)}

\* A row with a young lock and a task at work under it is not sent by anyone else.
Attending(c) == task[c] \in AtWork /\ HoldsClaim(c)
Attended(j) == j \notin overdue /\ \E c \in Claims : Job(c) = j /\ Attending(c)

Again(j) == Bit(~ (Closed(j) \/ Attended(j)))

\* The messages accepted, those that may come, the time-outs decided and the claim to come
\* are paid for by the first message and the faults.
CopyPaid(j) ==
    copies[j] + Cardinality(ToCome(j)) + Cardinality(Hung(j)) + Again(j) <= 1 + faults

\* The rows whose deliveries the schema lets the sender record, and those it does not record.
Recordable(j) == Sens(j) => j \in EventRows

CopiesPaid == \A j \in Jobs : Recordable(j) => CopyPaid(j)

CopyInv == SendInv /\ CopiesPaid

\* Sets of claim numbers are finite.
LEMMA NumbersFinite ==
    ASSUME NEW S \in SUBSET (1 .. MaxClaims)
    PROVE  IsFiniteSet(S) /\ Cardinality(S) \in Nat
<1>1. IsFiniteSet(1 .. MaxClaims)
  BY FS_Interval, BoundsAssumption
<1>2. QED
  BY <1>1, FS_Subset, FS_CardinalityType

\* Fewer claim numbers are no more.
LEMMA NumbersShrink ==
    ASSUME NEW S \in SUBSET (1 .. MaxClaims), NEW T \in SUBSET S
    PROVE  Cardinality(T) <= Cardinality(S)
BY NumbersFinite, FS_Subset

\* Two sets of claim numbers that agree but for one number.
LEMMA NumbersDiffer ==
    ASSUME NEW S \in SUBSET (1 .. MaxClaims), NEW T \in SUBSET (1 .. MaxClaims), NEW n,
           \A m \in 1 .. MaxClaims : m # n => (m \in T <=> m \in S)
    PROVE  Cardinality(T) + Bit(n \in S) = Cardinality(S) + Bit(n \in T)
<1>1. IsFiniteSet(S) /\ IsFiniteSet(T) /\ Cardinality(S) \in Nat /\ Cardinality(T) \in Nat
  BY NumbersFinite
<1>2. CASE n \in S <=> n \in T
  <2>1. \A m \in 1 .. MaxClaims : m \in S <=> m \in T
    BY <1>2
  <2>2. S \subseteq T /\ T \subseteq S
    BY <2>1
  <2>3. S = T
    BY <2>2
  <2>4. QED
    BY <1>1, <2>3
<1>3. CASE n \in S /\ n \notin T
  <2>1. T = S \ {n}
    BY <1>3
  <2>2. Cardinality(T) = Cardinality(S) - 1
    BY <1>1, <1>3, <2>1, FS_RemoveElement
  <2>3. QED
    BY <1>1, <1>3, <2>2 DEF Bit
<1>4. CASE n \notin S /\ n \in T
  <2>1. T = S \cup {n}
    BY <1>4
  <2>2. Cardinality(T) = Cardinality(S) + 1
    BY <1>1, <1>4, <2>1, FS_AddElement
  <2>3. QED
    BY <1>1, <1>4, <2>2 DEF Bit
<1>5. QED
  BY <1>2, <1>3, <1>4

\* The account of a row is made of natural numbers, before and after a step.
LEMMA AccountType ==
    ASSUME TypeOK, TypeOK', NEW j \in Jobs
    PROVE  /\ copies[j] \in Nat /\ copies'[j] \in Nat
           /\ faults \in Nat /\ faults' \in Nat
           /\ ToCome(j) \in SUBSET (1 .. MaxClaims) /\ ToCome(j)' \in SUBSET (1 .. MaxClaims)
           /\ Hung(j) \in SUBSET (1 .. MaxClaims) /\ Hung(j)' \in SUBSET (1 .. MaxClaims)
           /\ Cardinality(ToCome(j)) \in Nat /\ Cardinality(ToCome(j)') \in Nat
           /\ Cardinality(Hung(j)) \in Nat /\ Cardinality(Hung(j)') \in Nat
           /\ Again(j) \in {0, 1} /\ Again(j)' \in {0, 1}
<1>1. copies[j] \in Nat /\ copies'[j] \in Nat /\ faults \in Nat /\ faults' \in Nat
  BY BoundsAssumption DEF TypeOK
<1>2. /\ ToCome(j) \in SUBSET (1 .. MaxClaims) /\ ToCome(j)' \in SUBSET (1 .. MaxClaims)
      /\ Hung(j) \in SUBSET (1 .. MaxClaims) /\ Hung(j)' \in SUBSET (1 .. MaxClaims)
  BY DEF ToCome, Hung
<1>3. /\ Cardinality(ToCome(j)) \in Nat /\ Cardinality(ToCome(j)') \in Nat
      /\ Cardinality(Hung(j)) \in Nat /\ Cardinality(Hung(j)') \in Nat
  BY <1>2, NumbersFinite
<1>4. Again(j) \in {0, 1} /\ Again(j)' \in {0, 1}
  BY DEF Again, Bit
<1>5. QED
  BY <1>1, <1>2, <1>3, <1>4

\* A row stays attended as long as its lock is left alone and its tasks go on working.
LEMMA AttendedKept ==
    ASSUME NEW j \in Jobs, status'[j] = status[j], lockedAt'[j] = lockedAt[j],
           j \in overdue' => j \in overdue,
           \A c \in Claims : Job(c) = j /\ task[c] \in AtWork => task'[c] \in AtWork
    PROVE  Again(j)' <= Again(j)
<1>1. Closed(j) => Closed(j)'
  BY DEF Closed
<1>2. Attended(j) => Attended(j)'
  BY DEF Attended, Attending, HoldsClaim
<1>3. QED
  BY <1>1, <1>2 DEF Again, Bit

\* A step that takes tokens from a row, and adds none, keeps its account; so does a fault
\* that ends attempts.
LEMMA CopyKept ==
    ASSUME TypeOK, TypeOK', NEW j \in Jobs, CopyPaid(j), copies'[j] = copies[j],
           ToCome(j)' \subseteq ToCome(j), Hung(j)' \subseteq Hung(j),
           \/ faults' = faults /\ Again(j)' <= Again(j)
           \/ faults' = faults + 1
    PROVE  CopyPaid(j)'
<1>1. /\ Cardinality(ToCome(j)') <= Cardinality(ToCome(j))
      /\ Cardinality(Hung(j)') <= Cardinality(Hung(j))
  BY AccountType, NumbersShrink
<1>2. QED
  BY <1>1, AccountType DEF CopyPaid

\* The balance of a step of one claim, on the account of its row.
Balanced(c) ==
    copies'[Job(c)] + Bit(OnItsWay(c))' + Bit(Hanging(c))' + Again(Job(c))' + faults
        <= copies[Job(c)] + Bit(OnItsWay(c)) + Bit(Hanging(c)) + Again(Job(c)) + faults'

\* A balanced step of one claim keeps every account.
LEMMA CopyKeptByClaim ==
    ASSUME TypeOK, TypeOK', NEW c \in Claims, Balanced(c),
           NEW j \in Jobs, CopyPaid(j), faults' \in {faults, faults + 1},
           \A d \in Claims : d # c => task'[d] = task[d] /\ sender'[d] = sender[d],
           j # Job(c) => copies'[j] = copies[j] /\ Again(j)' <= Again(j)
    PROVE  CopyPaid(j)'
<1>1. Job(c) \in Jobs /\ Number(c) \in 1 .. MaxClaims /\ c = <<Job(c), Number(c)>>
  BY ClaimParts
<1>2. ASSUME NEW n \in 1 .. MaxClaims, <<j, n>> # c
      PROVE  (n \in ToCome(j)' <=> n \in ToCome(j)) /\ (n \in Hung(j)' <=> n \in Hung(j))
  <2>1. <<j, n>> \in Claims
    BY DEF Claims
  <2>2. task'[<<j, n>>] = task[<<j, n>>] /\ sender'[<<j, n>>] = sender[<<j, n>>]
    BY <1>2, <2>1
  <2>3. QED
    BY <2>2 DEF ToCome, Hung, OnItsWay, Hanging
<1>3. CASE j # Job(c)
  <2>1. \A n \in 1 .. MaxClaims : <<j, n>> # c
    BY <1>1, <1>3
  <2>2. ToCome(j)' \subseteq ToCome(j) /\ Hung(j)' \subseteq Hung(j)
    BY <1>2, <2>1 DEF ToCome, Hung
  <2>3. QED
    BY <1>3, <2>2, CopyKept
<1>4. CASE j = Job(c)
  <2>1. \A n \in 1 .. MaxClaims : n # Number(c) => <<j, n>> # c
    BY <1>1
  <2>2. /\ Bit(OnItsWay(c)) = Bit(Number(c) \in ToCome(j))
        /\ Bit(OnItsWay(c))' = Bit(Number(c) \in ToCome(j)')
        /\ Bit(Hanging(c)) = Bit(Number(c) \in Hung(j))
        /\ Bit(Hanging(c))' = Bit(Number(c) \in Hung(j)')
    BY <1>1, <1>4 DEF ToCome, Hung, Bit
  <2>3. /\ Cardinality(ToCome(j)') + Bit(Number(c) \in ToCome(j))
              = Cardinality(ToCome(j)) + Bit(Number(c) \in ToCome(j)')
        /\ Cardinality(Hung(j)') + Bit(Number(c) \in Hung(j))
              = Cardinality(Hung(j)) + Bit(Number(c) \in Hung(j)')
    BY <1>2, <2>1, AccountType, NumbersDiffer
  <2>4. /\ Bit(Number(c) \in ToCome(j)) \in {0, 1} /\ Bit(Number(c) \in ToCome(j)') \in {0, 1}
        /\ Bit(Number(c) \in Hung(j)) \in {0, 1} /\ Bit(Number(c) \in Hung(j)') \in {0, 1}
    BY DEF Bit
  <2>5. copies'[j] + Bit(Number(c) \in ToCome(j)') + Bit(Number(c) \in Hung(j)') + Again(j)' + faults
          <= copies[j] + Bit(Number(c) \in ToCome(j)) + Bit(Number(c) \in Hung(j)) + Again(j) + faults'
    BY <1>4, <2>2 DEF Balanced
  <2> HIDE DEF Balanced
  <2>6. QED
    BY <2>3, <2>4, <2>5, AccountType DEF CopyPaid
<1>5. QED
  BY <1>3, <1>4

\* A claim by handleQueue turns the claim to come into a message to come.
LEMMA CopyKeptByQueue ==
    ASSUME CopyInv, SendInv', [Next]_vars, NEW w \in Workers, HandleQueue(w),
           NEW j \in Jobs, CopyPaid(j)
    PROVE  CopyPaid(j)'
<1>0. TypeOK /\ TypeOK' /\ ClaimInv /\ OverdueIsLocked
  BY DEF CopyInv, SendInv, ClaimInv
<1>1. PICK B \in Batches : HandleQueue(w)!2!(B)
  BY DEF HandleQueue
<1>2. UNCHANGED <<overdue, sender, copies, faults>>
  BY DEF HandleQueue
<1>3. \A i \in B : /\ i \in Jobs /\ status[i] \in Claimable
                   /\ claims[i] \in 0 .. MaxClaims /\ claims[i] < MaxClaims
  BY <1>0 DEF Batches, Due, TypeOK
<1>4. CASE j \in B
  <2>0. PICK c \in Claims : c = NextClaim(j)
    BY <1>3, <1>4, NextClaimParts
  <2>1. c \in Claims /\ Job(c) = j /\ Number(c) = claims[j] + 1
    BY <1>3, <1>4, <2>0, NextClaimParts
  <2>2. task[c] = "none" /\ sender[c] = "none"
    BY <1>0, <1>3, <1>4, <2>1 DEF ClaimInv, FutureClaimsIdle
  <2>3. task'[c] = "claimed" /\ sender'[c] = "none"
    BY <1>1, <1>2, <1>4, <2>0, <2>2
  <2>4. Attended(j)'
    <3>1. j \notin overdue'
      BY <1>0, <1>2, <1>3, <1>4 DEF OverdueIsLocked, Claimable
    <3>2. Attending(c)'
      BY <1>1, <1>4, <2>1, <2>3 DEF Attending, HoldsClaim, AtWork
    <3>3. QED
      BY <2>1, <3>1, <3>2 DEF Attended
  <2>5. ~ Closed(j) /\ ~ Attended(j)
    BY <1>3, <1>4 DEF Closed, Attended, Attending, HoldsClaim, Claimable
  <2>6. Again(j) = 1 /\ Again(j)' = 0
    BY <2>4, <2>5 DEF Again, Bit
  <2>7. /\ Bit(claims[j] + 1 \in ToCome(j)) = 0 /\ Bit(claims[j] + 1 \in ToCome(j)') \in {0, 1}
        /\ Bit(claims[j] + 1 \in Hung(j)) = 0 /\ Bit(claims[j] + 1 \in Hung(j)') = 0
    <3>1. c = <<j, claims[j] + 1>>
      BY <2>0 DEF NextClaim
    <3>2. ~ OnItsWay(c) /\ ~ Hanging(c) /\ ~ Hanging(c)'
      BY <2>2, <2>3 DEF OnItsWay, Hanging
    <3>3. /\ claims[j] + 1 \notin ToCome(j)
          /\ claims[j] + 1 \notin Hung(j) /\ claims[j] + 1 \notin Hung(j)'
      BY <3>1, <3>2 DEF ToCome, Hung
    <3>4. QED
      BY <3>3 DEF Bit
  <2>8. ASSUME NEW n \in 1 .. MaxClaims, n # claims[j] + 1
        PROVE  (n \in ToCome(j)' <=> n \in ToCome(j)) /\ (n \in Hung(j)' <=> n \in Hung(j))
    <3>1. <<j, n>> \in Claims /\ \A i \in B : <<j, n>> # NextClaim(i)
      BY <2>8 DEF Claims, NextClaim
    <3>2. task'[<<j, n>>] = task[<<j, n>>] /\ sender'[<<j, n>>] = sender[<<j, n>>]
      BY <1>1, <1>2, <3>1
    <3>3. QED
      BY <3>2 DEF ToCome, Hung, OnItsWay, Hanging
  <2>9. /\ Cardinality(ToCome(j)') + Bit(claims[j] + 1 \in ToCome(j))
              = Cardinality(ToCome(j)) + Bit(claims[j] + 1 \in ToCome(j)')
        /\ Cardinality(Hung(j)') + Bit(claims[j] + 1 \in Hung(j))
              = Cardinality(Hung(j)) + Bit(claims[j] + 1 \in Hung(j)')
    BY <1>0, <2>8, AccountType, NumbersDiffer
  <2>10. Cardinality(ToCome(j)') <= Cardinality(ToCome(j)) + 1
         /\ Cardinality(Hung(j)') = Cardinality(Hung(j))
    BY <1>0, <2>7, <2>9, AccountType
  <2>11. copies'[j] = copies[j] /\ faults' = faults
    BY <1>2
  <2>12. QED
    BY <1>0, <2>6, <2>10, <2>11, AccountType DEF CopyPaid
<1>5. CASE j \notin B
  <2>1. ASSUME NEW n \in 1 .. MaxClaims
        PROVE  task'[<<j, n>>] = task[<<j, n>>] /\ sender'[<<j, n>>] = sender[<<j, n>>]
    <3>1. <<j, n>> \in Claims /\ \A i \in B : <<j, n>> # NextClaim(i)
      BY <1>5 DEF Claims, NextClaim
    <3>2. QED
      BY <1>1, <1>2, <3>1
  <2>2. ToCome(j)' \subseteq ToCome(j) /\ Hung(j)' \subseteq Hung(j)
    BY <2>1 DEF ToCome, Hung, OnItsWay, Hanging
  <2>3. status'[j] = status[j] /\ lockedAt'[j] = lockedAt[j]
    BY <1>1, <1>5
  <2>4. \A c \in Claims : task[c] \in AtWork => task'[c] \in AtWork
    BY <1>1 DEF AtWork
  <2>5. Again(j)' <= Again(j)
    BY <1>2, <2>3, <2>4, AttendedKept
  <2>6. QED
    BY <1>0, <1>2, <2>2, <2>5, CopyKept
<1>6. QED
  BY <1>4, <1>5

\* Other rows than the one a step writes are attended as before.
LEMMA OthersAttended ==
    ASSUME TypeOK, NEW c \in Claims, NEW j \in Jobs, j # Job(c),
           \A d \in Claims : d # c => task'[d] = task[d],
           \/ UNCHANGED rowVars
           \/ \E s \in {"SENT", "FAILED"} : UpdateStatus(Job(c), s)
           \/ IncrementRetry(Job(c))
    PROVE  Again(j)' <= Again(j)
<1>1. Job(c) \in Jobs
  BY ClaimParts
<1>2. /\ status'[j] = status[j] /\ lockedAt'[j] = lockedAt[j]
      /\ j \in overdue' => j \in overdue
  BY <1>1 DEF TypeOK, rowVars, UpdateStatus, IncrementRetry
<1>3. \A d \in Claims : Job(d) = j /\ task[d] \in AtWork => task'[d] \in AtWork
  OBVIOUS
<1>4. QED
  BY <1>2, <1>3, AttendedKept

\* The row of a task that goes on working is attended as before.
LEMMA OwnAttended ==
    ASSUME NEW c \in Claims, UNCHANGED rowVars,
           \A d \in Claims : d # c => task'[d] = task[d],
           task[c] \in AtWork => task'[c] \in AtWork
    PROVE  Again(Job(c))' <= Again(Job(c))
<1>1. \A d \in Claims : Job(d) = Job(c) /\ task[d] \in AtWork => task'[d] \in AtWork
  OBVIOUS
<1>2. Job(c) \in Jobs
  BY ClaimParts
<1>3. QED
  BY <1>1, <1>2, AttendedKept DEF rowVars

\* A row that is closed is not claimed again.
LEMMA ClosedNotAgain ==
    ASSUME NEW s \in {"SENT", "FAILED"}, NEW j \in Jobs, TypeOK, UpdateStatus(j, s)
    PROVE  Again(j)' = 0
<1>1. status'[j] = s
  BY DEF UpdateStatus, TypeOK
<1>2. QED
  BY <1>1 DEF Again, Closed, Bit

\* A fault that ends tasks and senders, and touches no row, keeps every account.
LEMMA CopyKeptByCrash ==
    ASSUME TypeOK, TypeOK', NEW w \in Workers, Crash(w), NEW j \in Jobs, CopyPaid(j)
    PROVE  CopyPaid(j)'
<1>1. copies' = copies /\ faults' = faults + 1
  BY DEF Crash, Fault
<1>2. ASSUME NEW n \in 1 .. MaxClaims
      PROVE  /\ OnItsWay(<<j, n>>)' => OnItsWay(<<j, n>>)
             /\ Hanging(<<j, n>>)' => Hanging(<<j, n>>)
  <2>1. <<j, n>> \in Claims
    BY DEF Claims
  <2>2. \/ task'[<<j, n>>] = "settled" /\ sender'[<<j, n>>] = "settled"
        \/ task'[<<j, n>>] = task[<<j, n>>] /\ sender'[<<j, n>>] = sender[<<j, n>>]
    BY <2>1 DEF Crash
  <2>3. QED
    BY <2>2 DEF OnItsWay, Hanging
<1>3. ToCome(j)' \subseteq ToCome(j) /\ Hung(j)' \subseteq Hung(j)
  BY <1>2 DEF ToCome, Hung
<1>4. QED
  BY <1>1, <1>3, CopyKept

\* A step that leaves tasks, senders and messages alone.
LEMMA CopyKeptByRows ==
    ASSUME TypeOK, TypeOK', UNCHANGED <<task, sender, copies>>, NEW j \in Jobs, CopyPaid(j),
           \/ faults' = faults /\ Again(j)' <= Again(j)
           \/ faults' = faults + 1
    PROVE  CopyPaid(j)'
<1>1. ToCome(j)' = ToCome(j) /\ Hung(j)' = Hung(j)
  BY DEF ToCome, Hung, OnItsWay, Hanging
<1>2. QED
  BY <1>1, CopyKept

\* The clocks, the reaper and new rows make no row be sent again that was not to be, unless
\* by the fault "stall".
LEMMA CopyKeptByClock ==
    ASSUME TypeOK, TypeOK', OverdueIsLocked, NEW j \in Jobs, CopyPaid(j),
           \/ \E i \in Jobs : CreateOutbox(i) \/ BackoffElapses(i) \/ LockAges(i)
           \/ CleanZombies
    PROVE  CopyPaid(j)'
<1>1. ASSUME NEW i \in Jobs, CreateOutbox(i) PROVE CopyPaid(j)'
  <2>1. status[i] = "ABSENT" /\ status' = [status EXCEPT ![i] = "PENDING"]
        /\ UNCHANGED <<lockedAt, overdue, task, sender, copies, faults>>
    BY <1>1 DEF CreateOutbox, taskVars
  <2>2. Again(j)' <= Again(j)
    <3>1. Closed(j) => Closed(j)'
      BY <2>1 DEF Closed, TypeOK
    <3>2. Attended(j) => Attended(j)'
      BY <2>1 DEF Attended, Attending, HoldsClaim, TypeOK
    <3>3. QED
      BY <3>1, <3>2 DEF Again, Bit
  <2>3. QED
    BY <2>1, <2>2, CopyKeptByRows
<1>2. ASSUME NEW i \in Jobs, BackoffElapses(i) PROVE CopyPaid(j)'
  <2>1. UNCHANGED <<status, lockedAt, overdue, task, sender, copies, faults>>
    BY <1>2 DEF BackoffElapses, taskVars
  <2>2. QED
    BY <2>1, AttendedKept, CopyKeptByRows
<1>3. ASSUME NEW i \in Jobs, LockAges(i) PROVE CopyPaid(j)'
  <2>1. UNCHANGED <<status, lockedAt, task, sender, copies>> /\ overdue' = overdue \cup {i}
    BY <1>3 DEF LockAges, taskVars
  <2>2. CASE faults' = faults + 1
    BY <2>1, <2>2, CopyKeptByRows
  <2>3. CASE faults' = faults /\ i # j
    BY <2>1, <2>3, AttendedKept, CopyKeptByRows
  <2>4. CASE faults' = faults /\ i = j /\ ~ \E c \in Claims : Job(c) = i /\ task[c] \in AtWork
    <3>1. ~ Attended(j)
      BY <2>4 DEF Attended, Attending
    <3>2. Closed(j) => Closed(j)'
      BY <2>1 DEF Closed
    <3>3. Again(j)' <= Again(j)
      BY <3>1, <3>2 DEF Again, Bit
    <3>4. QED
      BY <2>1, <2>4, <3>3, CopyKeptByRows
  <2>5. QED
    BY <1>3, <2>2, <2>3, <2>4 DEF LockAges, Fault, NoFault
<1>4. ASSUME CleanZombies PROVE CopyPaid(j)'
  <2>1. UNCHANGED <<task, sender, copies, faults>>
    BY <1>4 DEF CleanZombies, taskVars
  <2>2. CASE j \in Zombies
    <3>1. ~ Closed(j) /\ ~ Attended(j)
      BY <2>2 DEF Zombies, Closed, Attended
    <3>2. Again(j)' <= Again(j)
      BY <3>1 DEF Again, Bit
    <3>3. QED
      BY <2>1, <3>2, CopyKeptByRows
  <2>3. CASE j \notin Zombies
    <3>1. status'[j] = status[j] /\ lockedAt'[j] = lockedAt[j] /\ overdue' \subseteq overdue
      BY <1>4, <2>3 DEF CleanZombies
    <3>2. QED
      BY <2>1, <3>1, AttendedKept, CopyKeptByRows
  <2>4. QED
    BY <2>2, <2>3
<1>5. QED
  BY <1>1, <1>2, <1>3, <1>4

\* The balance of each step of processJob.
LEMMA ProcessJobBalances ==
    ASSUME CopyInv, TypeOK', [Next]_vars, NEW c \in Claims, ProcessJob(c)
    PROVE  /\ Balanced(c)
           /\ copies' = copies
           /\ \A d \in Claims : d # c => task'[d] = task[d] /\ sender'[d] = sender[d]
           /\ \A j \in Jobs : j # Job(c) => Again(j)' <= Again(j)
<1>0. /\ TypeOK /\ Job(c) \in Jobs /\ SenderIsAwaited
      /\ faults \in Nat /\ faults' \in {faults, faults + 1}
  BY FaultsGrow, ClaimParts DEF CopyInv, SendInv, ClaimInv
<1>1. copies' = copies
  BY DEF ProcessJob, StartSend, Timeout, SaveSent, GiveUp, Retry, FailureWriteLost,
         EnqueuePushFallback
<1>2. \A d \in Claims : d # c => task'[d] = task[d] /\ sender'[d] = sender[d]
  BY <1>0 DEF ProcessJob, StartSend, Timeout, SaveSent, GiveUp, Retry, FailureWriteLost,
         EnqueuePushFallback, TypeOK
<1>3. Again(Job(c)) \in {0, 1} /\ Again(Job(c))' \in {0, 1}
      /\ copies[Job(c)] \in Nat /\ copies'[Job(c)] = copies[Job(c)]
  BY <1>0, <1>1, AccountType
<1> DEFINE Others == \A j \in Jobs : j # Job(c) => Again(j)' <= Again(j)
<1>4. CASE StartSend(c)
  <2>1. UNCHANGED rowVars /\ task[c] = "claimed" /\ task'[c] \in AtWork
    BY <1>0, <1>4 DEF StartSend, AtWork, TypeOK
  <2>2. Again(Job(c))' <= Again(Job(c)) /\ Others
    BY <1>0, <1>2, <2>1, OwnAttended, OthersAttended
  <2>3. OnItsWay(c)
    BY <2>1 DEF OnItsWay
  <2>4. \/ faults' = faults /\ ~ Hanging(c)'
        \/ faults' = faults + 1
    BY <1>0, <1>4 DEF StartSend, NoFault, Fault, Hanging, TypeOK
  <2>5. Bit(OnItsWay(c)) = 1 /\ Bit(OnItsWay(c))' \in {0, 1}
        /\ Bit(Hanging(c)) \in {0, 1} /\ Bit(Hanging(c))' \in {0, 1}
        /\ (~ Hanging(c)' => Bit(Hanging(c))' = 0)
    BY <2>3 DEF Bit
  <2>6. Balanced(c)
    BY <1>0, <1>3, <2>2, <2>4, <2>5 DEF Balanced
  <2>7. QED
    BY <1>1, <1>2, <2>2, <2>6
<1>5. CASE Timeout(c)
  <2>1. /\ UNCHANGED <<rowVars, sender, faults>> /\ task[c] = "hanging" /\ task'[c] = "settled"
    BY <1>0, <1>5 DEF Timeout, TypeOK
  <2>2. Others
    BY <1>0, <1>2, <2>1, OthersAttended
  <2>3. Hanging(c) /\ ~ Hanging(c)' /\ (OnItsWay(c)' => OnItsWay(c))
    BY <2>1 DEF OnItsWay, Hanging
  <2>4. Bit(Hanging(c)) = 1 /\ Bit(Hanging(c))' = 0 /\ Bit(OnItsWay(c))' <= Bit(OnItsWay(c))
        /\ Bit(OnItsWay(c)) \in {0, 1} /\ Bit(OnItsWay(c))' \in {0, 1}
    BY <2>3 DEF Bit
  <2>5. Balanced(c)
    BY <1>0, <1>3, <2>1, <2>4 DEF Balanced
  <2>6. QED
    BY <1>1, <1>2, <2>2, <2>5
<1>6. CASE SaveSent(c)
  <2>1. /\ task[c] = "saving" /\ sender' = sender
        /\ sender[c] \in {"none", "settled"}
    BY <1>0, <1>6 DEF SaveSent, SenderIsAwaited
  <2>2. /\ ~ OnItsWay(c) /\ ~ Hanging(c)
        /\ (task'[c] = "settled" => ~ OnItsWay(c)') /\ ~ Hanging(c)'
        /\ task'[c] \in {"settled", "failing"}
    BY <1>0, <1>6, <2>1 DEF SaveSent, OnItsWay, Hanging, TypeOK
  <2>3. /\ Bit(OnItsWay(c)) = 0 /\ Bit(Hanging(c)) = 0 /\ Bit(Hanging(c))' = 0
        /\ Bit(OnItsWay(c))' \in {0, 1} /\ (task'[c] = "settled" => Bit(OnItsWay(c))' = 0)
    BY <2>2 DEF Bit
  <2>4. CASE UpdateStatus(Job(c), "SENT")
    <3>1. Again(Job(c))' = 0 /\ Others
      BY <1>0, <1>2, <2>4, ClosedNotAgain, OthersAttended
    <3>2. task'[c] = "settled" \/ faults' = faults + 1
      BY <1>0, <1>6 DEF SaveSent, Fault, TypeOK
    <3>3. Balanced(c)
      BY <1>0, <1>3, <2>3, <3>1, <3>2 DEF Balanced
    <3>4. QED
      BY <1>1, <1>2, <3>1, <3>3
  <2>5. CASE UNCHANGED rowVars /\ Fault("db") /\ task' = [task EXCEPT ![c] = "failing"]
    <3>1. task'[c] \in AtWork /\ faults' = faults + 1
      BY <1>0, <2>5 DEF AtWork, Fault, TypeOK
    <3>2. Again(Job(c))' <= Again(Job(c)) /\ Others
      BY <1>0, <1>2, <2>5, <3>1, OwnAttended, OthersAttended
    <3>3. Balanced(c)
      BY <1>0, <1>3, <2>3, <3>1, <3>2 DEF Balanced
    <3>4. QED
      BY <1>1, <1>2, <3>2, <3>3
  <2>6. QED
    BY <1>6, <2>4, <2>5 DEF SaveSent
<1>7. CASE GiveUp(c) \/ Retry(c) \/ FailureWriteLost(c)
  <2>1. /\ task[c] \in {"failing", "failingForGood"} /\ sender' = sender
        /\ sender[c] \in {"none", "settled"}
        /\ task'[c] \in {"settled", "falling"}
    BY <1>0, <1>7 DEF GiveUp, Exhausted, AfterGiveUp, Retry, FailureWriteLost,
                      SenderIsAwaited, TypeOK
  <2>2. OnItsWay(c) /\ ~ OnItsWay(c)' /\ ~ Hanging(c) /\ ~ Hanging(c)'
    BY <2>1 DEF OnItsWay, Hanging
  <2>3. /\ Bit(OnItsWay(c)) = 1 /\ Bit(OnItsWay(c))' = 0
        /\ Bit(Hanging(c)) = 0 /\ Bit(Hanging(c))' = 0
    BY <2>2 DEF Bit
  <2>4. Balanced(c)
    BY <1>0, <1>3, <2>3 DEF Balanced
  <2>5. \/ UNCHANGED rowVars \/ UpdateStatus(Job(c), "FAILED") \/ IncrementRetry(Job(c))
    BY <1>7 DEF GiveUp, Retry, FailureWriteLost
  <2>6. Others
    BY <1>0, <1>2, <2>5, OthersAttended
  <2>7. QED
    BY <1>1, <1>2, <2>4, <2>6
<1>8. CASE EnqueuePushFallback(c)
  <2>1. /\ task[c] = "falling" /\ task'[c] = "settled"
        /\ UNCHANGED <<lockedAt, overdue, sender>>
    BY <1>0, <1>8 DEF EnqueuePushFallback, TypeOK
  <2>2. \A i \in Jobs : status'[i] = status[i] \/ (status[i] = "ABSENT" /\ status'[i] = "PENDING")
    <3>1. ASSUME NEW k \in Jobs, OpenFallback(Job(c), k), NEW i \in Jobs
          PROVE  status'[i] = status[i] \/ (status[i] = "ABSENT" /\ status'[i] = "PENDING")
      BY <1>0, <3>1 DEF OpenFallback, TypeOK
    <3>2. UNCHANGED status \/ \E k \in Jobs : OpenFallback(Job(c), k)
      BY <1>8 DEF EnqueuePushFallback
    <3>3. QED
      BY <3>1, <3>2
  <2>3. ASSUME NEW j \in Jobs PROVE Again(j)' <= Again(j)
    <3>1. CASE status'[j] = status[j]
      <4>1. \A d \in Claims : task[d] \in AtWork => task'[d] \in AtWork
        BY <1>2, <2>1 DEF AtWork
      <4>2. QED
        BY <2>1, <3>1, <4>1, AttendedKept
    <3>2. CASE status[j] = "ABSENT"
      <4>1. ~ Closed(j) /\ ~ Attended(j)
        BY <3>2 DEF Closed, Attended, Attending, HoldsClaim
      <4>2. QED
        BY <4>1 DEF Again, Bit
    <3>3. QED
      BY <2>2, <3>1, <3>2
  <2>4. sender[c] \in {"none", "settled"}
    BY <1>0, <2>1 DEF SenderIsAwaited
  <2>5. ~ OnItsWay(c)' /\ ~ Hanging(c)'
    BY <2>1, <2>4 DEF OnItsWay, Hanging
  <2>6. /\ Bit(OnItsWay(c)) \in {0, 1} /\ Bit(OnItsWay(c))' = 0
        /\ Bit(Hanging(c)) \in {0, 1} /\ Bit(Hanging(c))' = 0
    BY <2>5 DEF Bit
  <2>7. Balanced(c)
    BY <1>0, <1>3, <2>3, <2>6 DEF Balanced
  <2>8. QED
    BY <1>1, <1>2, <2>3, <2>7
<1>9. QED
  BY <1>4, <1>5, <1>6, <1>7, <1>8 DEF ProcessJob

\* The balance of each step of a sender, on a row whose delivery is recordable.
LEMMA SenderBalances ==
    ASSUME CopyInv, TypeOK', [Next]_vars, NEW c \in Claims, Recordable(Job(c)),
           ProviderAnswers(c) \/ SendWithFallback(c)
    PROVE  Balanced(c)
<1>0. /\ TypeOK /\ Job(c) \in Jobs /\ SenderIsAwaited
      /\ faults \in Nat /\ faults' \in {faults, faults + 1}
  BY FaultsGrow, ClaimParts DEF CopyInv, SendInv, ClaimInv
<1>1. Again(Job(c)) \in {0, 1} /\ Again(Job(c))' \in {0, 1}
      /\ copies[Job(c)] \in Nat
  BY <1>0, AccountType
<1>2. \A d \in Claims : d # c => task'[d] = task[d]
  BY <1>0 DEF ProviderAnswers, SendWithFallback, AlimtalkAnswers, SmsAnswers, SensAnswers,
         RecordDelivery, Settle, TypeOK
<1>3. UNCHANGED rowVars /\ (task'[c] = task[c] \/ task'[c] \in AtWork)
  BY <1>0 DEF ProviderAnswers, SendWithFallback, AlimtalkAnswers, SmsAnswers, SensAnswers,
         RecordDelivery, Settle, Verdict, AtWork, TypeOK
<1>4. Again(Job(c))' <= Again(Job(c))
  BY <1>2, <1>3, OwnAttended
<1>5. /\ Bit(OnItsWay(c)) \in {0, 1} /\ Bit(OnItsWay(c))' \in {0, 1}
      /\ Bit(Hanging(c)) \in {0, 1} /\ Bit(Hanging(c))' \in {0, 1}
      /\ (OnItsWay(c) => Bit(OnItsWay(c)) = 1)
      /\ (~ OnItsWay(c)' => Bit(OnItsWay(c))' = 0)
      /\ ((Hanging(c) <=> Hanging(c)') => Bit(Hanging(c))' = Bit(Hanging(c)))
  BY DEF Bit
<1>6. Hanging(c) <=> Hanging(c)'
  BY <1>0 DEF ProviderAnswers, SendWithFallback, AlimtalkAnswers, SmsAnswers, SensAnswers,
         RecordDelivery, Settle, Verdict, MaySettle, Hanging, TypeOK
<1>7. \/ copies'[Job(c)] = copies[Job(c)] /\ faults' = faults
      \/ copies'[Job(c)] = copies[Job(c)] + 1 /\ faults' = faults
      \/ copies'[Job(c)] = copies[Job(c)] + 1 /\ faults' = faults + 1
      \/ copies'[Job(c)] = copies[Job(c)] /\ faults' = faults + 1
  BY <1>0, <1>1 DEF ProviderAnswers, SendWithFallback, AlimtalkAnswers, SmsAnswers, SensAnswers,
         RecordDelivery, AcceptCopy, NoFault, Fault, TypeOK
\* An accepted message, a refused one or a lost answer spends or keeps the token.
<1>8. CASE ProviderAnswers(c) \/ AlimtalkAnswers(c) \/ SmsAnswers(c)
  <2>1. OnItsWay(c)
    BY <1>8 DEF ProviderAnswers, AlimtalkAnswers, SmsAnswers, OnItsWay
  <2>2. copies'[Job(c)] = copies[Job(c)] + 1 /\ faults' = faults => ~ OnItsWay(c)'
    <3>1. CASE ProviderAnswers(c)
      <4>1. ASSUME Settle(c, "saving") PROVE ~ OnItsWay(c)'
        <5>1. sender'[c] = "settled" /\ task'[c] \in {"saving", "hanging", "settled"}
          BY <1>0, <3>1, <4>1 DEF ProviderAnswers, Settle, SenderIsAwaited, TypeOK
        <5>2. QED
          BY <5>1 DEF OnItsWay
      <4>2. UNCHANGED copies => copies'[Job(c)] # copies[Job(c)] + 1
        BY <1>1
      <4>3. Fault("vendor") => faults' # faults
        BY <1>0 DEF Fault
      <4>4. QED
        BY <3>1, <4>1, <4>2, <4>3 DEF ProviderAnswers
    <3>2. CASE AlimtalkAnswers(c) \/ SmsAnswers(c)
      <4>1. ASSUME sender' = [sender EXCEPT ![c] = "recordSent"] PROVE ~ OnItsWay(c)'
        <5>1. sender'[c] = "recordSent" /\ task'[c] \in {"sending", "hanging", "settled"}
          BY <1>0, <3>2, <4>1 DEF AlimtalkAnswers, SmsAnswers, SensAnswers, SenderIsAwaited, TypeOK
        <5>2. QED
          BY <5>1 DEF OnItsWay
      <4>2. UNCHANGED copies => copies'[Job(c)] # copies[Job(c)] + 1
        BY <1>1
      <4>3. Fault("vendor") => faults' # faults
        BY <1>0 DEF Fault
      <4>4. QED
        BY <3>2, <4>1, <4>2, <4>3 DEF AlimtalkAnswers, SmsAnswers, SensAnswers
    <3>3. QED
      BY <1>8, <3>1, <3>2
  <2>3. Bit(OnItsWay(c)) = 1 /\ Bit(Hanging(c))' = Bit(Hanging(c))
    BY <1>5, <1>6, <2>1
  <2>4. CASE copies'[Job(c)] = copies[Job(c)] + 1 /\ faults' = faults
    <3>1. Bit(OnItsWay(c))' = 0
      BY <1>5, <2>2, <2>4
    <3>2. QED
      BY <1>0, <1>1, <1>4, <1>5, <2>3, <2>4, <3>1 DEF Balanced
  <2>5. CASE \/ copies'[Job(c)] = copies[Job(c)] /\ faults' \in {faults, faults + 1}
             \/ copies'[Job(c)] = copies[Job(c)] + 1 /\ faults' = faults + 1
    BY <1>0, <1>1, <1>4, <1>5, <2>3, <2>5 DEF Balanced
  <2>6. QED
    BY <1>7, <2>4, <2>5
\* A delivery that cannot be recorded fails an accepted message, and only a fault does that.
<1>9. CASE RecordDelivery(c)
  <2>1. copies'[Job(c)] = copies[Job(c)] /\ Job(c) \in EventRows
    BY <1>0, <1>9 DEF RecordDelivery, SenderIsAwaited, Recordable
  <2>2. /\ sender[c] \in {"recordSent", "recordFailed"}
        /\ task[c] \in {"sending", "hanging", "settled"}
    BY <1>0, <1>9 DEF RecordDelivery, SenderIsAwaited
  <2>3. CASE faults' = faults
    <3>1. Settle(c, Verdict(c))
      BY <1>0, <1>9, <2>1, <2>3 DEF RecordDelivery, Fault
    <3>2. OnItsWay(c)' => OnItsWay(c)
      BY <1>0, <2>2, <3>1 DEF Settle, Verdict, OnItsWay, TypeOK
    <3>3. QED
      BY <1>0, <1>1, <1>4, <1>5, <1>6, <2>1, <2>3, <3>2 DEF Balanced
  <2>4. CASE faults' = faults + 1
    BY <1>0, <1>1, <1>4, <1>5, <1>6, <2>1, <2>4 DEF Balanced
  <2>5. QED
    BY <1>0, <2>3, <2>4
<1>10. QED
  BY <1>8, <1>9 DEF SendWithFallback

\* Every step keeps the account of every recordable row, whatever faults happen.
LEMMA CopyStep ==
    ASSUME CopyInv, [Next]_vars
    PROVE  CopyInv'
<1>0. SendInv /\ SendInv' /\ TypeOK /\ TypeOK' /\ OverdueIsLocked
      /\ faults' \in {faults, faults + 1}
  BY SendStep, FaultsGrow DEF CopyInv, SendInv, ClaimInv
<1>1. \A j \in Jobs : Recordable(j)' <=> Recordable(j)
  BY DEF Recordable, Sens
<1> SUFFICES ASSUME NEW j \in Jobs, Recordable(j) PROVE CopyPaid(j)'
  BY <1>0, <1>1 DEF CopyInv, CopiesPaid
<1>2. CopyPaid(j)
  BY DEF CopyInv, CopiesPaid
<1>3. ASSUME \/ \E i \in Jobs : CreateOutbox(i) \/ BackoffElapses(i) \/ LockAges(i)
             \/ CleanZombies
      PROVE  CopyPaid(j)'
  BY <1>0, <1>2, <1>3, CopyKeptByClock
<1>4. ASSUME NEW w \in Workers, HandleQueue(w) PROVE CopyPaid(j)'
  BY <1>0, <1>2, <1>4, CopyKeptByQueue
<1>5. ASSUME NEW w \in Workers, FinishBatch(w) PROVE CopyPaid(j)'
  <2>1. UNCHANGED <<rowVars, task, sender, copies, faults>>
    BY <1>5 DEF FinishBatch, taskVars
  <2>2. QED
    BY <1>0, <1>2, <2>1, AttendedKept, CopyKeptByRows DEF rowVars
<1>6. ASSUME NEW w \in Workers, Crash(w) PROVE CopyPaid(j)'
  BY <1>0, <1>2, <1>6, CopyKeptByCrash
<1>7. ASSUME NEW c \in Claims, ProcessJob(c) PROVE CopyPaid(j)'
  <2>1. /\ Balanced(c) /\ copies' = copies
        /\ \A d \in Claims : d # c => task'[d] = task[d] /\ sender'[d] = sender[d]
        /\ j # Job(c) => Again(j)' <= Again(j)
    BY <1>0, <1>7, ProcessJobBalances
  <2>2. QED
    BY <1>0, <1>2, <2>1, CopyKeptByClaim
<1>8. ASSUME NEW c \in Claims, ProviderAnswers(c) \/ SendWithFallback(c) PROVE CopyPaid(j)'
  <2>1. /\ \A d \in Claims : d # c => task'[d] = task[d] /\ sender'[d] = sender[d]
        /\ UNCHANGED rowVars
    BY <1>0, <1>8 DEF ProviderAnswers, SendWithFallback, AlimtalkAnswers, SmsAnswers,
                SensAnswers, RecordDelivery, Settle, TypeOK
  <2>2. j # Job(c) => Again(j)' <= Again(j)
    BY <1>0, <2>1, OthersAttended
  <2>3. CASE j = Job(c)
    <3>1. Balanced(c)
      BY <1>0, <1>8, <2>3, SenderBalances
    <3>2. QED
      BY <1>0, <1>2, <2>1, <2>3, <3>1, CopyKeptByClaim
  <2>4. CASE j # Job(c)
    <3>1. copies'[j] = copies[j]
      BY <1>0, <1>8, <2>4 DEF ProviderAnswers, SendWithFallback, AlimtalkAnswers, SmsAnswers,
                SensAnswers, RecordDelivery, AcceptCopy, TypeOK
    <3>2. ASSUME NEW n \in 1 .. MaxClaims
          PROVE  task'[<<j, n>>] = task[<<j, n>>] /\ sender'[<<j, n>>] = sender[<<j, n>>]
      <4>1. <<j, n>> \in Claims /\ <<j, n>> # c
        BY <2>4, ClaimParts DEF Claims, Job
      <4>2. QED
        BY <2>1, <4>1
    <3>3. ToCome(j)' \subseteq ToCome(j) /\ Hung(j)' \subseteq Hung(j)
      BY <3>2 DEF ToCome, Hung, OnItsWay, Hanging
    <3>4. QED
      BY <1>0, <1>2, <2>2, <2>4, <3>1, <3>3, CopyKept
  <2>5. QED
    BY <2>3, <2>4
<1>9. ASSUME UNCHANGED vars PROVE CopyPaid(j)'
  <2>1. UNCHANGED <<rowVars, task, sender, copies, faults>>
    BY <1>9 DEF vars, taskVars
  <2>2. QED
    BY <1>0, <1>2, <2>1, AttendedKept, CopyKeptByRows DEF rowVars
<1>10. QED
  BY <1>3, <1>4, <1>5, <1>6, <1>7, <1>8, <1>9 DEF Next

\* The first message of every row is free.
LEMMA CopyInit == Init => CopyInv
<1> SUFFICES ASSUME Init PROVE CopyInv
  OBVIOUS
<1>1. OverdueIsLocked /\ SenderIsAwaited
  BY DEF Init, OverdueIsLocked, SenderIsAwaited
<1>2. ASSUME NEW j \in Jobs PROVE CopyPaid(j)
  <2>1. ASSUME NEW n \in 1 .. MaxClaims PROVE ~ OnItsWay(<<j, n>>) /\ ~ Hanging(<<j, n>>)
    BY <2>1 DEF Init, Claims, OnItsWay, Hanging
  <2>2. ToCome(j) = {} /\ Hung(j) = {}
    BY <2>1 DEF ToCome, Hung
  <2>3. Cardinality(ToCome(j)) = 0 /\ Cardinality(Hung(j)) = 0
    BY <2>2, FS_EmptySet
  <2>4. QED
    BY <2>3 DEF Init, CopyPaid, Again, Bit
<1>3. QED
  BY <1>1, <1>2, ClaimInit DEF CopyInv, SendInv, CopiesPaid

\* The account holds in every behaviour.
LEMMA CopyInvariant == Spec => []CopyInv
<1>1. CopyInv /\ [Next]_vars => CopyInv'
  BY CopyStep
<1>2. QED
  BY <1>1, CopyInit, PTL DEF Spec

\* Where sendWithFallback can record the delivery, or has none to record, every message
\* beyond the first that a provider accepts for a row is paid for by a fault.
LEMMA CopyBound ==
    ASSUME CopyInv, NEW j \in Jobs, ~ Unrecordable(j)
    PROVE  copies[j] <= 1 + faults
<1>1. CopyPaid(j)
  BY DEF CopyInv, CopiesPaid, Unrecordable, Recordable, Sens
<1>2. copies[j] \in Nat /\ faults \in Nat /\ Again(j) \in {0, 1}
  BY BoundsAssumption DEF CopyInv, SendInv, ClaimInv, TypeOK, Again, Bit
<1>3. Cardinality(ToCome(j)) \in Nat /\ Cardinality(Hung(j)) \in Nat
  <2>1. ToCome(j) \in SUBSET (1 .. MaxClaims) /\ Hung(j) \in SUBSET (1 .. MaxClaims)
    BY DEF ToCome, Hung
  <2>2. QED
    BY <2>1, NumbersFinite
<1>4. QED
  BY <1>1, <1>2, <1>3 DEF CopyPaid

\* A push or an e-mail is sent again only for a fault, whatever faults happen: orphaned
\* senders, stalled workers and lost acknowledgements included (processJob, handleFailure,
\* reapStuckNotifications).  Such a row records no delivery, so nothing is asked of the
\* events; retries of an attempt the provider refused cost no message.
THEOREM PushesArePaidFor ==
    Spec => [](\A j \in Jobs : Channel[j] \in {"PUSH", "EMAIL"} => copies[j] <= 1 + faults)
<1>1. CopyInv => \A j \in Jobs : Channel[j] \in {"PUSH", "EMAIL"} => copies[j] <= 1 + faults
  BY CopyBound DEF Unrecordable
<1>2. QED
  BY <1>1, CopyInvariant, PTL
-----------------------------------------------------------------------------
(* How often a row is sent, with event rows or without *)

\* An attempt whose message may still be accepted.
Coming(c) == task[c] = "claimed" \/ sender[c] \in {"calling", "alimtalk", "sms"}
Expected(j) == {n \in 1 .. MaxClaims : Coming(<<j, n>>)}

\* The claim to come, unless the row is closed or its attempt may still be counted.
Renewed(j) == Bit(~ (Closed(j) \/ Attempted(j)))

\* The messages accepted, those that may come and the claim to come are paid for by the first
\* message, the counted retries and the faults.
MessagePaid(j) ==
    copies[j] + Cardinality(Expected(j)) + Renewed(j) <= 1 + retryCount[j] + faults

MessagesPaid == \A j \in Jobs : MessagePaid(j)

MessageInv == WorkInv /\ SenderIsAwaited /\ MessagesPaid

\* The account is made of natural numbers, before and after a step.
LEMMA MessageType ==
    ASSUME TypeOK, TypeOK', NEW j \in Jobs
    PROVE  /\ copies[j] \in Nat /\ copies'[j] \in Nat
           /\ retryCount[j] \in Nat /\ retryCount'[j] \in Nat
           /\ faults \in Nat /\ faults' \in Nat
           /\ Expected(j) \in SUBSET (1 .. MaxClaims) /\ Expected(j)' \in SUBSET (1 .. MaxClaims)
           /\ Cardinality(Expected(j)) \in Nat /\ Cardinality(Expected(j)') \in Nat
           /\ Renewed(j) \in {0, 1} /\ Renewed(j)' \in {0, 1}
<1>1. /\ copies[j] \in Nat /\ copies'[j] \in Nat /\ faults \in Nat /\ faults' \in Nat
      /\ retryCount[j] \in Nat /\ retryCount'[j] \in Nat
  BY BoundsAssumption DEF TypeOK
<1>2. Expected(j) \in SUBSET (1 .. MaxClaims) /\ Expected(j)' \in SUBSET (1 .. MaxClaims)
  BY DEF Expected
<1>3. Cardinality(Expected(j)) \in Nat /\ Cardinality(Expected(j)') \in Nat
  BY <1>2, NumbersFinite
<1>4. Renewed(j) \in {0, 1} /\ Renewed(j)' \in {0, 1}
  BY DEF Renewed, Bit
<1>5. QED
  BY <1>1, <1>2, <1>3, <1>4

\* A row that is closed or whose attempts go on is not claimed again.
LEMMA RenewedKept ==
    ASSUME WorkInv, [Next]_vars, NEW j \in Jobs,
           Closed(j)' \/ \A c \in Claims : Job(c) = j /\ Trying(c) => Trying(c)'
    PROVE  Renewed(j)' <= Renewed(j)
<1>1. Closed(j) => Closed(j)'
  BY ClosedIsFinal DEF Closed
<1>2. Closed(j) \/ Attempted(j) => Closed(j)' \/ Attempted(j)'
  BY <1>1 DEF Attempted
<1>3. QED
  BY <1>2 DEF Renewed, Bit

\* A step that sends nothing and expects no more keeps the account.
LEMMA MessageKept ==
    ASSUME WorkInv, TypeOK', [Next]_vars, NEW j \in Jobs, MessagePaid(j), Moved(j),
           copies'[j] = copies[j], Expected(j)' \subseteq Expected(j)
    PROVE  MessagePaid(j)'
<1>0. TypeOK /\ faults' \in {faults, faults + 1}
  BY FaultsGrow DEF WorkInv, ClaimInv
<1>1. Cardinality(Expected(j)') <= Cardinality(Expected(j))
  BY <1>0, MessageType, NumbersShrink
<1>2. \/ retryCount'[j] = retryCount[j] /\ faults' = faults + 1
      \/ retryCount'[j] = retryCount[j] + 1
      \/ retryCount'[j] = retryCount[j] /\ Renewed(j)' <= Renewed(j)
  BY RenewedKept DEF Moved
<1>3. QED
  BY <1>0, <1>1, <1>2, MessageType DEF MessagePaid

\* A claim by handleQueue turns the claim to come into a message that may come.
LEMMA MessageKeptByQueue ==
    ASSUME WorkInv, TypeOK', [Next]_vars, NEW w \in Workers, HandleQueue(w),
           NEW j \in Jobs, MessagePaid(j)
    PROVE  MessagePaid(j)'
<1>0. TypeOK /\ WorkingTaskHoldsClaim
  BY DEF WorkInv, ClaimInv
<1>1. PICK B \in Batches : HandleQueue(w)!2!(B)
  BY DEF HandleQueue
<1>2. UNCHANGED <<retryCount, sender, copies, faults>>
  BY DEF HandleQueue
<1>3. \A i \in B : i \in Jobs /\ status[i] \in Claimable /\ claims[i] < MaxClaims
  BY DEF Batches, Due
<1>4. ASSUME NEW n \in 1 .. MaxClaims, \A i \in B : <<j, n>> # NextClaim(i)
      PROVE  n \in Expected(j)' <=> n \in Expected(j)
  <2>1. <<j, n>> \in Claims
    BY DEF Claims
  <2>2. task'[<<j, n>>] = task[<<j, n>>]
    BY <1>1, <1>4, <2>1
  <2>3. QED
    BY <1>2, <2>2 DEF Expected, Coming
<1>5. CASE j \in B
  <2>1. status[j] \in Claimable /\ claims[j] \in 0 .. MaxClaims /\ claims[j] < MaxClaims
    BY <1>0, <1>3, <1>5 DEF TypeOK
  <2>2. ~ Closed(j) /\ ~ Attempted(j)
    BY <1>0, <2>1 DEF Closed, Attempted, Trying, Claimable, WorkingTaskHoldsClaim, HoldsClaim
  <2>3. Attempted(j)'
    <3>1. NextClaim(j) \in Claims /\ Job(NextClaim(j)) = j
      BY <2>1, NextClaimParts
    <3>2. task'[NextClaim(j)] = "claimed"
      BY <1>1, <1>5, <3>1
    <3>3. QED
      BY <3>1, <3>2 DEF Attempted, Trying, AtWork
  <2>4. Renewed(j) = 1 /\ Renewed(j)' = 0
    BY <2>2, <2>3 DEF Renewed, Bit
  <2>5. ASSUME NEW m \in 1 .. MaxClaims, m # claims[j] + 1
        PROVE  m \in Expected(j)' <=> m \in Expected(j)
    <3>1. \A i \in B : <<j, m>> # NextClaim(i)
      BY <2>5 DEF NextClaim
    <3>2. QED
      BY <1>4, <3>1
  <2>6. Cardinality(Expected(j)') + Bit(claims[j] + 1 \in Expected(j))
          = Cardinality(Expected(j)) + Bit(claims[j] + 1 \in Expected(j)')
    BY <1>0, <2>5, MessageType, NumbersDiffer
  <2>7. Bit(claims[j] + 1 \in Expected(j)) \in {0, 1} /\ Bit(claims[j] + 1 \in Expected(j)') \in {0, 1}
    BY DEF Bit
  <2>8. Cardinality(Expected(j)') <= Cardinality(Expected(j)) + 1
    BY <1>0, <2>6, <2>7, MessageType
  <2>9. QED
    BY <1>0, <1>2, <2>4, <2>8, MessageType DEF MessagePaid
<1>6. CASE j \notin B
  <2>1. status'[j] = status[j] /\ \A c \in Claims : Trying(c) => Trying(c)'
    BY <1>1, <1>6 DEF Trying, AtWork
  <2>2. Renewed(j)' <= Renewed(j)
    BY <2>1, RenewedKept
  <2>3. \A i \in B, n \in 1 .. MaxClaims : <<j, n>> # NextClaim(i)
    BY <1>6 DEF NextClaim
  <2>4. Expected(j)' \subseteq Expected(j)
    BY <1>4, <2>3 DEF Expected
  <2>5. Cardinality(Expected(j)') <= Cardinality(Expected(j))
    BY <1>0, <2>4, MessageType, NumbersShrink
  <2>6. QED
    BY <1>0, <1>2, <2>2, <2>5, MessageType DEF MessagePaid
<1>7. QED
  BY <1>5, <1>6
\* An accepted message is one that was expected, or its answer is lost: a fault.
LEMMA MessageKeptByAnswer ==
    ASSUME WorkInv, SenderIsAwaited, TypeOK', [Next]_vars, NEW c \in Claims,
           ProviderAnswers(c) \/ SendWithFallback(c),
           NEW j \in Jobs, MessagePaid(j)
    PROVE  MessagePaid(j)'
<1>0. /\ TypeOK /\ Job(c) \in Jobs /\ Number(c) \in 1 .. MaxClaims /\ c = <<Job(c), Number(c)>>
      /\ faults \in Nat
  BY FaultsGrow, ClaimParts DEF WorkInv, ClaimInv
<1>1. /\ UNCHANGED <<retryCount, claims>>
      /\ \A d \in Claims : d # c => task'[d] = task[d] /\ sender'[d] = sender[d]
  BY <1>0 DEF ProviderAnswers, SendWithFallback, AlimtalkAnswers, SmsAnswers, SensAnswers,
         RecordDelivery, Settle, rowVars, TypeOK
<1>2. task'[c] = task[c] \/ task'[c] \in {"saving", "failing", "failingForGood"}
  BY <1>0 DEF ProviderAnswers, SendWithFallback, AlimtalkAnswers, SmsAnswers, SensAnswers,
         RecordDelivery, Settle, Verdict, TypeOK
<1>3. \A d \in Claims : Trying(d) => Trying(d)'
  BY <1>1, <1>2 DEF Trying, AtWork
<1>4. Renewed(j)' <= Renewed(j) /\ Moved(j)
  BY <1>1, <1>3, RenewedKept DEF Moved
<1>5. Coming(c)' => Coming(c)
  <2>1. task'[c] # "claimed" \/ task[c] = "claimed"
    BY <1>2
  <2>2. CASE ProviderAnswers(c) \/ AlimtalkAnswers(c) \/ SmsAnswers(c)
    BY <2>2 DEF ProviderAnswers, AlimtalkAnswers, SmsAnswers, Coming
  <2>3. CASE RecordDelivery(c)
    <3>1. sender'[c] = "settled"
      BY <1>0, <2>3 DEF RecordDelivery, Settle, TypeOK
    <3>2. QED
      BY <2>1, <3>1 DEF Coming
  <2>4. QED
    BY <2>2, <2>3 DEF SendWithFallback
<1>6. ASSUME NEW n \in 1 .. MaxClaims, <<j, n>> # c
      PROVE  n \in Expected(j)' <=> n \in Expected(j)
  <2>1. <<j, n>> \in Claims
    BY DEF Claims
  <2>2. QED
    BY <1>1, <1>6, <2>1 DEF Expected, Coming
<1>7. Expected(j)' \subseteq Expected(j)
  BY <1>5, <1>6 DEF Expected
<1>8. CASE copies'[j] = copies[j]
  BY <1>4, <1>7, <1>8, MessageKept
<1>9. CASE copies'[j] # copies[j]
  <2>1. j = Job(c) /\ copies'[j] = copies[j] + 1
    BY <1>0, <1>9 DEF ProviderAnswers, SendWithFallback, AlimtalkAnswers, SmsAnswers, SensAnswers,
           RecordDelivery, AcceptCopy, TypeOK
  <2>2. CASE faults' = faults + 1
    <3>1. Cardinality(Expected(j)') <= Cardinality(Expected(j))
      BY <1>0, <1>7, MessageType, NumbersShrink
    <3>2. QED
      BY <1>0, <1>1, <1>4, <2>1, <2>2, <3>1, MessageType DEF MessagePaid
  <2>3. CASE faults' # faults + 1
    <3>1. /\ faults' = faults
          /\ sender[c] \in {"calling", "alimtalk", "sms"}
          /\ sender'[c] \in {"settled", "recordSent"}
      BY <1>0, <1>9, <2>3
         DEF ProviderAnswers, SendWithFallback, AlimtalkAnswers, SmsAnswers, SensAnswers,
             RecordDelivery, Settle, NoFault, Fault, TypeOK
    <3>2. Coming(c) /\ ~ Coming(c)'
      BY <1>2, <3>1 DEF Coming, SenderIsAwaited
    <3>3. Number(c) \in Expected(j) /\ Number(c) \notin Expected(j)'
      BY <1>0, <2>1, <3>2 DEF Expected
    <3>4. \A n \in 1 .. MaxClaims : n # Number(c) => <<j, n>> # c
      BY <1>0
    <3>5. Cardinality(Expected(j)') + Bit(Number(c) \in Expected(j))
            = Cardinality(Expected(j)) + Bit(Number(c) \in Expected(j)')
      BY <1>0, <1>6, <3>4, MessageType, NumbersDiffer
    <3>6. Bit(Number(c) \in Expected(j)) = 1 /\ Bit(Number(c) \in Expected(j)') = 0
      BY <3>3 DEF Bit
    <3>7. Cardinality(Expected(j)') + 1 = Cardinality(Expected(j))
      BY <1>0, <3>5, <3>6, MessageType
    <3>8. QED
      BY <1>0, <1>1, <1>4, <2>1, <3>1, <3>7, MessageType DEF MessagePaid
  <2>4. QED
    BY <2>2, <2>3
<1>10. QED
  BY <1>8, <1>9

\* No other step accepts a message, and none starts an attempt without a claim.
LEMMA NothingAccepted ==
    ASSUME TypeOK, [Next]_vars, \A w \in Workers : ~ HandleQueue(w),
           \A c \in Claims : ~ (ProviderAnswers(c) \/ SendWithFallback(c)),
           NEW j \in Jobs
    PROVE  copies'[j] = copies[j] /\ Expected(j)' \subseteq Expected(j)
<1>0. TypeOK
  OBVIOUS
<1>1. ASSUME UNCHANGED copies, \A c \in Claims : Coming(c)' => Coming(c)
      PROVE  copies'[j] = copies[j] /\ Expected(j)' \subseteq Expected(j)
  <2>1. \A n \in 1 .. MaxClaims : <<j, n>> \in Claims
    BY DEF Claims
  <2>2. QED
    BY <1>1, <2>1 DEF Expected
<1>2. ASSUME UNCHANGED <<copies, task, sender>>
      PROVE  copies'[j] = copies[j] /\ Expected(j)' \subseteq Expected(j)
  BY <1>1, <1>2 DEF Coming
<1>3. CASE \/ \E i \in Jobs : CreateOutbox(i) \/ BackoffElapses(i) \/ LockAges(i)
           \/ \E w \in Workers : FinishBatch(w)
           \/ CleanZombies
           \/ UNCHANGED vars
  BY <1>2, <1>3 DEF CreateOutbox, BackoffElapses, LockAges, FinishBatch, CleanZombies, vars,
                    taskVars
<1>4. ASSUME NEW w \in Workers, Crash(w)
      PROVE  copies'[j] = copies[j] /\ Expected(j)' \subseteq Expected(j)
  BY <1>1, <1>4 DEF Crash, Coming
<1>5. ASSUME NEW c \in Claims, ProcessJob(c)
      PROVE  copies'[j] = copies[j] /\ Expected(j)' \subseteq Expected(j)
  <2>1. copies' = copies
    BY <1>5 DEF ProcessJob, StartSend, Timeout, SaveSent, GiveUp, Retry, FailureWriteLost,
                EnqueuePushFallback
  <2>2. \A d \in Claims : d # c => task'[d] = task[d] /\ sender'[d] = sender[d]
    BY <1>0, <1>5 DEF ProcessJob, StartSend, Timeout, SaveSent, GiveUp, Retry, FailureWriteLost,
                EnqueuePushFallback, TypeOK
  <2>3. Coming(c)' => Coming(c)
    <3>1. CASE StartSend(c)
      BY <3>1 DEF StartSend, Coming
    <3>2. CASE ~ StartSend(c)
      <4>1. sender' = sender
        BY <1>5, <3>2 DEF ProcessJob, Timeout, SaveSent, GiveUp, Retry, FailureWriteLost,
                EnqueuePushFallback
      <4>2. task'[c] # "claimed"
        BY <1>0, <1>5, <3>2 DEF ProcessJob, Timeout, SaveSent, GiveUp, AfterGiveUp, Retry,
                FailureWriteLost, EnqueuePushFallback, TypeOK
      <4>3. QED
        BY <4>1, <4>2 DEF Coming
    <3>3. QED
      BY <3>1, <3>2
  <2>4. QED
    BY <1>1, <2>1, <2>2, <2>3 DEF Coming
<1>6. QED
  BY <1>3, <1>4, <1>5 DEF Next

\* With prompt workers every step keeps the account of every row.
LEMMA MessageStep ==
    ASSUME PromptWorkers, MessageInv, [Next]_vars
    PROVE  MessageInv'
<1>0. /\ WorkInv /\ WorkInv' /\ TypeOK /\ TypeOK'
      /\ SenderIsAwaited /\ SenderIsAwaited'
  BY WorkStep, SendStep DEF MessageInv, SendInv, WorkInv, ClaimInv
<1> SUFFICES ASSUME NEW j \in Jobs PROVE MessagePaid(j)'
  BY <1>0 DEF MessageInv, MessagesPaid
<1>1. MessagePaid(j)
  BY DEF MessageInv, MessagesPaid
<1>2. ASSUME NEW w \in Workers, HandleQueue(w) PROVE MessagePaid(j)'
  BY <1>0, <1>1, <1>2, MessageKeptByQueue
<1>3. ASSUME NEW c \in Claims, ProviderAnswers(c) \/ SendWithFallback(c) PROVE MessagePaid(j)'
  BY <1>0, <1>1, <1>3, MessageKeptByAnswer
<1>4. CASE /\ \A w \in Workers : ~ HandleQueue(w)
           /\ \A c \in Claims : ~ (ProviderAnswers(c) \/ SendWithFallback(c))
  <2>1. Moved(j)
    BY <1>0, <1>4, AttemptMoves
  <2>2. copies'[j] = copies[j] /\ Expected(j)' \subseteq Expected(j)
    BY <1>0, <1>4, NothingAccepted
  <2>3. QED
    BY <1>0, <1>1, <2>1, <2>2, MessageKept
<1>5. QED
  BY <1>2, <1>3, <1>4

\* The first message of every row is free.
LEMMA MessageInit == Init => MessageInv
<1> SUFFICES ASSUME Init PROVE MessageInv
  OBVIOUS
<1>1. SenderIsAwaited
  BY DEF Init, SenderIsAwaited
<1>2. ASSUME NEW j \in Jobs PROVE MessagePaid(j)
  <2>1. ASSUME NEW n \in 1 .. MaxClaims PROVE ~ Coming(<<j, n>>)
    BY <2>1 DEF Init, Claims, Coming
  <2>2. Expected(j) = {}
    BY <2>1 DEF Expected
  <2>3. Cardinality(Expected(j)) = 0
    BY <2>2, FS_EmptySet
  <2>4. QED
    BY <2>3 DEF Init, MessagePaid, Renewed, Bit
<1>3. QED
  BY <1>1, <1>2, WorkInit DEF MessageInv, MessagesPaid

\* With prompt workers, and whatever rows have an event (none has in this repository): a row
\* costs one message, one for every fault, and, where sendWithFallback cannot record the
\* delivery, one for every retry of the channel's budget.  The claim query, the reaper and
\* handleFailure add nothing to that, however the replicas and orphaned senders interleave.
THEOREM MessagesArePaidFor ==
    ASSUME PromptWorkers
    PROVE  Spec => []MessagesInBudget
<1>1. MessageInv /\ [Next]_vars => MessageInv'
  BY MessageStep
<1>2. MessageInv /\ CopyInv => MessagesInBudget
  <2> SUFFICES ASSUME MessageInv, CopyInv, NEW j \in Jobs
               PROVE  copies[j] <= 1 + faults + (IF Unrecordable(j) THEN MaxRetries(j) ELSE 0)
    BY DEF MessagesInBudget
  <2>1. /\ copies[j] \in Nat /\ retryCount[j] \in Nat /\ faults \in Nat
        /\ retryCount[j] <= MaxRetries(j) /\ MaxRetries(j) \in Nat
    BY MaxRetriesNat, BoundsAssumption DEF MessageInv, WorkInv, ClaimInv, TypeOK, RetryBudget
  <2>2. copies[j] <= 1 + retryCount[j] + faults
    <3>1. MessagePaid(j) /\ Renewed(j) \in {0, 1}
      BY DEF MessageInv, MessagesPaid, Renewed, Bit
    <3>2. Expected(j) \in SUBSET (1 .. MaxClaims)
      BY DEF Expected
    <3>3. Cardinality(Expected(j)) \in Nat
      BY <3>2, NumbersFinite
    <3>4. QED
      BY <2>1, <3>1, <3>3 DEF MessagePaid
  <2>3. CASE Unrecordable(j)
    BY <2>1, <2>2, <2>3
  <2>4. CASE ~ Unrecordable(j)
    BY <2>1, <2>4, CopyBound
  <2>5. QED
    BY <2>3, <2>4
<1>3. QED
  BY <1>1, <1>2, MessageInit, CopyInvariant, PTL DEF Spec
=============================================================================
