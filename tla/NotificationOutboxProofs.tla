--------------------- MODULE NotificationOutboxProofs ---------------------
(***************************************************************************)
(* Theorems about NotificationOutbox for every set of rows and workers,    *)
(* every batch limit, retry budget and number of faults.                   *)
(***************************************************************************)
EXTENDS NotificationOutbox, TLAPS

\* A claim is a row and a number.
LEMMA ClaimParts ==
    ASSUME NEW c \in Claims
    PROVE  Job(c) \in Jobs /\ Number(c) \in 1 .. MaxClaims /\ c = <<Job(c), Number(c)>>
BY DEF Claims, Job, Number

\* The next claim of a row that may still be claimed is a claim of that row.
LEMMA NextClaimParts ==
    ASSUME NEW j \in Jobs, claims[j] \in 0 .. MaxClaims, claims[j] < MaxClaims
    PROVE  /\ NextClaim(j) \in Claims
           /\ Job(NextClaim(j)) = j
           /\ Number(NextClaim(j)) = claims[j] + 1
BY BoundsAssumption DEF NextClaim, Claims, Job, Number

-----------------------------------------------------------------------------
(* Type correctness *)

\* The columns that updateStatus and incrementRetry write keep their types.
LEMMA RowWritesType ==
    ASSUME TypeOK, NEW j \in Jobs, NEW s \in Statuses,
           UpdateStatus(j, s) \/ IncrementRetry(j)
    PROVE  /\ status' \in [Jobs -> Statuses]
           /\ retryCount' \in [Jobs -> Nat]
           /\ lockedAt' \in [Jobs -> 0 .. MaxClaims]
           /\ waiting' \subseteq Jobs
           /\ overdue' \subseteq Jobs
BY BoundsAssumption DEF TypeOK, UpdateStatus, IncrementRetry, NotLocked, Statuses

\* A fault is counted up to MaxFaults.
LEMMA FaultType ==
    ASSUME TypeOK, NEW kind, Fault(kind) \/ NoFault
    PROVE  faults' \in 0 .. MaxFaults
BY BoundsAssumption DEF TypeOK, Fault, NoFault

\* A sender that settles leaves a task state and a sender state behind.
LEMMA SettleType ==
    ASSUME TypeOK, NEW c \in Claims, NEW next \in TaskStates, Settle(c, next)
    PROVE  /\ task' \in [Claims -> TaskStates]
           /\ sender' \in [Claims -> SenderStates]
           /\ owner' \in [Claims -> SUBSET Workers]
           /\ snapshot' \in [Claims -> Nat]
BY DEF TypeOK, Settle, SenderStates, TaskStates

\* Counting an accepted message keeps the counters natural numbers.
LEMMA CopiesType ==
    ASSUME TypeOK, NEW c \in Claims, AcceptCopy(c) \/ UNCHANGED copies
    PROVE  copies' \in [Jobs -> Nat]
BY ClaimParts DEF TypeOK, AcceptCopy

\* One step of the workers, providers, clocks or replicas keeps every variable in its type.
LEMMA TypeStep == TypeOK /\ [Next]_vars => TypeOK'
<1> SUFFICES ASSUME TypeOK, [Next]_vars PROVE TypeOK'
  OBVIOUS
<1> USE BoundsAssumption
<1>1. ASSUME NEW j \in Jobs, CreateOutbox(j) PROVE TypeOK'
  BY <1>1 DEF CreateOutbox, TypeOK, taskVars, Statuses
<1>2. ASSUME NEW j \in Jobs, BackoffElapses(j) PROVE TypeOK'
  BY <1>2 DEF BackoffElapses, TypeOK, taskVars
<1>3. ASSUME NEW j \in Jobs, LockAges(j) PROVE TypeOK'
  <2>1. faults' \in 0 .. MaxFaults
    BY <1>3, FaultType DEF LockAges
  <2>2. QED
    BY <1>3, <2>1 DEF LockAges, TypeOK, taskVars
<1>4. ASSUME NEW w \in Workers, HandleQueue(w) PROVE TypeOK'
  <2>1. PICK B \in Batches : HandleQueue(w)!2!(B)
    BY <1>4 DEF HandleQueue
  <2>2. B \subseteq Due
    BY DEF Batches
  <2>3. /\ status' \in [Jobs -> Statuses]
        /\ lockedAt' \in [Jobs -> 0 .. MaxClaims]
        /\ claims' \in [Jobs -> 0 .. MaxClaims]
    BY <2>1, <2>2 DEF TypeOK, Statuses, Due
  <2>4. /\ task' \in [Claims -> TaskStates]
        /\ owner' \in [Claims -> SUBSET Workers]
        /\ snapshot' \in [Claims -> Nat]
    BY <2>1, ClaimParts DEF TypeOK, TaskStates, AtWork
  <2>5. QED
    BY <1>4, <2>3, <2>4 DEF HandleQueue, TypeOK
<1>5. ASSUME NEW w \in Workers, FinishBatch(w) PROVE TypeOK'
  BY <1>5 DEF FinishBatch, TypeOK, taskVars, rowVars
<1>6. ASSUME NEW w \in Workers, Crash(w) PROVE TypeOK'
  <2>1. faults' \in 0 .. MaxFaults
    BY <1>6, FaultType DEF Crash
  <2>2. QED
    BY <1>6, <2>1 DEF Crash, TypeOK, rowVars, TaskStates, SenderStates
<1>7. ASSUME NEW c \in Claims, ProcessJob(c) PROVE TypeOK'
  <2> USE ClaimParts
  <2>1. CASE StartSend(c)
    <3>1. faults' \in 0 .. MaxFaults
      BY <2>1, FaultType DEF StartSend
    <3>2. QED
      BY <2>1, <3>1 DEF StartSend, TypeOK, rowVars, TaskStates, AtWork, SenderStates, FirstCall
  <2>2. CASE Timeout(c)
    BY <2>2 DEF Timeout, TypeOK, rowVars, TaskStates
  <2>3. CASE SaveSent(c)
    <3>1. faults' \in 0 .. MaxFaults
      BY <2>3, FaultType DEF SaveSent
    <3>2. task' \in [Claims -> TaskStates]
      BY <2>3 DEF SaveSent, TypeOK, TaskStates, AtWork
    <3>3. CASE UpdateStatus(Job(c), "SENT")
      BY <2>3, <3>1, <3>2, <3>3, RowWritesType DEF SaveSent, TypeOK, Statuses
    <3>4. CASE UNCHANGED rowVars
      BY <2>3, <3>1, <3>2, <3>4 DEF SaveSent, TypeOK, rowVars
    <3>5. QED
      BY <2>3, <3>3, <3>4 DEF SaveSent
  <2>4. CASE GiveUp(c)
    <3>1. faults' \in 0 .. MaxFaults
      BY <2>4, FaultType DEF GiveUp
    <3>2. task' \in [Claims -> TaskStates]
      BY <2>4 DEF GiveUp, AfterGiveUp, TypeOK, TaskStates
    <3>3. QED
      BY <2>4, <3>1, <3>2, RowWritesType DEF GiveUp, TypeOK, Statuses
  <2>5. CASE Retry(c)
    <3>1. task' \in [Claims -> TaskStates]
      BY <2>5 DEF Retry, TypeOK, TaskStates
    <3>2. QED
      BY <2>5, <3>1, RowWritesType DEF Retry, TypeOK, Statuses
  <2>6. CASE FailureWriteLost(c)
    <3>1. faults' \in 0 .. MaxFaults
      BY <2>6, FaultType DEF FailureWriteLost
    <3>2. QED
      BY <2>6, <3>1 DEF FailureWriteLost, TypeOK, rowVars, TaskStates
  <2>7. CASE EnqueuePushFallback(c)
    <3>1. faults' \in 0 .. MaxFaults
      BY <2>7, FaultType DEF EnqueuePushFallback
    <3>2. /\ status' \in [Jobs -> Statuses]
          /\ parent' \in [Jobs -> Jobs \cup {NoJob}]
      <4>1. CASE UNCHANGED <<status, parent>>
        BY <4>1 DEF TypeOK
      <4>2. ASSUME NEW k \in Jobs, OpenFallback(Job(c), k)
            PROVE  /\ status' \in [Jobs -> Statuses]
                   /\ parent' \in [Jobs -> Jobs \cup {NoJob}]
        <5>1. Job(c) \in Jobs
          OBVIOUS
        <5>2. QED
          BY <4>2, <5>1 DEF OpenFallback, TypeOK, Statuses
      <4>3. QED
        BY <2>7, <4>1, <4>2 DEF EnqueuePushFallback
    <3>3. QED
      BY <2>7, <3>1, <3>2 DEF EnqueuePushFallback, TypeOK, TaskStates
  <2>8. QED
    BY <1>7, <2>1, <2>2, <2>3, <2>4, <2>5, <2>6, <2>7 DEF ProcessJob
<1>8. ASSUME NEW c \in Claims, ProviderAnswers(c) PROVE TypeOK'
  <2>1. faults' \in 0 .. MaxFaults
    BY <1>8, FaultType DEF ProviderAnswers
  <2>2. copies' \in [Jobs -> Nat]
    BY <1>8, CopiesType DEF ProviderAnswers
  <2>3. \E next \in TaskStates : Settle(c, next)
    BY <1>8 DEF ProviderAnswers, TaskStates, AtWork
  <2>4. QED
    BY <1>8, <2>1, <2>2, <2>3, SettleType DEF ProviderAnswers, TypeOK, rowVars
<1>9. ASSUME NEW c \in Claims, SendWithFallback(c) PROVE TypeOK'
  <2>1. ASSUME NEW whenSuccess \in SenderStates, NEW whenFailure \in SenderStates,
               SensAnswers(c, whenSuccess, whenFailure)
        PROVE  TypeOK'
    <3>1. faults' \in 0 .. MaxFaults
      BY <2>1, FaultType DEF SensAnswers
    <3>2. copies' \in [Jobs -> Nat]
      BY <2>1, CopiesType DEF SensAnswers
    <3>3. QED
      BY <2>1, <3>1, <3>2 DEF SensAnswers, TypeOK, rowVars
  <2>2. CASE AlimtalkAnswers(c) \/ SmsAnswers(c)
    BY <2>1, <2>2 DEF AlimtalkAnswers, SmsAnswers, SenderStates
  <2>3. CASE RecordDelivery(c)
    <3>1. faults' \in 0 .. MaxFaults
      BY <2>3, FaultType DEF RecordDelivery
    <3>2. recorded' \in [Claims -> {"none", "SENT", "FAILED"}]
      BY <2>3 DEF RecordDelivery, Record, TypeOK
    <3>3. \E next \in TaskStates : Settle(c, next)
      BY <2>3 DEF RecordDelivery, Verdict, TaskStates, AtWork
    <3>4. QED
      BY <2>3, <3>1, <3>2, <3>3, SettleType DEF RecordDelivery, TypeOK, rowVars
  <2>4. QED
    BY <1>9, <2>2, <2>3 DEF SendWithFallback
<1>10. CASE CleanZombies
  BY <1>10 DEF CleanZombies, Zombies, TypeOK, taskVars, NotLocked, Statuses
<1>11. CASE UNCHANGED vars
  BY <1>11 DEF vars, rowVars, taskVars, TypeOK
<1>12. QED
  BY <1>1, <1>2, <1>3, <1>4, <1>5, <1>6, <1>7, <1>8, <1>9, <1>10, <1>11 DEF Next

\* The empty outbox is well typed.
LEMMA TypeInit == Init => TypeOK
BY BoundsAssumption DEF Init, TypeOK, Statuses, TaskStates, SenderStates, NotLocked

\* Every variable always has its type: the worker code writes no status, task or counter
\* outside the sets the model names.
THEOREM TypeCorrect == Spec => []TypeOK
BY TypeInit, TypeStep, PTL DEF Spec

-----------------------------------------------------------------------------
(* Claims are numbered in the order they are made: the fence *)

\* A row is locked exactly while it is PROCESSING, by its latest claim.
LockedByLastClaim ==
    \A j \in Jobs : lockedAt[j] = IF status[j] = "PROCESSING" THEN claims[j] ELSE NotLocked

\* A claim not made yet has no worker, no task and no sender.
FutureClaimsIdle ==
    \A c \in Claims : Number(c) > claims[Job(c)] =>
        task[c] = "none" /\ sender[c] = "none" /\ owner[c] = {}

\* A row not written yet has not been claimed.
AbsentUnclaimed == \A j \in Jobs : status[j] = "ABSENT" => claims[j] = 0

ClaimInv == TypeOK /\ LockedByLastClaim /\ FutureClaimsIdle /\ AbsentUnclaimed

\* A task or sender that is running belongs to a claim already made, of an existing row.
LEMMA RunningIsClaimed ==
    ASSUME ClaimInv, NEW c \in Claims,
           task[c] # "none" \/ sender[c] # "none" \/ owner[c] # {}
    PROVE  Number(c) <= claims[Job(c)] /\ status[Job(c)] # "ABSENT"
<1>1. Job(c) \in Jobs /\ Number(c) \in Nat /\ Number(c) > 0
  BY ClaimParts, BoundsAssumption
<1>2. claims[Job(c)] \in Nat
  BY <1>1, BoundsAssumption DEF ClaimInv, TypeOK
<1>3. Number(c) <= claims[Job(c)]
  BY <1>1, <1>2 DEF ClaimInv, FutureClaimsIdle
<1>4. QED
  BY <1>1, <1>2, <1>3 DEF ClaimInv, AbsentUnclaimed

\* What a step that leaves the claim numbers alone may do to the rows and the tasks.
LEMMA ClaimInvKept ==
    ASSUME ClaimInv, TypeOK', UNCHANGED <<claims, owner>>,
           \A j \in Jobs : \/ status'[j] = status[j] /\ lockedAt'[j] = lockedAt[j]
                           \/ /\ status'[j] # "PROCESSING" /\ lockedAt'[j] = NotLocked
                              /\ status'[j] # "ABSENT" \/ status[j] = "ABSENT"
                           \/ /\ status[j] = "ABSENT" /\ status'[j] = "PENDING"
                              /\ lockedAt'[j] = lockedAt[j],
           \A c \in Claims : \/ task'[c] = task[c] /\ sender'[c] = sender[c]
                             \/ task[c] # "none" \/ sender[c] # "none" \/ owner[c] # {}
    PROVE  ClaimInv'
<1>1. LockedByLastClaim'
  BY DEF ClaimInv, LockedByLastClaim
<1>2. AbsentUnclaimed'
  BY DEF ClaimInv, AbsentUnclaimed
<1>3. FutureClaimsIdle'
  <2> SUFFICES ASSUME NEW c \in Claims, Number(c) > claims[Job(c)]
               PROVE  task'[c] = "none" /\ sender'[c] = "none" /\ owner'[c] = {}
    BY DEF FutureClaimsIdle
  <2>1. task[c] = "none" /\ sender[c] = "none" /\ owner[c] = {}
    BY DEF ClaimInv, FutureClaimsIdle
  <2>2. QED
    BY <2>1
<1>4. QED
  BY <1>1, <1>2, <1>3 DEF ClaimInv

\* UpdateStatus and IncrementRetry release the row they write.
LEMMA RowWritesRelease ==
    ASSUME TypeOK, NEW i \in Jobs, NEW s \in {"SENT", "FAILED"},
           UpdateStatus(i, s) \/ IncrementRetry(i)
    PROVE  \A j \in Jobs : \/ status'[j] = status[j] /\ lockedAt'[j] = lockedAt[j]
                           \/ /\ status'[j] # "PROCESSING" /\ lockedAt'[j] = NotLocked
                              /\ status'[j] # "ABSENT"
BY DEF TypeOK, UpdateStatus, IncrementRetry

\* Every step keeps the claim numbering.
LEMMA ClaimStep == ClaimInv /\ [Next]_vars => ClaimInv'
<1> SUFFICES ASSUME ClaimInv, [Next]_vars PROVE ClaimInv'
  OBVIOUS
<1>0. TypeOK /\ TypeOK'
  BY TypeStep DEF ClaimInv
<1>1. ASSUME NEW j \in Jobs, CreateOutbox(j) \/ BackoffElapses(j) \/ LockAges(j) PROVE ClaimInv'
  <2>1. CASE CreateOutbox(j)
    <3>1. ASSUME NEW i \in Jobs
          PROVE  \/ status'[i] = status[i]
                 \/ status[i] = "ABSENT" /\ status'[i] = "PENDING"
      BY <2>1, <1>0 DEF CreateOutbox, TypeOK
    <3>2. UNCHANGED <<lockedAt, claims, taskVars>>
      BY <2>1 DEF CreateOutbox
    <3>3. \A i \in Jobs : \/ status'[i] = status[i] /\ lockedAt'[i] = lockedAt[i]
                          \/ /\ status'[i] # "PROCESSING" /\ lockedAt'[i] = NotLocked
                             /\ status'[i] # "ABSENT" \/ status[i] = "ABSENT"
                          \/ /\ status[i] = "ABSENT" /\ status'[i] = "PENDING"
                             /\ lockedAt'[i] = lockedAt[i]
      BY <3>1, <3>2
    <3>4. \A c \in Claims : task'[c] = task[c] /\ sender'[c] = sender[c]
      BY <3>2 DEF taskVars
    <3>5. UNCHANGED <<claims, owner>>
      BY <3>2 DEF taskVars
    <3>6. QED
      BY <1>0, <3>3, <3>4, <3>5, ClaimInvKept
  <2>2. CASE BackoffElapses(j) \/ LockAges(j)
    BY <2>2, <1>0, ClaimInvKept DEF BackoffElapses, LockAges, taskVars
  <2>3. QED
    BY <1>1, <2>1, <2>2
<1>2. ASSUME NEW w \in Workers, HandleQueue(w) PROVE ClaimInv'
  <2>1. PICK B \in Batches : HandleQueue(w)!2!(B)
    BY <1>2 DEF HandleQueue
  <2>2. B \subseteq Due
    BY DEF Batches
  <2>3. LockedByLastClaim'
    BY <2>1, <2>2, <1>0 DEF ClaimInv, LockedByLastClaim, Due
  <2>4. AbsentUnclaimed'
    BY <2>1, <2>2, <1>0 DEF ClaimInv, AbsentUnclaimed, Due
  <2>5. FutureClaimsIdle'
    <3> SUFFICES ASSUME NEW c \in Claims, Number(c) > claims'[Job(c)]
                 PROVE  task'[c] = "none" /\ sender'[c] = "none" /\ owner'[c] = {}
      BY DEF FutureClaimsIdle
    <3>1. Job(c) \in Jobs /\ Number(c) \in Nat
      BY ClaimParts, BoundsAssumption
    <3>2. claims[Job(c)] \in Nat
      BY <3>1, <1>0, BoundsAssumption DEF TypeOK
    <3>3. Number(c) > claims[Job(c)]
      BY <2>1, <3>1, <3>2
    <3>4. ASSUME NEW j \in B PROVE c # NextClaim(j)
      <4>1. /\ j \in Jobs
            /\ claims[j] \in 0 .. MaxClaims
            /\ claims[j] < MaxClaims
        BY <2>2, <1>0 DEF Due, TypeOK
      <4>2. claims'[j] = claims[j] + 1
        BY <2>1, <4>1
      <4>3. Job(NextClaim(j)) = j /\ Number(NextClaim(j)) = claims[j] + 1
        BY <4>1, NextClaimParts
      <4>4. QED
        BY <4>1, <4>2, <4>3, BoundsAssumption
    <3>5. task'[c] = task[c] /\ sender'[c] = sender[c] /\ owner'[c] = owner[c]
      BY <1>2, <2>1, <3>4 DEF HandleQueue
    <3>6. QED
      BY <3>3, <3>5 DEF ClaimInv, FutureClaimsIdle
  <2>6. QED
    BY <1>0, <2>3, <2>4, <2>5 DEF ClaimInv
<1>3. ASSUME NEW w \in Workers, FinishBatch(w) PROVE ClaimInv'
  BY <1>3, <1>0, ClaimInvKept DEF FinishBatch, taskVars, rowVars
<1>4. ASSUME NEW w \in Workers, Crash(w) PROVE ClaimInv'
  <2>1. UNCHANGED <<rowVars, claims, owner>>
    BY <1>4 DEF Crash
  <2>2. ASSUME NEW c \in Claims, w \notin owner[c]
        PROVE  task'[c] = task[c] /\ sender'[c] = sender[c]
    BY <1>4, <2>2 DEF Crash
  <2>3. QED
    BY <1>0, <2>1, <2>2, ClaimInvKept DEF rowVars
<1>5. ASSUME NEW c \in Claims, ProcessJob(c) PROVE ClaimInv'
  <2>1. task[c] # "none"
    BY <1>5 DEF ProcessJob, StartSend, Timeout, SaveSent, GiveUp, Exhausted, Retry,
                FailureWriteLost, EnqueuePushFallback
  <2>2. UNCHANGED <<claims, owner>>
    BY <1>5 DEF ProcessJob, StartSend, Timeout, SaveSent, GiveUp, Retry,
                FailureWriteLost, EnqueuePushFallback
  <2>3. ASSUME NEW d \in Claims, d # c
        PROVE  task'[d] = task[d] /\ sender'[d] = sender[d]
    BY <1>5, <2>3, <1>0 DEF ProcessJob, StartSend, Timeout, SaveSent, GiveUp, Retry,
                FailureWriteLost, EnqueuePushFallback, TypeOK
  <2>4. CASE UNCHANGED <<status, lockedAt>>
    BY <1>0, <2>1, <2>2, <2>3, <2>4, ClaimInvKept
  <2>5. CASE \/ UpdateStatus(Job(c), "SENT")
             \/ UpdateStatus(Job(c), "FAILED")
             \/ IncrementRetry(Job(c))
    <3>1. \A j \in Jobs : \/ status'[j] = status[j] /\ lockedAt'[j] = lockedAt[j]
                          \/ /\ status'[j] # "PROCESSING" /\ lockedAt'[j] = NotLocked
                             /\ status'[j] # "ABSENT"
      BY <1>0, <2>5, ClaimParts, RowWritesRelease
    <3>2. QED
      BY <1>0, <2>1, <2>2, <2>3, <3>1, ClaimInvKept
  <2>6. ASSUME NEW k \in Jobs, OpenFallback(Job(c), k), UNCHANGED lockedAt
        PROVE  ClaimInv'
    <3>1. ASSUME NEW i \in Jobs
          PROVE  \/ status'[i] = status[i]
                 \/ status[i] = "ABSENT" /\ status'[i] = "PENDING"
      BY <2>6, <1>0 DEF OpenFallback, TypeOK
    <3>2. \A i \in Jobs : \/ status'[i] = status[i] /\ lockedAt'[i] = lockedAt[i]
                          \/ /\ status'[i] # "PROCESSING" /\ lockedAt'[i] = NotLocked
                             /\ status'[i] # "ABSENT" \/ status[i] = "ABSENT"
                          \/ /\ status[i] = "ABSENT" /\ status'[i] = "PENDING"
                             /\ lockedAt'[i] = lockedAt[i]
      BY <2>6, <3>1
    <3>3. QED
      BY <1>0, <2>1, <2>2, <2>3, <3>2, ClaimInvKept
  <2>7. \/ UNCHANGED <<status, lockedAt>>
        \/ UpdateStatus(Job(c), "SENT")
        \/ UpdateStatus(Job(c), "FAILED")
        \/ IncrementRetry(Job(c))
        \/ UNCHANGED lockedAt /\ \E k \in Jobs : OpenFallback(Job(c), k)
    BY <1>5 DEF ProcessJob, StartSend, Timeout, SaveSent, GiveUp, Retry,
                FailureWriteLost, EnqueuePushFallback, rowVars
  <2>8. QED
    BY <2>4, <2>5, <2>6, <2>7
<1>6. ASSUME NEW c \in Claims, ProviderAnswers(c) \/ SendWithFallback(c) PROVE ClaimInv'
  <2>1. sender[c] # "none"
    BY <1>6 DEF ProviderAnswers, SendWithFallback, AlimtalkAnswers, SmsAnswers, RecordDelivery
  <2>2. UNCHANGED <<rowVars, claims, owner>>
    BY <1>6 DEF ProviderAnswers, SendWithFallback, AlimtalkAnswers, SmsAnswers, SensAnswers,
                RecordDelivery, Settle
  <2>3. ASSUME NEW d \in Claims, d # c
        PROVE  task'[d] = task[d] /\ sender'[d] = sender[d]
    BY <1>6, <2>3, <1>0 DEF ProviderAnswers, SendWithFallback, AlimtalkAnswers, SmsAnswers,
                SensAnswers, RecordDelivery, Settle, TypeOK
  <2>4. QED
    BY <1>0, <2>1, <2>2, <2>3, ClaimInvKept DEF rowVars
<1>7. CASE CleanZombies
  <2>1. ASSUME NEW j \in Jobs
        PROVE  \/ status'[j] = status[j] /\ lockedAt'[j] = lockedAt[j]
               \/ status'[j] = "PENDING" /\ lockedAt'[j] = NotLocked
    BY <1>7 DEF CleanZombies
  <2>2. QED
    BY <1>7, <1>0, <2>1, ClaimInvKept DEF CleanZombies, taskVars
<1>8. CASE UNCHANGED vars
  BY <1>8, <1>0, ClaimInvKept DEF vars, rowVars, taskVars
<1>9. QED
  BY <1>1, <1>2, <1>3, <1>4, <1>5, <1>6, <1>7, <1>8 DEF Next

\* No row, no claim, no task: the numbering starts consistent.
LEMMA ClaimInit == Init => ClaimInv
<1>1. ASSUME Init PROVE LockedByLastClaim /\ FutureClaimsIdle /\ AbsentUnclaimed
  BY <1>1, ClaimParts
     DEF Init, LockedByLastClaim, FutureClaimsIdle, AbsentUnclaimed
<1>2. QED
  BY <1>1, TypeInit DEF ClaimInv

\* Claims are numbered in order in every behaviour.
LEMMA ClaimInvariant == Spec => []ClaimInv
BY ClaimInit, ClaimStep, PTL DEF Spec

\* However late a sender answers, and whatever faults happen, it records a delivery only
\* for the latest claim of its row.
THEOREM LateRecordsAreFenced == Spec => LateRecordIsFenced
<1>1. ClaimInv /\ [Next]_vars
        => [\A c \in Claims : recorded'[c] # recorded[c] => Number(c) = claims[Job(c)]]_vars
  <2> SUFFICES ASSUME ClaimInv, Next, NEW d \in Claims, recorded'[d] # recorded[d]
               PROVE  Number(d) = claims[Job(d)]
    BY DEF vars
  <2>1. PICK c \in Claims : RecordDelivery(c)
    BY DEF Next, CreateOutbox, BackoffElapses, LockAges, HandleQueue, FinishBatch, Crash,
           ProcessJob, StartSend, Timeout, SaveSent, GiveUp, Retry, FailureWriteLost,
           EnqueuePushFallback, ProviderAnswers, SendWithFallback, AlimtalkAnswers,
           SmsAnswers, SensAnswers, CleanZombies
  <2>2. HoldsClaim(c) /\ Record(c)
    BY <2>1 DEF RecordDelivery
  <2>3. d = c
    BY <2>2 DEF Record, ClaimInv, TypeOK
  <2>4. QED
    BY <2>2, <2>3, ClaimParts DEF HoldsClaim, ClaimInv, LockedByLastClaim
<1>2. QED
  BY <1>1, ClaimInvariant, PTL DEF Spec, LateRecordIsFenced

-----------------------------------------------------------------------------
(* Exclusive claims, and the retry budget that rests on them *)

\* The timing the worker counts on: nothing is still busy with a claim 15 minutes old, and
\* a database call that throws has changed nothing.
PromptWorkers == "stall" \notin FaultKinds /\ "lostack" \notin FaultKinds

\* Only a locked row has a lock that ages.
OverdueIsLocked == \A j \in overdue : status[j] = "PROCESSING"

\* A lock is old only when nobody works under it any more.
OverdueIsIdle == \A c \in Claims : task[c] \in AtWork => Job(c) \notin overdue

\* The retry counter that handleFailure decides on is still the stored one.
SnapshotIsCurrent ==
    \A c \in Claims : task[c] \in AtWork => snapshot[c] = retryCount[Job(c)]

WorkInv == /\ ClaimInv
           /\ WorkingTaskHoldsClaim
           /\ OverdueIsLocked
           /\ OverdueIsIdle
           /\ SnapshotIsCurrent
           /\ RetryBudget

\* Every channel has a natural number of retries.
LEMMA MaxRetriesNat == \A j \in Jobs : MaxRetries(j) \in Nat
BY BoundsAssumption DEF MaxRetries

\* Two working tasks of one row are the same task.
LEMMA OneWorkingTask ==
    ASSUME WorkInv, NEW c \in Claims, NEW d \in Claims,
           task[c] \in AtWork, task[d] \in AtWork, Job(c) = Job(d)
    PROVE  c = d
BY ClaimParts DEF WorkInv, WorkingTaskHoldsClaim, HoldsClaim

\* A step may write the rows R, as long as no task goes on working on them.
LEMMA WorkKept ==
    ASSUME WorkInv, ClaimInv', NEW R \in SUBSET Jobs, UNCHANGED snapshot,
           \A j \in Jobs \ R : /\ status'[j] = status[j]
                               /\ lockedAt'[j] = lockedAt[j]
                               /\ retryCount'[j] = retryCount[j]
                               /\ j \in overdue' => j \in overdue,
           \A j \in R : /\ j \in overdue' => status'[j] = "PROCESSING"
                        /\ retryCount'[j] <= MaxRetries(j),
           \A c \in Claims : task'[c] \in AtWork => task[c] \in AtWork /\ Job(c) \notin R
    PROVE  WorkInv'
<1> USE ClaimParts
<1>1. WorkingTaskHoldsClaim'
  BY DEF WorkInv, WorkingTaskHoldsClaim, HoldsClaim
<1>2. OverdueIsLocked'
  <2>1. overdue' \subseteq Jobs
    BY DEF ClaimInv, TypeOK
  <2>2. QED
    BY <2>1 DEF WorkInv, OverdueIsLocked
<1>3. OverdueIsIdle'
  BY DEF WorkInv, OverdueIsIdle
<1>4. SnapshotIsCurrent'
  BY DEF WorkInv, SnapshotIsCurrent
<1>5. RetryBudget'
  <2>1. \A j \in Jobs : MaxRetries(j)' = MaxRetries(j)
    BY DEF MaxRetries
  <2>2. QED
    BY <2>1 DEF WorkInv, RetryBudget, MaxRetries
<1>6. QED
  BY <1>1, <1>2, <1>3, <1>4, <1>5 DEF WorkInv

\* A step that writes no row and starts no task.
LEMMA WorkKeptIdle ==
    ASSUME WorkInv, ClaimInv',
           UNCHANGED <<status, retryCount, lockedAt, overdue, snapshot>>,
           \A c \in Claims : task'[c] \in AtWork => task[c] \in AtWork
    PROVE  WorkInv'
<1>1. \A j \in Jobs \ {} : /\ status'[j] = status[j]
                          /\ lockedAt'[j] = lockedAt[j]
                          /\ retryCount'[j] = retryCount[j]
                          /\ j \in overdue' => j \in overdue
  OBVIOUS
<1>2. \A j \in {} : /\ j \in overdue' => status'[j] = "PROCESSING"
                   /\ retryCount'[j] <= MaxRetries(j)
  OBVIOUS
<1>3. \A c \in Claims : task'[c] \in AtWork => task[c] \in AtWork /\ Job(c) \notin {}
  OBVIOUS
<1>4. {} \in SUBSET Jobs
  OBVIOUS
<1>5. UNCHANGED snapshot
  OBVIOUS
<1>6. QED
  BY <1>1, <1>2, <1>3, <1>4, <1>5, WorkKept

\* The task that holds a row's claim releases the row and is done with it.
LEMMA WorkKeptRelease ==
    ASSUME WorkInv, ClaimInv', NEW c \in Claims, task[c] \in AtWork, UNCHANGED snapshot,
           NEW s \in {"SENT", "FAILED"},
           \/ UpdateStatus(Job(c), s)
           \/ IncrementRetry(Job(c)) /\ retryCount[Job(c)] < MaxRetries(Job(c)),
           \A d \in Claims : task'[d] \in AtWork => d # c /\ task[d] \in AtWork
    PROVE  WorkInv'
<1>1. Job(c) \in Jobs
  BY ClaimParts
<1>2. TypeOK /\ RetryBudget
  BY DEF WorkInv, ClaimInv
<1>3. \A j \in Jobs \ {Job(c)} : /\ status'[j] = status[j]
                                 /\ lockedAt'[j] = lockedAt[j]
                                 /\ retryCount'[j] = retryCount[j]
                                 /\ j \in overdue' => j \in overdue
  BY <1>1, <1>2 DEF UpdateStatus, IncrementRetry, TypeOK
<1>4. Job(c) \notin overdue'
  BY DEF UpdateStatus, IncrementRetry
<1>5. retryCount'[Job(c)] <= MaxRetries(Job(c))
  BY <1>1, <1>2, MaxRetriesNat DEF UpdateStatus, IncrementRetry, TypeOK, RetryBudget
<1>6. \A d \in Claims : task'[d] \in AtWork => task[d] \in AtWork /\ Job(d) \notin {Job(c)}
  BY OneWorkingTask
<1>7. QED
  BY <1>1, <1>3, <1>4, <1>5, <1>6, WorkKept

\* A step that opens or ages one row on which nobody works.
LEMMA WorkKeptRow ==
    ASSUME WorkInv, ClaimInv', NEW j \in Jobs,
           \A i \in Jobs \ {j} : status'[i] = status[i] /\ (i \in overdue' => i \in overdue),
           j \in overdue' => status'[j] = "PROCESSING",
           UNCHANGED <<retryCount, lockedAt, snapshot>>,
           \A c \in Claims : task'[c] \in AtWork => task[c] \in AtWork /\ Job(c) # j
    PROVE  WorkInv'
<1>1. \A i \in Jobs \ {j} : /\ status'[i] = status[i]
                           /\ lockedAt'[i] = lockedAt[i]
                           /\ retryCount'[i] = retryCount[i]
                           /\ i \in overdue' => i \in overdue
  OBVIOUS
<1>2. \A i \in {j} : /\ i \in overdue' => status'[i] = "PROCESSING"
                    /\ retryCount'[i] <= MaxRetries(i)
  BY DEF WorkInv, RetryBudget
<1>3. \A c \in Claims : task'[c] \in AtWork => task[c] \in AtWork /\ Job(c) \notin {j}
  OBVIOUS
<1>4. {j} \in SUBSET Jobs
  OBVIOUS
<1>5. UNCHANGED snapshot
  OBVIOUS
<1>6. QED
  BY <1>1, <1>2, <1>3, <1>4, <1>5, WorkKept

\* With prompt workers every step keeps the claims exclusive.
LEMMA WorkStep ==
    ASSUME PromptWorkers, WorkInv, [Next]_vars
    PROVE  WorkInv'
<1>0. /\ ClaimInv /\ ClaimInv' /\ TypeOK /\ TypeOK'
      /\ WorkingTaskHoldsClaim /\ OverdueIsLocked /\ RetryBudget
  BY ClaimStep DEF WorkInv, ClaimInv
<1>2. ASSUME NEW j \in Jobs, status[j] = "ABSENT"
      PROVE  j \notin overdue /\ \A c \in Claims : task[c] \in AtWork => Job(c) # j
  BY <1>0, <1>2 DEF OverdueIsLocked, WorkingTaskHoldsClaim, HoldsClaim
<1>3. ASSUME NEW j \in Jobs, CreateOutbox(j) PROVE WorkInv'
  <2>1. \A i \in Jobs \ {j} : status'[i] = status[i]
    BY <1>3, <1>0 DEF CreateOutbox, TypeOK
  <2>2. /\ status[j] = "ABSENT"
        /\ UNCHANGED <<retryCount, lockedAt, snapshot, overdue, task>>
    BY <1>3 DEF CreateOutbox, taskVars
  <2>3. QED
    BY <1>0, <1>2, <2>1, <2>2, WorkKeptRow
<1>4. ASSUME NEW j \in Jobs, BackoffElapses(j) PROVE WorkInv'
  <2>1. UNCHANGED <<status, retryCount, lockedAt, overdue, task, snapshot>>
    BY <1>4 DEF BackoffElapses, taskVars
  <2>2. QED
    BY <1>0, <2>1, WorkKeptIdle
<1>5. ASSUME NEW j \in Jobs, LockAges(j) PROVE WorkInv'
  <2>1. \A c \in Claims : task[c] \in AtWork => Job(c) # j
    BY <1>5 DEF LockAges, PromptWorkers, Fault
  <2>2. /\ status[j] = "PROCESSING" /\ overdue' = overdue \cup {j}
        /\ UNCHANGED <<status, retryCount, lockedAt, snapshot, task>>
    BY <1>5 DEF LockAges, taskVars
  <2>3. QED
    BY <1>0, <2>1, <2>2, WorkKeptRow
<1>6. ASSUME NEW w \in Workers, HandleQueue(w) PROVE WorkInv'
  <2>1. PICK B \in Batches : HandleQueue(w)!2!(B)
    BY <1>6 DEF HandleQueue
  <2>2. \A j \in B : j \in Jobs /\ status[j] # "PROCESSING" /\ claims[j] < MaxClaims
    BY DEF Batches, Due, Claimable
  <2>3. UNCHANGED <<retryCount, overdue>>
    BY <1>6 DEF HandleQueue
  <2>4. ASSUME NEW c \in Claims, task'[c] \in AtWork
        PROVE  /\ HoldsClaim(c)'
               /\ Job(c) \notin overdue'
               /\ snapshot'[c] = retryCount'[Job(c)]
    <3>1. CASE c \in {NextClaim(j) : j \in B}
      <4>1. PICK j \in B : c = NextClaim(j)
        BY <3>1
      <4>2. Job(c) = j /\ Number(c) = claims[j] + 1
        BY <4>1, <2>2, <1>0, NextClaimParts DEF TypeOK
      <4>3. HoldsClaim(c)'
        BY <4>2, <2>1, <2>2 DEF HoldsClaim
      <4>4. QED
        BY <4>2, <4>3, <3>1, <2>1, <2>2, <2>3, <1>0 DEF OverdueIsLocked
    <3>2. CASE c \notin {NextClaim(j) : j \in B}
      <4>1. task[c] \in AtWork /\ snapshot'[c] = snapshot[c]
        BY <3>2, <2>1, <2>4
      <4>2. HoldsClaim(c) /\ Job(c) \in Jobs /\ Job(c) \notin B
        BY <4>1, <2>2, <1>0, ClaimParts DEF WorkingTaskHoldsClaim, HoldsClaim
      <4>3. HoldsClaim(c)'
        BY <4>2, <2>1 DEF HoldsClaim
      <4>4. QED
        BY <4>1, <4>3, <2>3 DEF WorkInv, OverdueIsIdle, SnapshotIsCurrent
    <3>3. QED
      BY <3>1, <3>2
  <2>5. OverdueIsLocked'
    BY <2>1, <2>3, <1>0 DEF OverdueIsLocked, TypeOK
  <2>6. RetryBudget'
    BY <2>3, <1>0 DEF RetryBudget, MaxRetries
  <2>7. QED
    BY <1>0, <2>4, <2>5, <2>6 DEF WorkInv, WorkingTaskHoldsClaim, OverdueIsIdle, SnapshotIsCurrent
<1>7. ASSUME NEW w \in Workers, FinishBatch(w) \/ Crash(w) PROVE WorkInv'
  BY <1>0, <1>7, WorkKeptIdle DEF FinishBatch, Crash, rowVars, taskVars, AtWork
<1>8. ASSUME NEW c \in Claims, ProcessJob(c) PROVE WorkInv'
  <2>0. /\ Job(c) \in Jobs
        /\ task[c] # "falling" => task[c] \in AtWork
        /\ UNCHANGED snapshot
        /\ \A d \in Claims : task'[d] \in AtWork => task[d] \in AtWork
    BY <1>8, <1>0, ClaimParts
       DEF ProcessJob, StartSend, Timeout, SaveSent, GiveUp, Exhausted, AfterGiveUp, Retry,
           FailureWriteLost, EnqueuePushFallback, AtWork, TypeOK
  <2>1. CASE UNCHANGED rowVars
    BY <1>0, <2>0, <2>1, WorkKeptIdle DEF rowVars
  <2>2. CASE /\ task[c] = "saving" /\ UpdateStatus(Job(c), "SENT")
             /\ task' = [task EXCEPT ![c] = "settled"]
    <3>1. task[c] \in AtWork
      BY <2>2 DEF AtWork
    <3>2. \A d \in Claims : task'[d] \in AtWork => d # c
      BY <1>0, <2>2 DEF AtWork, TypeOK
    <3>3. QED
      BY <1>0, <2>0, <2>2, <3>1, <3>2, WorkKeptRelease
  <2>3. CASE GiveUp(c)
    <3>1. task[c] \in AtWork /\ UpdateStatus(Job(c), "FAILED")
      BY <2>3 DEF GiveUp, Exhausted, AtWork
    <3>2. \A d \in Claims : task'[d] \in AtWork => d # c
      BY <1>0, <2>3 DEF GiveUp, AfterGiveUp, AtWork, TypeOK
    <3>3. QED
      BY <1>0, <2>0, <3>1, <3>2, WorkKeptRelease
  <2>4. CASE Retry(c)
    <3>1. task[c] \in AtWork /\ IncrementRetry(Job(c))
      BY <2>4 DEF Retry, AtWork
    <3>2. \A d \in Claims : task'[d] \in AtWork => d # c
      BY <1>0, <2>4 DEF Retry, AtWork, TypeOK
    <3>3. retryCount[Job(c)] < MaxRetries(Job(c))
      <4>1. ~ (snapshot[c] >= MaxRetries(Job(c)))
        BY <2>4 DEF Retry, Exhausted
      <4>2. snapshot[c] = retryCount[Job(c)] /\ retryCount[Job(c)] \in Nat
        BY <1>0, <2>0, <3>1 DEF WorkInv, SnapshotIsCurrent, TypeOK
      <4>3. QED
        BY <2>0, <4>1, <4>2, MaxRetriesNat
    <3>4. QED
      BY <1>0, <2>0, <3>1, <3>2, <3>3, WorkKeptRelease
  <2>5. CASE EnqueuePushFallback(c)
    <3>1. UNCHANGED <<retryCount, lockedAt, overdue, snapshot>>
      BY <2>5 DEF EnqueuePushFallback
    <3>2. ASSUME NEW k \in Jobs, OpenFallback(Job(c), k) PROVE WorkInv'
      <4>1. status[k] = "ABSENT" /\ \A i \in Jobs \ {k} : status'[i] = status[i]
        BY <3>2, <1>0 DEF OpenFallback, TypeOK
      <4>2. QED
        BY <1>0, <1>2, <2>0, <3>1, <4>1, WorkKeptRow
    <3>3. CASE UNCHANGED status
      <4>1. UNCHANGED <<status, retryCount, lockedAt, overdue, snapshot>>
        BY <3>1, <3>3
      <4>2. QED
        BY <1>0, <2>0, <4>1, WorkKeptIdle
    <3>4. QED
      BY <2>5, <3>2, <3>3 DEF EnqueuePushFallback
  <2>6. QED
    BY <1>8, <2>1, <2>2, <2>3, <2>4, <2>5
       DEF ProcessJob, StartSend, Timeout, SaveSent, FailureWriteLost, PromptWorkers, Fault
<1>9. ASSUME NEW c \in Claims, ProviderAnswers(c) \/ SendWithFallback(c) PROVE WorkInv'
  <2>1. \A d \in Claims : task'[d] \in AtWork => task[d] \in AtWork
    BY <1>9, <1>0 DEF ProviderAnswers, SendWithFallback, AlimtalkAnswers, SmsAnswers, SensAnswers,
                RecordDelivery, Settle, AtWork, TypeOK
  <2>2. UNCHANGED <<rowVars, snapshot>>
    BY <1>9 DEF ProviderAnswers, SendWithFallback, AlimtalkAnswers, SmsAnswers, SensAnswers,
                RecordDelivery, Settle
  <2>3. QED
    BY <1>0, <2>1, <2>2, WorkKeptIdle DEF rowVars
<1>10. CASE CleanZombies
  <2>1. Zombies \in SUBSET Jobs
    BY <1>0 DEF Zombies, TypeOK
  <2>2. \A c \in Claims : task'[c] \in AtWork => task[c] \in AtWork /\ Job(c) \notin Zombies
    BY <1>10 DEF CleanZombies, taskVars, WorkInv, OverdueIsIdle, Zombies
  <2>3. \A j \in Jobs \ Zombies : /\ status'[j] = status[j]
                                  /\ lockedAt'[j] = lockedAt[j]
                                  /\ retryCount'[j] = retryCount[j]
                                  /\ j \in overdue' => j \in overdue
    BY <1>10 DEF CleanZombies
  <2>4. \A j \in Zombies : /\ j \in overdue' => status'[j] = "PROCESSING"
                           /\ retryCount'[j] <= MaxRetries(j)
    BY <1>10, <1>0, <2>1 DEF CleanZombies, RetryBudget
  <2>5. UNCHANGED snapshot
    BY <1>10 DEF CleanZombies, taskVars
  <2>6. QED
    BY <1>0, <2>1, <2>2, <2>3, <2>4, <2>5, WorkKept
<1>11. CASE UNCHANGED vars
  BY <1>0, <1>11, WorkKeptIdle DEF vars, rowVars, taskVars
<1>12. QED
  BY <1>3, <1>4, <1>5, <1>6, <1>7, <1>8, <1>9, <1>10, <1>11 DEF Next

\* Nobody works before the first claim.
LEMMA WorkInit == Init => WorkInv
<1>1. ASSUME Init
      PROVE  WorkingTaskHoldsClaim /\ OverdueIsLocked /\ OverdueIsIdle /\ SnapshotIsCurrent
  BY <1>1 DEF Init, WorkingTaskHoldsClaim, OverdueIsLocked, OverdueIsIdle,
              SnapshotIsCurrent, AtWork
<1>2. Init => RetryBudget
  BY MaxRetriesNat DEF Init, RetryBudget
<1>3. QED
  BY <1>1, <1>2, ClaimInit DEF WorkInv

\* The strengthened invariant holds with prompt workers.
LEMMA WorkInvariant ==
    ASSUME PromptWorkers
    PROVE  Spec => []WorkInv
<1>1. WorkInv /\ [Next]_vars => WorkInv'
  BY WorkStep
<1>2. QED
  BY <1>1, WorkInit, PTL DEF Spec

\* With prompt workers, a task only ever writes a row that is PROCESSING under the task's
\* own claim: updateStatus and incrementRetry need no fence of their own.
THEOREM ClaimsAreExclusive ==
    ASSUME PromptWorkers
    PROVE  Spec => []WorkingTaskHoldsClaim
<1>1. WorkInv => WorkingTaskHoldsClaim
  BY DEF WorkInv
<1>2. QED
  BY <1>1, WorkInvariant, PTL

\* With prompt workers, the retry counter never exceeds the channel's budget, although it
\* is compared in the worker's memory and incremented in the database.
THEOREM RetriesStayInBudget ==
    ASSUME PromptWorkers
    PROVE  Spec => []RetryBudget
<1>1. WorkInv => RetryBudget
  BY DEF WorkInv
<1>2. QED
  BY <1>1, WorkInvariant, PTL

-----------------------------------------------------------------------------
(* The delivery contract *)

\* A row is about to be saved as SENT, or a delivery recorded as SENT, only after a
\* provider has accepted its message.
AcceptedFirst ==
    \A c \in Claims : task[c] = "saving" \/ sender[c] = "recordSent" => copies[Job(c)] > 0

\* A task that is about to enqueue a fallback is the only one to do so, for a FAILED row
\* that has no fallback yet.
FallingOnce ==
    \A c \in Claims : task[c] = "falling" =>
        /\ status[Job(c)] = "FAILED"
        /\ \A k \in Jobs : parent[k] # Job(c)
        /\ \A d \in Claims : task[d] = "falling" /\ Job(d) = Job(c) => d = c

\* Only a FAILED row has a fallback.
ParentFailed == \A k \in Jobs : parent[k] \in Jobs => status[parent[k]] = "FAILED"

ContractInv == WorkInv /\ AcceptedFirst /\ FallingOnce /\ ParentFailed

\* The columns a step may write, for the row of a claim: a working task holds its row.
LEMMA WorkingRowIsProcessing ==
    ASSUME WorkInv, NEW c \in Claims, task[c] \in AtWork
    PROVE  status[Job(c)] = "PROCESSING"
BY DEF WorkInv, WorkingTaskHoldsClaim, HoldsClaim

\* A row that is FAILED stays FAILED, and one that is SENT stays SENT.
LEMMA ClosedIsFinal ==
    ASSUME WorkInv, [Next]_vars, NEW j \in Jobs, status[j] \in {"SENT", "FAILED"}
    PROVE  status'[j] = status[j]
<1>0. TypeOK
  BY DEF WorkInv, ClaimInv
<1>1. ASSUME NEW i \in Jobs, CreateOutbox(i) \/ BackoffElapses(i) \/ LockAges(i)
      PROVE  status'[j] = status[j]
  BY <1>0, <1>1 DEF CreateOutbox, BackoffElapses, LockAges, TypeOK
<1>2. ASSUME NEW w \in Workers, HandleQueue(w) PROVE status'[j] = status[j]
  <2>1. PICK B \in Batches : HandleQueue(w)!2!(B)
    BY <1>2 DEF HandleQueue
  <2>2. j \notin B
    BY DEF Batches, Due, Claimable
  <2>3. QED
    BY <2>1, <2>2
<1>3. ASSUME NEW w \in Workers, FinishBatch(w) \/ Crash(w) PROVE status'[j] = status[j]
  BY <1>3 DEF FinishBatch, Crash, rowVars
<1>4. ASSUME NEW c \in Claims, ProcessJob(c) PROVE status'[j] = status[j]
  <2>1. CASE UNCHANGED status
    BY <2>1
  <2>2. CASE SaveSent(c) \/ GiveUp(c) \/ Retry(c)
    <3>1. status[Job(c)] = "PROCESSING"
      BY <2>2, WorkingRowIsProcessing DEF SaveSent, GiveUp, Retry, Exhausted, AtWork
    <3>2. QED
      BY <1>0, <2>2, <3>1
         DEF SaveSent, GiveUp, Retry, UpdateStatus, IncrementRetry, TypeOK, rowVars
  <2>3. CASE EnqueuePushFallback(c)
    BY <1>0, <2>3 DEF EnqueuePushFallback, OpenFallback, TypeOK
  <2>4. QED
    BY <1>4, <2>1, <2>2, <2>3 DEF ProcessJob, StartSend, Timeout, FailureWriteLost, rowVars
<1>5. ASSUME NEW c \in Claims, ProviderAnswers(c) \/ SendWithFallback(c)
      PROVE  status'[j] = status[j]
  BY <1>5 DEF ProviderAnswers, SendWithFallback, AlimtalkAnswers, SmsAnswers, SensAnswers,
              RecordDelivery, rowVars
<1>6. CASE CleanZombies
  BY <1>6 DEF CleanZombies, Zombies
<1>7. CASE UNCHANGED vars
  BY <1>7 DEF vars, rowVars
<1>8. QED
  BY <1>1, <1>2, <1>3, <1>4, <1>5, <1>6, <1>7 DEF Next

\* Accepted messages are only ever counted up.
LEMMA CopiesGrow ==
    ASSUME TypeOK, [Next]_vars, NEW j \in Jobs, copies[j] > 0
    PROVE  copies'[j] > 0
<1>1. UNCHANGED copies \/ \E c \in Claims : AcceptCopy(c)
  BY DEF Next, CreateOutbox, BackoffElapses, LockAges, HandleQueue, FinishBatch, Crash,
         ProcessJob, StartSend, Timeout, SaveSent, GiveUp, Retry, FailureWriteLost,
         EnqueuePushFallback, ProviderAnswers, SendWithFallback, AlimtalkAnswers,
         SmsAnswers, SensAnswers, RecordDelivery, CleanZombies, vars
<1>2. QED
  BY <1>1, ClaimParts DEF TypeOK, AcceptCopy

\* A task starts to fall back only by giving up on a row that was PROCESSING.
LEMMA StartsFalling ==
    ASSUME WorkInv, [Next]_vars, NEW c \in Claims, task[c] # "falling", task'[c] = "falling"
    PROVE  /\ status[Job(c)] = "PROCESSING" /\ status'[Job(c)] = "FAILED"
           /\ UNCHANGED parent
           /\ \A d \in Claims \ {c} : task'[d] = task[d]
<1>0. TypeOK
  BY DEF WorkInv, ClaimInv
<1>1. GiveUp(c)
  BY <1>0 DEF Next, CreateOutbox, BackoffElapses, LockAges, HandleQueue, FinishBatch, Crash,
         ProcessJob, StartSend, Timeout, SaveSent, GiveUp, Retry, FailureWriteLost,
         EnqueuePushFallback, ProviderAnswers, SendWithFallback, AlimtalkAnswers, Settle,
         SmsAnswers, SensAnswers, RecordDelivery, Verdict, CleanZombies, vars, taskVars, TypeOK
<1>2. status[Job(c)] = "PROCESSING"
  BY <1>1, WorkingRowIsProcessing DEF GiveUp, Exhausted, AtWork
<1>3. QED
  BY <1>0, <1>1, <1>2, ClaimParts DEF GiveUp, UpdateStatus, TypeOK

\* A fallback is opened by the one task that stands before it.
LEMMA OpensFallback ==
    ASSUME WorkInv, [Next]_vars, NEW k \in Jobs, parent'[k] # parent[k]
    PROVE  \E c \in Claims :
             /\ task[c] = "falling" /\ task'[c] = "settled"
             /\ parent' = [parent EXCEPT ![k] = Job(c)]
             /\ \A d \in Claims \ {c} : task'[d] = task[d]
<1>0. TypeOK
  BY DEF WorkInv, ClaimInv
<1>1. PICK c \in Claims : EnqueuePushFallback(c)
  BY DEF Next, CreateOutbox, BackoffElapses, LockAges, HandleQueue, FinishBatch, Crash,
         ProcessJob, StartSend, Timeout, SaveSent, GiveUp, Retry, FailureWriteLost,
         ProviderAnswers, SendWithFallback, AlimtalkAnswers, SmsAnswers, SensAnswers,
         RecordDelivery, CleanZombies, vars
<1>2. PICK i \in Jobs : OpenFallback(Job(c), i)
  BY <1>1 DEF EnqueuePushFallback
<1>3. i = k
  BY <1>0, <1>2 DEF OpenFallback, TypeOK
<1>4. QED
  BY <1>0, <1>1, <1>2, <1>3 DEF EnqueuePushFallback, OpenFallback, TypeOK

\* Every step keeps acceptance before saving, and at most one fallback per FAILED row.
LEMMA ContractStep ==
    ASSUME PromptWorkers, ContractInv, [Next]_vars
    PROVE  ContractInv'
<1>0. /\ WorkInv /\ WorkInv' /\ TypeOK /\ TypeOK' /\ AcceptedFirst /\ FallingOnce /\ ParentFailed
  BY WorkStep DEF ContractInv, WorkInv, ClaimInv
<1>1. AcceptedFirst'
  <2> SUFFICES ASSUME NEW c \in Claims, task'[c] = "saving" \/ sender'[c] = "recordSent"
               PROVE  copies'[Job(c)] > 0
    BY DEF AcceptedFirst
  <2>1. CASE task[c] = "saving" \/ sender[c] = "recordSent"
    BY <1>0, <2>1, ClaimParts, CopiesGrow DEF AcceptedFirst
  <2>2. CASE ~ (task[c] = "saving" \/ sender[c] = "recordSent")
    <3>1. AcceptCopy(c)
      BY <1>0, <2>2 DEF Next, CreateOutbox, BackoffElapses, LockAges, HandleQueue,
         FinishBatch, Crash, ProcessJob, StartSend, FirstCall, Timeout, SaveSent, GiveUp,
         AfterGiveUp, Retry, FailureWriteLost, EnqueuePushFallback, ProviderAnswers,
         SendWithFallback, AlimtalkAnswers, SmsAnswers, SensAnswers, RecordDelivery, Verdict,
         Settle, CleanZombies, vars, taskVars, TypeOK
    <3>2. QED
      BY <1>0, <3>1, ClaimParts DEF AcceptCopy, TypeOK
  <2>3. QED
    BY <2>1, <2>2
<1>2. FallingOnce'
  <2> SUFFICES ASSUME NEW c \in Claims, task'[c] = "falling"
               PROVE  /\ status'[Job(c)] = "FAILED"
                      /\ \A k \in Jobs : parent'[k] # Job(c)
                      /\ \A d \in Claims : task'[d] = "falling" /\ Job(d) = Job(c) => d = c
    BY DEF FallingOnce
  <2>0. Job(c) \in Jobs
    BY ClaimParts
  <2>1. CASE task[c] = "falling"
    <3>1. status[Job(c)] = "FAILED" /\ status'[Job(c)] = "FAILED"
      BY <1>0, <2>0, <2>1, ClosedIsFinal DEF FallingOnce
    <3>2. \A k \in Jobs : parent'[k] # Job(c)
      BY <1>0, <2>0, <2>1, OpensFallback DEF FallingOnce, TypeOK
    <3>3. \A d \in Claims : task'[d] = "falling" /\ Job(d) = Job(c) => d = c
      BY <1>0, <2>1, <3>1, StartsFalling DEF FallingOnce
    <3>4. QED
      BY <3>1, <3>2, <3>3
  <2>2. CASE task[c] # "falling"
    <3>1. /\ status[Job(c)] = "PROCESSING" /\ status'[Job(c)] = "FAILED"
          /\ UNCHANGED parent
          /\ \A d \in Claims \ {c} : task'[d] = task[d]
      BY <1>0, <2>2, StartsFalling
    <3>2. \A k \in Jobs : parent'[k] # Job(c)
      BY <1>0, <2>0, <3>1 DEF ParentFailed
    <3>3. \A d \in Claims : task'[d] = "falling" /\ Job(d) = Job(c) => d = c
      BY <1>0, <3>1 DEF FallingOnce
    <3>4. QED
      BY <3>1, <3>2, <3>3
  <2>3. QED
    BY <2>1, <2>2
<1>3. ParentFailed'
  <2> SUFFICES ASSUME NEW k \in Jobs, parent'[k] \in Jobs
               PROVE  status'[parent'[k]] = "FAILED"
    BY DEF ParentFailed
  <2>1. CASE parent'[k] = parent[k]
    BY <1>0, <2>1, ClosedIsFinal DEF ParentFailed
  <2>2. CASE parent'[k] # parent[k]
    <3>1. PICK c \in Claims : task[c] = "falling" /\ parent' = [parent EXCEPT ![k] = Job(c)]
      BY <1>0, <2>2, OpensFallback
    <3>2. parent'[k] = Job(c) /\ status[Job(c)] = "FAILED"
      BY <1>0, <3>1 DEF FallingOnce, TypeOK
    <3>3. QED
      BY <1>0, <3>2, ClaimParts, ClosedIsFinal
  <2>3. QED
    BY <2>1, <2>2
<1>4. QED
  BY <1>0, <1>1, <1>2, <1>3 DEF ContractInv

\* The contract's state when no row changes its phase.
LEMMA PhaseKept ==
    ASSUME \A j \in Jobs : Phase(status'[j]) = Phase(status[j])
    PROVE  phaseOf' = phaseOf
BY DEF phaseOf

\* The contract's state when one row is written.
LEMMA PhaseWritten ==
    ASSUME TypeOK, NEW i \in Jobs, NEW s \in Statuses, status' = [status EXCEPT ![i] = s]
    PROVE  phaseOf' = [phaseOf EXCEPT ![i] = Phase(s)]
<1>1. \A j \in Jobs : Phase(status'[j]) = IF j = i THEN Phase(s) ELSE Phase(status[j])
  BY DEF TypeOK
<1>2. [phaseOf EXCEPT ![i] = Phase(s)]
        = [j \in Jobs |-> IF j = i THEN Phase(s) ELSE Phase(status[j])]
  BY DEF phaseOf
<1>3. phaseOf' = [j \in Jobs |-> IF j = i THEN Phase(s) ELSE Phase(status[j])]
  BY <1>1 DEF phaseOf
<1>4. QED
  BY <1>2, <1>3

\* Every step of the outbox is a step of the contract or leaves its state alone.
LEMMA ContractRefinement ==
    ASSUME PromptWorkers, ContractInv, [Next]_vars
    PROVE  [Contract!Next]_(Contract!contractVars)
<1>0. /\ WorkInv /\ TypeOK /\ AcceptedFirst /\ FallingOnce
  BY DEF ContractInv, WorkInv, ClaimInv
<1>1. ASSUME \A j \in Jobs : Phase(status'[j]) = Phase(status[j]), UNCHANGED <<copies, parent>>
      PROVE  UNCHANGED Contract!contractVars
  BY <1>1, PhaseKept DEF Contract!contractVars
<1>2. ASSUME NEW j \in Jobs, CreateOutbox(j) PROVE Contract!Open(j)
  <2>1. phaseOf' = [phaseOf EXCEPT ![j] = "open"]
    BY <1>0, <1>2, PhaseWritten DEF CreateOutbox, Statuses, Phase
  <2>2. phaseOf[j] = "absent"
    BY <1>2 DEF CreateOutbox, phaseOf, Phase
  <2>3. QED
    BY <1>2, <2>1, <2>2 DEF CreateOutbox, Contract!Open
<1>3. ASSUME NEW j \in Jobs, BackoffElapses(j) \/ LockAges(j)
      PROVE  UNCHANGED Contract!contractVars
  BY <1>1, <1>3 DEF BackoffElapses, LockAges
<1>4. ASSUME NEW w \in Workers, HandleQueue(w) PROVE UNCHANGED Contract!contractVars
  <2>1. PICK B \in Batches : HandleQueue(w)!2!(B)
    BY <1>4 DEF HandleQueue
  <2>2. \A j \in B : Phase(status[j]) = "open"
    BY DEF Batches, Due, Claimable, Phase
  <2>3. \A j \in Jobs : Phase(status'[j]) = Phase(status[j])
    BY <2>1, <2>2 DEF Phase
  <2>4. QED
    BY <1>1, <1>4, <2>3 DEF HandleQueue
<1>5. ASSUME NEW w \in Workers, FinishBatch(w) \/ Crash(w)
      PROVE  UNCHANGED Contract!contractVars
  BY <1>1, <1>5 DEF FinishBatch, Crash, rowVars
<1>6. ASSUME NEW c \in Claims, ProcessJob(c) PROVE [Contract!Next]_(Contract!contractVars)
  <2> DEFINE j == Job(c)
  <2>0. j \in Jobs
    BY ClaimParts
  <2>1. CASE UNCHANGED <<status, copies, parent>>
    BY <1>1, <2>1
  <2>2. CASE task[c] = "saving" /\ UpdateStatus(j, "SENT") /\ UNCHANGED <<copies, parent>>
    <3>1. status[j] = "PROCESSING" /\ copies[j] > 0
      BY <1>0, <2>2, WorkingRowIsProcessing DEF AtWork, AcceptedFirst
    <3>2. phaseOf' = [phaseOf EXCEPT ![j] = "sent"]
      BY <1>0, <2>0, <2>2, PhaseWritten DEF UpdateStatus, Statuses, Phase
    <3>3. phaseOf[j] = "open"
      BY <2>0, <3>1 DEF phaseOf, Phase
    <3>4. Contract!CloseSent(j)
      BY <2>2, <3>1, <3>2, <3>3 DEF Contract!CloseSent
    <3>5. QED
      BY <2>0, <3>4 DEF Contract!Next
  <2>3. CASE GiveUp(c)
    <3>1. status[j] = "PROCESSING"
      BY <1>0, <2>3, WorkingRowIsProcessing DEF GiveUp, Exhausted, AtWork
    <3>2. phaseOf' = [phaseOf EXCEPT ![j] = "failed"]
      BY <1>0, <2>0, <2>3, PhaseWritten DEF GiveUp, UpdateStatus, Statuses, Phase
    <3>3. phaseOf[j] = "open"
      BY <2>0, <3>1 DEF phaseOf, Phase
    <3>4. Contract!CloseFailed(j)
      BY <2>3, <3>2, <3>3 DEF GiveUp, Contract!CloseFailed
    <3>5. QED
      BY <2>0, <3>4 DEF Contract!Next
  <2>4. CASE Retry(c)
    <3>1. status[j] = "PROCESSING"
      BY <1>0, <2>4, WorkingRowIsProcessing DEF Retry, AtWork
    <3>2. \A i \in Jobs : Phase(status'[i]) = Phase(status[i])
      BY <1>0, <2>4, <3>1 DEF Retry, IncrementRetry, Phase, TypeOK
    <3>3. QED
      BY <1>1, <2>4, <3>2 DEF Retry
  <2>5. CASE EnqueuePushFallback(c)
    <3>1. ASSUME NEW k \in Jobs, OpenFallback(j, k) PROVE Contract!FallBack(j, k)
      <4>1. task[c] = "falling" /\ UNCHANGED copies
        BY <2>5 DEF EnqueuePushFallback
      <4>2. status[j] = "FAILED" /\ \A i \in Jobs : parent[i] # j
        BY <1>0, <4>1 DEF FallingOnce
      <4>3. phaseOf' = [phaseOf EXCEPT ![k] = "open"]
        BY <1>0, <3>1, PhaseWritten DEF OpenFallback, Statuses, Phase
      <4>4. phaseOf[j] = "failed" /\ phaseOf[k] = "absent"
        BY <2>0, <3>1, <4>2 DEF OpenFallback, phaseOf, Phase
      <4>5. QED
        BY <3>1, <4>1, <4>2, <4>3, <4>4 DEF OpenFallback, Contract!FallBack
    <3>2. QED
      BY <2>0, <2>1, <2>5, <3>1 DEF EnqueuePushFallback, Contract!Next
  <2>6. QED
    BY <1>6, <2>1, <2>2, <2>3, <2>4, <2>5
       DEF ProcessJob, StartSend, Timeout, SaveSent, FailureWriteLost, rowVars
<1>7. ASSUME NEW c \in Claims, ProviderAnswers(c) \/ SendWithFallback(c)
      PROVE  [Contract!Next]_(Contract!contractVars)
  <2>0. Job(c) \in Jobs
    BY ClaimParts
  <2>1. UNCHANGED <<status, parent>>
    BY <1>7 DEF ProviderAnswers, SendWithFallback, AlimtalkAnswers, SmsAnswers, SensAnswers,
                RecordDelivery, rowVars
  <2>2. CASE UNCHANGED copies
    BY <1>1, <2>1, <2>2
  <2>3. CASE AcceptCopy(c) /\ sender[c] # "none"
    <3>1. status[Job(c)] # "ABSENT"
      BY <1>0, <2>3, RunningIsClaimed DEF WorkInv
    <3>2. status[Job(c)] \in Statuses
      BY <1>0, <2>0 DEF TypeOK
    <3>3. phaseOf[Job(c)] # "absent"
      BY <2>0, <3>1, <3>2 DEF phaseOf, Phase, Statuses
    <3>4. phaseOf' = phaseOf
      BY <2>1 DEF phaseOf
    <3>5. Contract!Accept(Job(c))
      BY <2>1, <2>3, <3>3, <3>4 DEF AcceptCopy, Contract!Accept
    <3>6. QED
      BY <2>0, <3>5 DEF Contract!Next
  <2>4. QED
    BY <1>7, <2>2, <2>3 DEF ProviderAnswers, SendWithFallback, AlimtalkAnswers, SmsAnswers,
                            SensAnswers, RecordDelivery
<1>8. CASE CleanZombies
  <2>1. \A j \in Jobs : Phase(status'[j]) = Phase(status[j])
    BY <1>8 DEF CleanZombies, Zombies, Phase
  <2>2. QED
    BY <1>1, <1>8, <2>1 DEF CleanZombies
<1>9. CASE UNCHANGED vars
  BY <1>1, <1>9 DEF vars, rowVars
<1>10. QED
  BY <1>2, <1>3, <1>4, <1>5, <1>6, <1>7, <1>8, <1>9 DEF Next, Contract!Next

\* With prompt workers the outbox, with all its claims, retries, timeouts and crashes,
\* implements the delivery contract: closed rows stay closed, SENT means accepted, and a
\* failed push is replaced at most once.
THEOREM OutboxKeepsContract ==
    ASSUME PromptWorkers
    PROVE  Spec => KeepsContract
<1>1. Init => ContractInv
  BY WorkInit, JobsAssumption DEF Init, ContractInv, AcceptedFirst, FallingOnce, ParentFailed
<1>2. Init => Contract!Init
  BY DEF Init, Contract!Init, phaseOf, Phase
<1>3. ContractInv /\ [Next]_vars => ContractInv'
  BY ContractStep
<1>4. ContractInv /\ [Next]_vars => [Contract!Next]_(Contract!contractVars)
  BY ContractRefinement
<1>5. QED
  BY <1>1, <1>2, <1>3, <1>4, PTL DEF Spec, KeepsContract, Contract!Spec
===========================================================================
