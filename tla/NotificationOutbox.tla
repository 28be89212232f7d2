------------------------ MODULE NotificationOutbox ------------------------
(***************************************************************************)
(* The transactional notification outbox and the workers that drain it:    *)
(* NotificationWorkerService (claim, dispatch, retry, push fallback, reap),*)
(* NotificationSenderService (Alimtalk, then SMS, then the fenced delivery *)
(* record) and the part of NotificationRepository they run on.             *)
(*                                                                         *)
(* Every application replica runs one worker.  A claim <<j, n>> is the     *)
(* n-th time row j was claimed; its number stands for the lockedAt value   *)
(* claimPendingBatch stamps.  Each claim has a task (the processJob call)  *)
(* and a sender (the promise raced against the 15 s timer), because a      *)
(* sender that loses the race lives on as an orphan.                       *)
(*                                                                         *)
(* Clocks are abstracted to two sets: rows whose nextRetryAt is still in   *)
(* the future, and rows whose lock is older than STUCK_THRESHOLD_MS.       *)
(***************************************************************************)
EXTENDS Naturals, FiniteSets

CONSTANTS
    Jobs,              \* ids of notification_outbox rows
    NoJob,             \* not a row: "this row is nobody's fallback"
    Published,         \* the rows publish() writes; the others wait to be fallback rows
    Channel,           \* [Jobs -> {"PUSH", "EMAIL", "KAKAO", "SMS"}]
    Priority,          \* [Jobs -> Nat], the priority column
    Reachable,         \* push rows whose user allows KAKAO and has a full phone number
    EventRows,         \* rows whose id also has a notification_events row
    Workers,           \* application replicas, one NotificationWorkerService each
    BatchLimit,        \* argument of claimPendingBatch (10 in the code)
    PushMaxRetries,    \* PUSH_MAX_RETRIES (1 in the code)
    DefaultMaxRetries, \* DEFAULT_MAX_RETRIES (3 in the code)
    MaxClaims,         \* bound: how often one row may be claimed
    FaultKinds,        \* the kinds of fault that may happen
    MaxFaults          \* bound: how many faults may happen in all

Channels == {"PUSH", "EMAIL", "KAKAO", "SMS"}

\* hang:    a send outlives SENDER_TIMEOUT_MS
\* crash:   a replica dies and is started again
\* db:      a database call throws and has changed nothing
\* lostack: a database call throws although its change was committed
\* vendor:  a provider accepts a message and its answer is lost or is an error
\* stall:   a worker is still busy with a claim 15 minutes old
AllFaults == {"hang", "crash", "db", "lostack", "vendor", "stall"}

ASSUME JobsAssumption ==
    /\ IsFiniteSet(Jobs)
    /\ NoJob \notin Jobs
    /\ Published \subseteq Jobs
    /\ EventRows \subseteq Jobs
    /\ Reachable \subseteq Jobs
    /\ Channel \in [Jobs -> Channels]
    /\ Priority \in [Jobs -> Nat]

ASSUME BoundsAssumption ==
    /\ BatchLimit \in Nat \ {0}
    /\ PushMaxRetries \in Nat
    /\ DefaultMaxRetries \in Nat
    /\ MaxClaims \in Nat \ {0}
    /\ MaxFaults \in Nat
    /\ FaultKinds \subseteq AllFaults

Claims == Jobs \X (1 .. MaxClaims)
Job(c) == c[1]
Number(c) == c[2]
NotLocked == 0     \* lockedAt IS NULL

VARIABLES
    \* columns of notification_outbox
    status, retryCount, lockedAt,
    waiting,    \* rows with next_retry_at > NOW()
    overdue,    \* rows locked for longer than STUCK_THRESHOLD_MS
    parent,     \* which push row a fallback row was enqueued for (not stored by the code)
    \* the worker processes
    busy,       \* workers with isProcessing = true
    task,       \* where processJob stands for a claim
    sender,     \* where the send promise of a claim stands
    owner,      \* the worker that made a claim
    snapshot,   \* job.retryCount as the claim read it
    \* tables and counters around them
    recorded,   \* the notification_deliveries row a claim has written
    claims,     \* how often a row has been claimed
    copies,     \* how many messages a provider has accepted for a row
    faults      \* how many faults have happened

rowVars == <<status, retryCount, lockedAt, waiting, overdue>>
taskVars == <<task, sender, owner, snapshot>>
vars == <<rowVars, parent, busy, taskVars, recorded, claims, copies, faults>>

Statuses == {"ABSENT", "PENDING", "RETRY_WAIT", "PROCESSING", "SENT", "FAILED"}

\* "sending": the sender will win the race; "hanging": the timer will.
AtWork == {"claimed", "sending", "hanging", "saving", "failing", "failingForGood"}
TaskStates == {"none", "falling", "settled"} \cup AtWork
SenderStates == {"none", "calling", "alimtalk", "sms", "recordSent", "recordFailed", "settled"}

TypeOK ==
    /\ status \in [Jobs -> Statuses]
    /\ retryCount \in [Jobs -> Nat]
    /\ lockedAt \in [Jobs -> 0 .. MaxClaims]
    /\ waiting \subseteq Jobs
    /\ overdue \subseteq Jobs
    /\ parent \in [Jobs -> Jobs \cup {NoJob}]
    /\ busy \subseteq Workers
    /\ task \in [Claims -> TaskStates]
    /\ sender \in [Claims -> SenderStates]
    /\ owner \in [Claims -> SUBSET Workers]
    /\ snapshot \in [Claims -> Nat]
    /\ recorded \in [Claims -> {"none", "SENT", "FAILED"}]
    /\ claims \in [Jobs -> 0 .. MaxClaims]
    /\ copies \in [Jobs -> Nat]
    /\ faults \in 0 .. MaxFaults

Init ==
    /\ status = [j \in Jobs |-> "ABSENT"]
    /\ retryCount = [j \in Jobs |-> 0]
    /\ lockedAt = [j \in Jobs |-> NotLocked]
    /\ waiting = {}
    /\ overdue = {}
    /\ parent = [j \in Jobs |-> NoJob]
    /\ busy = {}
    /\ task = [c \in Claims |-> "none"]
    /\ sender = [c \in Claims |-> "none"]
    /\ owner = [c \in Claims |-> {}]
    /\ snapshot = [c \in Claims |-> 0]
    /\ recorded = [c \in Claims |-> "none"]
    /\ claims = [j \in Jobs |-> 0]
    /\ copies = [j \in Jobs |-> 0]
    /\ faults = 0

NoFault == UNCHANGED faults
Fault(kind) == /\ kind \in FaultKinds
               /\ faults < MaxFaults
               /\ faults' = faults + 1

-----------------------------------------------------------------------------
(* The outbox rows *)

\* createOutbox from publish(): next_retry_at defaults to NOW(), so the row is due at once.
CreateOutbox(j) ==
    /\ j \in Published
    /\ status[j] = "ABSENT"
    /\ status' = [status EXCEPT ![j] = "PENDING"]
    /\ UNCHANGED <<retryCount, lockedAt, waiting, overdue, parent, busy, taskVars,
                   recorded, claims, copies, faults>>

\* Mutations of Claimable: retries are never claimed; rows in work are claimed again.
ClaimableWithoutRetries == {"PENDING"}
ClaimableInWork == {"PENDING", "RETRY_WAIT", "PROCESSING"}

Claimable == {"PENDING", "RETRY_WAIT"}
Due == {j \in Jobs : status[j] \in Claimable /\ j \notin waiting /\ claims[j] < MaxClaims}

\* ORDER BY priority DESC LIMIT n FOR UPDATE SKIP LOCKED; equal priorities in any order.
Batches == {B \in SUBSET Due :
               /\ B # {}
               /\ Cardinality(B) <= BatchLimit
               /\ B = Due \/ Cardinality(B) = BatchLimit
               /\ \A b \in B, j \in Due \ B : Priority[b] >= Priority[j]}

\* The n-th claim of a row, for the row's next n.
NextClaim(j) == <<j, claims[j] + 1>>

\* Mutation of MayTick: no isProcessing flag.
MayAlwaysTick(w) == TRUE

MayTick(w) == w \notin busy

\* handleQueue up to Promise.allSettled: the claim is one transaction, and every claimed
\* row gets a processJob that holds the row as it was read (its retryCount, its lockedAt).
HandleQueue(w) ==
    /\ MayTick(w)
    /\ \E B \in Batches :
         LET new == {NextClaim(j) : j \in B} IN
         /\ status' = [j \in Jobs |-> IF j \in B THEN "PROCESSING" ELSE status[j]]
         /\ lockedAt' = [j \in Jobs |-> IF j \in B THEN claims[j] + 1 ELSE lockedAt[j]]
         /\ claims' = [j \in Jobs |-> IF j \in B THEN claims[j] + 1 ELSE claims[j]]
         /\ task' = [c \in Claims |-> IF c \in new THEN "claimed" ELSE task[c]]
         /\ owner' = [c \in Claims |-> IF c \in new THEN {w} ELSE owner[c]]
         /\ snapshot' = [c \in Claims |-> IF c \in new THEN retryCount[Job(c)] ELSE snapshot[c]]
    /\ busy' = busy \cup {w}
    /\ UNCHANGED <<retryCount, waiting, overdue, parent, sender, recorded, copies, faults>>

Unsettled(w) == {c \in Claims : w \in owner[c] /\ task[c] \in AtWork \cup {"falling"}}

\* The finally block of handleQueue, once every processJob has settled.
FinishBatch(w) ==
    /\ w \in busy
    /\ Unsettled(w) = {}
    /\ busy' = busy \ {w}
    /\ UNCHANGED <<rowVars, parent, taskVars, recorded, claims, copies, faults>>

\* Mutation of UpdateStatus: the status name of the schema's comment instead of SENT.
UpdateStatusCompleted(j, s) ==
    /\ status' = [status EXCEPT ![j] = IF s = "SENT" THEN "COMPLETED" ELSE s]
    /\ lockedAt' = [lockedAt EXCEPT ![j] = NotLocked]
    /\ overdue' = overdue \ {j}
    /\ UNCHANGED <<retryCount, waiting>>

\* updateStatus: WHERE id only, and the lock is cleared whoever holds it.
UpdateStatus(j, s) ==
    /\ status' = [status EXCEPT ![j] = s]
    /\ lockedAt' = [lockedAt EXCEPT ![j] = NotLocked]
    /\ overdue' = overdue \ {j}
    /\ UNCHANGED <<retryCount, waiting>>

\* Mutation of IncrementRetry: the counter is not incremented.
IncrementRetryUncounted(j) ==
    /\ status' = [status EXCEPT ![j] = "RETRY_WAIT"]
    /\ waiting' = waiting \cup {j}
    /\ lockedAt' = [lockedAt EXCEPT ![j] = NotLocked]
    /\ overdue' = overdue \ {j}
    /\ UNCHANGED retryCount

\* incrementRetry: WHERE id only; the row sleeps until nextRetryAt.
IncrementRetry(j) ==
    /\ status' = [status EXCEPT ![j] = "RETRY_WAIT"]
    /\ retryCount' = [retryCount EXCEPT ![j] = @ + 1]
    /\ waiting' = waiting \cup {j}
    /\ lockedAt' = [lockedAt EXCEPT ![j] = NotLocked]
    /\ overdue' = overdue \ {j}

\* nextRetryAt passes.
BackoffElapses(j) ==
    /\ j \in waiting
    /\ waiting' = waiting \ {j}
    /\ UNCHANGED <<status, retryCount, lockedAt, overdue, parent, busy, taskVars,
                   recorded, claims, copies, faults>>

\* STUCK_THRESHOLD_MS passes over a lock.  The code counts on no worker being busy with
\* a claim that old; when one is, that is the fault "stall".
LockAges(j) ==
    /\ status[j] = "PROCESSING" /\ j \notin overdue
    /\ IF \E c \in Claims : Job(c) = j /\ task[c] \in AtWork
         THEN Fault("stall")
         ELSE NoFault
    /\ overdue' = overdue \cup {j}
    /\ UNCHANGED <<status, retryCount, lockedAt, waiting, parent, busy, taskVars,
                   recorded, claims, copies>>

\* Mutation of Zombies: the age of the lock is not looked at.
ZombiesOfAnyAge == {j \in Jobs : status[j] = "PROCESSING"}

Zombies == {j \in overdue : status[j] = "PROCESSING"}

\* reapStuckNotifications, run every minute by every replica: one updateMany.  The retry
\* counter is not touched.
CleanZombies ==
    /\ Zombies # {}
    /\ status' = [j \in Jobs |-> IF j \in Zombies THEN "PENDING" ELSE status[j]]
    /\ lockedAt' = [j \in Jobs |-> IF j \in Zombies THEN NotLocked ELSE lockedAt[j]]
    /\ overdue' = overdue \ Zombies
    /\ UNCHANGED <<retryCount, waiting, parent, busy, taskVars, recorded, claims, copies,
                   faults>>

-----------------------------------------------------------------------------
(* processJob: dispatch, and the race between the sender and the timer *)

\* Alimtalk first for KAKAO and SMS rows alike; PUSH and EMAIL have one provider call.
FirstCall(j) == IF Channel[j] \in {"KAKAO", "SMS"} THEN "alimtalk" ELSE "calling"

\* Render, then start the sender under withSenderTimeout.  Whether the sender or the timer
\* will win is chosen here; a sender that will lose uses up one fault.
StartSend(c) ==
    /\ task[c] = "claimed"
    /\ \/ NoFault /\ task' = [task EXCEPT ![c] = "sending"]
       \/ Fault("hang") /\ task' = [task EXCEPT ![c] = "hanging"]
    /\ sender' = [sender EXCEPT ![c] = FirstCall(Job(c))]
    /\ UNCHANGED <<rowVars, parent, busy, owner, snapshot, recorded, claims, copies>>

\* Mutation of Timeout: the sender is awaited without a timer.
NoTimeout(c) == FALSE

\* SenderTimeoutError: processJob returns and leaves the row PROCESSING and locked; the
\* sender is not cancelled.
Timeout(c) ==
    /\ task[c] = "hanging"
    /\ task' = [task EXCEPT ![c] = "settled"]
    /\ UNCHANGED <<rowVars, parent, busy, sender, owner, snapshot, recorded, claims, copies,
                   faults>>

\* The sender's promise settles.  Only a task that still awaits it takes notice.
Settle(c, next) ==
    /\ sender' = [sender EXCEPT ![c] = "settled"]
    /\ task' = IF task[c] = "sending" THEN [task EXCEPT ![c] = next] ELSE task
    /\ UNCHANGED <<owner, snapshot>>

\* The last step of a sender that is to lose the race comes after the timer.
MaySettle(c) == task[c] # "hanging"

AcceptCopy(c) == copies' = [copies EXCEPT ![Job(c)] = @ + 1]

\* PushSender.send and EmailSender.send.  PushDeliveryError.permanent skips the retries.
ProviderAnswers(c) ==
    /\ sender[c] = "calling"
    /\ MaySettle(c)
    /\ \/ Settle(c, "saving") /\ AcceptCopy(c) /\ NoFault
       \/ Settle(c, "failing") /\ UNCHANGED copies /\ NoFault
       \/ /\ Channel[Job(c)] = "PUSH"
          /\ Settle(c, "failingForGood") /\ UNCHANGED copies /\ NoFault
       \/ Settle(c, "failing") /\ AcceptCopy(c) /\ Fault("vendor")
    /\ UNCHANGED <<rowVars, parent, busy, recorded, claims>>

\* One SENS request, which never throws: accepted, refused, or accepted with the answer lost.
SensAnswers(c, whenSuccess, whenFailure) ==
    /\ \/ /\ sender' = [sender EXCEPT ![c] = whenSuccess]
          /\ AcceptCopy(c) /\ NoFault
       \/ /\ sender' = [sender EXCEPT ![c] = whenFailure]
          /\ UNCHANGED copies /\ NoFault
       \/ /\ sender' = [sender EXCEPT ![c] = whenFailure]
          /\ AcceptCopy(c) /\ Fault("vendor")
    /\ UNCHANGED <<rowVars, parent, busy, task, owner, snapshot, recorded, claims>>

AlimtalkAnswers(c) == sender[c] = "alimtalk" /\ SensAnswers(c, "recordSent", "sms")
SmsAnswers(c) == sender[c] = "sms" /\ SensAnswers(c, "recordSent", "recordFailed")

\* Mutation of HoldsClaim: any claim on the row passes the fence.
HoldsSomeClaim(c) == status[Job(c)] = "PROCESSING"

\* The claim fence of recordDeliveryForActiveClaim.
HoldsClaim(c) == status[Job(c)] = "PROCESSING" /\ lockedAt[Job(c)] = Number(c)

Record(c) ==
    recorded' = [recorded EXCEPT ![c] = IF sender[c] = "recordSent" THEN "SENT" ELSE "FAILED"]

\* Mutation of Verdict: the provider's verdict is ignored.
VerdictAlwaysSent(c) == "saving"

\* What processJob makes of the boolean sendWithFallback returns: the provider's verdict,
\* whether or not a delivery was written.
Verdict(c) == IF sender[c] = "recordSent" THEN "saving" ELSE "failing"

\* The end of sendWithFallback.  The delivery's event_id is the outbox id, a foreign key on
\* notification_events, so the insert throws for a row that has no event.
RecordDelivery(c) ==
    /\ sender[c] \in {"recordSent", "recordFailed"}
    /\ MaySettle(c)
    /\ \/ /\ HoldsClaim(c) /\ Job(c) \in EventRows
          /\ Record(c) /\ Settle(c, Verdict(c)) /\ NoFault
       \/ /\ HoldsClaim(c) /\ Job(c) \notin EventRows
          /\ Settle(c, "failing") /\ UNCHANGED recorded /\ NoFault
       \/ /\ ~ HoldsClaim(c)
          /\ Settle(c, Verdict(c)) /\ UNCHANGED recorded /\ NoFault
       \/ Settle(c, "failing") /\ UNCHANGED recorded /\ Fault("db")
       \/ /\ HoldsClaim(c) /\ Job(c) \in EventRows
          /\ Record(c) /\ Settle(c, "failing") /\ Fault("lostack")
    /\ UNCHANGED <<rowVars, parent, busy, claims, copies>>

\* updateStatus(job.id, "SENT").  A throw lands in processJob's catch like a failed send.
SaveSent(c) ==
    /\ task[c] = "saving"
    /\ \/ /\ UpdateStatus(Job(c), "SENT") /\ NoFault
          /\ task' = [task EXCEPT ![c] = "settled"]
       \/ /\ UNCHANGED rowVars /\ Fault("db")
          /\ task' = [task EXCEPT ![c] = "failing"]
       \/ /\ UpdateStatus(Job(c), "SENT") /\ Fault("lostack")
          /\ task' = [task EXCEPT ![c] = "failing"]
    /\ UNCHANGED <<parent, busy, sender, owner, snapshot, recorded, claims, copies>>

-----------------------------------------------------------------------------
(* handleFailure *)

MaxRetries(j) == IF Channel[j] = "PUSH" THEN PushMaxRetries ELSE DefaultMaxRetries

\* Mutation of Exhausted: one retry too many.
ExhaustedLate(c) == \/ task[c] = "failingForGood"
                    \/ task[c] = "failing" /\ snapshot[c] > MaxRetries(Job(c))

\* isPermanent || job.retryCount >= maxRetries, on the row as the claim read it.
Exhausted(c) == \/ task[c] = "failingForGood"
                \/ task[c] = "failing" /\ snapshot[c] >= MaxRetries(Job(c))

AfterGiveUp(c) == IF Channel[Job(c)] = "PUSH" THEN "falling" ELSE "settled"

GiveUp(c) ==
    /\ Exhausted(c)
    /\ UpdateStatus(Job(c), "FAILED")
    /\ \/ NoFault /\ task' = [task EXCEPT ![c] = AfterGiveUp(c)]
       \/ Fault("lostack") /\ task' = [task EXCEPT ![c] = "settled"]
    /\ UNCHANGED <<parent, busy, sender, owner, snapshot, recorded, claims, copies>>

Retry(c) ==
    /\ task[c] = "failing" /\ ~ Exhausted(c)
    /\ IncrementRetry(Job(c))
    /\ task' = [task EXCEPT ![c] = "settled"]
    /\ UNCHANGED <<parent, busy, sender, owner, snapshot, recorded, claims, copies, faults>>

\* A throw in handleFailure rejects processJob; Promise.allSettled logs it and the row
\* stays PROCESSING.
FailureWriteLost(c) ==
    /\ task[c] \in {"failing", "failingForGood"}
    /\ Fault("db")
    /\ task' = [task EXCEPT ![c] = "settled"]
    /\ UNCHANGED <<rowVars, parent, busy, sender, owner, snapshot, recorded, claims, copies>>

\* createOutbox(KAKAO) in enqueuePushFallback, on an id no row has had before.
OpenFallback(j, k) ==
    /\ k \notin Published /\ status[k] = "ABSENT" /\ Channel[k] = "KAKAO"
    /\ status' = [status EXCEPT ![k] = "PENDING"]
    /\ parent' = [parent EXCEPT ![k] = j]

\* enqueuePushFallback: no user, no consent or no phone number, or a fallback row.  It is
\* not in one transaction with the FAILED write, so a throw here loses the fallback.
EnqueuePushFallback(c) ==
    /\ task[c] = "falling"
    /\ task' = [task EXCEPT ![c] = "settled"]
    /\ \/ /\ Job(c) \notin Reachable
          /\ UNCHANGED <<status, parent>> /\ NoFault
       \/ /\ Job(c) \in Reachable
          /\ \E k \in Jobs : OpenFallback(Job(c), k)
          /\ NoFault \/ Fault("lostack")
       \/ UNCHANGED <<status, parent>> /\ Fault("db")
    /\ UNCHANGED <<retryCount, lockedAt, waiting, overdue, busy, sender, owner, snapshot,
                   recorded, claims, copies>>

-----------------------------------------------------------------------------
Running(c) == task[c] \in AtWork \cup {"falling"} \/ sender[c] \notin {"none", "settled"}

\* The process dies with its tasks, its senders and its isProcessing flag, and is started
\* again; its rows keep their locks.
Crash(w) ==
    /\ \E c \in Claims : w \in owner[c] /\ Running(c)
    /\ Fault("crash")
    /\ busy' = busy \ {w}
    /\ task' = [c \in Claims |-> IF w \in owner[c] THEN "settled" ELSE task[c]]
    /\ sender' = [c \in Claims |-> IF w \in owner[c] THEN "settled" ELSE sender[c]]
    /\ UNCHANGED <<rowVars, parent, owner, snapshot, recorded, claims, copies>>

ProcessJob(c) ==
    \/ StartSend(c) \/ Timeout(c) \/ SaveSent(c)
    \/ GiveUp(c) \/ Retry(c) \/ FailureWriteLost(c) \/ EnqueuePushFallback(c)

SendWithFallback(c) == AlimtalkAnswers(c) \/ SmsAnswers(c) \/ RecordDelivery(c)

Next ==
    \/ \E j \in Jobs : CreateOutbox(j) \/ BackoffElapses(j) \/ LockAges(j)
    \/ \E w \in Workers : HandleQueue(w) \/ FinishBatch(w) \/ Crash(w)
    \/ \E c \in Claims : ProcessJob(c) \/ ProviderAnswers(c) \/ SendWithFallback(c)
    \/ CleanZombies

Spec == Init /\ [][Next]_vars

\* The crons fire again and again, timers run out, database calls return, and a provider
\* answers as long as the caller still waits for it: an orphaned request may hang forever.
Fairness ==
    /\ \A j \in Jobs : WF_vars(BackoffElapses(j)) /\ WF_vars(LockAges(j))
    /\ \A w \in Workers : WF_vars(HandleQueue(w)) /\ WF_vars(FinishBatch(w))
    /\ \A c \in Claims :
         /\ WF_vars(ProcessJob(c))
         /\ WF_vars(task[c] = "sending" /\ (ProviderAnswers(c) \/ SendWithFallback(c)))
    /\ WF_vars(CleanZombies)

FairSpec == Spec /\ Fairness

-----------------------------------------------------------------------------
(* Properties *)

\* A claim in force is the claim of at most one working task: while processJob works on a
\* row, the row is PROCESSING under that very claim.  updateStatus and incrementRetry have
\* no fence of their own; this is what makes their WHERE id safe, as long as no worker
\* outlives STUCK_THRESHOLD_MS.
WorkingTaskHoldsClaim == \A c \in Claims : task[c] \in AtWork => HoldsClaim(c)

\* incrementRetry adds to the stored counter while handleFailure decides on the counter the
\* claim read: together they never exceed the channel's budget.
RetryBudget == \A j \in Jobs : retryCount[j] <= MaxRetries(j)

\* Every message beyond the first that a provider accepts for a row is paid for by a fault:
\* without timeouts, crashes, database errors and lost provider answers nobody is told
\* twice.  ("Lock time to prevent duplicate processing", notification.prisma:112.)  A row
\* whose delivery cannot be recorded breaks it without any fault.
DuplicatesNeedFaults == \A j \in Jobs : copies[j] <= 1 + faults

\* sendWithFallback cannot record the delivery of a KAKAO or SMS row without an event: the
\* foreign key fails an attempt whose message has been accepted.
Unrecordable(j) == Channel[j] \in {"KAKAO", "SMS"} /\ j \notin EventRows

\* What a row may cost, with event rows or without: one message, one for every fault, and,
\* where the delivery cannot be recorded, one for every retry of handleFailure.  No
\* interleaving of replicas, reaper and orphaned senders adds to that.
MessagesInBudget ==
    \A j \in Jobs :
        copies[j] <= 1 + faults + (IF Unrecordable(j) THEN MaxRetries(j) ELSE 0)

\* Every attempt beyond 1 + the retry budget is paid for by a fault: a timed-out or crashed
\* attempt goes back to PENDING without being counted, and only those do.
AttemptsNeedFaults == \A j \in Jobs : claims[j] <= 1 + MaxRetries(j) + faults

\* handleQueue's isProcessing flag bounds what one worker sends at a time.
BatchBound == \A w \in Workers : Cardinality(Unsettled(w)) <= BatchLimit

\* However late an orphaned sender answers, it never writes a delivery for a row that has
\* been claimed again since: the fence of recordDeliveryForActiveClaim.
LateRecordIsFenced ==
    [][\A c \in Claims : recorded'[c] # recorded[c] => Number(c) = claims[Job(c)]]_vars

Phase(s) == CASE s = "ABSENT" -> "absent"
              [] s \in {"PENDING", "RETRY_WAIT", "PROCESSING"} -> "open"
              [] s = "SENT" -> "sent"
              [] s = "FAILED" -> "failed"

phaseOf == [j \in Jobs |-> Phase(status[j])]

Contract == INSTANCE DeliveryContract WITH phase <- phaseOf

\* A user whose push cannot be delivered is kept reachable (worker.ts:166-170): a FAILED push
\* row has its fallback, or a worker that is about to enqueue it.
FallbackNotLost ==
    \A j \in Reachable : status[j] = "FAILED" /\ Channel[j] = "PUSH" =>
        \/ \E k \in Jobs : parent[k] = j
        \/ \E c \in Claims : Job(c) = j /\ task[c] = "falling"

\* The outbox keeps the delivery contract: a closed row never opens again, a row is SENT
\* only after a provider accepted its message, and a push row is replaced by at most one
\* Alimtalk row, after it has failed.
KeepsContract == Contract!Spec

\* No row is forgotten: RETRY_WAIT rows are claimed again and zombies are reaped, until the
\* row is SENT or FAILED.
EveryRowCloses == \A j \in Jobs : status[j] = "PENDING" ~> status[j] \in {"SENT", "FAILED"}

\* A hung send does not freeze the worker line (worker.ts:16-19).
WorkerNeverFreezes == \A w \in Workers : w \in busy ~> w \notin busy
===========================================================================
