------------------------- MODULE TransactionStatus -------------------------
(***************************************************************************)
(* One remittance row and everyone who writes its status:                  *)
(*   - callers of TransactionService.updateStatus (FX confirm, ledger      *)
(*     callbacks, partner webhooks), with or without a transaction of      *)
(*     their own: a compare-and-set retried a few times;                   *)
(*   - TransactionService.cancelByUser: an unlocked read, then a locked    *)
(*     read and the transition in one transaction;                         *)
(*   - admins and the scheduler, who go through TransferStateService.      *)
(* Beside it runs the compliance axis with its gate and the state the      *)
(* customer is shown.                                                      *)
(*                                                                         *)
(* The database is PostgreSQL at READ COMMITTED: plain reads see committed *)
(* values and never wait, writes and FOR UPDATE wait for the row lock.     *)
(***************************************************************************)
EXTENDS Naturals, FiniteSets

CONSTANTS
    Updaters,     \* callers of updateStatus
    Cancellers,   \* callers of cancelByUser
    Nobody,       \* no holder of the row lock
    MaxAttempts,  \* UPDATE_STATUS_MAX_ATTEMPTS (3 in the code)
    GateCalled,   \* do callers consult the compliance gate first?  (no code in src does)
    StartRows,    \* the row when the behaviour begins: new, or anywhere in its life
    MaxCalls,     \* bound: calls of updateStatus and cancelByUser in all
    MaxOthers     \* bound: transitions by admins and the scheduler

Callers == Updaters \cup Cancellers

ASSUME CallersAssumption ==
    /\ Updaters \cap Cancellers = {}
    /\ Nobody \notin Callers
    /\ GateCalled \in BOOLEAN

ASSUME BoundsAssumption ==
    MaxAttempts \in Nat \ {0} /\ MaxCalls \in Nat /\ MaxOthers \in Nat

-----------------------------------------------------------------------------
\* The two state machines.

Statuses == {"CREATED", "QUOTE_CONFIRMED", "PAYMENT_RECEIVED", "PROCESSING",
             "SENT_TO_PARTNER", "REFUNDED", "EXPIRED", "PENDING", "COMPLETED",
             "FAILED", "CANCELLED"}

\* Mutant: a received payment can still be cancelled.
StatusTransitionsCancelPaid ==
    ({"CREATED"} \X {"QUOTE_CONFIRMED", "CANCELLED", "EXPIRED"}) \cup
    {<<"QUOTE_CONFIRMED", "PAYMENT_RECEIVED">>, <<"PAYMENT_RECEIVED", "CANCELLED">>}

StatusTransitions ==
    ({"CREATED"} \X {"QUOTE_CONFIRMED", "CANCELLED", "EXPIRED"}) \cup
    ({"QUOTE_CONFIRMED"} \X {"PAYMENT_RECEIVED", "CANCELLED", "EXPIRED"}) \cup
    ({"PAYMENT_RECEIVED"} \X {"PROCESSING"}) \cup
    ({"PROCESSING"} \X {"SENT_TO_PARTNER", "FAILED"}) \cup
    ({"SENT_TO_PARTNER"} \X {"COMPLETED", "FAILED"}) \cup
    ({"FAILED"} \X {"PROCESSING", "REFUNDED", "COMPLETED"}) \cup
    ({"COMPLETED"} \X {"REFUNDED"}) \cup
    ({"EXPIRED"} \X {"CANCELLED"})

CanTransition(s, t) == <<s, t>> \in StatusTransitions

IsFinalStatus(s) == \A t \in Statuses : ~ CanTransition(s, t)

ComplianceStatuses == {"PENDING", "SCREENING", "FDS", "PRE_CLEARED",
                       "MANUAL_REVIEW", "ORIS_REPORTING", "CLEARED", "BLOCKED"}

ComplianceTransitions ==
    ({"PENDING"} \X {"SCREENING", "BLOCKED"}) \cup
    ({"SCREENING"} \X {"FDS", "MANUAL_REVIEW", "BLOCKED"}) \cup
    ({"FDS"} \X {"PRE_CLEARED", "MANUAL_REVIEW", "BLOCKED"}) \cup
    ({"PRE_CLEARED"} \X {"ORIS_REPORTING", "BLOCKED"}) \cup
    ({"MANUAL_REVIEW"} \X {"FDS", "PRE_CLEARED", "BLOCKED"}) \cup
    ({"ORIS_REPORTING"} \X {"CLEARED", "BLOCKED"})

\* Mutant: the pre-deposit verdict is enough for the payout.
GatePermitsPreCleared(to, c) ==
    to \in {"PAYMENT_RECEIVED", "SENT_TO_PARTNER"} => c \in {"PRE_CLEARED", "CLEARED"}

\* assertCompliancePermitsMoneyTransition does not throw.
GatePermits(to, c) ==
    /\ to = "PAYMENT_RECEIVED" => c \in {"PRE_CLEARED", "CLEARED"}
    /\ to = "SENT_TO_PARTNER" => c = "CLEARED"

\* Mutant: a block before the deposit is shown as a refund.
UserFacingAnyBlock(c, s) ==
    IF s \in {"CANCELLED", "EXPIRED", "REFUNDED"} \/ c = "CLEARED" THEN "none"
    ELSE IF c = "BLOCKED" THEN "REFUND_IN_PROGRESS" ELSE "PROCESSING"

\* toUserFacingComplianceState; "none" is null: show the money status instead.
UserFacing(c, s) ==
    IF \/ s \in {"CANCELLED", "EXPIRED", "REFUNDED"}
       \/ c = "BLOCKED" /\ s \in {"CREATED", "QUOTE_CONFIRMED"}
       \/ c = "CLEARED"
    THEN "none"
    ELSE IF c = "BLOCKED" THEN "REFUND_IN_PROGRESS" ELSE "PROCESSING"

Unpaid == {"CREATED", "QUOTE_CONFIRMED", "EXPIRED", "CANCELLED"}

\* Rows as the system leaves them between calls.  The legacy status PENDING,
\* which nothing enters or leaves, and rows already cancelled are left out.
ASSUME StartAssumption ==
    \A r \in StartRows :
        /\ r \in [status : Statuses \ {"PENDING", "CANCELLED"},
                  compliance : ComplianceStatuses, paid : BOOLEAN, sent : BOOLEAN]
        /\ r.paid <=> r.status \notin Unpaid
        /\ r.status \in {"SENT_TO_PARTNER", "COMPLETED"} => r.sent
        /\ r.sent => r.compliance = "CLEARED" /\ r.paid
-----------------------------------------------------------------------------
VARIABLES
    status,      \* transactions.status as committed
    holder,      \* who holds the row lock
    cancelLogs,  \* entries "to CANCELLED" in transaction_status_logs
    compliance,  \* the compliance status of the same transfer
    call,        \* the call each caller is in, with its local variables
    answer,      \* how the caller's last call ended
    \* counters and history
    calls, others,
    changes,     \* committed changes of status
    paid, sent   \* has PAYMENT_RECEIVED / SENT_TO_PARTNER ever been committed?

column == <<status, changes, paid, sent>>
vars == <<column, holder, cancelLogs, compliance, call, answer, calls, others>>

PCs == {"idle", "read", "cas", "reread", "open", "preflight", "lock", "transition"}
Answers == {"none", "updated", "same", "invalid", "finalized", "conflict",
            "rolledback", "cancelled", "already-cancelled"}

Call == [pc : PCs,
         goal : Statuses,        \* nextStatus
         seen : Statuses,        \* current.status
         attempt : Nat,          \* the loop counter
         inTx : BOOLEAN,         \* was the caller's transaction passed?
         since : Nat]            \* changes when the call was made

Idle == [pc |-> "idle", goal |-> "CREATED", seen |-> "CREATED", attempt |-> 0,
         inTx |-> FALSE, since |-> 0]

Init ==
    /\ \E r \in StartRows : /\ status = r.status /\ compliance = r.compliance
                           /\ paid = r.paid /\ sent = r.sent
    /\ holder = Nobody
    /\ cancelLogs = 0 /\ changes = 0
    /\ call = [c \in Callers |-> Idle]
    /\ answer = [c \in Callers |-> "none"]
    /\ calls = 0 /\ others = 0

At(c, place) == call[c].pc = place
Goto(c, place) == call' = [call EXCEPT ![c].pc = place] /\ UNCHANGED answer
Return(c, a) == call' = [call EXCEPT ![c] = Idle] /\ answer' = [answer EXCEPT ![c] = a]

\* The first step of a call.
Enter(c, first) ==
    /\ At(c, "idle") /\ calls < MaxCalls
    /\ calls' = calls + 1
    /\ call' = [call EXCEPT ![c] = first]
    /\ answer' = [answer EXCEPT ![c] = "none"]

\* Mutant: a status the enum does not have.
PublishMisspelt(to) ==
    /\ status' = IF to = "CANCELLED" THEN "CANCELED" ELSE to
    /\ UNCHANGED <<changes, paid, sent>>

\* A change of the status column becomes visible to everybody.
Publish(to) ==
    /\ status' = to
    /\ changes' = changes + 1
    /\ paid' = (paid \/ to = "PAYMENT_RECEIVED")
    /\ sent' = (sent \/ to = "SENT_TO_PARTNER")

-----------------------------------------------------------------------------
\* updateStatus

(***************************************************************************)
(* A caller asks for a status.  Callers are outside this repository; what  *)
(* the code says of them: the gate stands before money moves (if they call *)
(* it), and only a partner's confirmation of a transfer that had been sent *)
(* marks it COMPLETED.                                                     *)
(***************************************************************************)
CallUpdateStatus(u, to, tx) ==
    /\ GateCalled => GatePermits(to, compliance)
    /\ to = "COMPLETED" => sent
    /\ Enter(u, [Idle EXCEPT !.pc = "read", !.goal = to, !.inTx = tx, !.since = changes])
    /\ UNCHANGED <<column, holder, cancelLogs, compliance, others>>

\* validateTransactionStatusTransition where no edge leads to the new status;
\* asking for the status the row has is no error.
Refusal(s, to) ==
    IF s = to THEN "same" ELSE IF IsFinalStatus(s) THEN "finalized" ELSE "invalid"

\* findById and the head of the loop: give up, validate, or go on to write.
ReadCurrent(u) ==
    LET to == call[u].goal IN
    /\ At(u, "read")
    /\ \/ call[u].attempt = MaxAttempts /\ Return(u, "conflict")
       \/ /\ call[u].attempt < MaxAttempts /\ ~ CanTransition(status, to)
          /\ Return(u, Refusal(status, to))
       \/ /\ call[u].attempt < MaxAttempts /\ CanTransition(status, to)
          /\ call' = [call EXCEPT ![u].pc = "cas", ![u].seen = status]
          /\ UNCHANGED answer
    /\ UNCHANGED <<column, holder, cancelLogs, compliance, calls, others>>

\* Mutant: WHERE id only.
CompareAndSetById(u) ==
    /\ At(u, "cas") /\ holder = Nobody
    /\ Publish(call[u].goal) /\ Goto(u, "reread")
    /\ UNCHANGED <<holder, cancelLogs, compliance, calls, others>>

\* Mutant: a lost race is retried without reading the row again.
CompareAndSetBlindRetry(u) ==
    /\ At(u, "cas") /\ holder = Nobody /\ status # call[u].seen
    /\ call' = [call EXCEPT ![u].attempt = @ + 1,
                           ![u].pc = IF call[u].attempt + 1 = MaxAttempts THEN "read" ELSE @]
    /\ UNCHANGED <<column, holder, answer, cancelLogs, compliance, calls, others>>

\* updateMany WHERE id AND status = current: waits for the row lock, then
\* compares with what is committed by then.  In the caller's transaction the
\* write stays invisible, and the row locked, until that transaction ends.
CompareAndSet(u) ==
    /\ At(u, "cas") /\ holder = Nobody
    /\ \/ /\ status = call[u].seen
          /\ \/ call[u].inTx /\ holder' = u /\ UNCHANGED column
             \/ ~ call[u].inTx /\ Publish(call[u].goal) /\ UNCHANGED holder
          /\ Goto(u, "reread")
       \/ /\ status # call[u].seen
          /\ call' = [call EXCEPT ![u].pc = "read", ![u].attempt = @ + 1]
          /\ UNCHANGED <<column, holder, answer>>
    /\ UNCHANGED <<cancelLogs, compliance, calls, others>>

\* The row is read once more for the answer; a transaction sees its own write.
Reread(u) ==
    /\ At(u, "reread")
    /\ \/ call[u].inTx /\ Goto(u, "open")
       \/ ~ call[u].inTx /\ Return(u, "updated")
    /\ UNCHANGED <<column, holder, cancelLogs, compliance, calls, others>>

\* The caller's transaction commits, or is rolled back after all: a later
\* statement of the caller failed, or its process died.
EndTransaction(u) ==
    /\ At(u, "open")
    /\ holder' = Nobody
    /\ \/ Publish(call[u].goal) /\ Return(u, "updated")
       \/ UNCHANGED column /\ Return(u, "rolledback")
    /\ UNCHANGED <<cancelLogs, compliance, calls, others>>

-----------------------------------------------------------------------------
\* cancelByUser

CallCancel(c) ==
    /\ Enter(c, [Idle EXCEPT !.pc = "preflight"])
    /\ UNCHANGED <<column, holder, cancelLogs, compliance, others>>

\* The read before the transaction: no lock, it may be stale at once.
Preflight(c) ==
    /\ At(c, "preflight")
    /\ \/ status = "CANCELLED" /\ Return(c, "already-cancelled")
       \/ CanTransition(status, "CANCELLED") /\ Goto(c, "lock")
       \/ /\ status # "CANCELLED" /\ ~ CanTransition(status, "CANCELLED")
          /\ Return(c, "invalid")
    /\ UNCHANGED <<column, holder, cancelLogs, compliance, calls, others>>

\* Mutant: the re-read takes no lock.
LockRowPlainRead(c) ==
    /\ At(c, "lock") /\ CanTransition(status, "CANCELLED")
    /\ Goto(c, "transition")
    /\ UNCHANGED <<column, holder, cancelLogs, compliance, calls, others>>

\* SELECT ... FOR UPDATE, and the check of what it returned.
LockRow(c) ==
    /\ At(c, "lock") /\ holder = Nobody
    /\ \/ /\ status = "CANCELLED"
          /\ Return(c, "already-cancelled") /\ UNCHANGED holder
       \/ /\ status # "CANCELLED" /\ ~ CanTransition(status, "CANCELLED")
          /\ Return(c, "invalid") /\ UNCHANGED holder
       \/ /\ CanTransition(status, "CANCELLED")
          /\ holder' = c /\ Goto(c, "transition")
    /\ UNCHANGED <<column, cancelLogs, compliance, calls, others>>

\* transferState.transition writes the status and its log entry; then the
\* transaction commits, or something throws and it is rolled back.
CancelTransition(c) ==
    /\ At(c, "transition")
    /\ holder' = Nobody
    /\ \/ /\ Publish("CANCELLED")
          /\ cancelLogs' = cancelLogs + 1
          /\ Return(c, "cancelled")
       \/ UNCHANGED <<column, cancelLogs>> /\ Return(c, "rolledback")
    /\ UNCHANGED <<compliance, calls, others>>

-----------------------------------------------------------------------------
\* The rest of the system

\* An admin cancels or the scheduler expires the row through TransferStateService.
OtherTransition(to) ==
    /\ others < MaxOthers /\ holder = Nobody
    /\ to \in {"CANCELLED", "EXPIRED"} /\ CanTransition(status, to)
    /\ Publish(to)
    /\ cancelLogs' = IF to = "CANCELLED" THEN cancelLogs + 1 ELSE cancelLogs
    /\ others' = others + 1
    /\ UNCHANGED <<holder, compliance, call, answer, calls>>

\* assertComplianceStatusTransition lets the step pass.
ComplianceStep(to) ==
    /\ <<compliance, to>> \in ComplianceTransitions
    /\ compliance' = to
    /\ UNCHANGED <<column, holder, cancelLogs, call, answer, calls, others>>

UpdateStep(u) == ReadCurrent(u) \/ CompareAndSet(u) \/ Reread(u) \/ EndTransaction(u)
CancelStep(c) == Preflight(c) \/ LockRow(c) \/ CancelTransition(c)

Next ==
    \/ \E u \in Updaters :
        \/ \E to \in Statuses, tx \in BOOLEAN : CallUpdateStatus(u, to, tx)
        \/ UpdateStep(u)
    \/ \E c \in Cancellers : CallCancel(c) \/ CancelStep(c)
    \/ \E to \in Statuses : OtherTransition(to)
    \/ \E to \in ComplianceStatuses : ComplianceStep(to)

Spec == Init /\ [][Next]_vars

-----------------------------------------------------------------------------
\* Properties

\* Types of the columns, the calls and the counters (updateStatus,
\* cancelByUser).
TypeOK ==
    /\ status \in Statuses
    /\ holder \in Callers \cup {Nobody}
    /\ cancelLogs \in Nat
    /\ compliance \in ComplianceStatuses
    /\ call \in [Callers -> Call]
    /\ answer \in [Callers -> Answers]
    /\ calls \in Nat /\ others \in Nat /\ changes \in Nat
    /\ paid \in BOOLEAN /\ sent \in BOOLEAN

\* A user who was told "cancelled" stays right, whatever payment callbacks,
\* admins and retries do later (cancelByUser against updateStatus).
CancelAnswerHolds ==
    \A c \in Cancellers :
        answer[c] \in {"cancelled", "already-cancelled"} => status = "CANCELLED"

\* A double click, or a click racing an admin, logs one cancellation: the
\* re-check under FOR UPDATE (the idempotency promise above cancelByUser).
CancelledOnce ==
    /\ cancelLogs <= 1
    /\ (\E c \in Cancellers : answer[c] = "cancelled") => cancelLogs = 1

\* updateStatus gives up only when the row was changed by others at least as
\* often as it tried: the loop never fails on its own stale read twice.
ConflictNeedsChanges ==
    [][\A u \in Updaters :
        answer'[u] = "conflict" /\ answer[u] # "conflict"
            => changes >= call[u].since + MaxAttempts]_vars

\* A compliance-blocked transfer is shown as "refund in progress" only when
\* there is money to refund (toUserFacingComplianceState beside both machines).
RefundShownOnlyIfPaid == UserFacing(compliance, status) = "REFUND_IN_PROGRESS" => paid

\* The gate's promise: a transfer that is not CLEARED never reaches payout, in
\* particular a BLOCKED one, even though the gate is evaluated before the
\* status is read (assertCompliancePermitsMoneyTransition).
PayoutIsCleared ==
    (sent \/ status \in {"SENT_TO_PARTNER", "COMPLETED"}) => compliance = "CLEARED"

\* The eleven statuses, the compare-and-set and the row lock implement the
\* lifecycle the customer and the ledger rely on.
Phase ==
    CASE status = "CANCELLED" -> "cancelled"
      [] status \in {"CREATED", "QUOTE_CONFIRMED", "EXPIRED", "PENDING"} -> "open"
      [] status \in {"PAYMENT_RECEIVED", "PROCESSING", "SENT_TO_PARTNER", "FAILED"} -> "funded"
      [] status = "COMPLETED" -> "paidout"
      [] status = "REFUNDED" -> "refunded"

Lifecycle == INSTANCE TransferLifecycle WITH phase <- Phase, cleared <- compliance = "CLEARED"
KeepsLifecycle == Lifecycle!Spec
=============================================================================
