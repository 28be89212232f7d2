---------------------- MODULE TransactionStatusProofs ----------------------
(***************************************************************************)
(* Theorems about TransactionStatus for every set of callers, every number *)
(* of attempts, calls and transitions by others, and every row to start    *)
(* from.                                                                   *)
(***************************************************************************)
EXTENDS TransactionStatus, TLAPS

-----------------------------------------------------------------------------
(* The transition tables *)

\* A cancelled row has nowhere to go.
LEMMA CancelledIsFinal == \A t : ~ CanTransition("CANCELLED", t)
BY DEF CanTransition, StatusTransitions

\* Both ends of a transition are statuses, and different ones.
LEMMA TransitionEnds ==
    ASSUME NEW s, NEW t, CanTransition(s, t)
    PROVE  s \in Statuses /\ t \in Statuses /\ s # t
BY DEF CanTransition, StatusTransitions, Statuses

\* The only way from the unpaid statuses to the others is a payment.
LEMMA PaymentIsTheWayIn ==
    ASSUME NEW s, NEW t, CanTransition(s, t), t \notin Unpaid
    PROVE  s \notin Unpaid \/ t = "PAYMENT_RECEIVED"
BY DEF CanTransition, StatusTransitions, Unpaid

\* A step of the compliance machine ends in a compliance status, and none leaves CLEARED.
LEMMA ComplianceEnds ==
    ASSUME NEW c, NEW d, <<c, d>> \in ComplianceTransitions
    PROVE  d \in ComplianceStatuses /\ c # "CLEARED"
BY DEF ComplianceTransitions, ComplianceStatuses

-----------------------------------------------------------------------------
(* Type correctness *)

\* The idle call is a call.
LEMMA IdleIsCall == Idle \in Call
BY DEF Idle, Call, PCs, Statuses

\* A caller that moves on or returns keeps the types of calls and answers.
LEMMA CallTypes ==
    ASSUME TypeOK, NEW x \in Callers,
           \/ \E p \in PCs : Goto(x, p)
           \/ \E a \in Answers : Return(x, a)
    PROVE  call' \in [Callers -> Call] /\ answer' \in [Callers -> Answers]
<1>1. CASE \E p \in PCs : Goto(x, p)
  BY <1>1 DEF TypeOK, Goto, Call
<1>2. CASE \E a \in Answers : Return(x, a)
  BY <1>2, IdleIsCall DEF TypeOK, Return
<1>3. QED
  BY <1>1, <1>2

\* A change of status keeps the types of the columns.
LEMMA PublishTypes ==
    ASSUME TypeOK, NEW to \in Statuses, Publish(to) \/ UNCHANGED column
    PROVE  status' \in Statuses /\ changes' \in Nat /\ paid' \in BOOLEAN /\ sent' \in BOOLEAN
<1>1. status' \in Statuses /\ changes' \in Nat
  BY DEF TypeOK, Publish, column
<1>2. ASSUME Publish(to) PROVE paid' \in BOOLEAN /\ sent' \in BOOLEAN
  <2>1. (paid \/ to = "PAYMENT_RECEIVED") \in BOOLEAN /\ (sent \/ to = "SENT_TO_PARTNER") \in BOOLEAN
    OBVIOUS
  <2>2. QED
    BY <1>2, <2>1 DEF Publish
<1>3. ASSUME UNCHANGED column PROVE paid' \in BOOLEAN /\ sent' \in BOOLEAN
  BY <1>3, Zenon DEF TypeOK, column
<1>4. QED
  BY <1>1, <1>2, <1>3

\* A new call is well typed, and counted.
LEMMA EnterTypes ==
    ASSUME TypeOK, NEW x \in Callers, NEW first \in Call, Enter(x, first)
    PROVE  /\ call' \in [Callers -> Call]
           /\ answer' \in [Callers -> Answers]
           /\ calls' \in Nat
BY DEF TypeOK, Enter, Answers

\* One step of anyone keeps every variable in its type.
LEMMA TypeStep == TypeOK /\ [Next]_vars => TypeOK'
<1> SUFFICES ASSUME TypeOK, [Next]_vars PROVE TypeOK'
  OBVIOUS
<1> USE BoundsAssumption
<1>1. ASSUME NEW u \in Updaters, NEW to \in Statuses, NEW tx \in BOOLEAN, CallUpdateStatus(u, to, tx)
      PROVE  TypeOK'
  <2>1. [Idle EXCEPT !.pc = "read", !.goal = to, !.inTx = tx, !.since = changes] \in Call
    BY IdleIsCall DEF TypeOK, Call, PCs
  <2>2. u \in Callers
    BY DEF Callers
  <2>3. QED
    BY <1>1, <2>1, <2>2, EnterTypes DEF CallUpdateStatus, TypeOK, column
<1>2. ASSUME NEW u \in Updaters, UpdateStep(u) PROVE TypeOK'
  <2>0. u \in Callers /\ call[u] \in Call
    BY DEF Callers, TypeOK
  <2>1. CASE ReadCurrent(u)
    <3>1. CASE \E a \in {"conflict", "same", "finalized", "invalid"} : Return(u, a)
      BY <2>0, <2>1, <3>1, CallTypes DEF ReadCurrent, TypeOK, column, Answers
    <3>2. CASE /\ call' = [call EXCEPT ![u].pc = "cas", ![u].seen = status]
               /\ UNCHANGED answer
      <4>1. call' \in [Callers -> Call]
        BY <2>0, <3>2 DEF TypeOK, Call, PCs
      <4>2. QED
        BY <2>1, <3>2, <4>1 DEF ReadCurrent, TypeOK, column
    <3>3. QED
      BY <2>1, <3>1, <3>2 DEF ReadCurrent, Refusal
  <2>2. CASE CompareAndSet(u)
    <3>1. call' \in [Callers -> Call] /\ answer' \in [Callers -> Answers]
      <4>1. CASE Goto(u, "reread")
        BY <2>0, <4>1, CallTypes DEF PCs
      <4>2. CASE /\ call' = [call EXCEPT ![u].pc = "read", ![u].attempt = @ + 1]
                 /\ UNCHANGED answer
        BY <2>0, <4>2 DEF TypeOK, Call, PCs
      <4>3. QED
        BY <2>2, <4>1, <4>2 DEF CompareAndSet
    <3>2. call[u].goal \in Statuses
      BY <2>0 DEF Call
    <3>3. /\ Publish(call[u].goal) \/ UNCHANGED column
          /\ holder' \in Callers \cup {Nobody}
          /\ UNCHANGED <<cancelLogs, compliance, calls, others>>
      BY <2>0, <2>2 DEF CompareAndSet, TypeOK
    <3>4. QED
      BY <3>1, <3>2, <3>3, PublishTypes DEF TypeOK
  <2>3. CASE Reread(u)
    <3>1. call' \in [Callers -> Call] /\ answer' \in [Callers -> Answers]
      BY <2>0, <2>3, CallTypes DEF Reread, PCs, Answers
    <3>2. QED
      BY <2>3, <3>1 DEF Reread, TypeOK, column
  <2>4. CASE EndTransaction(u)
    <3>1. call' \in [Callers -> Call] /\ answer' \in [Callers -> Answers]
      BY <2>0, <2>4, CallTypes DEF EndTransaction, Answers
    <3>2. call[u].goal \in Statuses
      BY <2>0 DEF Call
    <3>3. QED
      BY <2>4, <3>1, <3>2, PublishTypes DEF EndTransaction, TypeOK
  <2>5. QED
    BY <1>2, <2>1, <2>2, <2>3, <2>4 DEF UpdateStep
<1>3. ASSUME NEW c \in Cancellers, CallCancel(c) PROVE TypeOK'
  <2>1. [Idle EXCEPT !.pc = "preflight"] \in Call
    BY IdleIsCall DEF Call, PCs
  <2>2. c \in Callers
    BY DEF Callers
  <2>3. QED
    BY <1>3, <2>1, <2>2, EnterTypes DEF CallCancel, TypeOK, column
<1>4. ASSUME NEW c \in Cancellers, CancelStep(c) PROVE TypeOK'
  <2>0. c \in Callers
    BY DEF Callers
  <2>1. call' \in [Callers -> Call] /\ answer' \in [Callers -> Answers]
    BY <1>4, <2>0, CallTypes DEF CancelStep, Preflight, LockRow, CancelTransition, PCs, Answers
  <2>2. CASE Preflight(c) \/ LockRow(c)
    BY <2>0, <2>1, <2>2 DEF Preflight, LockRow, TypeOK, column
  <2>3. CASE CancelTransition(c)
    <3>1. "CANCELLED" \in Statuses
      BY DEF Statuses
    <3>2. QED
      BY <2>1, <2>3, <3>1, PublishTypes DEF CancelTransition, TypeOK
  <2>4. QED
    BY <1>4, <2>2, <2>3 DEF CancelStep
<1>5. ASSUME NEW to \in Statuses, OtherTransition(to) PROVE TypeOK'
  BY <1>5, PublishTypes DEF OtherTransition, TypeOK
<1>6. ASSUME NEW to \in ComplianceStatuses, ComplianceStep(to) PROVE TypeOK'
  BY <1>6 DEF ComplianceStep, TypeOK, column
<1>7. CASE UNCHANGED vars
  BY <1>7 DEF vars, column, TypeOK
<1>8. QED
  BY <1>1, <1>2, <1>3, <1>4, <1>5, <1>6, <1>7 DEF Next

\* The start rows are well typed, and nobody has called yet.
LEMMA TypeInit == Init => TypeOK
BY StartAssumption, IdleIsCall DEF Init, TypeOK, Answers

\* Every variable always has its type: updateStatus and cancelByUser write no status
\* outside the enum and never leave a call half recorded.
THEOREM TypeCorrect == Spec => []TypeOK
BY TypeInit, TypeStep, PTL DEF Spec

-----------------------------------------------------------------------------
(* Who may write the row, and what it was validated against *)

\* The caller has an uncommitted write or a FOR UPDATE lock on the row.
Holding(x) ==
    call[x].pc \in {"open", "transition"} \/ (call[x].pc = "reread" /\ call[x].inTx)

\* What a caller knows of the row at each place: the validation in memory, and, as long
\* as it holds the lock, that the row has not moved since.
CallerInv(x) ==
    /\ x \in Updaters => call[x].pc \in {"idle", "read", "cas", "reread", "open"}
    /\ x \in Cancellers => call[x].pc \in {"idle", "preflight", "lock", "transition"}
    /\ Holding(x) <=> holder = x
    /\ call[x].pc = "cas" => CanTransition(call[x].seen, call[x].goal)
    /\ (x \in Updaters /\ Holding(x)) => CanTransition(status, call[x].goal)
    /\ call[x].pc = "transition" => CanTransition(status, "CANCELLED")

RowInv == TypeOK /\ \A x \in Callers : CallerInv(x)

\* What others do keeps a caller's knowledge, as long as it is not the one who holds the row.
LEMMA OthersKept ==
    ASSUME NEW y \in Callers, CallerInv(y), call'[y] = call[y], holder' = y <=> holder = y,
           UNCHANGED status \/ holder # y
    PROVE  CallerInv(y)'
BY DEF CallerInv, Holding

\* A step that is one caller's own: the others keep their knowledge.
LEMMA OwnStep ==
    ASSUME RowInv, TypeOK', NEW x \in Callers, CallerInv(x)',
           \A y \in Callers \ {x} : call'[y] = call[y],
           \/ UNCHANGED <<status, holder>>
           \/ holder \in {Nobody, x} /\ holder' \in {Nobody, x}
    PROVE  RowInv'
<1>1. ASSUME NEW y \in Callers, y # x PROVE CallerInv(y)'
  <2>1. y # Nobody
    BY CallersAssumption
  <2>2. QED
    BY <1>1, <2>1, OthersKept DEF RowInv
<1>2. QED
  BY <1>1 DEF RowInv

\* The steps that move the row go along the table, whoever takes them.
Move(to) == Publish(to) /\ CanTransition(status, to)

\* Every step keeps the knowledge of every caller, and moves the row along the table or
\* not at all.
LEMMA RowStep ==
    ASSUME RowInv, [Next]_vars
    PROVE  RowInv' /\ (UNCHANGED column \/ \E to \in Statuses : Move(to))
<1>0. TypeOK /\ TypeOK' /\ Nobody \notin Callers /\ Updaters \cap Cancellers = {}
  BY TypeStep, CallersAssumption DEF RowInv
<1>1. ASSUME NEW u \in Updaters, NEW to \in Statuses, NEW tx \in BOOLEAN, CallUpdateStatus(u, to, tx)
      PROVE  RowInv' /\ UNCHANGED column
  <2>1. u \in Callers /\ \A y \in Callers \ {u} : call'[y] = call[y]
    BY <1>0, <1>1 DEF CallUpdateStatus, Enter, TypeOK, Callers
  <2>2. call'[u].pc = "read" /\ UNCHANGED <<column, holder>> /\ call[u].pc = "idle"
    BY <1>0, <1>1, <2>1 DEF CallUpdateStatus, Enter, At, TypeOK, Idle
  <2>3. CallerInv(u)'
    BY <1>0, <2>1, <2>2 DEF RowInv, CallerInv, Holding
  <2>4. QED
    BY <1>0, <2>1, <2>2, <2>3, OwnStep DEF column
<1>2. ASSUME NEW u \in Updaters, UpdateStep(u)
      PROVE  RowInv' /\ (UNCHANGED column \/ \E to \in Statuses : Move(to))
  <2>0. /\ u \in Callers /\ u \notin Cancellers /\ call[u] \in Call /\ CallerInv(u)
        /\ \A y \in Callers \ {u} : call'[y] = call[y]
    BY <1>0, <1>2 DEF UpdateStep, ReadCurrent, CompareAndSet, Reread, EndTransaction, Goto, Return,
                      TypeOK, Callers, RowInv
  <2>1. CASE ReadCurrent(u)
    <3>1. UNCHANGED <<column, holder>> /\ call[u].pc = "read"
      BY <2>1 DEF ReadCurrent, At
    <3>2. \/ call'[u].pc = "idle"
          \/ /\ call'[u].pc = "cas" /\ call'[u].goal = call[u].goal /\ call'[u].seen = status
             /\ CanTransition(status, call[u].goal)
      BY <1>0, <2>0, <2>1 DEF ReadCurrent, Return, Idle, TypeOK, Call
    <3>3. CallerInv(u)'
      BY <2>0, <3>1, <3>2 DEF CallerInv, Holding
    <3>4. QED
      BY <1>0, <2>0, <3>1, <3>3, OwnStep DEF column
  <2>2. CASE CompareAndSet(u)
    <3>1. holder = Nobody /\ call[u].pc = "cas" /\ CanTransition(call[u].seen, call[u].goal)
      BY <2>0, <2>2 DEF CompareAndSet, At, CallerInv
    <3>2. CASE status # call[u].seen
      <4>1. UNCHANGED <<column, holder>> /\ call'[u].pc = "read"
        BY <1>0, <2>0, <2>2, <3>2 DEF CompareAndSet, TypeOK, Call
      <4>2. CallerInv(u)'
        BY <1>0, <2>0, <3>1, <4>1 DEF CallerInv, Holding
      <4>3. QED
        BY <1>0, <2>0, <4>1, <4>2, OwnStep DEF column
    <3>3. CASE status = call[u].seen
      <4>1. /\ call'[u].pc = "reread" /\ call'[u].goal = call[u].goal
            /\ call'[u].inTx = call[u].inTx
        BY <1>0, <2>0, <2>2, <3>3 DEF CompareAndSet, Goto, TypeOK, Call
      <4>2. CASE call[u].inTx
        <5>1. holder' = u /\ UNCHANGED column
          BY <2>2, <3>3, <4>2 DEF CompareAndSet
        <5>2. CallerInv(u)'
          BY <1>0, <2>0, <3>1, <3>3, <4>1, <4>2, <5>1 DEF CallerInv, Holding, column
        <5>3. QED
          BY <1>0, <2>0, <3>1, <5>1, <5>2, OwnStep
      <4>3. CASE ~ call[u].inTx
        <5>1. UNCHANGED holder /\ Move(call[u].goal) /\ call[u].goal \in Statuses
          BY <2>2, <3>1, <3>3, <4>3, TransitionEnds DEF CompareAndSet, Move
        <5>2. CallerInv(u)'
          BY <1>0, <2>0, <3>1, <4>1, <4>3, <5>1 DEF CallerInv, Holding
        <5>3. QED
          BY <1>0, <2>0, <3>1, <5>1, <5>2, OwnStep
      <4>4. QED
        BY <4>2, <4>3
    <3>4. QED
      BY <3>2, <3>3
  <2>3. CASE Reread(u)
    <3>1. UNCHANGED <<column, holder>> /\ call[u].pc = "reread"
      BY <2>3 DEF Reread, At
    <3>2. \/ call[u].inTx /\ call'[u].pc = "open" /\ call'[u].goal = call[u].goal
          \/ ~ call[u].inTx /\ call'[u].pc = "idle"
      BY <1>0, <2>0, <2>3 DEF Reread, Goto, Return, Idle, TypeOK, Call
    <3>3. CallerInv(u)'
      BY <2>0, <3>1, <3>2 DEF CallerInv, Holding, column
    <3>4. QED
      BY <1>0, <2>0, <3>1, <3>3, OwnStep DEF column
  <2>4. CASE EndTransaction(u)
    <3>1. /\ holder = u /\ holder' = Nobody
          /\ CanTransition(status, call[u].goal) /\ call[u].goal \in Statuses
      BY <2>0, <2>4, TransitionEnds DEF EndTransaction, At, CallerInv, Holding
    <3>2. call'[u].pc = "idle"
      BY <1>0, <2>0, <2>4 DEF EndTransaction, Return, Idle, TypeOK
    <3>3. CallerInv(u)'
      BY <1>0, <2>0, <3>1, <3>2 DEF CallerInv, Holding
    <3>4. UNCHANGED column \/ Move(call[u].goal)
      BY <2>4, <3>1 DEF EndTransaction, Move
    <3>5. QED
      BY <1>0, <2>0, <3>1, <3>3, <3>4, OwnStep
  <2>5. QED
    BY <1>2, <2>1, <2>2, <2>3, <2>4 DEF UpdateStep
<1>3. ASSUME NEW c \in Cancellers, CallCancel(c)
      PROVE  RowInv' /\ UNCHANGED column
  <2>1. c \in Callers /\ \A y \in Callers \ {c} : call'[y] = call[y]
    BY <1>0, <1>3 DEF CallCancel, Enter, TypeOK, Callers
  <2>2. call'[c].pc = "preflight" /\ UNCHANGED <<column, holder>> /\ call[c].pc = "idle"
    BY <1>0, <1>3, <2>1 DEF CallCancel, Enter, At, TypeOK, Idle
  <2>3. CallerInv(c)'
    BY <1>0, <2>1, <2>2 DEF RowInv, CallerInv, Holding
  <2>4. QED
    BY <1>0, <2>1, <2>2, <2>3, OwnStep DEF column
<1>4. ASSUME NEW c \in Cancellers, CancelStep(c)
      PROVE  RowInv' /\ (UNCHANGED column \/ Move("CANCELLED"))
  <2>0. /\ c \in Callers /\ c \notin Updaters /\ call[c] \in Call /\ CallerInv(c)
        /\ \A y \in Callers \ {c} : call'[y] = call[y]
    BY <1>0, <1>4 DEF CancelStep, Preflight, LockRow, CancelTransition, Goto, Return, TypeOK, Callers,
                      RowInv
  <2>1. CASE Preflight(c)
    <3>1. UNCHANGED <<column, holder>> /\ call[c].pc = "preflight"
      BY <2>1 DEF Preflight, At
    <3>2. call'[c].pc \in {"idle", "lock"}
      BY <1>0, <2>0, <2>1 DEF Preflight, Goto, Return, Idle, TypeOK, Call
    <3>3. CallerInv(c)'
      BY <2>0, <3>1, <3>2 DEF CallerInv, Holding
    <3>4. QED
      BY <1>0, <2>0, <3>1, <3>3, OwnStep DEF column
  <2>2. CASE LockRow(c)
    <3>1. UNCHANGED column /\ call[c].pc = "lock" /\ holder = Nobody
      BY <2>2 DEF LockRow, At
    <3>2. \/ call'[c].pc = "idle" /\ holder' = Nobody
          \/ call'[c].pc = "transition" /\ holder' = c /\ CanTransition(status, "CANCELLED")
      BY <1>0, <2>0, <2>2 DEF LockRow, Goto, Return, Idle, TypeOK, Call
    <3>3. CallerInv(c)'
      BY <1>0, <2>0, <3>1, <3>2 DEF CallerInv, Holding, column
    <3>4. QED
      BY <1>0, <2>0, <3>1, <3>2, <3>3, OwnStep
  <2>3. CASE CancelTransition(c)
    <3>1. holder = c /\ holder' = Nobody /\ CanTransition(status, "CANCELLED")
      BY <2>0, <2>3 DEF CancelTransition, At, CallerInv, Holding
    <3>2. call'[c].pc = "idle"
      BY <1>0, <2>0, <2>3 DEF CancelTransition, Return, Idle, TypeOK
    <3>3. CallerInv(c)'
      BY <1>0, <2>0, <3>1, <3>2 DEF CallerInv, Holding
    <3>4. UNCHANGED column \/ Move("CANCELLED")
      BY <2>3, <3>1 DEF CancelTransition, Move
    <3>5. QED
      BY <1>0, <2>0, <3>1, <3>3, <3>4, OwnStep
  <2>4. QED
    BY <1>4, <2>1, <2>2, <2>3 DEF CancelStep
<1>5. ASSUME NEW to \in Statuses, OtherTransition(to)
      PROVE  RowInv' /\ Move(to)
  <2>1. holder = Nobody /\ UNCHANGED <<holder, call>> /\ Move(to)
    BY <1>5 DEF OtherTransition, Move
  <2>2. \A y \in Callers : CallerInv(y)'
    BY <1>0, <2>1, OthersKept DEF RowInv
  <2>3. QED
    BY <1>0, <2>1, <2>2 DEF RowInv
<1>6. ASSUME NEW to \in ComplianceStatuses, ComplianceStep(to)
      PROVE  RowInv' /\ UNCHANGED column
  BY <1>0, <1>6, OthersKept DEF ComplianceStep, RowInv, column
<1>7. CASE UNCHANGED vars
  BY <1>0, <1>7, OthersKept DEF vars, RowInv, column
<1>8. "CANCELLED" \in Statuses
  BY DEF Statuses
<1>9. QED
  BY <1>1, <1>2, <1>3, <1>4, <1>5, <1>6, <1>7, <1>8 DEF Next

\* Nobody has called yet, and nobody holds the row.
LEMMA RowInit == Init => RowInv
BY TypeInit, CallersAssumption DEF Init, RowInv, CallerInv, Holding, Idle

-----------------------------------------------------------------------------
(* Cancellations *)

\* Nothing is logged before the row is cancelled, and a caller is told so only after.
CancelInv ==
    /\ RowInv
    /\ status # "CANCELLED" => cancelLogs = 0
    /\ CancelAnswerHolds
    /\ CancelledOnce

\* A cancelled row, and with it its log, stays as it is.
LEMMA CancelledStays ==
    ASSUME CancelInv, [Next]_vars, status = "CANCELLED"
    PROVE  status' = "CANCELLED" /\ UNCHANGED cancelLogs
<1>1. UNCHANGED column
  BY RowStep, CancelledIsFinal DEF CancelInv, Move
<1>2. ASSUME NEW c \in Cancellers, CancelTransition(c) PROVE UNCHANGED cancelLogs
  <2>1. CanTransition(status, "CANCELLED") /\ c \in Callers
    BY <1>2 DEF CancelInv, RowInv, CallerInv, CancelTransition, At, Callers
  <2>2. QED
    BY <2>1, CancelledIsFinal
<1>3. UNCHANGED cancelLogs
  BY <1>2, CancelledIsFinal
     DEF Next, CallUpdateStatus, UpdateStep, ReadCurrent, CompareAndSet, Reread, EndTransaction,
         CallCancel, CancelStep, Preflight, LockRow, OtherTransition, ComplianceStep, vars
<1>4. QED
  BY <1>1, <1>3 DEF column

\* A step that tells a user of a cancellation leaves the row cancelled, and, if the step has
\* cancelled it, logged.
LEMMA CancelAnswered ==
    ASSUME CancelInv, Next, NEW c \in Cancellers,
           answer'[c] \in {"cancelled", "already-cancelled"}, answer'[c] # answer[c]
    PROVE  status' = "CANCELLED" /\ (answer'[c] = "cancelled" => cancelLogs' = cancelLogs + 1)
<1>0. TypeOK /\ c \in Callers /\ c \notin Updaters
  BY CallersAssumption DEF CancelInv, RowInv, Callers
<1>1. ~ \E u \in Updaters :
          \/ \E to \in Statuses, tx \in BOOLEAN : CallUpdateStatus(u, to, tx)
          \/ UpdateStep(u)
  BY <1>0 DEF CallUpdateStatus, Enter, UpdateStep, ReadCurrent, CompareAndSet, Reread, EndTransaction,
              Goto, Return, TypeOK
<1>2. ~ \E to \in Statuses : OtherTransition(to)
  BY DEF OtherTransition
<1>3. ~ \E to \in ComplianceStatuses : ComplianceStep(to)
  BY DEF ComplianceStep
<1>4. PICK d \in Cancellers : CallCancel(d) \/ CancelStep(d)
  BY <1>1, <1>2, <1>3 DEF Next
<1>5. d \in Callers
  BY DEF Callers
<1>6. CASE CallCancel(d)
  BY <1>0, <1>5, <1>6 DEF CallCancel, Enter, TypeOK
<1>7. CASE Preflight(d)
  BY <1>0, <1>5, <1>7 DEF Preflight, Goto, Return, TypeOK, column
<1>8. CASE LockRow(d)
  BY <1>0, <1>5, <1>8 DEF LockRow, Goto, Return, TypeOK, column
<1>9. CASE CancelTransition(d)
  BY <1>0, <1>5, <1>9 DEF CancelTransition, Publish, Return, TypeOK
<1>10. QED
  BY <1>4, <1>6, <1>7, <1>8, <1>9 DEF CancelStep

\* Every step keeps the answers about cancellations true and the log unique.
LEMMA CancelInvStep == CancelInv /\ [Next]_vars => CancelInv'
<1> SUFFICES ASSUME CancelInv, [Next]_vars PROVE CancelInv'
  OBVIOUS
<1>0. /\ RowInv' /\ cancelLogs \in Nat
      /\ UNCHANGED column \/ \E to \in Statuses : Move(to)
  BY RowStep DEF CancelInv, RowInv, TypeOK
<1>1. cancelLogs' = cancelLogs \/ (cancelLogs' = cancelLogs + 1 /\ status' = "CANCELLED")
  BY DEF Next, CallUpdateStatus, UpdateStep, ReadCurrent, CompareAndSet, Reread, EndTransaction,
         CallCancel, CancelStep, Preflight, LockRow, CancelTransition, OtherTransition,
         ComplianceStep, Publish, vars
<1>2. CASE status = "CANCELLED"
  <2>1. status' = "CANCELLED" /\ UNCHANGED cancelLogs
    BY <1>2, CancelledStays
  <2>2. ASSUME NEW c \in Cancellers, answer'[c] = "cancelled" PROVE cancelLogs' = 1
    <3>1. answer'[c] = answer[c]
      BY <1>0, <2>1, <2>2, CancelAnswered DEF vars
    <3>2. QED
      BY <2>1, <2>2, <3>1 DEF CancelInv, CancelledOnce
  <2>3. QED
    BY <1>0, <2>1, <2>2 DEF CancelInv, CancelAnswerHolds, CancelledOnce
<1>3. CASE status # "CANCELLED"
  <2>1. cancelLogs = 0 /\ \A c \in Cancellers : answer[c] \notin {"cancelled", "already-cancelled"}
    BY <1>3 DEF CancelInv, CancelAnswerHolds
  <2>2. ASSUME NEW c \in Cancellers, answer'[c] \in {"cancelled", "already-cancelled"}
        PROVE  status' = "CANCELLED" /\ (answer'[c] = "cancelled" => cancelLogs' = 1)
    <3>1. answer'[c] # answer[c]
      BY <2>1, <2>2
    <3>2. Next
      BY <3>1 DEF vars
    <3>3. QED
      BY <2>1, <2>2, <3>1, <3>2, CancelAnswered
  <2>3. QED
    BY <1>0, <1>1, <2>1, <2>2 DEF CancelInv, CancelAnswerHolds, CancelledOnce
<1>4. QED
  BY <1>2, <1>3

\* No row starts cancelled.
LEMMA CancelInit == Init => CancelInv
BY RowInit, StartAssumption
   DEF Init, CancelInv, CancelAnswerHolds, CancelledOnce, Callers

\* The answers about cancellations are true, and logged once, in every behaviour.
LEMMA CancelInvariant == Spec => []CancelInv
BY CancelInit, CancelInvStep, PTL DEF Spec

\* A user who was told "cancelled" stays right, whatever the callers of updateStatus, other
\* cancellations, admins and the scheduler do, in transactions of their own or not.
THEOREM CancelAnswersStayTrue == Spec => []CancelAnswerHolds
<1>1. CancelInv => CancelAnswerHolds
  BY DEF CancelInv
<1>2. QED
  BY <1>1, CancelInvariant, PTL

\* However many callers cancel at once, one cancellation is logged.
THEOREM CancellationsLoggedOnce == Spec => []CancelledOnce
<1>1. CancelInv => CancelledOnce
  BY DEF CancelInv
<1>2. QED
  BY <1>1, CancelInvariant, PTL

-----------------------------------------------------------------------------
(* Refunds *)

\* A row outside the unpaid statuses has been paid at some time.
PaidInv == RowInv /\ (status \notin Unpaid => paid)

\* A move is a change of the whole column.
LEMMA PaidStep == PaidInv /\ [Next]_vars => PaidInv'
<1> SUFFICES ASSUME PaidInv, [Next]_vars PROVE PaidInv'
  OBVIOUS
<1>1. RowInv' /\ (UNCHANGED column \/ \E to \in Statuses : Move(to))
  BY RowStep DEF PaidInv
<1>2. CASE UNCHANGED column
  BY <1>1, <1>2 DEF PaidInv, column
<1>3. ASSUME NEW to \in Statuses, Move(to) PROVE PaidInv'
  <2>1. status' = to /\ (status \notin Unpaid \/ to = "PAYMENT_RECEIVED" \/ to \in Unpaid)
    BY <1>3, PaymentIsTheWayIn DEF Move, Publish
  <2>2. (paid \/ to = "PAYMENT_RECEIVED") => paid'
    BY <1>3 DEF Move, Publish
  <2>3. QED
    BY <1>1, <2>1, <2>2 DEF PaidInv
<1>4. QED
  BY <1>1, <1>2, <1>3

\* A customer is told of a refund only if there was a payment, although what is shown is
\* made from two machines that move independently.
THEOREM RefundsFollowPayments == Spec => []RefundShownOnlyIfPaid
<1>1. Init => PaidInv
  BY RowInit, StartAssumption DEF Init, PaidInv
<1>2. PaidInv => RefundShownOnlyIfPaid
  BY DEF PaidInv, RefundShownOnlyIfPaid, UserFacing, Unpaid
<1>3. QED
  BY <1>1, <1>2, PaidStep, PTL DEF Spec

-----------------------------------------------------------------------------
(* Conflicts *)

\* A caller has been overtaken once per attempt, and once more if the row has moved since
\* it was read.
AttemptInv(u) ==
    /\ call[u].pc \in {"read", "cas"} => changes >= call[u].since + call[u].attempt
    /\ (call[u].pc = "cas" /\ status # call[u].seen) => changes > call[u].since + call[u].attempt

RaceInv == RowInv /\ \A u \in Updaters : AttemptInv(u)

\* The counter of changes only grows, and grows when the status changes.
LEMMA ChangesCount ==
    ASSUME RowInv, [Next]_vars
    PROVE  changes \in Nat /\ changes' \in Nat /\ changes' >= changes
           /\ (status' # status => changes' > changes)
<1>1. changes \in Nat
  BY DEF RowInv, TypeOK
<1>2. UNCHANGED column \/ \E to \in Statuses : Move(to)
  BY RowStep
<1>3. QED
  BY <1>1, <1>2 DEF Move, Publish, column

\* What others do cannot bring a caller behind.
LEMMA AttemptKept ==
    ASSUME RowInv, [Next]_vars, NEW u \in Updaters, AttemptInv(u),
           call'[u] = call[u]
    PROVE  AttemptInv(u)'
<1>1. call[u].since \in Nat /\ call[u].attempt \in Nat
  BY DEF RowInv, TypeOK, Call, Callers
<1>2. QED
  BY <1>1, ChangesCount DEF AttemptInv

\* Every step keeps the account.
LEMMA RaceStep == RaceInv /\ [Next]_vars => RaceInv'
<1> SUFFICES ASSUME RaceInv, [Next]_vars PROVE RaceInv'
  OBVIOUS
<1>0. /\ RowInv /\ TypeOK /\ RowInv'
      /\ changes \in Nat /\ changes' \in Nat /\ changes' >= changes
      /\ status' # status => changes' > changes
  BY RowStep, ChangesCount DEF RaceInv, RowInv
<1> SUFFICES ASSUME NEW u \in Updaters PROVE AttemptInv(u)'
  BY <1>0 DEF RaceInv
<1>1. u \in Callers /\ call[u] \in Call /\ AttemptInv(u) /\ u \notin Cancellers
  BY <1>0, CallersAssumption DEF Callers, TypeOK, RaceInv
<1>2. call[u].since \in Nat /\ call[u].attempt \in Nat
  BY <1>1 DEF Call
<1>3. CASE call'[u] = call[u]
  BY <1>0, <1>1, <1>3, AttemptKept
<1>4. CASE call'[u] # call[u]
  <2>1. PICK v \in Updaters :
            \/ \E to \in Statuses, tx \in BOOLEAN : CallUpdateStatus(v, to, tx)
            \/ UpdateStep(v)
    BY <1>0, <1>1, <1>4
       DEF Next, CallCancel, Enter, CancelStep, Preflight, LockRow, CancelTransition, Goto, Return,
           OtherTransition, ComplianceStep, TypeOK, Callers, vars
  <2>2. v = u
    BY <1>0, <1>1, <1>4, <2>1
       DEF CallUpdateStatus, Enter, UpdateStep, ReadCurrent, CompareAndSet, Reread, EndTransaction,
           Goto, Return, TypeOK, Callers
  <2>3. ASSUME NEW to \in Statuses, NEW tx \in BOOLEAN, CallUpdateStatus(u, to, tx) PROVE AttemptInv(u)'
    <3>1. call'[u].pc = "read" /\ call'[u].attempt = 0 /\ call'[u].since = changes /\ UNCHANGED changes
      BY <1>0, <1>1, <2>3 DEF CallUpdateStatus, Enter, TypeOK, Idle, column
    <3>2. QED
      BY <1>0, <3>1 DEF AttemptInv
  <2>4. CASE ReadCurrent(u)
    <3>1. UNCHANGED column /\ call[u].pc = "read"
      BY <2>4 DEF ReadCurrent, At
    <3>2. \/ call'[u].pc = "idle"
          \/ /\ call'[u].pc = "cas" /\ call'[u].seen = status
             /\ call'[u].since = call[u].since /\ call'[u].attempt = call[u].attempt
      BY <1>0, <1>1, <2>4 DEF ReadCurrent, Return, Idle, TypeOK, Call
    <3>3. QED
      BY <1>0, <1>1, <1>2, <3>1, <3>2 DEF AttemptInv, column
  <2>5. CASE CompareAndSet(u)
    <3>1. call[u].pc = "cas"
      BY <2>5 DEF CompareAndSet, At
    <3>2. \/ call'[u].pc = "reread"
          \/ /\ status # call[u].seen /\ UNCHANGED column /\ call'[u].pc = "read"
             /\ call'[u].since = call[u].since /\ call'[u].attempt = call[u].attempt + 1
      BY <1>0, <1>1, <2>5 DEF CompareAndSet, Goto, TypeOK, Call
    <3>3. QED
      BY <1>0, <1>1, <1>2, <3>1, <3>2 DEF AttemptInv, column
  <2>6. CASE Reread(u) \/ EndTransaction(u)
    <3>1. call'[u].pc \in {"open", "idle"}
      BY <1>0, <1>1, <2>6 DEF Reread, EndTransaction, Goto, Return, Idle, TypeOK, Call
    <3>2. QED
      BY <3>1 DEF AttemptInv
  <2>7. QED
    BY <2>1, <2>2, <2>3, <2>4, <2>5, <2>6 DEF UpdateStep
<1>5. QED
  BY <1>3, <1>4

\* updateStatus answers "conflict" only if others have changed the row as often as it
\* tried, for every number of attempts and of competitors.
THEOREM ConflictsHaveCauses == Spec => ConflictNeedsChanges
<1>1. Init => RaceInv
  BY RowInit DEF Init, RaceInv, AttemptInv, Idle, Callers
<1>2. RaceInv /\ [Next]_vars
        => [\A u \in Updaters : answer'[u] = "conflict" /\ answer[u] # "conflict"
                => changes >= call[u].since + MaxAttempts]_vars
  <2> SUFFICES ASSUME RaceInv, Next, NEW u \in Updaters, answer'[u] = "conflict", answer[u] # "conflict"
               PROVE  changes >= call[u].since + MaxAttempts
    BY DEF vars
  <2>1. TypeOK /\ u \in Callers /\ u \notin Cancellers /\ call[u] \in Call
    BY CallersAssumption DEF RaceInv, RowInv, TypeOK, Callers
  <2>2. At(u, "read") /\ call[u].attempt = MaxAttempts
    <3>1. PICK v \in Updaters : UpdateStep(v)
      BY <2>1 DEF Next, CallUpdateStatus, Enter, CallCancel, CancelStep, Preflight, LockRow,
                  CancelTransition, Goto, Return, OtherTransition, ComplianceStep, TypeOK, Callers
    <3>2. v = u /\ ReadCurrent(u)
      BY <2>1, <3>1 DEF UpdateStep, ReadCurrent, CompareAndSet, Reread, EndTransaction, Goto, Return,
                        Refusal, TypeOK, Callers
    <3>3. QED
      BY <2>1, <3>2 DEF ReadCurrent, Return, Refusal, TypeOK
  <2>3. QED
    BY <2>1, <2>2 DEF RaceInv, AttemptInv, At
<1>3. QED
  BY <1>1, <1>2, RaceStep, PTL DEF Spec, ConflictNeedsChanges

-----------------------------------------------------------------------------
(* Payout and the compliance gate *)

\* What a caller of updateStatus has been told by the gate, or by a partner, is true for
\* as long as its call lasts.
GoalIsPermitted(u) ==
    call[u].pc # "idle" =>
        /\ call[u].goal = "SENT_TO_PARTNER" => compliance = "CLEARED"
        /\ call[u].goal = "COMPLETED" => sent

PayoutInv ==
    /\ RowInv
    /\ sent => compliance = "CLEARED"
    /\ status \in {"SENT_TO_PARTNER", "COMPLETED"} => sent
    /\ \A u \in Updaters : GoalIsPermitted(u)

\* A clearance and a sending are for good.
LEMMA ClearanceStays ==
    ASSUME RowInv, [Next]_vars
    PROVE  /\ compliance = "CLEARED" => compliance' = "CLEARED"
           /\ sent => sent'
<1>1. compliance' = compliance \/ <<compliance, compliance'>> \in ComplianceTransitions
  BY DEF Next, CallUpdateStatus, UpdateStep, ReadCurrent, CompareAndSet, Reread, EndTransaction,
         CallCancel, CancelStep, Preflight, LockRow, CancelTransition, OtherTransition,
         ComplianceStep, vars
<1>2. UNCHANGED column \/ \E to \in Statuses : Move(to)
  BY RowStep
<1>3. sent => sent'
  <2>1. CASE UNCHANGED column
    BY <2>1 DEF column
  <2>2. ASSUME NEW to \in Statuses, Move(to) PROVE sent => sent'
    BY <2>2 DEF Move, Publish
  <2>3. QED
    BY <1>2, <2>1, <2>2
<1>4. QED
  BY <1>1, <1>3, ComplianceEnds

\* A call keeps its goal, and a new call has passed the gate.
LEMMA GoalKept ==
    ASSUME GateCalled, PayoutInv, Next, RowInv', NEW u \in Updaters
    PROVE  GoalIsPermitted(u)'
<1>0. /\ TypeOK /\ u \in Callers /\ u \notin Cancellers /\ call[u] \in Call
      /\ GoalIsPermitted(u)
  BY CallersAssumption DEF PayoutInv, RowInv, TypeOK, Callers
<1>1. /\ compliance = "CLEARED" => compliance' = "CLEARED"
      /\ sent => sent'
  BY ClearanceStays DEF PayoutInv
<1>2. CASE call'[u].pc = "idle" \/ (call[u].pc # "idle" /\ call'[u].goal = call[u].goal)
  BY <1>0, <1>1, <1>2 DEF GoalIsPermitted
<1>3. ASSUME NEW to \in Statuses, NEW tx \in BOOLEAN, CallUpdateStatus(u, to, tx)
      PROVE  GoalIsPermitted(u)'
  <2>1. call'[u].goal = to
    BY <1>0, <1>3 DEF CallUpdateStatus, Enter, TypeOK, Idle
  <2>2. (to = "SENT_TO_PARTNER" => compliance = "CLEARED") /\ (to = "COMPLETED" => sent)
    BY <1>3 DEF CallUpdateStatus, GatePermits
  <2>3. QED
    BY <1>1, <2>1, <2>2 DEF GoalIsPermitted
<1>4. ASSUME UpdateStep(u)
      PROVE  call'[u].pc = "idle" \/ (call[u].pc # "idle" /\ call'[u].goal = call[u].goal)
  BY <1>0, <1>4
     DEF UpdateStep, ReadCurrent, CompareAndSet, Reread, EndTransaction, At, Goto, Return, Idle,
         TypeOK, Call
<1>5. CASE call'[u] = call[u]
  BY <1>0, <1>1, <1>5 DEF GoalIsPermitted
<1>6. CASE call'[u] # call[u]
  <2>1. PICK v \in Updaters :
            \/ \E to \in Statuses, tx \in BOOLEAN : CallUpdateStatus(v, to, tx)
            \/ UpdateStep(v)
    BY <1>0, <1>6
       DEF Next, CallCancel, Enter, CancelStep, Preflight, LockRow, CancelTransition, Goto, Return,
           OtherTransition, ComplianceStep, TypeOK, Callers
  <2>2. v = u
    BY <1>0, <1>6, <2>1
       DEF CallUpdateStatus, Enter, UpdateStep, ReadCurrent, CompareAndSet, Reread, EndTransaction,
           Goto, Return, TypeOK, Callers
  <2>3. QED
    BY <1>2, <1>3, <1>4, <2>1, <2>2
<1>7. QED
  BY <1>5, <1>6

\* The column moves only to the goal of a call of updateStatus, or to CANCELLED or EXPIRED.
LEMMA MoveHasCause ==
    ASSUME RowInv, Next, status' # status
    PROVE  \/ status' \in {"CANCELLED", "EXPIRED"}
           \/ \E u \in Updaters : call[u].pc # "idle" /\ status' = call[u].goal
BY DEF Next, CallUpdateStatus, UpdateStep, ReadCurrent, CompareAndSet, Reread, EndTransaction,
       CallCancel, CancelStep, Preflight, LockRow, CancelTransition, OtherTransition,
       ComplianceStep, Publish, At, column

\* A new payout is the goal of a call that the gate, or the partner, has permitted.
LEMMA PayoutIsPermitted ==
    ASSUME PayoutInv, Next, status' # status, status' \in {"SENT_TO_PARTNER", "COMPLETED"}
    PROVE  compliance = "CLEARED" /\ (status' = "COMPLETED" => sent)
<1>1. PICK u \in Updaters : call[u].pc # "idle" /\ status' = call[u].goal
  BY MoveHasCause DEF PayoutInv
<1>2. QED
  BY <1>1 DEF PayoutInv, GoalIsPermitted

\* Every step keeps payouts behind the gate.
LEMMA PayoutStep ==
    ASSUME GateCalled, PayoutInv, [Next]_vars
    PROVE  PayoutInv'
<1>0. /\ RowInv /\ RowInv'
      /\ UNCHANGED column \/ \E to \in Statuses : Move(to)
  BY RowStep DEF PayoutInv
<1>1. CASE UNCHANGED vars
  BY <1>0, <1>1 DEF vars, column, PayoutInv, GoalIsPermitted
<1>2. CASE Next
  <2>1. \A u \in Updaters : GoalIsPermitted(u)'
    BY <1>0, <1>2, GoalKept
  <2>2. (compliance = "CLEARED" => compliance' = "CLEARED") /\ (sent => sent')
    BY <1>0, ClearanceStays
  <2>3. CASE UNCHANGED column
    BY <1>0, <2>1, <2>2, <2>3 DEF PayoutInv, column
  <2>4. ASSUME NEW to \in Statuses, Move(to) PROVE PayoutInv'
    <3>1. status' = to /\ status' # status /\ (to = "SENT_TO_PARTNER" => sent')
      BY <2>4, TransitionEnds DEF Move, Publish
    <3>2. sent' => (sent \/ to = "SENT_TO_PARTNER")
      BY <2>4 DEF Move, Publish
    <3>3. sent' => compliance' = "CLEARED"
      BY <1>2, <2>2, <3>1, <3>2, PayoutIsPermitted DEF PayoutInv
    <3>4. status' \in {"SENT_TO_PARTNER", "COMPLETED"} => sent'
      BY <1>2, <2>2, <3>1, PayoutIsPermitted DEF PayoutInv
    <3>5. QED
      BY <1>0, <2>1, <3>3, <3>4 DEF PayoutInv
  <2>5. QED
    BY <1>0, <2>3, <2>4
<1>3. QED
  BY <1>1, <1>2

\* The start rows were sent only after their clearance.
LEMMA PayoutInit == Init => PayoutInv
BY RowInit, StartAssumption DEF Init, PayoutInv, GoalIsPermitted, Idle, Callers

\* If every caller consults the gate before it calls updateStatus, no transfer that is not
\* cleared is ever paid out, although the gate and the status are read at different times.
\* Without the hypothesis the run status_ungated refutes it.
THEOREM GateGuardsPayout ==
    ASSUME GateCalled
    PROVE  Spec => []PayoutIsCleared
<1>1. PayoutInv /\ [Next]_vars => PayoutInv'
  BY PayoutStep
<1>2. PayoutInv => PayoutIsCleared
  BY DEF PayoutInv, PayoutIsCleared
<1>3. QED
  BY <1>1, <1>2, PayoutInit, PTL DEF Spec

-----------------------------------------------------------------------------
(* The lifecycle *)

\* Every status has its phase.
LEMMA Phases ==
    ASSUME status \in Statuses
    PROVE  /\ Phase \in Lifecycle!Phases
           /\ Phase = "cancelled" <=> status = "CANCELLED"
           /\ Phase = "open" <=> status \in {"CREATED", "QUOTE_CONFIRMED", "EXPIRED", "PENDING"}
           /\ Phase = "funded" <=> status \in {"PAYMENT_RECEIVED", "PROCESSING", "SENT_TO_PARTNER", "FAILED"}
           /\ Phase = "paidout" <=> status = "COMPLETED"
           /\ Phase = "refunded" <=> status = "REFUNDED"
BY DEF Statuses, Phase, Lifecycle!Phases

\* A move along the table is a step of the lifecycle, or stays in its phase.
LEMMA MoveIsLifecycleStep ==
    ASSUME status \in Statuses, NEW to \in Statuses, Move(to),
           UNCHANGED compliance, status' = "COMPLETED" => compliance = "CLEARED"
    PROVE  Lifecycle!Next \/ UNCHANGED <<Phase, compliance = "CLEARED">>
<1>1. CanTransition(status, status') /\ status' \in Statuses
  BY DEF Move, Publish
<1>2. \/ Phase' = Phase
      \/ Phase = "open" /\ Phase' \in {"cancelled", "funded"}
      \/ Phase = "funded" /\ Phase' = "paidout" /\ status' = "COMPLETED"
      \/ Phase \in {"funded", "paidout"} /\ Phase' = "refunded"
  BY <1>1 DEF CanTransition, StatusTransitions, Phase
<1>3. QED
  BY <1>2 DEF Lifecycle!Next, Lifecycle!Cancel, Lifecycle!Fund, Lifecycle!PayOut, Lifecycle!Refund

\* A step of the row or of compliance, never both, is a step of the lifecycle.
LEMMA LifecycleRefinement ==
    ASSUME PayoutInv, [Next]_vars
    PROVE  [Lifecycle!Next]_<<Phase, compliance = "CLEARED">>
<1>0. /\ status \in Statuses /\ RowInv
      /\ UNCHANGED column \/ \E to \in Statuses : Move(to)
  BY RowStep DEF PayoutInv, RowInv, TypeOK
<1>1. CASE UNCHANGED vars
  BY <1>1 DEF vars, column, Phase
<1>2. ASSUME NEW to \in ComplianceStatuses, ComplianceStep(to)
      PROVE  Lifecycle!Next \/ UNCHANGED <<Phase, compliance = "CLEARED">>
  <2>1. UNCHANGED Phase /\ compliance # "CLEARED"
    BY <1>2, ComplianceEnds DEF ComplianceStep, column, Phase
  <2>2. QED
    BY <2>1 DEF Lifecycle!Next, Lifecycle!Clear
<1>3. CASE Next /\ UNCHANGED compliance
  <2>1. CASE UNCHANGED column
    BY <1>3, <2>1 DEF column, Phase
  <2>2. ASSUME NEW to \in Statuses, Move(to)
        PROVE  Lifecycle!Next \/ UNCHANGED <<Phase, compliance = "CLEARED">>
    <3>1. status' = to /\ to # status
      BY <2>2, TransitionEnds DEF Move, Publish
    <3>2. status' = "COMPLETED" => compliance = "CLEARED"
      BY <1>3, <3>1, PayoutIsPermitted
    <3>3. QED
      BY <1>0, <1>3, <2>2, <3>2, MoveIsLifecycleStep
  <2>3. QED
    BY <1>0, <2>1, <2>2
<1>4. \/ UNCHANGED vars
      \/ \E to \in ComplianceStatuses : ComplianceStep(to)
      \/ Next /\ UNCHANGED compliance
  BY DEF Next, CallUpdateStatus, UpdateStep, ReadCurrent, CompareAndSet, Reread, EndTransaction,
         CallCancel, CancelStep, Preflight, LockRow, CancelTransition, OtherTransition
<1>5. QED
  BY <1>1, <1>2, <1>3, <1>4

\* With callers that consult the gate, the eleven statuses, the compare-and-set and the row
\* lock implement the lifecycle: money that arrived is never called off, a payout follows a
\* clearance, and a refund follows money.
THEOREM StatusKeepsLifecycle ==
    ASSUME GateCalled
    PROVE  Spec => KeepsLifecycle
<1>1. Init => Lifecycle!Init
  <2> SUFFICES ASSUME Init PROVE Lifecycle!Init
    OBVIOUS
  <2>1. PayoutInv /\ status \in Statuses
    BY PayoutInit, TypeInit DEF TypeOK
  <2>2. QED
    BY <2>1, Phases DEF PayoutInv, Lifecycle!Init
<1>2. PayoutInv /\ [Next]_vars => PayoutInv'
  BY PayoutStep
<1>3. PayoutInv /\ [Next]_vars => [Lifecycle!Next]_<<Phase, compliance = "CLEARED">>
  BY LifecycleRefinement
<1>4. QED
  BY <1>1, <1>2, <1>3, PayoutInit, PTL DEF Spec, KeepsLifecycle, Lifecycle!Spec
=============================================================================
