--------------------- MODULE NotificationPublishProofs ---------------------
(***************************************************************************)
(* Theorems about NotificationPublish for every set of calls, users, keys  *)
(* and messages, every profile, and every number of faults and changes.    *)
(***************************************************************************)
EXTENDS NotificationPublish, TLAPS

-----------------------------------------------------------------------------
(* Channels and targets *)

\* Every channel that substitution may lead to is a channel.
LEMMA FinalChannelsType ==
    ASSUME NEW e \in Dtos, NEW p
    PROVE  FinalChannels(e, p) \subseteq Channels
BY PublishAssumption DEF FinalChannels, Channels

\* Targets are numbered.
LEMMA TargetsType ==
    ASSUME NEW p \in Profiles, NEW ch \in Channels
    PROVE  Targets(p, ch) \subseteq Nat
<1>1. p.tokens \in Nat
  BY PublishAssumption DEF Profile
<1>2. QED
  BY <1>1 DEF Targets

\* The outbox rows a call may open.
OutboxRows == Calls \X Channels \X Nat

\* What a call resolves: a row for each target of each channel that is left and allowed.
Resolved(c, e, p) ==
    UNION {{<<c, ch, i>> : i \in Targets(p, ch)} :
             ch \in {x \in FinalChannels(e, p) : IsAllowed(p, e.category, x, night)}}

\* The rows of a call are its own, on channels that are left and allowed.
LEMMA ResolvedRows ==
    ASSUME NEW c \in Calls, NEW e \in Dtos, NEW p \in Profiles, NEW r \in Resolved(c, e, p)
    PROVE  /\ r \in OutboxRows /\ r[1] = c
           /\ r[2] \in FinalChannels(e, p)
           /\ IsAllowed(p, e.category, r[2], night)
<1>1. PICK ch \in FinalChannels(e, p) : /\ IsAllowed(p, e.category, ch, night)
                                        /\ \E i \in Targets(p, ch) : r = <<c, ch, i>>
  BY DEF Resolved
<1>2. PICK i \in Targets(p, ch) : r = <<c, ch, i>>
  BY <1>1
<1>3. ch \in Channels /\ i \in Nat
  BY <1>2, FinalChannelsType, TargetsType
<1>4. QED
  BY <1>1, <1>2, <1>3 DEF OutboxRows

-----------------------------------------------------------------------------
(* Type correctness *)

\* Kept folded in the proofs: the provers reason about truth values as formulas, not as values.
Flags == BOOLEAN

\* The flags of a call.
LEMMA FlagValues == TRUE \in Flags /\ FALSE \in Flags
BY DEF Flags

CallRecord ==
    [pc : Places, dto : Dtos \cup {NoDto}, inTx : Flags, ctx : Profiles \cup {NoContext},
     todo : SUBSET OutboxRows, wrote : SUBSET OutboxRows, bell : Flags, key : Flags,
     era : Nat, answer : Answers]

\* Operations of users between the ownership check and the write.
Operations == [op : {"read", "delete"}, target : Calls]

Hashes == {RequestHash(e) : e \in Dtos}

\* What a call has at each place: a message, its user's context, a key to reserve.
CallHasInput(c) ==
    /\ call[c].pc # "idle" => call[c].dto \in Dtos
    /\ call[c].pc \in {"reserve", "lookup"} \cup InTransaction => call[c].ctx \in Profiles
    /\ call[c].pc \in {"reserve", "lookup"} => call[c].dto.key \in Keys

TypeInv ==
    /\ profile \in [Users -> Profiles] /\ night \in BOOLEAN
    /\ keyRow \in [Keys -> SUBSET Hashes]
    /\ pending \in [Keys -> Calls \cup {Nobody}]
    /\ expired \subseteq Keys /\ era \in [Keys -> Nat]
    /\ call \in [Calls -> CallRecord]
    /\ \A c \in Calls : CallHasInput(c)
    /\ bell \in [Calls -> {"none", "unread", "read", "deleted"}]
    /\ rows \subseteq OutboxRows
    /\ ui \in [Users -> {NoOp} \cup Operations]
    /\ touched \subseteq Calls \X Users
    /\ faults \in 0 .. MaxFaults /\ changes \in 0 .. MaxChanges

\* A call that ends keeps what it had.
LEMMA EndTypes ==
    ASSUME TypeInv, NEW c \in Calls, NEW a \in Answers, End(c, a), call[c].pc # "idle"
    PROVE  call' \in [Calls -> CallRecord] /\ \A d \in Calls : CallHasInput(d)'
<1>1. call' \in [Calls -> CallRecord]
  <2>1. [call[c] EXCEPT !.pc = "done", !.answer = a, !.todo = {}] \in CallRecord
    BY DEF TypeInv, CallRecord, Places
  <2>2. QED
    BY <2>1 DEF TypeInv, End
<1>2. ASSUME NEW d \in Calls PROVE CallHasInput(d)'
  BY DEF TypeInv, End, CallHasInput, CallRecord, InTransaction
<1>3. QED
  BY <1>1, <1>2

\* A call that moves on inside its transaction, or its sequence of writes, does so too.
LEMMA MoveTypes ==
    ASSUME TypeInv, NEW c \in Calls, call[c].pc \in {"reserve", "lookup"} \cup InTransaction,
           call' \in [Calls -> CallRecord],
           \A d \in Calls \ {c} : call'[d] = call[d],
           call'[c].dto = call[c].dto, call'[c].ctx = call[c].ctx,
           call[c].pc = "reserve" \/ call'[c].pc \in InTransaction
    PROVE  \A d \in Calls : CallHasInput(d)'
<1>1. CallHasInput(c)'
  BY DEF TypeInv, CallHasInput, InTransaction
<1>2. ASSUME NEW d \in Calls, d # c PROVE CallHasInput(d)'
  BY <1>2 DEF TypeInv, CallHasInput
<1>3. QED
  BY <1>1, <1>2

\* One step of anyone keeps every variable in its type.
LEMMA TypeStep == TypeInv /\ [Next]_vars => TypeInv'
<1> SUFFICES ASSUME TypeInv, [Next]_vars PROVE TypeInv'
  OBVIOUS
<1> USE PublishAssumption
<1>0. \A c \in Calls : call[c] \in CallRecord
  BY DEF TypeInv
<1>1. ASSUME NEW c \in Calls, NEW e \in Dtos, NEW tx \in BOOLEAN, Publish(c, e, tx) PROVE TypeInv'
  <2>1. call' \in [Calls -> CallRecord]
    <3>1. tx \in Flags
      BY DEF Flags
    <3>2. [call[c] EXCEPT !.pc = "context", !.dto = e, !.inTx = tx] \in CallRecord
      BY <1>0, <3>1 DEF CallRecord, Places
    <3>3. QED
      BY <1>1, <3>2 DEF Publish, TypeInv
  <2>2. \A d \in Calls : CallHasInput(d)'
    BY <1>1 DEF Publish, TypeInv, CallHasInput, CallRecord, InTransaction
  <2>3. QED
    BY <1>1, <2>1, <2>2 DEF Publish, TypeInv, tables, world, panel
<1>2. ASSUME NEW c \in Calls, FindUserContext(c) PROVE TypeInv'
  <2>0. call[c].dto \in Dtos /\ call[c].pc = "context"
    BY <1>2 DEF FindUserContext, At, TypeInv, CallHasInput
  <2>1. call' \in [Calls -> CallRecord] /\ \A d \in Calls : CallHasInput(d)'
    <3>1. CASE \E a \in Answers : End(c, a)
      BY <2>0, <3>1, EndTypes
    <3>2. CASE /\ call[c].dto.user \in Users
               /\ call' = [call EXCEPT ![c].ctx = profile[call[c].dto.user],
                                       ![c].pc = IF call[c].dto.key = NoKey THEN "resolve" ELSE "reserve"]
      <4>1. profile[call[c].dto.user] \in Profiles /\ call[c].dto.key \in Keys \cup {NoKey}
        BY <2>0, <3>2 DEF TypeInv
      <4>2. call' \in [Calls -> CallRecord]
        <5>1. [call[c] EXCEPT !.ctx = profile[call[c].dto.user],
                              !.pc = IF call[c].dto.key = NoKey THEN "resolve" ELSE "reserve"] \in CallRecord
          BY <1>0, <4>1 DEF CallRecord, Places, InTransaction
        <5>2. QED
          BY <3>2, <5>1 DEF TypeInv
      <4>3. CallHasInput(c)'
        BY <2>0, <3>2, <4>1 DEF TypeInv, CallHasInput, CallRecord, InTransaction
      <4>4. ASSUME NEW d \in Calls, d # c PROVE CallHasInput(d)'
        BY <3>2, <4>4 DEF TypeInv, CallHasInput
      <4>5. QED
        BY <4>2, <4>3, <4>4
    <3>3. QED
      BY <1>2, <3>1, <3>2 DEF FindUserContext, Answers
  <2>2. QED
    BY <1>2, <2>1 DEF FindUserContext, TypeInv, tables, world, panel
<1>3. ASSUME NEW c \in Calls, ReserveKey(c) PROVE TypeInv'
  <2>0. /\ call[c].pc = "reserve" /\ call[c].dto \in Dtos /\ call[c].dto.key \in Keys
        /\ RequestHash(call[c].dto) \in Hashes
    BY <1>3 DEF ReserveKey, At, TypeInv, CallHasInput, Hashes
  <2>1. call' \in [Calls -> CallRecord]
    <3>1. era[call[c].dto.key] \in Nat
      BY <2>0 DEF TypeInv
    <3>2. [call[c] EXCEPT !.pc = "resolve", !.key = TRUE, !.era = era[call[c].dto.key]] \in CallRecord
      BY <1>0, <3>1, FlagValues DEF CallRecord, Places, InTransaction
    <3>3. [call[c] EXCEPT !.pc = "lookup"] \in CallRecord
      BY <1>0 DEF CallRecord, Places
    <3>4. \/ call' = [call EXCEPT ![c].pc = "resolve", ![c].key = TRUE, ![c].era = era[call[c].dto.key]]
          \/ call' = [call EXCEPT ![c].pc = "lookup"]
      BY <1>3 DEF ReserveKey, Goto
    <3>5. QED
      BY <3>2, <3>3, <3>4 DEF TypeInv
  <2>2. \A d \in Calls : CallHasInput(d)'
    <3>1. /\ call'[c].dto = call[c].dto /\ call'[c].ctx = call[c].ctx
          /\ \A d \in Calls \ {c} : call'[d] = call[d]
      BY <1>0, <1>3 DEF ReserveKey, Goto, TypeInv, CallRecord
    <3>2. QED
      BY <2>0, <2>1, <3>1, MoveTypes
  <2>3. keyRow' \in [Keys -> SUBSET Hashes] /\ pending' \in [Keys -> Calls \cup {Nobody}]
    BY <1>3, <2>0 DEF ReserveKey, TypeInv
  <2>4. QED
    BY <1>3, <2>1, <2>2, <2>3 DEF ReserveKey, TypeInv, world, panel
<1>4. ASSUME NEW c \in Calls, LookupKey(c) PROVE TypeInv'
  <2>1. call' \in [Calls -> CallRecord] /\ \A d \in Calls : CallHasInput(d)'
    BY <1>4, EndTypes DEF LookupKey, At, Answers
  <2>2. QED
    BY <1>4, <2>1 DEF LookupKey, TypeInv, tables, world, panel
<1>5. ASSUME NEW c \in Calls, Resolve(c) PROVE TypeInv'
  <2>0. call[c].pc = "resolve" /\ call[c].dto \in Dtos /\ call[c].ctx \in Profiles
    BY <1>5 DEF Resolve, At, TypeInv, CallHasInput, InTransaction
  <2>1. Resolved(c, call[c].dto, call[c].ctx) \in SUBSET OutboxRows
    BY <2>0, ResolvedRows
  <2>2. \E pc \in {"rows", "bell"} :
          call' = [call EXCEPT ![c].todo = Resolved(c, call[c].dto, call[c].ctx), ![c].pc = pc]
    BY <1>5 DEF Resolve, Resolved
  <2>3. call' \in [Calls -> CallRecord]
    <3>1. PICK pc \in {"rows", "bell"} :
            call' = [call EXCEPT ![c].todo = Resolved(c, call[c].dto, call[c].ctx), ![c].pc = pc]
      BY <2>2
    <3>2. [call[c] EXCEPT !.todo = Resolved(c, call[c].dto, call[c].ctx), !.pc = pc] \in CallRecord
      BY <1>0, <2>1 DEF CallRecord, Places, InTransaction
    <3>3. QED
      BY <3>1, <3>2 DEF TypeInv
  <2>4. \A d \in Calls : CallHasInput(d)'
    BY <2>0, <2>2, <2>3, MoveTypes DEF TypeInv, CallRecord, InTransaction
  <2>5. QED
    BY <1>5, <2>3, <2>4 DEF Resolve, TypeInv, tables, world, panel
<1>6. ASSUME NEW c \in Calls, WriteBell(c) PROVE TypeInv'
  <2>1. call' \in [Calls -> CallRecord]
    <3>1. [call[c] EXCEPT !.pc = "rows", !.bell = TRUE] \in CallRecord
      BY <1>0, FlagValues DEF CallRecord, Places, InTransaction
    <3>2. [call[c] EXCEPT !.pc = "rows"] \in CallRecord
      BY <1>0 DEF CallRecord, Places, InTransaction
    <3>3. QED
      BY <1>6, <3>1, <3>2 DEF WriteBell, Goto, TypeInv
  <2>2. \A d \in Calls : CallHasInput(d)'
    BY <1>6, <2>1, MoveTypes DEF WriteBell, At, Goto, TypeInv, CallRecord, InTransaction
  <2>3. bell' \in [Calls -> {"none", "unread", "read", "deleted"}]
    BY <1>6 DEF WriteBell, TypeInv
  <2>4. QED
    BY <1>6, <2>1, <2>2, <2>3 DEF WriteBell, TypeInv, world, panel
<1>7. ASSUME NEW c \in Calls, CreateOutbox(c) PROVE TypeInv'
  <2>1. call[c].todo \subseteq OutboxRows /\ call[c].wrote \subseteq OutboxRows
    BY DEF TypeInv, CallRecord
  <2>2. call' \in [Calls -> CallRecord]
    <3>1. PICK r \in call[c].todo :
            \/ call' = [call EXCEPT ![c].todo = @ \ {r}, ![c].wrote = @ \cup {r}]
            \/ call' = [call EXCEPT ![c].todo = @ \ {r}]
      BY <1>7 DEF CreateOutbox
    <3>2. call[c].todo \ {r} \in SUBSET OutboxRows /\ call[c].wrote \cup {r} \in SUBSET OutboxRows
      BY <2>1
    <3>3. [call[c] EXCEPT !.todo = call[c].todo \ {r}, !.wrote = call[c].wrote \cup {r}] \in CallRecord
      BY <1>0, <3>2 DEF CallRecord
    <3>4. [call[c] EXCEPT !.todo = call[c].todo \ {r}] \in CallRecord
      BY <1>0, <3>2 DEF CallRecord
    <3>5. QED
      BY <3>1, <3>3, <3>4 DEF TypeInv
  <2>3. \A d \in Calls : CallHasInput(d)'
    BY <1>7, <2>2, MoveTypes DEF CreateOutbox, At, TypeInv, CallRecord, InTransaction
  <2>4. QED
    BY <1>7, <2>1, <2>2, <2>3 DEF CreateOutbox, TypeInv, world, panel
<1>8. ASSUME NEW c \in Calls, Return(c) PROVE TypeInv'
  <2>1. call' \in [Calls -> CallRecord] /\ \A d \in Calls : CallHasInput(d)'
    <3>1. CASE Goto(c, "open")
      <4>1. call' \in [Calls -> CallRecord]
        <5>1. [call[c] EXCEPT !.pc = "open"] \in CallRecord
          BY <1>0 DEF CallRecord, Places, InTransaction
        <5>2. QED
          BY <3>1, <5>1 DEF Goto, TypeInv
      <4>2. QED
        BY <1>8, <3>1, <4>1, MoveTypes DEF Return, At, Goto, TypeInv, CallRecord, InTransaction
    <3>2. CASE End(c, "published")
      BY <1>8, <3>2, EndTypes DEF Return, At, Answers
    <3>3. QED
      BY <1>8, <3>1, <3>2 DEF Return
  <2>2. QED
    BY <1>8, <2>1 DEF Return, TypeInv, tables, world, panel
<1>9. ASSUME NEW c \in Calls, Commit(c) PROVE TypeInv'
  <2>1. call' \in [Calls -> CallRecord] /\ \A d \in Calls : CallHasInput(d)'
    BY <1>9, EndTypes DEF Commit, At, Answers
  <2>2. RequestHash(call[c].dto) \in Hashes /\ call[c].wrote \subseteq OutboxRows
    BY <1>9 DEF Commit, At, TypeInv, CallHasInput, Hashes, CallRecord
  <2>3. keyRow' \in [Keys -> SUBSET Hashes] /\ pending' \in [Keys -> Calls \cup {Nobody}]
    BY <1>9, <2>2 DEF Commit, Unpend, TypeInv
  <2>4. bell' \in [Calls -> {"none", "unread", "read", "deleted"}] /\ rows' \subseteq OutboxRows
    BY <1>9, <2>2 DEF Commit, TypeInv
  <2>5. QED
    BY <1>9, <2>1, <2>3, <2>4 DEF Commit, TypeInv, world, panel
<1>10. ASSUME NEW c \in Calls, Fail(c) PROVE TypeInv'
  <2>1. call' \in [Calls -> CallRecord] /\ \A d \in Calls : CallHasInput(d)'
    BY <1>10, EndTypes DEF Fail, At, Answers
  <2>2. pending' \in [Keys -> Calls \cup {Nobody}] /\ faults' \in 0 .. MaxFaults
    BY <1>10 DEF Fail, Unpend, TypeInv
  <2>3. QED
    BY <1>10, <2>1, <2>2 DEF Fail, TypeInv, world, panel
<1>11. ASSUME NEW k \in Keys, KeyExpires(k) PROVE TypeInv'
  BY <1>11 DEF KeyExpires, TypeInv, CallHasInput, tables, panel
<1>12. CASE PruneExpired
  <2>1. keyRow' \in [Keys -> SUBSET Hashes] /\ era' \in [Keys -> Nat]
    BY <1>12 DEF PruneExpired, TypeInv
  <2>2. QED
    BY <1>12, <2>1 DEF PruneExpired, TypeInv, CallHasInput, panel
<1>13. CASE WorldChanges
  <2>1. profile' \in [Users -> Profiles] /\ changes' \in 0 .. MaxChanges
    BY <1>13 DEF WorldChanges, TypeInv
  <2>2. night' \in BOOLEAN
    BY <1>13 DEF WorldChanges, TypeInv
  <2>3. QED
    BY <1>13, <2>1, <2>2 DEF WorldChanges, TypeInv, CallHasInput, tables, panel
<1>14. ASSUME NEW u \in Users, NEW op \in {"read", "delete"}, NEW c \in Calls, VerifyOwnership(u, op, c)
       PROVE  TypeInv'
  BY <1>14 DEF VerifyOwnership, TypeInv, Operations, CallHasInput, tables, world
<1>15. ASSUME NEW u \in Users, ApplyToBell(u) PROVE TypeInv'
  <2>1. ui' \in [Users -> {NoOp} \cup Operations]
    BY <1>15 DEF ApplyToBell, TypeInv
  <2>2. bell' \in [Calls -> {"none", "unread", "read", "deleted"}]
    <3>1. \E v \in {"read", "deleted"} : bell' \in {bell, [bell EXCEPT ![ui[u].target] = v]}
      BY <1>15 DEF ApplyToBell
    <3>2. QED
      BY <3>1 DEF TypeInv
  <2>3. touched' \subseteq Calls \X Users
    <3>1. ui[u].target \in Calls
      BY <1>15 DEF ApplyToBell, TypeInv, Operations
    <3>2. touched' \subseteq touched \cup {<<ui[u].target, u>>}
      BY <1>15 DEF ApplyToBell
    <3>3. QED
      BY <3>1, <3>2 DEF TypeInv
  <2>4. QED
    BY <1>15, <2>1, <2>2, <2>3 DEF ApplyToBell, TypeInv, CallHasInput, world
<1>16. CASE UNCHANGED vars
  BY <1>16 DEF vars, tables, world, panel, TypeInv, CallHasInput
<1>17. QED
  BY <1>1, <1>2, <1>3, <1>4, <1>5, <1>6, <1>7, <1>8, <1>9, <1>10, <1>11, <1>12, <1>13, <1>14, <1>15,
     <1>16 DEF Next, PublishStep

\* Nothing is published yet.
LEMMA TypeInit == Init => TypeInv
<1> SUFFICES ASSUME Init PROVE TypeInv
  OBVIOUS
<1>1. Idle \in CallRecord
  BY FlagValues DEF Idle, CallRecord, Places, Answers
<1>2. call \in [Calls -> CallRecord] /\ \A c \in Calls : CallHasInput(c)
  BY <1>1 DEF Init, Idle, CallHasInput, InTransaction
<1>3. ui \in [Users -> {NoOp} \cup Operations]
  BY DEF Init
<1>4. profile \in [Users -> Profiles] /\ faults \in 0 .. MaxFaults /\ changes \in 0 .. MaxChanges
  BY PublishAssumption DEF Init
<1>5. night \in BOOLEAN
  BY DEF Init
<1>6. /\ keyRow \in [Keys -> SUBSET Hashes] /\ pending \in [Keys -> Calls \cup {Nobody}]
      /\ era \in [Keys -> Nat] /\ bell \in [Calls -> {"none", "unread", "read", "deleted"}]
      /\ expired \subseteq Keys /\ rows \subseteq OutboxRows /\ touched \subseteq Calls \X Users
  BY DEF Init
<1>7. QED
  BY <1>2, <1>3, <1>4, <1>5, <1>6 DEF TypeInv

-----------------------------------------------------------------------------
(* The course of one call *)

\* What a call carries at each place and after each answer.  Rows and the bell
\* record are held back (wrote, bell) only in a transaction.
CallInv(c) ==
    LET x == call[c] IN
    /\ x.pc \in {"idle", "context", "reserve", "lookup"} => ~ x.key
    /\ x.pc \in {"idle", "context", "reserve", "lookup", "resolve"} => x.todo = {}
    /\ x.pc \in {"idle", "context", "reserve", "lookup", "resolve", "bell"} => x.wrote = {} /\ ~ x.bell
    /\ x.pc = "done" <=> x.answer # "none"
    /\ x.pc \in {"open", "done"} => x.todo = {}
    /\ x.pc = "open" => x.inTx
    /\ x.key => x.dto.key \in Keys
    /\ (x.pc \in InTransaction \/ x.answer = "published") /\ x.dto.key # NoKey => x.key
    /\ x.answer = "duplicate" => x.dto.key \in Keys
    /\ x.answer \notin {"none", "published", "failed"} => ~ x.key /\ x.wrote = {}
    /\ ~ x.inTx => x.wrote = {} /\ ~ x.bell
    /\ \A r \in x.todo \cup x.wrote : r[1] = c
    /\ x.inTx /\ x.pc \in {"rows", "open"} /\ x.todo \cup x.wrote # {} => x.bell

CourseInv == TypeInv /\ \A c \in Calls : CallInv(c)

\* A step is one of a call, or no call notices it.
LEMMA StepOfACall ==
    ASSUME [Next]_vars
    PROVE  \/ \E c \in Calls : \/ \E e \in Dtos, tx \in BOOLEAN : Publish(c, e, tx)
                               \/ PublishStep(c) \/ Fail(c)
           \/ UNCHANGED <<call, bell, rows, keyRow, pending, era>>
           \/ UNCHANGED <<call, rows, bell, pending>> /\ PruneExpired
           \/ UNCHANGED <<call, rows, keyRow, pending, era>> /\ \E u \in Users : ApplyToBell(u)
BY DEF Next, vars, tables, world, panel, KeyExpires, PruneExpired, WorldChanges, VerifyOwnership, ApplyToBell

\* A step of a call leaves the other calls alone.
LEMMA OthersAreStill ==
    ASSUME TypeInv, NEW c \in Calls, NEW d \in Calls \ {c},
           \/ \E e \in Dtos, tx \in BOOLEAN : Publish(c, e, tx)
           \/ PublishStep(c) \/ Fail(c)
    PROVE  call'[d] = call[d]
BY DEF TypeInv, Publish, PublishStep, FindUserContext, ReserveKey, LookupKey, Resolve, WriteBell,
       CreateOutbox, Return, Commit, Fail, Goto, End

\* Every step keeps the course of every call.
LEMMA CourseStep == CourseInv /\ [Next]_vars => CourseInv'
<1> SUFFICES ASSUME CourseInv, [Next]_vars PROVE CourseInv'
  OBVIOUS
<1> USE PublishAssumption DEF At, Goto, End
<1>1. TypeInv /\ TypeInv'
  BY TypeStep DEF CourseInv
<1>2. \A c \in Calls : call[c] \in CallRecord /\ CallInv(c)
  BY DEF CourseInv, TypeInv
<1>3. ASSUME NEW c \in Calls,
             \/ \E e \in Dtos, tx \in BOOLEAN : Publish(c, e, tx)
             \/ PublishStep(c) \/ Fail(c)
      PROVE  CallInv(c)'
  <2> DEFINE x == call[c]
  <2>0. /\ DOMAIN call = Calls /\ x \in CallRecord
        /\ x.pc # "idle" => x.dto \in Dtos
        /\ x.pc \in {"reserve", "lookup"} => x.dto.key \in Keys
    BY <1>1, <1>2 DEF TypeInv, CallHasInput
  <2>1. ASSUME NEW e \in Dtos, NEW tx \in BOOLEAN, Publish(c, e, tx) PROVE CallInv(c)'
    BY <1>2, <2>0, <2>1 DEF Publish, CallInv, CallRecord, InTransaction
  <2>2. CASE FindUserContext(c)
    BY <1>2, <2>0, <2>2 DEF FindUserContext, CallInv, CallRecord, InTransaction
  <2>3. CASE ReserveKey(c)
    BY <1>2, <2>0, <2>3 DEF ReserveKey, CallInv, CallRecord, InTransaction
  <2>4. CASE LookupKey(c)
    BY <1>2, <2>0, <2>4 DEF LookupKey, CallInv, CallRecord, InTransaction
  <2>5. CASE Resolve(c)
    BY <1>2, <2>0, <2>5 DEF Resolve, CallInv, CallRecord, InTransaction
  <2>6. CASE WriteBell(c)
    <3>1. CASE x.inTx /\ call' = [call EXCEPT ![c].pc = "rows", ![c].bell = TRUE]
      <4>1. /\ x.pc = "bell" /\ x.inTx /\ call'[c].pc = "rows" /\ call'[c].bell
            /\ call'[c].dto = x.dto /\ call'[c].inTx = x.inTx /\ call'[c].key = x.key
            /\ call'[c].todo = x.todo /\ call'[c].wrote = x.wrote /\ call'[c].answer = x.answer
        BY <2>0, <2>6, <3>1 DEF WriteBell, CallRecord
      <4>2. QED
        BY <1>2, <4>1 DEF CallInv, InTransaction
    <3>2. CASE ~ x.inTx /\ call' = [call EXCEPT ![c].pc = "rows"]
      BY <1>2, <2>0, <2>6, <3>2 DEF WriteBell, CallInv, CallRecord, InTransaction
    <3>3. QED
      BY <2>6, <3>1, <3>2 DEF WriteBell
  <2>7. CASE CreateOutbox(c)
    BY <1>2, <2>0, <2>7 DEF CreateOutbox, CallInv, CallRecord, InTransaction
  <2>8. CASE Return(c)
    BY <1>2, <2>0, <2>8 DEF Return, CallInv, CallRecord, InTransaction
  <2>9. CASE Commit(c)
    BY <1>2, <2>0, <2>9 DEF Commit, CallInv, CallRecord, InTransaction
  <2>10. CASE Fail(c)
    BY <1>2, <2>0, <2>10 DEF Fail, CallInv, CallRecord, InTransaction
  <2>11. QED
    BY <1>3, <2>1, <2>2, <2>3, <2>4, <2>5, <2>6, <2>7, <2>8, <2>9, <2>10 DEF PublishStep
<1>4. ASSUME NEW c \in Calls, call'[c] = call[c] PROVE CallInv(c)'
  BY <1>2, <1>4 DEF CallInv
<1>5. QED
  BY <1>1, <1>3, <1>4, StepOfACall, OthersAreStill DEF CourseInv

-----------------------------------------------------------------------------
(* What a call leaves behind: its bell record and its rows *)

\* A call leaves something behind only after it has its key, if it has one to
\* get; inside a transaction nothing before the commit.  Without a transaction
\* the bell record is there before the rows are.
ShownInv(c) ==
    /\ Visible(c) => /\ call[c].pc \in InTransaction \cup {"done"}
                     /\ call[c].dto.key # NoKey => call[c].key
                     /\ call[c].inTx => call[c].answer = "published"
    /\ ~ call[c].inTx /\ call[c].pc = "rows" /\ call[c].todo # {} => bell[c] # "none"

\* Whoever has passed the ownership check owns the record, which exists.
PanelInv ==
    /\ \A u \in Users : ui[u] # NoOp => /\ bell[ui[u].target] # "none"
                                        /\ call[ui[u].target].dto.user = u
    /\ \A t \in touched : bell[t[1]] # "none"
    /\ OnlyOwnerTouches

WriteInv == CourseInv /\ (\A c \in Calls : ShownInv(c)) /\ RowsHaveBell /\ PanelInv

\* A step of a call.
StepOf(c) == (\E e \in Dtos, tx \in BOOLEAN : Publish(c, e, tx)) \/ PublishStep(c) \/ Fail(c)

\* A step of a call writes its own bell record and its own rows only, and takes nothing back.
LEMMA OwnWrites ==
    ASSUME CourseInv, NEW c \in Calls, StepOf(c)
    PROVE  /\ \A d \in Calls \ {c} : bell'[d] = bell[d] /\ call'[d] = call[d]
           /\ bell'[c] \in {bell[c], "unread"}
           /\ rows \subseteq rows'
           /\ \A r \in rows' \ rows : r \in call[c].todo \cup call[c].wrote /\ r[1] = c
           /\ UNCHANGED <<ui, touched>>
<1>1. /\ TypeInv /\ DOMAIN bell = Calls
      /\ \A r \in call[c].todo \cup call[c].wrote : r[1] = c
  BY DEF CourseInv, TypeInv, CallInv
<1>2. \A d \in Calls \ {c} : call'[d] = call[d]
  BY <1>1, OthersAreStill DEF StepOf
<1>3. ASSUME NEW e \in Dtos, NEW tx \in BOOLEAN, Publish(c, e, tx)
      PROVE  UNCHANGED <<bell, rows, ui, touched>>
  BY <1>3 DEF Publish, tables, panel
<1>4. CASE FindUserContext(c) \/ ReserveKey(c) \/ LookupKey(c) \/ Resolve(c) \/ Return(c) \/ Fail(c)
  <2>1. UNCHANGED <<bell, rows, ui, touched>>
    BY <1>4 DEF FindUserContext, ReserveKey, LookupKey, Resolve, Return, Fail, tables, panel
  <2>2. QED
    BY <1>2, <2>1
<1>5. CASE WriteBell(c)
  BY <1>1, <1>2, <1>5 DEF WriteBell, panel
<1>6. CASE CreateOutbox(c)
  BY <1>1, <1>2, <1>6 DEF CreateOutbox, panel
<1>7. CASE Commit(c)
  BY <1>1, <1>2, <1>7 DEF Commit, panel
<1>8. QED
  BY <1>2, <1>3, <1>4, <1>5, <1>6, <1>7 DEF StepOf, PublishStep

\* Once there is a message it stays the call's, and so does its transaction.
LEMMA MessageIsKept ==
    ASSUME CourseInv, [Next]_vars, NEW c \in Calls, call[c].pc # "idle"
    PROVE  call'[c].dto = call[c].dto /\ call'[c].inTx = call[c].inTx
<1>1. call \in [Calls -> CallRecord]
  BY DEF CourseInv, TypeInv
<1>2. CASE StepOf(c)
  <2> USE <1>1 DEF At, Goto, End, CallRecord
  <2>2. CASE FindUserContext(c)
    BY <2>2 DEF FindUserContext
  <2>3. CASE ReserveKey(c)
    BY <2>3 DEF ReserveKey
  <2>4. CASE LookupKey(c) \/ Return(c) \/ Commit(c) \/ Fail(c)
    BY <2>4 DEF LookupKey, Return, Commit, Fail
  <2>5. CASE Resolve(c)
    BY <2>5 DEF Resolve
  <2>6. CASE WriteBell(c)
    BY <2>6 DEF WriteBell
  <2>7. CASE CreateOutbox(c)
    BY <2>7 DEF CreateOutbox
  <2>8. QED
    BY <1>2, <2>2, <2>3, <2>4, <2>5, <2>6, <2>7 DEF StepOf, Publish, PublishStep
<1>3. CASE ~ StepOf(c)
  <2>1. call'[c] = call[c]
    BY <1>3, StepOfACall, OthersAreStill DEF StepOf, CourseInv
  <2>2. QED
    BY <2>1
<1>4. QED
  BY <1>2, <1>3

\* Every step keeps what is known of the writes.
LEMMA WriteStep == WriteInv /\ [Next]_vars => WriteInv'
<1> SUFFICES ASSUME WriteInv, [Next]_vars PROVE WriteInv'
  OBVIOUS
<1> USE PublishAssumption DEF At, Goto, End
<1>1. CourseInv /\ CourseInv' /\ TypeInv /\ TypeInv'
  BY CourseStep DEF WriteInv, CourseInv
<1>2. /\ call \in [Calls -> CallRecord] /\ bell \in [Calls -> {"none", "unread", "read", "deleted"}]
      /\ \A c \in Calls : CallInv(c) /\ CallInv(c)' /\ ShownInv(c)
  BY <1>1 DEF WriteInv, CourseInv, TypeInv
<1>3. ASSUME NEW c \in Calls, StepOf(c) PROVE WriteInv'
  <2>1. /\ \A d \in Calls \ {c} : bell'[d] = bell[d] /\ call'[d] = call[d]
        /\ bell'[c] \in {bell[c], "unread"}
        /\ rows \subseteq rows'
        /\ \A r \in rows' \ rows : r \in call[c].todo \cup call[c].wrote /\ r[1] = c
        /\ UNCHANGED <<ui, touched>>
    BY <1>1, <1>3, OwnWrites
  <2>2. ASSUME NEW d \in Calls, d # c PROVE ShownInv(d)'
    BY <1>2, <2>1, <2>2 DEF ShownInv, Visible
  <2>3. ShownInv(c)' /\ (\A r \in rows' \ rows : bell'[c] # "none")
    <3>1. ASSUME NEW e \in Dtos, NEW tx \in BOOLEAN, Publish(c, e, tx)
          PROVE  ShownInv(c)' /\ rows' = rows
      BY <1>2, <3>1 DEF Publish, ShownInv, Visible, CallRecord, InTransaction, tables
    <3>2. CASE FindUserContext(c)
      BY <1>2, <3>2 DEF FindUserContext, ShownInv, Visible, CallRecord, InTransaction, tables
    <3>3. CASE ReserveKey(c)
      BY <1>2, <3>3 DEF ReserveKey, ShownInv, Visible, CallRecord, InTransaction
    <3>4. CASE LookupKey(c)
      BY <1>2, <3>4 DEF LookupKey, ShownInv, Visible, CallRecord, InTransaction, tables
    <3>5. CASE Resolve(c)
      BY <1>2, <3>5 DEF Resolve, ShownInv, CallInv, Visible, CallRecord, InTransaction, tables
    <3>6. CASE WriteBell(c)
      BY <1>2, <3>6 DEF WriteBell, ShownInv, CallInv, Visible, CallRecord, InTransaction
    <3>7. CASE CreateOutbox(c)
      BY <1>2, <2>1, <3>7 DEF CreateOutbox, ShownInv, CallInv, Visible, CallRecord, InTransaction
    <3>8. CASE Return(c)
      BY <1>2, <3>8 DEF Return, ShownInv, CallInv, Visible, CallRecord, InTransaction, tables
    <3>9. CASE Commit(c)
      BY <1>2, <2>1, <3>9 DEF Commit, ShownInv, CallInv, Visible, CallRecord, InTransaction
    <3>10. CASE Fail(c)
      BY <1>2, <3>10 DEF Fail, ShownInv, CallInv, Visible, CallRecord, InTransaction
    <3>11. QED
      BY <1>3, <3>1, <3>2, <3>3, <3>4, <3>5, <3>6, <3>7, <3>8, <3>9, <3>10 DEF StepOf, PublishStep
  <2>4. RowsHaveBell'
    BY <1>1, <1>2, <2>1, <2>3 DEF WriteInv, RowsHaveBell, TypeInv, OutboxRows
  <2>5. PanelInv'
    <3>1. \A d \in Calls : bell[d] # "none" => bell'[d] # "none" /\ call'[d].dto = call[d].dto
      BY <1>1, <1>2, <2>1, MessageIsKept DEF ShownInv, Visible, InTransaction
    <3>2. (\A u \in Users : ui[u] # NoOp => ui[u].target \in Calls) /\ touched \subseteq Calls \X Users
      BY <1>1 DEF TypeInv, Operations
    <3>3. QED
      BY <2>1, <3>1, <3>2 DEF WriteInv, PanelInv, OnlyOwnerTouches
  <2>6. QED
    BY <1>1, <2>2, <2>3, <2>4, <2>5 DEF WriteInv
<1>4. ASSUME NEW u \in Users, ApplyToBell(u) PROVE WriteInv'
  <2>1. ui[u] # NoOp /\ ui[u].target \in Calls /\ bell[ui[u].target] # "none" /\ call[ui[u].target].dto.user = u
    BY <1>1, <1>4 DEF ApplyToBell, WriteInv, PanelInv, TypeInv, Operations
  <2>2. \A d \in Calls : bell'[d] = bell[d] \/ (bell[d] # "none" /\ bell'[d] # "none")
    BY <1>2, <1>4, <2>1 DEF ApplyToBell
  <2>3. call' = call /\ rows' = rows
    BY <1>4 DEF ApplyToBell
  <2>4. (\A c \in Calls : ShownInv(c)') /\ RowsHaveBell'
    BY <1>1, <1>2, <2>2, <2>3 DEF ShownInv, Visible, WriteInv, RowsHaveBell, TypeInv, OutboxRows
  <2>5. PanelInv'
    <3>1. \A v \in Users : ui'[v] # NoOp => ui'[v] = ui[v] /\ ui[v].target \in Calls
      BY <1>1, <1>4 DEF ApplyToBell, TypeInv, Operations
    <3>2. touched' \subseteq touched \cup {<<ui[u].target, u>>} /\ touched \subseteq Calls \X Users
      BY <1>1, <1>4 DEF ApplyToBell, TypeInv
    <3>3. QED
      BY <2>1, <2>2, <2>3, <3>1, <3>2 DEF WriteInv, PanelInv, OnlyOwnerTouches
  <2>6. QED
    BY <1>1, <2>4, <2>5 DEF WriteInv
<1>5. ASSUME NEW u \in Users, NEW op \in {"read", "delete"}, NEW c \in Calls, VerifyOwnership(u, op, c)
      PROVE  WriteInv'
  <2>1. UNCHANGED <<call, rows, bell, touched>>
    BY <1>5 DEF VerifyOwnership, tables
  <2>2. PanelInv'
    BY <1>1, <1>5, <2>1 DEF VerifyOwnership, WriteInv, PanelInv, OnlyOwnerTouches, TypeInv
  <2>3. QED
    BY <1>1, <2>1, <2>2 DEF WriteInv, ShownInv, Visible, RowsHaveBell
<1>6. CASE UNCHANGED <<call, rows, bell, ui, touched>>
  BY <1>1, <1>6 DEF WriteInv, ShownInv, Visible, RowsHaveBell, PanelInv, OnlyOwnerTouches
<1>7. QED
  BY <1>3, <1>4, <1>5, <1>6
     DEF Next, StepOf, vars, tables, panel, KeyExpires, PruneExpired, WorldChanges

-----------------------------------------------------------------------------
(* Keys *)

\* The call has reserved the key and a rollback has not taken the reservation back.
Standing(c, k) ==
    call[c].key /\ call[c].dto.key = k /\ ~ (call[c].inTx /\ call[c].answer = "failed")

\* An uncommitted key row belongs to a call inside its transaction, and there
\* is no committed one beside it.
PendingInv ==
    \A k \in Keys : pending[k] # Nobody =>
        LET x == call[pending[k]] IN
        x.inTx /\ x.key /\ x.pc \in InTransaction /\ x.dto.key = k /\ keyRow[k] = {}

\* Between two prunes a key has one reservation, which its row, committed or
\* not, keeps out of reach of the next call.
EraInv ==
    \A k \in Keys : \A c \in Calls : Standing(c, k) =>
        /\ call[c].era \leq era[k]
        /\ call[c].era = era[k] => pending[k] = c \/ keyRow[k] # {}
        /\ \A d \in Calls \ {c} : Standing(d, k) => call[c].era # call[d].era

KeyInv == CourseInv /\ PendingInv /\ EraInv

\* Steps of a call that neither reserve a key nor end its transaction.
Quiet(c) ==
    /\ UNCHANGED <<keyRow, pending, era>>
    /\ call'[c].key = call[c].key
    /\ call[c].key => /\ call'[c].dto = call[c].dto /\ call'[c].inTx = call[c].inTx
                      /\ call'[c].era = call[c].era
                      /\ call[c].inTx /\ call[c].pc \in InTransaction => call'[c].pc \in InTransaction
                      /\ call'[c].answer = "failed" <=> call[c].answer = "failed"

\* Those are all but the reservation, the commit and the failure.
LEMMA QuietSteps ==
    ASSUME CourseInv, NEW c \in Calls,
           \/ \E e \in Dtos, tx \in BOOLEAN : Publish(c, e, tx)
           \/ FindUserContext(c) \/ LookupKey(c) \/ Resolve(c) \/ WriteBell(c) \/ CreateOutbox(c) \/ Return(c)
           \/ ReserveKey(c) /\ keyRow[call[c].dto.key] # {}
    PROVE  Quiet(c)
<1>1. call \in [Calls -> CallRecord] /\ CallInv(c)
  BY DEF CourseInv, TypeInv
<1> USE <1>1 DEF At, Goto, End, CallRecord, Quiet
<1>2. ASSUME NEW e \in Dtos, NEW tx \in BOOLEAN, Publish(c, e, tx) PROVE Quiet(c)
  BY <1>2 DEF Publish, CallInv, tables, world
<1>3. CASE FindUserContext(c)
  BY <1>3 DEF FindUserContext, CallInv, tables, world
<1>4. CASE LookupKey(c)
  BY <1>4 DEF LookupKey, CallInv, tables, world
<1>5. CASE Resolve(c)
  BY <1>5 DEF Resolve, CallInv, tables, world
<1>6. CASE WriteBell(c)
  BY <1>6 DEF WriteBell, InTransaction, world
<1>7. CASE CreateOutbox(c)
  BY <1>7 DEF CreateOutbox, InTransaction, world
<1>8. CASE Return(c)
  BY <1>8 DEF Return, CallInv, InTransaction, tables, world
<1>9. CASE ReserveKey(c) /\ keyRow[call[c].dto.key] # {}
  BY <1>9 DEF ReserveKey, CallInv, world
<1>10. QED
  BY <1>2, <1>3, <1>4, <1>5, <1>6, <1>7, <1>8, <1>9

\* Every step keeps the keys in order.
LEMMA KeyStep == KeyInv /\ [Next]_vars => KeyInv'
<1> SUFFICES ASSUME KeyInv, [Next]_vars PROVE KeyInv'
  OBVIOUS
<1> USE PublishAssumption
<1>1. CourseInv /\ CourseInv' /\ TypeInv
  BY CourseStep DEF KeyInv, CourseInv
<1>2. /\ call \in [Calls -> CallRecord] /\ pending \in [Keys -> Calls \cup {Nobody}]
      /\ keyRow \in [Keys -> SUBSET Hashes] /\ era \in [Keys -> Nat]
      /\ \A c \in Calls : CallInv(c) /\ call[c].era \in Nat
      /\ PendingInv /\ EraInv
  BY <1>1 DEF KeyInv, CourseInv, TypeInv, CallRecord
<1>3. ASSUME NEW c \in Calls, Quiet(c), \A d \in Calls \ {c} : call'[d] = call[d] PROVE KeyInv'
  <2>1. ASSUME NEW d \in Calls, NEW k \in Keys
        PROVE  /\ Standing(d, k)' <=> Standing(d, k)
               /\ Standing(d, k) => call'[d].era = call[d].era
    <3>1. CASE d = c
      BY <1>3, <3>1 DEF Quiet, Standing
    <3>2. CASE d # c
      BY <1>3, <3>2 DEF Standing
    <3>3. QED
      BY <3>1, <3>2
  <2>2. PendingInv'
    BY <1>2, <1>3 DEF Quiet, PendingInv
  <2>3. EraInv'
    BY <1>2, <1>3, <2>1 DEF Quiet, EraInv
  <2>4. QED
    BY <1>1, <2>2, <2>3 DEF KeyInv
<1>4. ASSUME NEW c \in Calls, ReserveKey(c), keyRow[call[c].dto.key] = {} PROVE KeyInv'
  <2> DEFINE j == call[c].dto.key
  <2>1. /\ j \in Keys /\ pending[j] = Nobody /\ call[c].pc = "reserve" /\ ~ call[c].key
        /\ call[c].answer = "none"
    BY <1>1, <1>2, <1>4 DEF ReserveKey, At, TypeInv, CallHasInput, CallInv
  <2>2. /\ call'[c].pc = "resolve" /\ call'[c].key /\ call'[c].era = era[j]
        /\ call'[c].dto = call[c].dto /\ call'[c].inTx = call[c].inTx /\ call'[c].answer = "none"
        /\ \A d \in Calls \ {c} : call'[d] = call[d]
        /\ era' = era
    BY <1>2, <1>4, <2>1 DEF ReserveKey, Goto, CallRecord, world
  <2>3. /\ \A k \in Keys \ {j} : keyRow'[k] = keyRow[k] /\ pending'[k] = pending[k]
        /\ call[c].inTx => pending'[j] = c /\ keyRow'[j] = {}
        /\ ~ call[c].inTx => pending'[j] = Nobody /\ keyRow'[j] # {}
    <3>1. \/ call[c].inTx /\ pending' = [pending EXCEPT ![j] = c] /\ UNCHANGED keyRow
          \/ /\ ~ call[c].inTx /\ UNCHANGED pending
             /\ keyRow' = [keyRow EXCEPT ![j] = {RequestHash(call[c].dto)}]
      BY <1>4 DEF ReserveKey
    <3>2. QED
      BY <1>2, <1>4, <2>1, <3>1
  <2>4. PendingInv'
    BY <1>2, <2>1, <2>2, <2>3 DEF PendingInv, InTransaction
  <2>5. \A d \in Calls \ {c} : \A k \in Keys : Standing(d, k)' <=> Standing(d, k)
    BY <2>2 DEF Standing
  <2>6. \A d \in Calls \ {c} : Standing(d, j) => call[d].era < era[j]
    BY <1>2, <1>4, <2>1 DEF EraInv
  <2>7. \A k \in Keys : Standing(c, k)' => k = j
    BY <2>2 DEF Standing
  <2>8. EraInv'
    BY <1>2, <2>1, <2>2, <2>3, <2>5, <2>6, <2>7 DEF EraInv
  <2>9. QED
    BY <1>1, <2>4, <2>8 DEF KeyInv
<1>5. ASSUME NEW c \in Calls, Commit(c) PROVE KeyInv'
  <2>1. /\ call'[c].dto = call[c].dto /\ call'[c].inTx = call[c].inTx /\ call'[c].key = call[c].key
        /\ call'[c].era = call[c].era /\ call'[c].answer = "published" /\ call[c].answer = "none"
        /\ \A d \in Calls \ {c} : call'[d] = call[d]
        /\ era' = era
    BY <1>2, <1>5 DEF Commit, At, End, CallRecord, CallInv, world
  <2>2. \A k \in Keys : IF pending[k] = c THEN pending'[k] = Nobody /\ keyRow'[k] # {}
                                          ELSE pending'[k] = pending[k] /\ keyRow'[k] = keyRow[k]
    BY <1>5 DEF Commit, Unpend
  <2>3. PendingInv'
    BY <1>2, <2>1, <2>2 DEF PendingInv
  <2>4. \A d \in Calls : \A k \in Keys : Standing(d, k)' <=> Standing(d, k)
    BY <2>1 DEF Standing
  <2>5. EraInv'
    BY <1>2, <2>1, <2>2, <2>4 DEF EraInv
  <2>6. QED
    BY <1>1, <2>3, <2>5 DEF KeyInv
<1>6. ASSUME NEW c \in Calls, Fail(c) PROVE KeyInv'
  <2>1. /\ call'[c].dto = call[c].dto /\ call'[c].inTx = call[c].inTx /\ call'[c].key = call[c].key
        /\ call'[c].era = call[c].era /\ call'[c].answer = "failed" /\ call[c].answer = "none"
        /\ \A d \in Calls \ {c} : call'[d] = call[d]
        /\ era' = era /\ keyRow' = keyRow
    BY <1>2, <1>6 DEF Fail, At, End, CallRecord, CallInv, world
  <2>2. \A k \in Keys : pending'[k] = IF pending[k] = c THEN Nobody ELSE pending[k]
    BY <1>6 DEF Fail, Unpend
  <2>3. PendingInv'
    BY <1>2, <2>1, <2>2 DEF PendingInv
  <2>4. \A d \in Calls \ {c} : \A k \in Keys : Standing(d, k)' <=> Standing(d, k)
    BY <2>1 DEF Standing
  <2>5. \A k \in Keys : Standing(c, k)' => Standing(c, k) /\ pending[k] # c
    BY <1>2, <2>1 DEF Standing, PendingInv
  <2>6. EraInv'
    BY <1>2, <2>1, <2>2, <2>4, <2>5 DEF EraInv
  <2>7. QED
    BY <1>1, <2>3, <2>6 DEF KeyInv
<1>7. CASE PruneExpired
  <2>1. /\ call' = call /\ pending' = pending
        /\ \A k \in Keys : IF k \in expired THEN keyRow'[k] = {} /\ era'[k] = era[k] + 1
                                            ELSE keyRow'[k] = keyRow[k] /\ era'[k] = era[k]
    BY <1>7 DEF PruneExpired
  <2>2. PendingInv'
    BY <1>2, <2>1 DEF PendingInv
  <2>3. EraInv'
    BY <1>2, <2>1 DEF EraInv, Standing
  <2>4. QED
    BY <1>1, <2>2, <2>3 DEF KeyInv
<1>8. CASE UNCHANGED <<call, keyRow, pending, era>>
  BY <1>1, <1>2, <1>8 DEF KeyInv, PendingInv, EraInv, Standing
<1>9. ASSUME NEW c \in Calls, StepOf(c) PROVE KeyInv'
  <2>1. \A d \in Calls \ {c} : call'[d] = call[d]
    BY <1>1, <1>9, OwnWrites
  <2>2. Quiet(c) \/ (ReserveKey(c) /\ keyRow[call[c].dto.key] = {}) \/ Commit(c) \/ Fail(c)
    BY <1>1, <1>9, QuietSteps DEF StepOf, PublishStep
  <2>3. QED
    BY <1>3, <1>4, <1>5, <1>6, <2>1, <2>2
<1>10. QED
  BY <1>7, <1>8, <1>9, StepOfACall DEF StepOf

\* The key was reserved outside a transaction, or in one that has committed.
Reserved(c, k) ==
    call[c].key /\ call[c].dto.key = k /\ (~ call[c].inTx \/ call[c].answer = "published")

\* A committed key row, a call that met one and a call that was answered as a
\* duplicate all go back to such a reservation.
CauseInv ==
    /\ \A k \in Keys : keyRow[k] # {} => \E d \in Calls : Reserved(d, k)
    /\ \A c \in Calls : (call[c].pc = "lookup" \/ call[c].answer = "duplicate") =>
           \E d \in Calls : Reserved(d, call[c].dto.key)

RetryInv == KeyInv /\ CauseInv

\* A reservation of that kind is never taken back.
LEMMA ReservedStays ==
    ASSUME CourseInv, [Next]_vars, NEW d \in Calls, NEW k, Reserved(d, k)
    PROVE  Reserved(d, k)'
<1>1. call \in [Calls -> CallRecord] /\ CallInv(d)
  BY DEF CourseInv, TypeInv
<1>2. call[d].pc # "idle" /\ call[d].pc # "reserve"
  BY <1>1 DEF Reserved, CallInv
<1>3. call'[d].dto = call[d].dto /\ call'[d].inTx = call[d].inTx
  BY <1>2, MessageIsKept
<1>4. CASE StepOf(d)
  <2>1. call[d].pc # "done"
    BY <1>4 DEF StepOf, Publish, PublishStep, FindUserContext, ReserveKey, LookupKey, Resolve, WriteBell,
                CreateOutbox, Return, Commit, Fail, At
  <2>2. ~ call[d].inTx
    BY <1>1, <2>1 DEF Reserved, CallInv
  <2>3. CASE Quiet(d)
    BY <1>3, <2>2, <2>3 DEF Reserved, Quiet
  <2>4. CASE Commit(d) \/ Fail(d)
    <3>1. call'[d].key = call[d].key
      BY <1>1, <2>4 DEF Commit, Fail, End, CallRecord
    <3>2. QED
      BY <1>3, <2>2, <3>1 DEF Reserved
  <2>5. QED
    BY <1>2, <1>4, <2>3, <2>4, QuietSteps DEF StepOf, PublishStep, ReserveKey, At
<1>5. CASE ~ StepOf(d)
  <2>1. call'[d] = call[d]
    BY <1>5, StepOfACall, OthersAreStill DEF StepOf, CourseInv
  <2>2. QED
    BY <2>1 DEF Reserved
<1>6. QED
  BY <1>4, <1>5

\* Every step keeps the causes.
LEMMA RetryStep == RetryInv /\ [Next]_vars => RetryInv'
<1> SUFFICES ASSUME RetryInv, [Next]_vars PROVE RetryInv'
  OBVIOUS
<1> USE PublishAssumption
<1>1. KeyInv /\ KeyInv' /\ CourseInv /\ TypeInv /\ CauseInv
  BY KeyStep DEF RetryInv, KeyInv, CourseInv
<1>2. /\ call \in [Calls -> CallRecord] /\ keyRow \in [Keys -> SUBSET Hashes]
      /\ \A c \in Calls : CallInv(c) /\ CallHasInput(c)
      /\ pending \in [Keys -> Calls \cup {Nobody}]
  BY <1>1 DEF CourseInv, TypeInv
<1>3. \A d \in Calls : \A k : Reserved(d, k) => Reserved(d, k)'
  BY <1>1, ReservedStays
<1>4. ASSUME NEW k \in Keys, keyRow'[k] # {} PROVE \E d \in Calls : Reserved(d, k)'
  <2>1. CASE keyRow[k] # {}
    BY <1>1, <1>3, <2>1 DEF CauseInv
  <2>2. CASE keyRow[k] = {}
    <3>1. PICK c \in Calls : (ReserveKey(c) /\ keyRow[call[c].dto.key] = {}) \/ Commit(c)
      <4>1. ASSUME NEW c \in Calls, Quiet(c) PROVE keyRow' = keyRow
        BY <4>1 DEF Quiet
      <4>2. \/ \E c \in Calls : StepOf(c)
            \/ PruneExpired
            \/ UNCHANGED keyRow
        BY StepOfACall DEF StepOf, ApplyToBell
      <4>3. PruneExpired => keyRow'[k] = {}
        BY <1>2, <2>2 DEF PruneExpired
      <4>4. PICK c \in Calls : StepOf(c)
        BY <1>4, <2>2, <4>2, <4>3
      <4>5. QED
        BY <1>1, <1>4, <2>2, <4>1, <4>4, QuietSteps DEF StepOf, PublishStep, Fail
    <3>2. CASE ReserveKey(c) /\ keyRow[call[c].dto.key] = {}
      <4>1. call[c].dto.key \in Keys
        BY <1>2, <3>2 DEF ReserveKey, At, CallHasInput
      <4>2. ~ call[c].inTx /\ call[c].dto.key = k
        BY <1>2, <1>4, <2>2, <3>2, <4>1 DEF ReserveKey
      <4>3. call'[c].key /\ call'[c].dto = call[c].dto /\ call'[c].inTx = call[c].inTx
        BY <1>2, <3>2 DEF ReserveKey, CallRecord
      <4>4. QED
        BY <4>2, <4>3 DEF Reserved
    <3>3. CASE Commit(c)
      <4>1. pending[k] = c
        BY <1>4, <2>2, <3>3 DEF Commit
      <4>2. call[c].key /\ call[c].dto.key = k
        BY <1>1, <4>1 DEF KeyInv, PendingInv, PublishAssumption
      <4>3. call'[c].key = call[c].key /\ call'[c].dto = call[c].dto /\ call'[c].answer = "published"
        BY <1>2, <3>3 DEF Commit, End, CallRecord
      <4>4. QED
        BY <4>2, <4>3 DEF Reserved
    <3>4. QED
      BY <3>1, <3>2, <3>3
  <2>3. QED
    BY <2>1, <2>2
<1>5. ASSUME NEW c \in Calls, call'[c].pc = "lookup" \/ call'[c].answer = "duplicate"
      PROVE  call[c].pc = "lookup" \/ call[c].answer = "duplicate" \/ (ReserveKey(c) /\ keyRow[call[c].dto.key] # {})
  <2>1. CASE StepOf(c)
    <3> USE <1>2, <1>5 DEF At, Goto, End, CallRecord
    <3>1. ASSUME NEW e \in Dtos, NEW tx \in BOOLEAN, Publish(c, e, tx) PROVE FALSE
      BY <3>1 DEF Publish, CallInv
    <3>2. CASE FindUserContext(c)
      BY <3>2 DEF FindUserContext, CallInv
    <3>3. CASE ReserveKey(c)
      BY <3>3 DEF ReserveKey, CallInv
    <3>4. CASE LookupKey(c)
      BY <3>4 DEF LookupKey
    <3>5. CASE Resolve(c)
      BY <3>5 DEF Resolve, CallInv
    <3>6. CASE WriteBell(c)
      BY <3>6 DEF WriteBell, CallInv
    <3>7. CASE CreateOutbox(c)
      BY <3>7 DEF CreateOutbox, CallInv
    <3>8. CASE Return(c) \/ Commit(c) \/ Fail(c)
      BY <3>8 DEF Return, Commit, Fail, CallInv
    <3>9. QED
      BY <2>1, <3>1, <3>2, <3>3, <3>4, <3>5, <3>6, <3>7, <3>8 DEF StepOf, PublishStep
  <2>2. CASE ~ StepOf(c)
    <3>1. call'[c] = call[c]
      BY <1>1, <2>2, StepOfACall, OthersAreStill DEF StepOf
    <3>2. QED
      BY <1>5, <3>1
  <2>3. QED
    BY <2>1, <2>2
<1>6. ASSUME NEW c \in Calls, call'[c].pc = "lookup" \/ call'[c].answer = "duplicate"
      PROVE  \E d \in Calls : Reserved(d, call[c].dto.key)
  <2>1. CASE ReserveKey(c) /\ keyRow[call[c].dto.key] # {}
    BY <1>1, <1>2, <2>1 DEF CauseInv, ReserveKey, At, CallHasInput
  <2>2. QED
    BY <1>1, <1>5, <1>6, <2>1 DEF CauseInv
<1>7. ASSUME NEW c \in Calls, call'[c].pc = "lookup" \/ call'[c].answer = "duplicate"
      PROVE  call'[c].dto = call[c].dto
  <2>1. call[c].pc # "idle"
    BY <1>2, <1>5, <1>7 DEF CallInv, ReserveKey, At
  <2>2. QED
    BY <1>1, <2>1, MessageIsKept
<1>8. CauseInv'
  <2>1. ASSUME NEW c \in Calls, (call[c].pc = "lookup" \/ call[c].answer = "duplicate")'
        PROVE  (\E d \in Calls : Reserved(d, call[c].dto.key))'
    <3>1. PICK d \in Calls : Reserved(d, call[c].dto.key)
      BY <1>6, <2>1
    <3>2. Reserved(d, call[c].dto.key)'
      BY <1>3, <1>7, <2>1, <3>1 DEF Reserved
    <3>3. QED
      BY <3>2
  <2>2. QED
    BY <1>4, <2>1 DEF CauseInv
<1>9. QED
  BY <1>1, <1>8 DEF RetryInv

-----------------------------------------------------------------------------
(* Whom the rows reach, and whether they may *)

\* The user of the call had agreed to the channel of the row.
Consented(c, r) ==
    LET x == call[c] IN
    /\ x.dto.category = "MARKETING" => x.ctx.pref[r[2]] = "in"
    /\ r[2] = "PUSH" => x.ctx.pref["PUSH"] # "out"

\* A transactional push message to a user with a usable phone number.
MustReach(c) ==
    LET x == call[c] IN
    x.ctx.phone /\ x.dto.category = "TRANSACTIONAL" /\ "PUSH" \in x.dto.channels

HasRow(c) == \E r \in rows : r[1] = c

\* The rows still to be written count as well: what is written was once to do.
DeliveryInv ==
    /\ WriteInv
    /\ \A c \in Calls : \A r \in call[c].todo \cup call[c].wrote : Consented(c, r)
    /\ \A r \in rows : Consented(r[1], r)
    /\ \A c \in Calls : MustReach(c) =>
         /\ call[c].pc \in {"bell", "rows", "open"} => call[c].todo \cup call[c].wrote # {} \/ HasRow(c)
         /\ call[c].answer = "published" => HasRow(c)

\* What a call resolves is consented to.
LEMMA ResolvedConsented ==
    ASSUME NEW c \in Calls, NEW e \in Dtos, NEW p \in Profiles, NEW r \in Resolved(c, e, p)
    PROVE  /\ e.category = "MARKETING" => p.pref[r[2]] = "in"
           /\ r[2] = "PUSH" => p.pref["PUSH"] # "out"
<1>1. r[2] \in FinalChannels(e, p) /\ IsAllowed(p, e.category, r[2], night)
  BY ResolvedRows
<1>2. "PUSH" \in FinalChannels(e, p) => p.pref["PUSH"] # "out"
  BY DEF FinalChannels
<1>3. QED
  BY <1>1, <1>2 DEF IsAllowed

\* A transactional push message always resolves to something if there is a phone.
LEMMA ResolvedReaches ==
    ASSUME NEW c \in Calls, NEW e \in Dtos, NEW p \in Profiles,
           p.phone, e.category = "TRANSACTIONAL", "PUSH" \in e.channels
    PROVE  Resolved(c, e, p) # {}
<1>1. \E ch \in {"SMS", "KAKAO"} : ch \in FinalChannels(e, p)
        \/ ("PUSH" \in FinalChannels(e, p) /\ p.tokens # 0)
  BY DEF FinalChannels
<1>2. p.tokens \in Nat
  BY PublishAssumption DEF Profile
<1>3. PICK ch \in FinalChannels(e, p) : 1 \in Targets(p, ch)
  BY <1>1, <1>2 DEF Targets
<1>4. IsAllowed(p, e.category, ch, night)
  BY DEF IsAllowed
<1>5. <<c, ch, 1>> \in Resolved(c, e, p)
  BY <1>3, <1>4 DEF Resolved
<1>6. QED
  BY <1>5

\* Once read, the context stays the call's.
LEMMA ContextIsKept ==
    ASSUME CourseInv, [Next]_vars, NEW c \in Calls, call[c].pc \notin {"idle", "context"}
    PROVE  call'[c].ctx = call[c].ctx /\ call'[c].dto = call[c].dto
<1>1. call \in [Calls -> CallRecord] /\ call'[c].dto = call[c].dto
  BY MessageIsKept DEF CourseInv, TypeInv
<1>2. CASE StepOf(c)
  <2> USE <1>1 DEF At, Goto, End, CallRecord
  <2>1. CASE ReserveKey(c)
    BY <2>1 DEF ReserveKey
  <2>2. CASE LookupKey(c) \/ Return(c) \/ Commit(c) \/ Fail(c)
    BY <2>2 DEF LookupKey, Return, Commit, Fail
  <2>3. CASE Resolve(c)
    BY <2>3 DEF Resolve
  <2>4. CASE WriteBell(c)
    BY <2>4 DEF WriteBell
  <2>5. CASE CreateOutbox(c)
    BY <2>5 DEF CreateOutbox
  <2>6. QED
    BY <1>2, <2>1, <2>2, <2>3, <2>4, <2>5 DEF StepOf, Publish, PublishStep, FindUserContext
<1>3. CASE ~ StepOf(c)
  <2>1. call'[c] = call[c]
    BY <1>3, StepOfACall, OthersAreStill DEF StepOf, CourseInv
  <2>2. QED
    BY <1>1, <2>1
<1>4. QED
  BY <1>2, <1>3

\* Every step keeps consent and reach.
LEMMA DeliveryStep == DeliveryInv /\ [Next]_vars => DeliveryInv'
<1> SUFFICES ASSUME DeliveryInv, [Next]_vars PROVE DeliveryInv'
  OBVIOUS
<1> USE PublishAssumption
<1>1. WriteInv /\ WriteInv' /\ CourseInv /\ TypeInv
  BY WriteStep DEF DeliveryInv, WriteInv, CourseInv
<1>2. /\ call \in [Calls -> CallRecord] /\ rows \subseteq OutboxRows
      /\ \A c \in Calls : CallInv(c) /\ CallHasInput(c) /\ ShownInv(c)
  BY <1>1 DEF WriteInv, CourseInv, TypeInv
<1>3. ASSUME NEW c \in Calls, call'[c].ctx = call[c].ctx, call'[c].dto = call[c].dto
      PROVE  /\ \A r : Consented(c, r)' <=> Consented(c, r)
             /\ MustReach(c)' <=> MustReach(c)
  BY <1>3 DEF Consented, MustReach
<1>4. ASSUME NEW r \in rows PROVE Consented(r[1], r)'
  <2>1. r[1] \in Calls /\ Consented(r[1], r)
    BY <1>2 DEF DeliveryInv, OutboxRows
  <2>2. call[r[1]].pc \notin {"idle", "context"}
    BY <1>2, <2>1 DEF ShownInv, Visible, InTransaction
  <2>3. QED
    BY <1>1, <1>3, <2>1, <2>2, ContextIsKept
<1>5. ASSUME NEW c \in Calls, StepOf(c) PROVE DeliveryInv'
  <2>1. /\ \A d \in Calls \ {c} : call'[d] = call[d]
        /\ rows \subseteq rows'
        /\ \A r \in rows' \ rows : r \in call[c].todo \cup call[c].wrote /\ r[1] = c
    BY <1>1, <1>5, OwnWrites
  <2>2. \A r \in rows' : Consented(r[1], r)'
    <3>1. ASSUME NEW r \in rows' \ rows PROVE Consented(r[1], r)'
      <4>1. r[1] = c /\ r \in call[c].todo \cup call[c].wrote /\ Consented(c, r)
        BY <2>1, <3>1 DEF DeliveryInv
      <4>2. call[c].pc \notin {"idle", "context"}
        BY <1>2, <4>1 DEF CallInv
      <4>3. QED
        BY <1>1, <1>3, <4>1, <4>2, ContextIsKept
    <3>2. QED
      BY <1>4, <3>1
  <2>3. ASSUME NEW d \in Calls, d # c
        PROVE  /\ \A r \in call'[d].todo \cup call'[d].wrote : Consented(d, r)'
               /\ MustReach(d)' =>
                    /\ call'[d].pc \in {"bell", "rows", "open"} =>
                           call'[d].todo \cup call'[d].wrote # {} \/ HasRow(d)'
                    /\ call'[d].answer = "published" => HasRow(d)'
    <3>1. call'[d] = call[d] /\ (HasRow(d) => HasRow(d)')
      BY <2>1, <2>3 DEF HasRow
    <3>2. QED
      BY <1>3, <3>1 DEF DeliveryInv
  <2>4. \A r \in call'[c].todo \cup call'[c].wrote : Consented(c, r)'
    <3>1. CASE Resolve(c)
      <4>1. /\ call[c].dto \in Dtos /\ call[c].ctx \in Profiles /\ call[c].wrote = {}
        BY <1>2, <3>1 DEF Resolve, At, CallHasInput, InTransaction, CallInv
      <4>2. /\ call'[c].todo = Resolved(c, call[c].dto, call[c].ctx) /\ call'[c].wrote = {}
            /\ call'[c].dto = call[c].dto /\ call'[c].ctx = call[c].ctx
        BY <1>2, <3>1, <4>1 DEF Resolve, Resolved, CallRecord
      <4>3. QED
        BY <4>1, <4>2, ResolvedConsented DEF Consented
    <3>2. CASE ~ Resolve(c)
      <4>1. call'[c].todo \cup call'[c].wrote \subseteq call[c].todo \cup call[c].wrote
        <5> USE <1>2, <3>2 DEF At, Goto, End, CallRecord
        <5>1. ASSUME NEW e \in Dtos, NEW tx \in BOOLEAN, Publish(c, e, tx)
              PROVE  call'[c].todo = call[c].todo /\ call'[c].wrote = call[c].wrote
          BY <5>1 DEF Publish
        <5>2. CASE FindUserContext(c)
          BY <5>2 DEF FindUserContext
        <5>3. CASE ReserveKey(c)
          BY <5>3 DEF ReserveKey
        <5>4. CASE LookupKey(c) \/ Return(c) \/ Commit(c) \/ Fail(c)
          BY <5>4 DEF LookupKey, Return, Commit, Fail
        <5>5. CASE WriteBell(c)
          BY <5>5 DEF WriteBell
        <5>6. CASE CreateOutbox(c)
          BY <5>6 DEF CreateOutbox
        <5>7. QED
          BY <1>5, <5>1, <5>2, <5>3, <5>4, <5>5, <5>6 DEF StepOf, PublishStep
      <4>2. CASE call[c].pc \in {"idle", "context"}
        BY <1>2, <4>1, <4>2 DEF CallInv
      <4>3. CASE call[c].pc \notin {"idle", "context"}
        BY <1>1, <1>3, <4>1, <4>3, ContextIsKept DEF DeliveryInv
      <4>4. QED
        BY <4>2, <4>3
    <3>3. QED
      BY <3>1, <3>2
  <2>5. ASSUME MustReach(c)'
        PROVE  /\ call'[c].pc \in {"bell", "rows", "open"} =>
                       call'[c].todo \cup call'[c].wrote # {} \/ HasRow(c)'
               /\ call'[c].answer = "published" => HasRow(c)'
    <3> USE <1>2 DEF At, Goto, End, CallRecord
    <3>1. ASSUME NEW e \in Dtos, NEW tx \in BOOLEAN, Publish(c, e, tx)
          PROVE  call'[c].pc = "context" /\ call'[c].answer = "none"
      BY <3>1 DEF Publish, CallInv
    <3>2. CASE FindUserContext(c) \/ ReserveKey(c)
      <4>1. call'[c].pc \notin {"bell", "rows", "open"} /\ call'[c].answer # "published"
        BY <3>2 DEF FindUserContext, ReserveKey, CallInv
      <4>2. QED
        BY <4>1
    <3>3. CASE LookupKey(c) \/ Fail(c)
      <4>1. call'[c].pc = "done" /\ call'[c].answer # "published"
        BY <3>3 DEF LookupKey, Fail
      <4>2. QED
        BY <4>1
    <3>4. CASE Resolve(c)
      <4>1. call[c].dto \in Dtos /\ call[c].ctx \in Profiles /\ call[c].answer = "none"
        BY <3>4 DEF Resolve, CallHasInput, InTransaction, CallInv
      <4>2. /\ call'[c].todo = Resolved(c, call[c].dto, call[c].ctx) /\ call'[c].answer = "none"
            /\ call'[c].dto = call[c].dto /\ call'[c].ctx = call[c].ctx
        BY <3>4, <4>1 DEF Resolve, Resolved
      <4>3. Resolved(c, call[c].dto, call[c].ctx) # {}
        BY <2>5, <4>1, <4>2, ResolvedReaches DEF MustReach
      <4>4. QED
        BY <4>2, <4>3
    <3>5. CASE WriteBell(c) \/ CreateOutbox(c) \/ Return(c) \/ Commit(c)
      <4>1. /\ call[c].pc \in {"bell", "rows", "open"} /\ call[c].answer = "none"
            /\ \A r \in call[c].todo \cup call[c].wrote : r[1] = c
        BY <3>5 DEF WriteBell, CreateOutbox, Return, Commit, CallInv
      <4>2. MustReach(c)
        BY <1>1, <1>3, <2>5, <4>1, ContextIsKept
      <4>3. call[c].todo \cup call[c].wrote # {} \/ HasRow(c)
        BY <4>1, <4>2 DEF DeliveryInv
      <4>4. HasRow(c) => HasRow(c)'
        BY <2>1 DEF HasRow
      <4>5. CASE WriteBell(c)
        <5>1. /\ call'[c].todo = call[c].todo /\ call'[c].wrote = call[c].wrote
              /\ call'[c].answer = "none"
          BY <4>1, <4>5 DEF WriteBell
        <5>2. QED
          BY <4>3, <4>4, <5>1
      <4>6. CASE CreateOutbox(c)
        <5>1. PICK r \in call[c].todo :
                \/ call' = [call EXCEPT ![c].todo = @ \ {r}, ![c].wrote = @ \cup {r}]
                \/ rows' = rows \cup {r}
          BY <4>6 DEF CreateOutbox
        <5>2. r \in call'[c].wrote \/ HasRow(c)'
          BY <4>1, <5>1 DEF HasRow
        <5>3. call'[c].answer = "none"
          BY <4>1, <4>6 DEF CreateOutbox
        <5>4. QED
          BY <5>2, <5>3
      <4>7. CASE Return(c)
        <5>1. /\ call[c].todo = {} /\ call'[c].wrote = call[c].wrote
              /\ call[c].inTx \/ (call[c].wrote = {} /\ call'[c].answer = "published")
              /\ call[c].inTx => call'[c].answer = "none"
          BY <4>1, <4>7 DEF Return, CallInv
        <5>2. QED
          BY <4>3, <4>4, <5>1
      <4>8. CASE Commit(c)
        <5>1. call[c].todo = {} /\ rows' = rows \cup call[c].wrote
          BY <4>8 DEF Commit, CallInv
        <5>2. HasRow(c)'
          BY <4>1, <4>3, <4>4, <5>1 DEF HasRow
        <5>3. QED
          BY <5>2
      <4>9. QED
        BY <3>5, <4>5, <4>6, <4>7, <4>8
    <3>6. QED
      BY <1>5, <3>1, <3>2, <3>3, <3>4, <3>5 DEF StepOf, PublishStep
  <2>6. QED
    BY <1>1, <2>2, <2>3, <2>4, <2>5 DEF DeliveryInv
<1>6. CASE UNCHANGED <<call, rows>>
  BY <1>1, <1>6 DEF DeliveryInv, Consented, MustReach, HasRow
<1>7. QED
  BY <1>5, <1>6, StepOfACall DEF StepOf

-----------------------------------------------------------------------------
(* Theorems *)

\* The initial state satisfies every invariant above: nothing has been published.
LEMMA InitialState == Init => RetryInv /\ DeliveryInv
<1> SUFFICES ASSUME Init PROVE RetryInv /\ DeliveryInv
  OBVIOUS
<1>1. TypeInv
  BY TypeInit
<1>2. \A c \in Calls : call[c] = Idle /\ bell[c] = "none"
  BY DEF Init
<1>3. \A c \in Calls : CallInv(c)
  BY <1>2 DEF CallInv, Idle, InTransaction
<1>4. rows = {} /\ touched = {} /\ \A u \in Users : ui[u] = NoOp
  BY DEF Init
<1>5. WriteInv
  BY <1>1, <1>2, <1>3, <1>4
     DEF WriteInv, CourseInv, ShownInv, Visible, Idle, RowsHaveBell, PanelInv, OnlyOwnerTouches
<1>6. DeliveryInv
  BY <1>2, <1>4, <1>5 DEF DeliveryInv, Idle
<1>7. (\A k \in Keys : pending[k] = Nobody /\ keyRow[k] = {}) /\ \A c \in Calls : \A k : ~ Standing(c, k)
  BY <1>2 DEF Init, Standing, Idle
<1>8. RetryInv
  BY <1>1, <1>2, <1>3, <1>7 DEF RetryInv, KeyInv, CourseInv, PendingInv, EraInv, CauseInv, Idle
<1>9. QED
  BY <1>6, <1>8

\* In every reachable state both bundles of invariants hold.
LEMMA Reachable == Spec => [](RetryInv /\ DeliveryInv)
<1>1. Init => RetryInv /\ DeliveryInv
  BY InitialState
<1>2. RetryInv /\ DeliveryInv /\ [Next]_vars => RetryInv' /\ DeliveryInv'
  BY RetryStep, DeliveryStep
<1>3. QED
  BY <1>1, <1>2, PTL DEF Spec

\* The variables keep their types, and an uncommitted key row always belongs to
\* a call that is still inside its transaction (reserveIdempotency).
THEOREM TypeCorrect == Spec => []TypeOK
<1>1. RetryInv => TypeOK
  <2> SUFFICES ASSUME RetryInv PROVE TypeOK
    OBVIOUS
  <2>1. TypeInv /\ PendingInv
    BY DEF RetryInv, KeyInv, CourseInv
  <2>2. \A k \in Keys : keyRow[k] \subseteq {RequestHash(e) : e \in Dtos}
    BY <2>1 DEF TypeInv, Hashes
  <2>3. \A k \in Keys : pending[k] # Nobody =>
          LET c == call[pending[k]] IN c.inTx /\ c.key /\ c.pc \in InTransaction
    BY <2>1 DEF PendingInv
  <2>4. \A c \in Calls : call[c].pc \in Places /\ call[c].answer \in Answers
    BY <2>1 DEF TypeInv, CallRecord
  <2>5. \A u \in Users : ui[u].op \in {"none", "read", "delete"}
    BY <2>1 DEF TypeInv, Operations, NoOp
  <2>6. QED
    BY <2>1, <2>2, <2>3, <2>4, <2>5 DEF TypeInv, TypeOK, OutboxRows
<1>2. QED
  BY <1>1, Reachable, PTL

\* Between two prunes of a key at most one call with it leaves a bell record or
\* a row behind, whatever transactions the calls run in, however they
\* interleave and whichever of them fail (publish, reserveIdempotency).
THEOREM KeysNotifyOnce == Spec => []KeyedOnce
<1>1. RetryInv /\ DeliveryInv => KeyedOnce
  <2> SUFFICES ASSUME RetryInv, DeliveryInv, NEW c \in Calls, NEW d \in Calls, c # d, Visible(c), Visible(d),
                      call[c].dto.key = call[d].dto.key, call[c].dto.key # NoKey
               PROVE  call[c].era # call[d].era
    BY DEF KeyedOnce
  <2>1. ASSUME NEW x \in Calls, Visible(x), call[x].dto.key # NoKey
        PROVE  Standing(x, call[x].dto.key) /\ call[x].dto.key \in Keys
    <3>1. ShownInv(x) /\ CallInv(x)
      BY DEF DeliveryInv, WriteInv, CourseInv
    <3>2. QED
      BY <2>1, <3>1 DEF ShownInv, CallInv, Standing
  <2>2. QED
    BY <2>1 DEF RetryInv, KeyInv, EraInv
<1>2. QED
  BY <1>1, Reachable, PTL

\* A retry is dropped as a duplicate only because of another call that holds
\* the key: one that is published, still under way, or was lost without a
\* transaction (publish, reserveIdempotency).
THEOREM DuplicatesHaveCause == Spec => []SwallowedRetryHasCause
<1>1. RetryInv => SwallowedRetryHasCause
  <2> SUFFICES ASSUME RetryInv, NEW c \in Calls, call[c].answer = "duplicate"
               PROVE  \E d \in Calls \ {c} :
                         /\ call[d].key /\ call[d].dto.key = call[c].dto.key
                         /\ \/ call[d].answer = "published"
                            \/ InProgress(d)
                            \/ call[d].answer = "failed" /\ ~ call[d].inTx
    BY DEF SwallowedRetryHasCause
  <2>1. \A x \in Calls : CallInv(x) /\ call[x].answer \in Answers
    BY DEF RetryInv, KeyInv, CourseInv, TypeInv, CallRecord
  <2>2. PICK d \in Calls : Reserved(d, call[c].dto.key)
    BY DEF RetryInv, CauseInv
  <2>3. d # c
    BY <2>1, <2>2 DEF CallInv, Reserved
  <2>4. \/ call[d].answer = "published" \/ InProgress(d)
        \/ call[d].answer = "failed" /\ ~ call[d].inTx
    BY <2>1, <2>2 DEF CallInv, Reserved, InProgress, At, Answers
  <2>5. QED
    BY <2>2, <2>3, <2>4 DEF Reserved
<1>2. QED
  BY <1>1, Reachable, PTL

\* Nothing is in the outbox that the notification panel does not show or has
\* not shown, failures half way included (publish, STEP 5 before STEP 6).
THEOREM PanelBeforeOutbox == Spec => []RowsHaveBell
<1>1. DeliveryInv => RowsHaveBell
  BY DEF DeliveryInv, WriteInv
<1>2. QED
  BY <1>1, Reachable, PTL

\* A call inside its caller's transaction shows no bell record and no row
\* before the commit, and none at all if it fails (publish's tx).
THEOREM TransactionsAreAtomic == Spec => []TransactionIsAtomic
<1>1. DeliveryInv => TransactionIsAtomic
  BY DEF DeliveryInv, WriteInv, ShownInv, TransactionIsAtomic
<1>2. QED
  BY <1>1, Reachable, PTL

\* Marketing rows go to channels the user had opted in to, and no push goes to
\* a user who opted out of push, after every substitution (publish, STEP 3 and 4).
THEOREM RowsAreConsentedTo == Spec => []ConsentRespected
<1>1. DeliveryInv => ConsentRespected
  BY DEF DeliveryInv, Consented, ConsentRespected
<1>2. QED
  BY <1>1, Reachable, PTL

\* A published transactional push message has an outbox row for every user with
\* a usable phone number, whatever their devices and preferences (publish, STEP 3).
THEOREM PushFallsBackToPhone == Spec => []TransactionalReachesPhone
<1>1. DeliveryInv => TransactionalReachesPhone
  BY DEF DeliveryInv, MustReach, HasRow, TransactionalReachesPhone
<1>2. QED
  BY <1>1, Reachable, PTL

\* Nobody but its owner ever reads or deletes a bell record (verifyOwnership,
\* markAsRead, deleteNotification).
THEOREM BellsHaveOneReader == Spec => []OnlyOwnerTouches
<1>1. DeliveryInv => OnlyOwnerTouches
  BY DEF DeliveryInv, WriteInv, PanelInv
<1>2. QED
  BY <1>1, Reachable, PTL
=============================================================================
