------------------------ MODULE NotificationPublish ------------------------
(***************************************************************************)
(* NotificationService.publish and what surrounds it: the use cases, the   *)
(* event listener and the internal controller that call it, the            *)
(* idempotency keys it reserves and the nightly prune of those keys, the   *)
(* channel resolution and the policy, the in-app (bell) record and the     *)
(* outbox rows it writes, and the bell operations of the users.            *)
(*                                                                         *)
(* A call runs in the transaction its caller passes, or without one: then  *)
(* each write is visible at once and stays when a later one fails.  The    *)
(* database is PostgreSQL at READ COMMITTED: an insert that meets an       *)
(* uncommitted row with its unique key waits for that row's transaction.   *)
(***************************************************************************)
EXTENDS Naturals, FiniteSets, NotificationCatalog

CONSTANTS
    Calls,      \* publish calls; each is made at most once
    Nobody,     \* no call
    Users,      \* users that exist
    Profiles,   \* what findUserContext may return for a user
    Start,      \* profiles of the users to begin with
    Dtos,       \* what may be published: [user, type, fields, category, channels, key, body]
    Keys,       \* idempotency keys
    NoKey,      \* no idempotency key
    MaxFaults,  \* bound: calls that fail or die on the way
    MaxChanges  \* bound: changes of profiles and of the time of day

Channels == {"PUSH", "EMAIL", "SMS", "KAKAO", "ALIMTALK"}
Categories == {"TRANSACTIONAL", "MARKETING"}

\* Devices with an active token, an e-mail address, a usable phone number, and
\* the notification preference per channel ("unset": no preference row).
Profile == [tokens : Nat, email : BOOLEAN, phone : BOOLEAN,
            pref : [Channels -> {"in", "out", "unset"}]]

ASSUME PublishAssumption ==
    /\ Nobody \notin Calls /\ NoKey \notin Keys
    /\ Profiles \subseteq Profile /\ Start \subseteq [Users -> Profiles]
    /\ \A e \in Dtos : /\ e.category \in Categories
                       /\ e.channels \subseteq Channels
                       /\ e.type \in EventTypes
                       /\ e.key \in Keys \cup {NoKey}
    /\ MaxFaults \in Nat /\ MaxChanges \in Nat

\* The NotificationUseCases: all transactional, push first, and keyed by user,
\* by transfer or not at all.
UseCaseDto(useCase, user, transfer, body) ==
    LET keyed == [REMITTANCE_COMPLETED |-> NoKey,
                  KYC_APPROVED |-> user,
                  KYC_REVERIFICATION_REQUIRED |-> NoKey,
                  KYC_REVERIFICATION_REQUIRED_ADMIN |-> NoKey,
                  KYC_REVERIFICATION_SUCCESS |-> user,
                  KYC_REVERIFICATION_SUSPENDED |-> user,
                  REMITTANCE_FAILED |-> transfer]
    IN  [user |-> user, type |-> useCase, fields |-> RequiredFields[useCase],
         category |-> "TRANSACTIONAL", channels |-> {"PUSH", "EMAIL"}, body |-> body,
         key |-> IF keyed[useCase] = NoKey THEN NoKey ELSE <<useCase, keyed[useCase]>>]

\* The hash kept with a key.  The user is not part of it.
RequestHash(e) == <<e.type, e.category, e.channels, e.body>>
-----------------------------------------------------------------------------
VARIABLES
    profile,    \* users with their devices and preferences
    night,      \* is it between 21:00 and 08:00 for the users?
    keyRow,     \* notification_idempotency as committed: the hash, or {} for no row
    expired,    \* keys whose expires_at has passed
    pending,    \* the call whose open transaction has inserted the key
    call,       \* the publish calls, with their local variables
    bell,       \* committed bell record of a call
    rows,       \* committed outbox rows <<call, channel, target>>
    ui,         \* a user's operation on a bell record, between check and act
    \* counters and history
    era,        \* how often a key has been pruned
    touched,    \* <<bell record, user>>: who has read or deleted what
    faults, changes

tables == <<keyRow, pending, bell, rows>>
world == <<profile, night, expired, era, changes>>
panel == <<ui, touched>>
vars == <<tables, world, panel, call, faults>>

NoContext == CHOOSE p \in Profiles : TRUE
NoDto == CHOOSE e \in Dtos : TRUE

Idle == [pc |-> "idle", dto |-> NoDto, inTx |-> FALSE, ctx |-> NoContext,
         todo |-> {}, wrote |-> {}, bell |-> FALSE, key |-> FALSE, era |-> 0,
         answer |-> "none"]

NoOp == [op |-> "none", target |-> Nobody]

Init ==
    /\ profile \in Start
    /\ night = FALSE
    /\ keyRow = [k \in Keys |-> {}] /\ pending = [k \in Keys |-> Nobody]
    /\ expired = {} /\ era = [k \in Keys |-> 0]
    /\ call = [c \in Calls |-> Idle]
    /\ bell = [c \in Calls |-> "none"] /\ rows = {}
    /\ ui = [u \in Users |-> NoOp] /\ touched = {}
    /\ faults = 0 /\ changes = 0

At(c, place) == call[c].pc = place
Goto(c, place) == call' = [call EXCEPT ![c].pc = place]
End(c, a) == call' = [call EXCEPT ![c].pc = "done", ![c].answer = a, ![c].todo = {}]

-----------------------------------------------------------------------------
\* publish

\* A use case, the listener or the internal controller calls publish.  A use
\* case may pass its caller's transaction on; here any call may have one.
Publish(c, e, tx) ==
    /\ At(c, "idle")
    /\ call' = [call EXCEPT ![c].pc = "context", ![c].dto = e, ![c].inTx = tx]
    /\ UNCHANGED <<tables, world, panel, faults>>

\* findUserContext (outside any transaction), exists, validate; then render,
\* which only reads.
FindUserContext(c) ==
    LET e == call[c].dto IN
    /\ At(c, "context")
    /\ \/ e.user \notin Users /\ End(c, "not-found")
       \/ e.user \in Users /\ ~ Accepts(e.type, e.fields) /\ End(c, "invalid")
       \/ /\ e.user \in Users /\ Accepts(e.type, e.fields)
          /\ call' = [call EXCEPT ![c].ctx = profile[e.user],
                                  ![c].pc = IF e.key = NoKey THEN "resolve" ELSE "reserve"]
    /\ UNCHANGED <<tables, world, panel, faults>>

\* Mutant: a read decides whether the key is free; the insert does not fail.
ReserveKeyReadFirst(c) ==
    LET k == call[c].dto.key IN
    /\ At(c, "reserve")
    /\ \/ /\ keyRow[k] = {}
          /\ \/ call[c].inTx /\ pending' = [pending EXCEPT ![k] = c] /\ UNCHANGED keyRow
             \/ /\ ~ call[c].inTx /\ UNCHANGED pending
                /\ keyRow' = [keyRow EXCEPT ![k] = {RequestHash(call[c].dto)}]
          /\ call' = [call EXCEPT ![c].pc = "resolve", ![c].key = TRUE, ![c].era = era[k]]
       \/ keyRow[k] # {} /\ Goto(c, "lookup") /\ UNCHANGED <<keyRow, pending>>
    /\ UNCHANGED <<bell, rows, world, panel, faults>>

\* Mutant: the key is written outside the caller's transaction.
ReserveKeyOutsideTx(c) ==
    LET k == call[c].dto.key IN
    /\ At(c, "reserve") /\ pending[k] = Nobody
    /\ \/ /\ keyRow[k] = {}
          /\ keyRow' = [keyRow EXCEPT ![k] = {RequestHash(call[c].dto)}]
          /\ call' = [call EXCEPT ![c].pc = "resolve", ![c].key = TRUE, ![c].era = era[k]]
       \/ keyRow[k] # {} /\ Goto(c, "lookup") /\ UNCHANGED keyRow
    /\ UNCHANGED <<pending, bell, rows, world, panel, faults>>

\* createMany with skipDuplicates: ON CONFLICT DO NOTHING.
ReserveKey(c) ==
    LET k == call[c].dto.key IN
    /\ At(c, "reserve") /\ pending[k] = Nobody
    /\ \/ /\ keyRow[k] = {}
          /\ \/ call[c].inTx /\ pending' = [pending EXCEPT ![k] = c] /\ UNCHANGED keyRow
             \/ /\ ~ call[c].inTx /\ UNCHANGED pending
                /\ keyRow' = [keyRow EXCEPT ![k] = {RequestHash(call[c].dto)}]
          /\ call' = [call EXCEPT ![c].pc = "resolve", ![c].key = TRUE, ![c].era = era[k]]
       \/ keyRow[k] # {} /\ Goto(c, "lookup") /\ UNCHANGED <<keyRow, pending>>
    /\ UNCHANGED <<bell, rows, world, panel, faults>>

\* findUnique: the row that was in the way may be gone by now.
LookupKey(c) ==
    LET k == call[c].dto.key IN
    /\ At(c, "lookup")
    /\ \/ keyRow[k] \subseteq {RequestHash(call[c].dto)} /\ End(c, "duplicate")
       \/ ~ (keyRow[k] \subseteq {RequestHash(call[c].dto)}) /\ End(c, "conflict")
    /\ UNCHANGED <<tables, world, panel, faults>>

\* Mutant: push is dropped, not substituted, where there is no device.
FinalChannelsNoAlimtalk(e, p) ==
    LET transactional == e.category = "TRANSACTIONAL"
        optedOut(ch) == p.pref[ch] = "out"
    IN  {ch \in e.channels : ~ optedOut(ch) \/ (transactional /\ ch # "PUSH")}
          \cup IF transactional /\ "PUSH" \in e.channels /\ optedOut("PUSH") THEN {"SMS"} ELSE {}

\* STEP 3: preferences and fallback logic, channel by channel.
FinalChannels(e, p) ==
    LET transactional == e.category = "TRANSACTIONAL"
        optedOut(ch) == p.pref[ch] = "out"
        final(ch) ==
            IF ch = "PUSH" /\ optedOut(ch) /\ transactional THEN {"SMS"}
            ELSE IF optedOut(ch) /\ ~ transactional THEN {}
            ELSE IF ch = "PUSH" /\ p.tokens = 0 THEN {"KAKAO"}
            ELSE {ch}
    IN  UNION {final(ch) : ch \in e.channels}

\* Mutant: no preference row counts as consent.
IsAllowedByDefault(p, category, ch, isNight) ==
    category = "MARKETING" => p.pref[ch] # "out" /\ ~ isNight

\* NotificationPolicyService.isAllowed
IsAllowed(p, category, ch, isNight) ==
    category = "MARKETING" => p.pref[ch] = "in" /\ ~ isNight

\* TARGET_RESOLVERS; ALIMTALK has none.
Targets(p, ch) ==
    CASE ch = "PUSH" -> 1 .. p.tokens
      [] ch = "EMAIL" -> IF p.email THEN {1} ELSE {}
      [] ch \in {"SMS", "KAKAO"} -> IF p.phone THEN {1} ELSE {}
      [] OTHER -> {}

\* Mutant: only a push message gets a bell record.
ResolveBellForPush(c) ==
    LET e == call[c].dto
        p == call[c].ctx
        allowed == {ch \in FinalChannels(e, p) : IsAllowed(p, e.category, ch, night)}
    IN
    /\ At(c, "resolve")
    /\ call' = [call EXCEPT ![c].todo = UNION {{<<c, ch, i>> : i \in Targets(p, ch)} : ch \in allowed},
                            ![c].pc = IF "PUSH" \in allowed THEN "bell" ELSE "rows"]
    /\ UNCHANGED <<tables, world, panel, faults>>

Resolve(c) ==
    LET e == call[c].dto
        p == call[c].ctx
        allowed == {ch \in FinalChannels(e, p) : IsAllowed(p, e.category, ch, night)}
    IN
    /\ At(c, "resolve")
    /\ call' = [call EXCEPT ![c].todo = UNION {{<<c, ch, i>> : i \in Targets(p, ch)} : ch \in allowed},
                            ![c].pc = IF allowed = {} THEN "rows" ELSE "bell"]
    /\ UNCHANGED <<tables, world, panel, faults>>

\* STEP 5, and STEP 6 row by row (which row goes first is left open).
WriteBell(c) ==
    /\ At(c, "bell")
    /\ \/ /\ call[c].inTx
          /\ call' = [call EXCEPT ![c].pc = "rows", ![c].bell = TRUE]
          /\ UNCHANGED bell
       \/ ~ call[c].inTx /\ Goto(c, "rows") /\ bell' = [bell EXCEPT ![c] = "unread"]
    /\ UNCHANGED <<keyRow, pending, rows, world, panel, faults>>

\* Mutant: the rows do not take part in the caller's transaction.
CreateOutboxOutsideTx(c) ==
    /\ At(c, "rows")
    /\ \E r \in call[c].todo :
        call' = [call EXCEPT ![c].todo = @ \ {r}] /\ rows' = rows \cup {r}
    /\ UNCHANGED <<keyRow, pending, bell, world, panel, faults>>

CreateOutbox(c) ==
    /\ At(c, "rows")
    /\ \E r \in call[c].todo :
        \/ /\ call[c].inTx
           /\ call' = [call EXCEPT ![c].todo = @ \ {r}, ![c].wrote = @ \cup {r}]
           /\ UNCHANGED rows
        \/ /\ ~ call[c].inTx
           /\ call' = [call EXCEPT ![c].todo = @ \ {r}]
           /\ rows' = rows \cup {r}
    /\ UNCHANGED <<keyRow, pending, bell, world, panel, faults>>

Return(c) ==
    /\ At(c, "rows") /\ call[c].todo = {}
    /\ \/ call[c].inTx /\ Goto(c, "open")
       \/ ~ call[c].inTx /\ End(c, "published")
    /\ UNCHANGED <<tables, world, panel, faults>>

\* Mutant: a rolled-back transaction leaves its key behind.
UnpendNothing(c) == UNCHANGED pending

Unpend(c) == pending' = [k \in Keys |-> IF pending[k] = c THEN Nobody ELSE pending[k]]

\* The caller's transaction commits: key, bell record and rows together.
Commit(c) ==
    /\ At(c, "open")
    /\ Unpend(c)
    /\ keyRow' = [k \in Keys |-> IF pending[k] = c THEN {RequestHash(call[c].dto)} ELSE keyRow[k]]
    /\ bell' = IF call[c].bell THEN [bell EXCEPT ![c] = "unread"] ELSE bell
    /\ rows' = rows \cup call[c].wrote
    /\ End(c, "published")
    /\ UNCHANGED <<world, panel, faults>>

\* A database call throws or the process dies.  A transaction takes everything
\* back; without one, what is written stays, the key included.  The listener
\* logs the error and forgets the event.
Fail(c) ==
    /\ faults < MaxFaults
    /\ ~ At(c, "idle") /\ ~ At(c, "done")
    /\ faults' = faults + 1
    /\ Unpend(c)
    /\ End(c, "failed")
    /\ UNCHANGED <<keyRow, bell, rows, world, panel>>

-----------------------------------------------------------------------------
\* Time, users and the nightly prune

\* Seven days have passed, longer than any call lasts.
KeyExpires(k) ==
    /\ keyRow[k] # {} /\ k \notin expired
    /\ \A c \in Calls : call[c].key /\ call[c].dto.key = k => At(c, "done")
    /\ expired' = expired \cup {k}
    /\ UNCHANGED <<tables, profile, night, era, changes, panel, call, faults>>

\* pruneExpiredIdempotency
PruneExpired ==
    /\ expired # {}
    /\ keyRow' = [k \in Keys |-> IF k \in expired THEN {} ELSE keyRow[k]]
    /\ era' = [k \in Keys |-> IF k \in expired THEN era[k] + 1 ELSE era[k]]
    /\ expired' = {}
    /\ UNCHANGED <<pending, bell, rows, profile, night, changes, panel, call, faults>>

\* A user changes preferences or devices, or evening falls, or morning comes.
WorldChanges ==
    /\ changes < MaxChanges
    /\ changes' = changes + 1
    /\ \/ \E u \in Users, p \in Profiles :
            profile' = [profile EXCEPT ![u] = p] /\ UNCHANGED night
       \/ night' = ~ night /\ UNCHANGED profile
    /\ UNCHANGED <<tables, expired, era, panel, call, faults>>

-----------------------------------------------------------------------------
\* The notification panel

\* Mutant: any bell record that exists may be used.
VerifyExistence(u, op, c) ==
    /\ ui[u] = NoOp
    /\ bell[c] \in {"unread", "read"}
    /\ ui' = [ui EXCEPT ![u] = [op |-> op, target |-> c]]
    /\ UNCHANGED <<tables, world, call, faults, touched>>

\* verifyOwnership of markAsRead and deleteNotification.
VerifyOwnership(u, op, c) ==
    /\ ui[u] = NoOp
    /\ bell[c] \in {"unread", "read"} /\ call[c].dto.user = u
    /\ ui' = [ui EXCEPT ![u] = [op |-> op, target |-> c]]
    /\ UNCHANGED <<tables, world, call, faults, touched>>

\* The write, by id alone.  A record deleted meanwhile makes it throw.
ApplyToBell(u) ==
    LET c == ui[u].target IN
    /\ ui[u] # NoOp
    /\ ui' = [ui EXCEPT ![u] = NoOp]
    /\ \/ /\ bell[c] # "deleted"
          /\ bell' = [bell EXCEPT ![c] = IF ui[u].op = "read" THEN "read" ELSE "deleted"]
          /\ touched' = touched \cup {<<c, u>>}
       \/ bell[c] = "deleted" /\ UNCHANGED <<bell, touched>>
    /\ UNCHANGED <<keyRow, pending, rows, world, call, faults>>

PublishStep(c) ==
    \/ FindUserContext(c) \/ ReserveKey(c) \/ LookupKey(c) \/ Resolve(c)
    \/ WriteBell(c) \/ CreateOutbox(c) \/ Return(c) \/ Commit(c)

Next ==
    \/ \E c \in Calls : \/ \E e \in Dtos, tx \in BOOLEAN : Publish(c, e, tx)
                        \/ PublishStep(c) \/ Fail(c)
    \/ \E k \in Keys : KeyExpires(k)
    \/ PruneExpired
    \/ WorldChanges
    \/ \E u \in Users :
        \/ \E op \in {"read", "delete"}, c \in Calls : VerifyOwnership(u, op, c)
        \/ ApplyToBell(u)

Spec == Init /\ [][Next]_vars

-----------------------------------------------------------------------------
\* Properties

InTransaction == {"resolve", "bell", "rows", "open"}
Places == {"idle", "context", "reserve", "lookup", "done"} \cup InTransaction
Answers == {"none", "not-found", "invalid", "duplicate", "conflict", "published", "failed"}

\* Types; and a key that is inserted but not committed belongs to a call that
\* is still inside its transaction (reserveIdempotency).
TypeOK ==
    /\ profile \in [Users -> Profiles] /\ night \in BOOLEAN
    /\ \A k \in Keys : keyRow[k] \subseteq {RequestHash(e) : e \in Dtos}
    /\ \A k \in Keys : pending[k] # Nobody =>
          LET c == call[pending[k]] IN c.inTx /\ c.key /\ c.pc \in InTransaction
    /\ \A c \in Calls : call[c].pc \in Places /\ call[c].answer \in Answers
    /\ bell \in [Calls -> {"none", "unread", "read", "deleted"}]
    /\ rows \subseteq Calls \X Channels \X Nat
    /\ \A u \in Users : ui[u].op \in {"none", "read", "delete"}
    /\ faults \in 0 .. MaxFaults /\ changes \in 0 .. MaxChanges

Visible(c) == bell[c] # "none" \/ \E r \in rows : r[1] = c
InProgress(c) == ~ At(c, "idle") /\ ~ At(c, "done")

\* Two calls with the same idempotency key both leave something behind only if
\* the key was pruned in between, whatever their transactions, their
\* interleaving and their failures (publish, reserveIdempotency).
KeyedOnce ==
    \A c, d \in Calls :
        (/\ c # d /\ Visible(c) /\ Visible(d)
         /\ call[c].dto.key = call[d].dto.key /\ call[c].dto.key # NoKey)
            => call[c].era # call[d].era

\* A retry is answered as a duplicate only because of a call that reserved the
\* key and is published, still under way, or was lost without a transaction: a
\* caller that publishes inside its transaction never makes a retry be dropped
\* for a notification that was rolled back (publish, reserveIdempotency).
SwallowedRetryHasCause ==
    \A c \in Calls : call[c].answer = "duplicate" =>
        \E d \in Calls \ {c} :
            /\ call[d].key /\ call[d].dto.key = call[c].dto.key
            /\ \/ call[d].answer = "published"
               \/ InProgress(d)
               \/ call[d].answer = "failed" /\ ~ call[d].inTx

\* Nothing is sent that the notification panel does not show, or has not shown
\* until its owner deleted it, even when the call fails half way (publish,
\* STEP 5 before STEP 6).
RowsHaveBell == \A r \in rows : bell[r[1]] # "none"

\* A marketing row goes out on a channel the user had opted in to when the call
\* read the preferences, substituted channels included; and no row of any
\* category is a push to a user who opted out of it (publish, STEP 3 and 4).
ConsentRespected ==
    \A r \in rows :
        LET c == call[r[1]] IN
        /\ c.dto.category = "MARKETING" => c.ctx.pref[r[2]] = "in"
        /\ r[2] = "PUSH" => c.ctx.pref["PUSH"] # "out"

\* A transactional message that asks for push reaches every user with a usable
\* phone number on some channel, whatever their devices and preferences
\* (publish, STEP 3).
TransactionalReachesPhone ==
    \A c \in Calls :
        (/\ call[c].answer = "published" /\ call[c].ctx.phone
         /\ call[c].dto.category = "TRANSACTIONAL" /\ "PUSH" \in call[c].dto.channels)
            => \E r \in rows : r[1] = c

\* A call inside its caller's transaction shows nothing before the commit and
\* nothing after a failure: no key, no bell record, no rows (publish's tx).
TransactionIsAtomic ==
    \A c \in Calls :
        (call[c].inTx /\ call[c].answer # "published") => ~ Visible(c)

\* Only its owner reads or deletes a bell record, although the write after the
\* check names the record by id alone (verifyOwnership, markAsRead,
\* deleteNotification).
OnlyOwnerTouches == \A t \in touched : call[t[1]].dto.user = t[2]
=============================================================================
