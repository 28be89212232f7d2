# TLA+ models of nestjs-backend-modules

A verification project for the NestJS backend modules under
`src/nestjs-backend-modules`: a transactional notification outbox with its
workers and its publishing side, a remittance transaction state machine with a
compliance axis, and FAQ administration. Paths below are relative to
`src/nestjs-backend-modules/src/modules` unless they start with `prisma/`.

Every definition is translated from the TypeScript or from the Prisma schema;
`PROJECT.json` maps each one to the lines it stands for.

## 1. Inventory

### Notification worker (`notification/services/notification-worker.service.ts`)
*State*: `isProcessing` (per process); through the repository the outbox columns
`status`, `retryCount`, `lockedAt`, `nextRetryAt`.
*Operations*: `handleQueue` (cron, every 3 s), `processJob`, `withSenderTimeout`,
`handleFailure`, `enqueuePushFallback`, `cleanZombies` (cron, every minute),
`pruneIdempotencyKeys` (cron, nightly).
*Interacts with*: the repository (claims and row writes), the template service
(render), the push, e-mail and SENS senders.
*Hard*: several replicas on one table; a send that outlives its 15 s timer and is
not cancelled; row writes keyed by id only; a crash with claimed rows; a database
error between two writes.
*Correct when*: a row in work belongs to one claim; retries and attempts are
bounded; a closed row stays closed; no row is forgotten; a hung send cannot
freeze a replica.

### Notification sender (`notification/services/notification-sender.service.ts`, `notification/senders/sens`)
*State*: none of its own; writes `notification_deliveries`.
*Operations*: `sendWithFallback`: Alimtalk, then SMS, then the delivery record
conditional on the claim.
*Hard*: the promise survives the timeout of its caller; the provider accepts and
the answer is lost; the insert fails after the provider accepted.
*Correct when*: a late answer writes nothing for a row claimed again since; a
message is duplicated only because something failed.

### Push and e-mail senders (`notification/senders/push.sender.ts`, `email.sender.ts`)
*State*: device tokens (deactivated when the provider says they are dead).
*Operations*: `send`; outcomes are accepted, transient failure, permanent failure
(push only).

### Notification repository (`notification/notification.repository.ts`, `prisma/schema/notification.prisma`)
*State*: outbox, deliveries, events, idempotency keys, templates, bell notifications.
*Operations*: `createOutbox`, `claimPendingBatch` (`FOR UPDATE SKIP LOCKED`),
`updateStatus`, `incrementRetry`, `reapStuckNotifications`,
`recordDeliveryForActiveClaim`, `reserveIdempotency`, `pruneExpiredIdempotency`,
bell and template queries. Its operations are modelled in the modules of their callers.

### Notification publish (`notification/services/notification.service.ts`, `notification-usecases.service.ts`, `notification/listeners`)
*State*: idempotency keys; it writes bell and outbox rows.
*Operations*: `publish`: find the user, validate the payload, reserve the key,
resolve channels and targets, apply the policy, write the bell record and the
outbox rows, with or without the caller's transaction.
*Hard*: reservation and rows are separate writes without a transaction; a
transaction that holds an uncommitted key makes others wait; the pruner removes
the key that was in the way; devices and preferences change meanwhile.
*Correct when*: one key yields one notification until it is pruned; a retry is
dropped only for a reason; every row has its bell record; consent is respected,
and a transactional message still finds a channel.

### Notification policy (`notification-policy.service.ts`)
Stateless: consent and quiet hours for marketing, evaluated at publish time.

### Templates and admin (`notification-template.service.ts`, `notification-admin.service.ts`)
*State*: the template table; per replica, cached rows with an expiry and one
shared in-flight load.
*Operations*: `seedMessageTemplates` (on every start), `loadOverrides`, `render`,
`invalidateCache`; admin upsert and reset.
*Hard*: a load started before an admin write and finished after the
invalidation; the `finally` of an old load un-sharing a new one; seeding on every
start of every replica.
*Correct when*: an edit is shown by its own replica at once and by all of them
after the TTL; a start never overwrites an edit; no stampede; no copy with holes.

### Bell notifications
`getUserNotifications`, `markAsRead`, `deleteNotification`, the last two preceded
by an ownership check and written by id.
*Correct when*: only its owner reads or deletes a record.

### Transaction status machine (`transaction/services/transaction.service.ts`, `domain/transaction-status-transition.ts`)
*State*: the status of a transaction, and its log.
*Operations*: `updateStatus` (compare-and-set, at most 3 attempts), `cancelByUser`
(an unlocked check, then `FOR UPDATE` and a transition in one transaction),
`findMany`, `findDetail`.
*Interacts with*: `TransferStateService`, admins and a scheduler outside `src/`,
which write the same column.
*Hard*: the compare-and-set loop against the row lock, inside and outside the
caller's transaction.
*Correct when*: only the table's transitions happen, a cancellation is final and
logged once, a cancellation and a payout never both succeed, and the loop gives
up only because of others.

### Compliance machine, gate and presentation (`transaction/domain/compliance-*.ts`)
A second axis with its own table; the gate that should stop a blocked transaction
is a function nothing outside its spec file calls, and `prisma/schema/transaction.prisma`
has no column for the axis. The presentation folds both axes into what the
customer sees.
*Correct when*: no payout without a clearance, no refund announced without a payment.

### Transaction list and cursor (`transaction/domain/transaction-list-cursor.ts`, `repositories/transaction.repository.ts`)
Keyset paging over (createdAt, id), newest first.
*Hard*: rows inserted, committed late or changed between two pages; equal timestamps.
*Correct when*: nothing is shown twice and nothing that was there is skipped.

### Per-transaction limit (`transaction/domain/per-txn-limit.ts`)
A limit on a USD equivalent rounded to cents. Nothing in `src/` calls it.

### FAQ and FAQ categories (`faq`, `faq-category`)
*State*: FAQs, categories with unique names, audit entries.
*Operations*: create, update and delete of each.
*Hard*: the uniqueness check precedes the insert; the update collects changed
fields from an earlier read; audit entries are written after the change.
*Correct when*: names stay unique; no answered edit is undone by an edit of
another field; the audit log is complete and shows states that existed.

### HTTP shell, API-key guard, configuration
Wiring, one header comparison, error formatting, environment parsing. No state.

### How they interact
A use case, an event listener or the internal controller calls `publish`, which
inserts outbox rows under an idempotency key; replicas of the worker claim the
rows with `SKIP LOCKED`, render their text through the template cache and call the
senders; the sender writes the delivery through the repository under the claim's
`lockedAt`; the worker writes the outcome on the row; a failed push row makes the
worker insert a KAKAO row; the reaper of any replica frees rows of dead claims.
All coordination between replicas goes through the database. Transaction and
compliance status meet in the gate and in the presentation.

## 2. Plan

In order of importance:

| # | module | content | status |
|---|--------|---------|--------|
| 1 | `DeliveryContract` | what the outbox promises, abstractly | written |
| 2 | `NotificationOutbox` | workers, senders, reaper, crashes; implements 1 | written |
| 3 | `NotificationOutboxProofs` | types, fence, exclusive claims, retry budget, refinement | written |
| 4 | `TransferLifecycle` | where the money of a transfer may go, abstractly | written |
| 5 | `TransactionStatus` | both status machines, compare-and-set against the row lock, gate, presentation; implements 4 | written |
| 6 | `NotificationCatalog` | event types: payloads, variables, priorities | written |
| 7 | `NotificationPublish` | publish, idempotency keys and their prune, policy, channels, bell | written |
| 8 | `TemplateCache` | seeding, shared load, invalidation, edits, restarts | written |
| 9 | `FaqAdmin` | check-then-act on names, partial updates, audit | written |
| 10 | `TransferLimit`, `TransactionList` | the limit; keyset pages under concurrent writes | written |
| 11 | `TransactionStatusProofs` | types, `CancelAnswerHolds`, `CancelledOnce`, conflicts and refunds; `PayoutIsCleared` and `KeepsLifecycle` for callers that consult the gate | written |
| 12 | `NotificationPublishProofs` | types, idempotency, atomicity, bell records, consent, reachability | written |
| 13 | `FaqAdminProofs` | types, unique names, edits, the audit trail | written |
| 14 | `TemplateCacheProofs` | types, edits kept, staleness, loads, default copy | written |
| 15 | `NotificationOutboxAccountProofs` | `BatchBound`, `AttemptsNeedFaults`, `MessagesInBudget`: accounts per replica and per row | written |
| 16 | `TransactionListProofs` | types, the order of a listing and its completeness, the limit | written |

What is left: results beyond the properties that the runs check. The first
candidate is how much of the delivery contract, and of `MessagesInBudget` for rows
without an event, survives without `PromptWorkers`.

Composition: 2 implements 1 and 5 implements 4. 7 and 8 extend 6 (validation,
default copy), and the MC module of 2 takes the priorities of its rows from 6.
7 creates the rows whose life 2 models: its `CreateOutbox` is the other side of
2's `CreateOutbox`, and the two meet in the outbox table alone. `TransactionList`
extends `TransferLimit`; 9 stands alone.

## 3. NotificationOutbox

### State

| variable | code |
|----------|------|
| `status`, `retryCount`, `lockedAt` | the columns of `notification_outbox` |
| `waiting` | rows whose `next_retry_at` is in the future |
| `overdue` | rows locked for longer than `STUCK_THRESHOLD_MS` (15 min) |
| `busy` | replicas whose `isProcessing` is true |
| `task[c]` | where `processJob` stands for claim `c` |
| `sender[c]` | where the send promise of claim `c` stands |
| `owner[c]`, `snapshot[c]` | the replica that made the claim, the `retryCount` it read |
| `recorded[c]` | the `notification_deliveries` row the claim wrote |
| `parent[k]` | ghost: the push row for which row `k` is the fallback |
| `claims`, `copies`, `faults` | ghosts: claims made, messages accepted, faults so far |

A claim `<<j, n>>` is the n-th claim of row j. The code tells claims apart by the
`lockedAt` timestamp; the number stands for it, so two claims of one row never
carry the same timestamp (they are at least one reaper period, or one back-off,
apart).

A task and its sender are separate because they are separate in the code:
`withSenderTimeout` races them, and a sender that loses lives on. Which one wins
is chosen when the send starts (`sending` or `hanging`); a sender that will lose
takes its last step only after the timer. That is one choice for a pair of
timers, and gives the same behaviours as choosing at the deadline.

### Actions

| action | code |
|--------|------|
| `CreateOutbox` | `createOutbox` from `publish` |
| `HandleQueue`, `FinishBatch` | `handleQueue` with `claimPendingBatch`; its `finally` |
| `StartSend`, `Timeout` | `processJob` up to the race; the `SenderTimeoutError` branch |
| `ProviderAnswers` | `PushSender.send`, `EmailSender.send` |
| `AlimtalkAnswers`, `SmsAnswers`, `RecordDelivery` | the three steps of `sendWithFallback` |
| `SaveSent` | `updateStatus(id, SENT)` |
| `GiveUp`, `Retry`, `FailureWriteLost` | `handleFailure` and a throw inside it |
| `EnqueuePushFallback` | `enqueuePushFallback` |
| `BackoffElapses`, `LockAges` | the clock passing `nextRetryAt`, the stuck threshold |
| `CleanZombies` | `cleanZombies` with `reapStuckNotifications` |
| `Crash` | a replica dies; its rows keep their locks |

Points of abstraction, each chosen to keep the order of database and provider calls:

- The claim transaction is one step: it locks the rows it reads, and other claims skip them.
- Equal priorities are claimed in any order; `created_at`, the tie-break, is left out.
- A crash and the restart are one step; being down is taking no step. A claim that
  commits while its answer is lost is `HandleQueue` followed by `Crash`.
- Rendering cannot fail (the template service catches and falls back to defaults),
  and the branches "missing lockedAt" and "unsupported channel" are unreachable
  from the claim query; none is modelled.
- KAKAO and SMS rows both try Alimtalk first, as the code does. An EMAIL row takes
  the same steps as a PUSH row but has no permanent failure and no fallback and
  uses the default retry budget; the runs use PUSH, KAKAO and SMS.
- Senders that are not configured answer as if they had accepted; that is the
  accepting outcome here.
- A unique-key collision on a delivery's `externalId` makes the insert throw and
  change nothing: fault `db`.
- `Reachable` fixes the outcome of the consent, user and phone checks of
  `enqueuePushFallback` for each row.
- `EventRows` are the rows whose id is also the id of a `notification_events` row,
  which the delivery's foreign key demands. Nothing in this repository writes that
  table, so `EventRows = {}` is the code on its own. The safety runs give the
  fallback row an event, which is what the schema intends and the only way to reach
  the fence's successful branch; the SMS row of `outbox_safety`, the liveness run
  and the violation runs have none. The theorems hold for every `EventRows`.

### Faults

`FaultKinds` says which may happen, `MaxFaults` how many in one behaviour.

| kind | meaning |
|------|---------|
| `hang` | a send outlives 15 s |
| `crash` | a replica dies and is started again |
| `db` | a call throws and changed nothing |
| `lostack` | a call throws although its change was committed |
| `vendor` | a provider accepts, and its answer is lost or is an error |
| `stall` | a task is still busy with a claim 15 minutes old |

`hang`, `crash`, `db` and `vendor` are ordinary operation. `stall` and `lostack`
break the assumption the code is built on: the gap of 15 minutes between a 15 s
send and the reaper, and a database whose error means "not done". Without a fence on
`updateStatus` and `incrementRetry`, that assumption is what keeps two claims of
one row apart. With `stall` or `lostack`, `WorkingTaskHoldsClaim`, `RetryBudget`,
`AttemptsNeedFaults` and `KeepsContract` fail (a late `updateStatus` reopens or
overwrites its successor's row; a retry is counted twice). The theorems name the
assumption as `PromptWorkers`, and the run `outbox_stall` checks what still holds
without it.

### Fairness

`FairSpec` adds weak fairness to: the two crons (NestJS fires them on every
period, and `handleQueue` returns at once when nothing is due), the clocks, every
step of a task (database calls return or throw), and a sender's steps only while
its task still awaits it. A sender that loses the race gets none: the
request may hang for ever. No fairness is assumed of `CreateOutbox` or of faults.
`HandleQueue` needs no strong fairness: a replica that is free and finds a due row
stays so until it or another replica claims.

## 4. The other models

### TransactionStatus

| variable | code |
|----------|------|
| `status` | `transactions.status` as committed |
| `holder` | who holds the row lock: a `FOR UPDATE`, or a write not yet committed |
| `cancelLogs` | the entries "to CANCELLED" of `transaction_status_logs` |
| `compliance` | the compliance status of the same transfer |
| `call[c]` | the call a caller is in: `nextStatus`, `current.status`, the loop counter, whether a `tx` was passed |
| `answer[c]` | how the last call ended: returned, or the error thrown |
| `calls`, `others`, `changes`, `paid`, `sent` | ghosts: counters and history |

| action | code |
|--------|------|
| `CallUpdateStatus`, `ReadCurrent`, `CompareAndSet`, `Reread` | `updateStatus`: `findById` and the validation, `updateMany`, the read for the answer |
| `EndTransaction` | the caller's transaction commits or rolls back |
| `CallCancel`, `Preflight`, `LockRow`, `CancelTransition` | `cancelByUser` and its `$transaction` |
| `OtherTransition` | admin and scheduler through `TransferStateService` (outside `src/`) |
| `ComplianceStep` | a step `assertComplianceStatusTransition` lets pass |

Points of abstraction:

- PostgreSQL at READ COMMITTED: a plain read sees what is committed and does not
  wait; a write and `FOR UPDATE` wait for `holder` and then look at the row as it is.
- The callers of `updateStatus` are outside `src/`. They may ask for any status at
  any time, with two limits the code's comments state: they consult the gate
  (`GateCalled`, false in the code on its own), and COMPLETED is asked for only
  when the transfer had been sent. The gate is evaluated when the call is made and
  not again when the write happens.
- `updateStatus` writes no status log; after the third lost race it throws a conflict
  even when the row has the status that was asked for. Both are as in the code.
- A row begins in one of `StartRows`. The legacy status PENDING, which no
  transition enters or leaves, and rows already cancelled are not among them.
- Rows are never deleted and belong to their user, so "not found" and "not yours"
  do not occur. Asking the compliance machine for the status it has is a stutter.

`TransferLifecycle` is the abstract specification: open, cancelled, funded, paid
out, refunded. `Phase` maps the eleven statuses to it.

### NotificationCatalog and NotificationPublish

`NotificationCatalog` has no state: for each of the 26 event types, the fields its
payload must and may carry, the variables of its default copy, its priority. A
payload is the set of its fields that have the right kind of value.

| variable | code |
|----------|------|
| `profile`, `night` | what `findUserContext` and `isQuietHours` would find now |
| `keyRow`, `pending`, `expired` | `notification_idempotency`: the committed hash, the open transaction that inserted the key, whether `expires_at` has passed |
| `call[c]` | a `publish` call: dto, `tx` or not, user context, rows still to write, its uncommitted writes, its answer |
| `bell`, `rows` | committed bell records and outbox rows |
| `ui[u]` | a user between `verifyOwnership` and the write |
| `era`, `touched`, `faults`, `changes` | ghosts: prunes of a key, who used which record, counters |

| action | code |
|--------|------|
| `Publish`, `FindUserContext` | the call; user, event type and payload checks |
| `ReserveKey`, `LookupKey` | `createMany` with `skipDuplicates`; `findUnique` and the hash comparison |
| `Resolve` | steps 3 and 4: channels, policy, targets |
| `WriteBell`, `CreateOutbox`, `Return` | steps 5 and 6, one row at a time |
| `Commit`, `Fail` | the caller's transaction commits; any call throws or its process dies |
| `KeyExpires`, `PruneExpired` | seven days pass; `pruneExpiredIdempotency` |
| `WorldChanges` | a user changes devices or preferences, or the hour does |
| `VerifyOwnership`, `ApplyToBell` | `markAsRead`, `deleteNotification` |

Points of abstraction:

- The request hash is the tuple of what goes into it (type, category, channels,
  payload); the user does not go into it. So a key reused for another user with
  equal content is answered as a duplicate, as in the code.
- `ON CONFLICT DO NOTHING` waits for the transaction that holds the key
  (`pending`), so of two open transactions one waits for the other. An expired key
  blocks until it is pruned.
- A key expires only after the calls that reserved it have ended: seven days
  against seconds.
- ALIMTALK as a requested channel has no target resolver: it makes a bell record
  and no row. Rows are written in no fixed order; priorities are not in the rows.
- The listener catches and logs: for it, `Fail` is the end.

### TemplateCache

| variable | code |
|----------|------|
| `stored` | the template's row in `message_templates`, as a version |
| `cache[r]` | `cache` and `cacheExpiresAt` of replica `r` |
| `cachePromise[r]`, `load[l]` | the shared promise, and every table read still in flight, shared or not |
| `admin[r]` | an edit saved whose `invalidateCache` is still to come |
| `up` | replicas past `onModuleInit` |
| `savedAt`, `answered`, `invalidated` | ghosts; so are the fields `overtaken`, `wanted`, `due` |

| action | code |
|--------|------|
| `Render` (`FromCache`, `FromLoad`) | `loadOverrides`: hit, join, or start a load |
| `ReadTable`, `InstallLoad`, `FailLoad` | the query; its result becomes the cache; `catch` |
| `SaveTemplate`, `AnswerAdmin` | the upsert of an edit or reset; `invalidateCache` and the answer |
| `Boot`, `Restart` | `onModuleInit` with `seedMessageTemplates`; the process ends |

One template stands for all, because a load reads the whole table; each replica
handles one admin edit at a time. Alimtalk always renders the code default and is
left out. `MaxLoad` assumes a duration for a table read; without one, no bound on
staleness can hold. When the table cannot be read the code shows the old cache,
however old, or the defaults; the properties except that case.

### FaqAdmin

| variable | code |
|----------|------|
| `faq`, `category` | the tables; of a category, its name |
| `call[a]` | a request and its local variables: `before`, the dto, the id |
| `audit` | the audit entries |
| `past`, `edits`, `changes`, `lost`, `calls` | ghosts |

| action | code |
|--------|------|
| `CreateFaq`, `UpdateFaq`, `WriteFaq`, `DeleteFaq`, `RemoveFaq`, `Audit` | `FaqService`, one action per database call |
| `CreateCategory`, `InsertCategory`, `UpdateCategory`, `FindName`, `RenameCategory`, `DeleteCategory`, `DropCategory` | `FaqCategoryService` |

Ids are fresh; the reads and a category's description are left out; the audit
service is outside `src/` and either records or throws. The model keeps what the
code does with names: white space alone passes the create DTO and is stored as
the blank name, an empty string in an update skips the look-up and is stored as
it is. The loser of a race for a name gets the database's error rather than
"already exists". Which fields an update carries depends on how the request is
transformed outside `src/` (`UpdateFaqDto` is a `PartialType` of a class with
initialisers); the model lets an update carry any subset.

### TransferLimit and TransactionList

`TransferLimit` is pure: the rate table as fractions, `Math.round` in cents over
integers in thousandths, and the verdict. Floating-point noise is far below the
half cent that decides and left out.

| variable | code |
|----------|------|
| `row` | one user's rows: created when, visible or still uncommitted, in which status |
| `decision` | the last verdict of `assertWithinPerTxnLimit` |
| `list` | a client's listing: its filter, what it has shown, the cursor it holds; `steady` is a ghost |

`FindMany` and `FetchPage` are the repository query and `findMany`, the extra row
included; `FindMany` is stated as what `ORDER BY` and `LIMIT` promise of a page: its
rows descend, and a matching row that is not on it comes after a full page. `Beyond` is the cursor condition. The confirmation of a quote
(`ConfirmQuote`, `CommitInsert`, `AbortInsert`) is outside `src/`: a row carries
the time its transaction began and becomes visible later, or never. A client
keeps its filter and may change the page size. Encoding and decoding the cursor
is modelled as the pair of milliseconds and id it carries; a malformed cursor is
refused before anything happens.

## 5. Runs

| run | shows | bounds |
|-----|-------|--------|
| `outbox_safety` | types, exclusive claims, budgets of retries, attempts and accepted messages, batch bound, refinement of `DeliveryContract` | push row, its fallback (with an event row), SMS row (without); 2 replicas; 4 claims per row; batch limit 1; 1 fault of `hang`, `crash`, `db`, `vendor` |
| `outbox_stall` | the delivery fence, and duplicates are paid for by faults, under all six kinds of fault | push row and its fallback; 2 replicas; 5 claims; 2 faults |
| `outbox_liveness` | every row closes; a replica always becomes free again | push and SMS row in one batch; 1 replica; 1 fault |
| `status_safety` | cancellations final and logged once, payouts cleared, honest conflicts and refunds, refinement of `TransferLifecycle` | 2 callers of `updateStatus`, 2 of `cancelByUser`; 3 attempts as in the code; 4 calls; 1 step of an admin or the scheduler; 4 start rows; `GateCalled` |
| `publish_safety` | idempotency, atomicity, consent, reachability, bell records and their owners | 2 calls; 2 users in 3 profiles; 7 dtos; 1 failure; 1 change of the world |
| `template_cache` | how stale copy may be, how many loads, edits and restarts; the tables of the copy, as an assumption | 2 replicas; 3 loads; TTL 2, a load at most 1, clock up to 3; 2 edits; 1 failed read; 1 restart |
| `faq_admin` | unique names, edits of different fields, the audit trail | 3 admins; 1 FAQ of 2 fields with 2 values; 2 categories; 1 name; 4 requests; 1 failed audit |
| `transaction_list` | pages neither repeat nor skip; the limit at its boundary | 3 rows; 2 statuses; pages of 1 and 2; clock up to 2; limit of $1; 9 quotes in 5 currencies |
| `outbox_no_event_rows` | finding: the foreign key makes accepted messages repeat | expected violation |
| `outbox_lost_fallback` | finding: FAILED without a fallback after a crash | expected violation |
| `status_ungated` | finding: nothing in the code consults the gate | expected violation |
| `limit_ceiling` | finding: USD 5000.004 passes a limit of $5,000 | expected violation; the limit of the code, 1 row, 3 quotes in dollars |

Why the bounds are enough.

*Outbox*: two claims of one row are all that any interference
needs, a third is one more attempt after it. The cap `MaxClaims` cuts no behaviour
short in the passing runs: with 1 retry and 1 fault a row is claimed at most
1 + 1 + 1 times (`AttemptsNeedFaults`, which the cap of 4 leaves room to violate),
and in `outbox_stall` raising the cap from 5 to 6 adds no state. The retry budget is scaled from 3 to 1 for KAKAO and SMS in the passing
runs; PUSH has its real budget of 1, and the violation runs have the real values.
Batch limit 1 makes the two replicas compete for the priority order; limit 2 in
the liveness run puts two rows in one `Promise.allSettled`. The SMS row carries
the low priority of a reward, the other two the high one of a failed remittance.

*Status*: a lost update needs two writers; a conflict needs three changes by
others during one call, which four calls and one other transition allow. The
start rows stand for the parts of a long life that four calls could not walk
through: new, about to be paid, in processing with its report open, sent and then
marked FAILED.

*Publish*: two calls are what an idempotency key is about; a prune between them
needs one expiry. The dtos are two use cases (keyed by transfer and by user), a
marketing message without a key, the same key with another body and for another
user, a payload that misses a field and a user that does not exist.

*Templates*: staleness across an invalidation needs one old load and one new, a
third shows what the `finally` of the first does to the second. The clock runs one
past the TTL. `StaleOnlyForTtl` is reached at the last instant of the clock.

*FAQ*: three admins, because an answered edit is compared with two later ones.
Requests about FAQs and about categories share the four requests.

*List*: three rows give a page, its extra row and one more; ties in time and in
status filter both occur. The limit is scaled from $5,000 to $1 because the check
is on its boundary, with amounts at the limit and on both sides of half a cent.

Deadlock is not checked: a drained outbox, finished calls and a listing that has
ended rest. Symmetry (replicas, calls, callers, admins, categories, loads) is
used in safety runs only. Only the outbox has fairness: its crons drive it. The
other modules answer requests and promise nothing without one, so their
properties are about safety.

What the properties are for:

- `WorkingTaskHoldsClaim` is the reason `updateStatus`'s `WHERE id` is safe.
- `RetryBudget` relates the counter the worker read to the counter it increments.
- `DuplicatesNeedFaults` and `AttemptsNeedFaults` bound what a fault may cost: one
  message, one attempt.
- `MessagesInBudget` is what remains of the former where deliveries cannot be
  recorded (finding 1): the retry budget is all that such a row may cost beyond it.
- `LateRecordIsFenced` is the fence of `recordDeliveryForActiveClaim`.
- `KeepsContract` is the refinement: closed rows stay closed, SENT means some
  provider accepted, at most one fallback per push row, after it failed.
- `EveryRowCloses`, `WorkerNeverFreezes`: no row is forgotten, no hung send
  blocks a replica.
- `CancelAnswerHolds`, `CancelledOnce`: what the user was told about a
  cancellation, against every late callback and double click.
- `ConflictNeedsChanges`: the compare-and-set loop never fails by itself.
- `PayoutIsCleared`: the gate is evaluated before the status is read, and still
  suffices, because a clearance is final.
- `RefundShownOnlyIfPaid`: two independent axes shown as one sentence.
- `KeepsLifecycle`: money that arrived is never called off, and a payout follows a
  clearance.
- `KeyedOnce`, `SwallowedRetryHasCause`: both sides of idempotency, no double
  notification and no notification dropped for one that was rolled back.
- `TransactionIsAtomic`, `RowsHaveBell`: what a failure half way may leave behind.
- `ConsentRespected`, `TransactionalReachesPhone`: channel substitution may
  neither evade a refusal nor lose a message.
- `OnlyOwnerTouches`: check and write are apart, and the write names no owner.
- `EditShownAtOnce`, `StaleOnlyForTtl`: what "takes effect immediately" amounts to.
- `LoadsBounded`: one load per replica, and one more per invalidation.
- `EditsSurvive`: seeding beside editing.
- `AnsweredEditHolds`, `AuditTellsTruth`, `AuditIsComplete`, `UniqueNames`: what
  admins are told, under each other's feet.
- `ListDescends`, `NothingSkipped`: the tie-breaker of the cursor.
- `LimitToHalfACent`: the rounding against exact arithmetic. It is not the promise
  of the code's comment; `CeilingHolds` is, and fails (finding 4).

### Findings

1. A delivery's `event_id` is the outbox id, but it is a foreign key on
   `notification_events`, which nothing writes. The insert throws after the vendor
   accepted, and the message is sent again for every retry.
2. The FAILED write and the fallback insert are not one transaction; a crash
   between them leaves the user with nothing.
3. `compliance-status-transition.ts:19` says the order of the two machines is
   enforced by the gate, and `compliance-gate.guard.ts:16-17` that a BLOCKED transfer
   never reaches payout. No code calls the gate; `updateStatus` alone takes a
   transfer that is not cleared to SENT_TO_PARTNER.
4. `per-txn-limit.ts:25-26` promises "never letting a true >$5,000 transfer slip
   under the ceiling". The comparison is in rounded cents (`per-txn-limit.ts:74`),
   so up to half a cent above the limit passes: USD 5000.004, which the column
   `Decimal(22,6)` holds and whose rate is exactly 1.

Divergences without a run of their own:

- `SenderTimeoutError` is documented as routed through `handleFailure` and
  `incrementRetry` (`notification/errors/notification.errors.ts:70-75`), while
  `processJob` returns at once and leaves the row to the reaper, uncounted.
- An edited template "takes effect immediately, not after the TTL"
  (`notification-admin.service.ts:115`, `:138`) on its own replica, unless a load
  is in flight; on the others after the TTL. `EditShownAtOnce` and
  `StaleOnlyForTtl` state what holds.
- `notification.repository.ts:73` explains a missing row after a conflict by an
  uncommitted concurrent insert; `ON CONFLICT` waits for that insert, so only a
  prune in between can be the reason.
- `transaction.service.ts:243-246` promises a consistent number of fractional
  digits; the code pads to the scale but cuts nothing, so an amount of a
  `Decimal(22,6)` column may show up to six digits where two are announced.
- The push fallback joins the stored country code and number itself
  (`notification-worker.service.ts:188`), while `notification.service.ts:231-234`
  explains why `publish` needs `toE164Recipient` for legacy rows.

## 6. Proofs

Checked by TLAPS. Every theorem but `CopyIsComplete` is about `Spec`, for every value of the constants
that the named assumption of its module allows. Those assumptions type the
constants, and add only this: the rows of the outbox and the admins are finitely
many; the rows a transaction starts from are consistent (`StartAssumption`: paid
means a paid status, sent means cleared); there is at least one status to list; `None` is not a load or a
replica; the TTL is not zero (`CACHE_TTL_MS` is a minute; with a TTL of zero, a
render that joins a load which has already read would be answered with copy older
than any bound on the cache). What a theorem assumes beyond that is in its table.
`Init`, the inductive step and the implication are proved for each invariant below.

### NotificationOutboxProofs

| theorem | states | assumes |
|---------|--------|---------|
| `TypeCorrect` | `Spec => []TypeOK` | nothing |
| `LateRecordsAreFenced` | `Spec => LateRecordIsFenced` | nothing: every fault may happen |
| `ClaimsAreExclusive` | `Spec => []WorkingTaskHoldsClaim` | `PromptWorkers` |
| `RetriesStayInBudget` | `Spec => []RetryBudget` | `PromptWorkers` |
| `OutboxKeepsContract` | `Spec => KeepsContract` | `PromptWorkers` |

The argument has three layers, each an inductive invariant that contains the one before.

`ClaimInv` numbers the claims: a row is locked exactly while it is PROCESSING, by
its latest claim; a claim not made yet has no task, no sender and no owner. The
fence compares `lockedAt` with the claim's number, so whoever passes it is the
latest claim. This needs no timing assumption.

`WorkInv` makes claims exclusive. `WorkingTaskHoldsClaim` is not inductive alone:
the reaper could free a row in work, so `OverdueIsIdle` says an overdue lock has no
task at work, which `LockAges` keeps because without `stall` a lock ages only when
idle; `OverdueIsLocked` makes a new claim start young. Then two working tasks of
one row are the same task, nobody else writes the row, `SnapshotIsCurrent` keeps
the counter that was read equal to the counter that is stored, and the retry
budget follows.

`ContractInv` is what the refinement needs: a task about to save SENT has an
accepted message (`AcceptedFirst`); the task about to enqueue a fallback is the
only one, for a FAILED row without a fallback (`FallingOnce`); only FAILED rows
have fallbacks (`ParentFailed`). `ClosedIsFinal` (no step writes a SENT or FAILED
row) carries it. `ContractRefinement` then maps every step to a step of
`DeliveryContract` or to a stutter, under `phase <- phaseOf`.

### NotificationOutboxAccountProofs

| theorem | states | assumes |
|---------|--------|---------|
| `BatchesAreBounded` | `Spec => []BatchBound` | nothing |
| `AttemptsArePaidFor` | `Spec => []AttemptsNeedFaults` | `PromptWorkers` |
| `PushesArePaidFor` | `Spec => []`: a push or e-mail row has at most 1 + `faults` messages | nothing |
| `MessagesArePaidFor` | `Spec => []MessagesInBudget` | `PromptWorkers` |

`OneBatch` says that a replica whose flag is down has nothing in hand: that, and not
the claim query, is why two ticks of its cron never add up.

The other three are accounts. A row pays one token for its first claim or message,
and one for each fault; where retries are paid for, one for each of them too.

- `AttemptPaid`: the claims made, and one more if the row may be claimed again
  without a further token, are never more than one, the retry counter and the
  faults. `Moved` says what any step but a claim does to the attempts of a row.
- `CopyPaid`: the messages accepted, those that may still be accepted or retried
  (`ToCome`), the time-outs that are decided (`Hung`) and the message of the next
  claim (`Again`) are never more than one and the faults, under every kind of
  fault. The next claim drops out while a task attends the row under a young lock,
  which is what makes the account balance when an orphaned sender still has its
  message to come: the time-out that orphaned it was a fault. `SendInv` supports it
  with what an unsettled sender's task may be doing. The account is kept for rows
  that record no delivery, or can record it.
- `MessagePaid`: the messages accepted, those that may still be accepted
  (`Expected`) and the claim to come are never more than one, the retry counter and
  the faults. It is kept for every row, because nothing in it depends on the
  delivery: a failed insert is a retry, and the retry is counted.

`MessagesArePaidFor` joins the last two, for every `EventRows`, the empty one of this
repository included. In the terms of finding 1: a KAKAO or SMS row may go out
1 + `DEFAULT_MAX_RETRIES` times without any fault, and no more often than that and
once for every fault. Push and e-mail rows need no event, so `PushesArePaidFor`
asks for nothing at all, stalled workers and lost acknowledgements included.

### TransactionStatusProofs

| theorem | states | assumes |
|---------|--------|---------|
| `TypeCorrect` | `Spec => []TypeOK` | nothing |
| `CancelAnswersStayTrue` | `Spec => []CancelAnswerHolds` | nothing |
| `CancellationsLoggedOnce` | `Spec => []CancelledOnce` | nothing |
| `RefundsFollowPayments` | `Spec => []RefundShownOnlyIfPaid` | nothing |
| `ConflictsHaveCauses` | `Spec => ConflictNeedsChanges` | nothing |
| `GateGuardsPayout` | `Spec => []PayoutIsCleared` | `GateCalled` |
| `StatusKeepsLifecycle` | `Spec => KeepsLifecycle` | `GateCalled` |

`RowInv` joins the callers to the row: whoever holds the row lock, by `FOR UPDATE` or
by a write not yet committed, still finds the status its validation saw
(`CallerInv`), and only the holder writes. `CancelInv` adds that a CANCELLED row was
logged once; nothing leaves CANCELLED, so the answer stays true. `PaidInv` says
which statuses only a paid transfer reaches. `RaceInv` counts: a call in its n-th
attempt has seen n changes by others since it began, and one more if the row has
moved since the read; the number of attempts is a constant. `PayoutInv` carries a
clearance from the moment the gate was asked to the write, which works because no
transition of the compliance machine leaves CLEARED. `GateCalled` is a hypothesis
because it is false of the code on its own: that is finding 3. The refinement maps
every step of both machines to a step of `TransferLifecycle` or to a stutter, under
`Phase`.

### NotificationPublishProofs

| theorem | states |
|---------|--------|
| `TypeCorrect` | `Spec => []TypeOK` |
| `KeysNotifyOnce` | `Spec => []KeyedOnce` |
| `DuplicatesHaveCause` | `Spec => []SwallowedRetryHasCause` |
| `PanelBeforeOutbox` | `Spec => []RowsHaveBell` |
| `TransactionsAreAtomic` | `Spec => []TransactionIsAtomic` |
| `RowsAreConsentedTo` | `Spec => []ConsentRespected` |
| `PushFallsBackToPhone` | `Spec => []TransactionalReachesPhone` |
| `BellsHaveOneReader` | `Spec => []OnlyOwnerTouches` |

`CourseInv` says what a call holds at each place of `publish`. On it rest two
families. `KeyInv`: an uncommitted key row belongs to one call inside its
transaction and has no committed row beside it (`PendingInv`); between two prunes a
key has at most one reservation that stands, and its row, committed or not, is still
there (`EraInv`). Numbering the times between prunes is what makes it inductive: a
key may be reserved again after a prune while the first call still runs. `RetryInv`
then traces every duplicate answer to a reservation that is never taken back.
`WriteInv` follows the writes: what a call inside a transaction wrote is seen by
nobody before `Commit`, and its bell record comes first. `DeliveryInv` extends
consent and reachability from the rows written to the rows still to do.

### FaqAdminProofs

| theorem | states |
|---------|--------|
| `TypeCorrect` | `Spec => []TypeOK` |
| `NamesAreUnique` | `Spec => []UniqueNames` |
| `AuditIsTrue` | `Spec => []AuditTellsTruth` |
| `AuditCountsAll` | `Spec => []AuditIsComplete` |
| `AnsweredEditsHold` | `Spec => []AnsweredEditHolds` |

`PastInv`: the row, every read in a request's hands and both sides of every audit
record are places in the FAQ's history, in order (`RowsInPast`, `PastOf`, `Tells`).
`AuditIsComplete` counts, with `Auditing`, the finite set of requests whose change is
made and whose record is not. `EditInv` is about any number of admins on one FAQ. A
field is `Kept` for an update if it holds what the update asked for, or another
update asked for what it holds now, or the FAQ is gone. An update that is written,
answered or not, keeps its fields (`DoneHolds`); and the content a request has read
and not written yet is kept for that request (`ReadHolds`), which is what the
inductive step needs when it writes back only the fields that differ from its read.
`Carries` and `CarriedOnce` tie the requests to their updates.

### TemplateCacheProofs

| theorem | states |
|---------|--------|
| `TypeCorrect` | `Spec => []TypeOK` |
| `EditsAreKept` | `Spec => EditsSurvive` |
| `StalenessIsBounded` | `Spec => []StaleOnlyForTtl` |
| `EditsShowAtOnce` | `Spec => []EditShownAtOnce` |
| `NoStampede` | `Spec => []LoadsBounded` |
| `CopyIsComplete` | `DefaultCopyIsComplete` |

`VersionInv` orders what is stored, saved and answered. `FlightInv` places every load
at its replica. `FreshInv`: a load holds every edit saved before it began, a cache
every edit saved more than a TTL and a load's time before it expires; so copy that
is shown is that old at most. `AnswerInv` marks the other way to stale copy: a load
that read before an edit was answered is overtaken, and so is a cache it filled.
`CountOf` pays for every load in flight with the shared promise or an invalidation,
including the `finally` of an old load that un-shares a new one. `CopyIsComplete` is
about fixed tables, in which no state takes part: payload schemas, payload
interfaces and the variables of both languages are compared event by event, for
every payload that validation accepts. It is no property of a run; `MCTemplateCache`
assumes it, so that TLC evaluates it too.

### TransactionListProofs

| theorem | states |
|---------|--------|
| `TypeCorrect` | `Spec => []TypeOK` |
| `ListGoesDown` | `Spec => []ListDescends` |
| `NothingIsSkipped` | `Spec => []NothingSkipped` |
| `LimitHolds` | `Spec => []LimitToHalfACent` |

`PageShown` says what one page shows, for any page size: keys in order, all behind
the cursor, and every matching row behind the cursor on the page or behind the next
cursor. `ListInv` joins the pages: while pages are left the cursor is the last key
shown (`CursorIsLast`); any two keys shown are in order, which with the transitivity
of the order is more than the neighbours that `ListDescends` compares
(`ShownDescends`); and a row the listing watches is visible, matches the filter, and
has been shown or is behind the cursor (`SteadyShown`). A row that becomes visible
late, in front of the cursor, is not watched, and is why the property is not about
every row. `LimitHolds` is exact arithmetic about `Math.round`, for every amount and
limit and each of the table's denominators.

### Only model-checked

`EveryRowCloses` and `WorkerNeverFreezes`: liveness under fairness is beyond the
prover. `DuplicatesNeedFaults`: it is false of the code on its own (finding 1), so
no theorem states it for all rows; `outbox_stall` checks it where the schema's
intention is met and the fallback has its event row, and the two theorems above
say what holds without that. The four findings are counterexamples. Every other
property of the passing runs has a theorem.

## 7. Not modelled

- The internal API-key guard, HTTP shell, error formatting and configuration: no
  state and no order of events.
- Dashboards, listings and other reads that only read; transaction details and
  decimal formatting.
- Message texts, phone formats, signatures, LMS against SMS: payload that no
  property tells apart.
- Compliance block reasons: labels nothing branches on.
- Device registration, the audit service, `TransferStateService`, quote
  confirmation and the callers of `updateStatus`: outside `src/`, modelled as far as
  the code in `src/` shows. Ledger, prefunding and partner tables: a schema without code.
- Device-token deactivation: best effort, touches only devices.
- Starvation of low priorities under a steady flow of urgent rows: needs an
  unbounded producer; listed as a hazard without a property.
- Default copy that changes between two releases while seeded rows keep the old
  text: the model has one release; listed as a hazard.
- Which second occasions deserve a notification although their key names only the
  user: decided outside `src/`; listed as a hazard.
- Consent and quiet hours that change between publish and delivery: the worker does
  not evaluate them again, so no property about delivery time holds;
  `ConsentRespected` is about publish time.
