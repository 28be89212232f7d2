-------------------------- MODULE TransactionList --------------------------
(***************************************************************************)
(* A user's list of transfers, page by page (TransactionService.findMany,  *)
(* findManyByUserId and the cursor between them), while transfers are      *)
(* confirmed and change status; and the limit that a transfer must pass to *)
(* be confirmed.                                                           *)
(*                                                                         *)
(* The rows are those of one user.  A row's created_at is the time its     *)
(* transaction began, so it may become visible after younger rows; its id  *)
(* is a random uuid, ordered in no relation to time.  The confirmation     *)
(* itself is outside src/ and modelled by what the list and the limit see. *)
(***************************************************************************)
EXTENDS TransferLimit, Sequences, FiniteSets, SequencesExt

CONSTANTS
    Ids,       \* uuids, as numbers
    Statuses,  \* statuses of a row
    Limits,    \* page sizes a request may ask for
    Quotes,    \* <<amount, currency>> that may be confirmed
    LimitUsd,  \* DEFAULT_PER_TXN_LIMIT_USD
    MaxTime    \* bound: the clock, in milliseconds of created_at

ASSUME ListAssumption ==
    /\ Ids \subseteq Nat /\ MaxTime \in Nat /\ LimitUsd \in Nat
    /\ Limits \subseteq Nat \ {0}
    /\ Statuses # {}
    /\ \A q \in Quotes : q[1] \in Nat

VARIABLES
    row,      \* the transactions table; committed or not
    decision, \* the last verdict on a quote
    list,     \* a listing in progress
    now

vars == <<row, decision, list, now>>

NoRow == [there |-> FALSE, visible |-> FALSE, created |-> 0, status |-> CHOOSE s \in Statuses : TRUE]
NoList == [pc |-> "idle", filter |-> Statuses, shown |-> <<>>, cursor |-> <<>>, steady |-> {}]
NoQuote == [amount |-> 0, currency |-> "USD", verdict |-> "within"]

Init ==
    /\ row = [i \in Ids |-> NoRow]
    /\ decision = NoQuote /\ list = NoList /\ now = 0

-----------------------------------------------------------------------------
\* Transfers

\* A quote is confirmed, or refused by the limit.
ConfirmQuote(i, q, s) ==
    LET v == Verdict(q[1], q[2], LimitUsd) IN
    /\ ~ row[i].there
    /\ decision' = [amount |-> q[1], currency |-> q[2], verdict |-> v]
    /\ row' = IF v = "within"
              THEN [row EXCEPT ![i] = [there |-> TRUE, visible |-> FALSE, created |-> now, status |-> s]]
              ELSE row
    /\ UNCHANGED <<list, now>>

\* The transaction that inserted the row commits,
CommitInsert(i) ==
    /\ row[i].there /\ ~ row[i].visible
    /\ row' = [row EXCEPT ![i].visible = TRUE]
    /\ UNCHANGED <<decision, list, now>>

\* or is rolled back.
AbortInsert(i) ==
    /\ row[i].there /\ ~ row[i].visible
    /\ row' = [row EXCEPT ![i] = NoRow]
    /\ UNCHANGED <<decision, list, now>>

ChangeStatus(i, s) ==
    /\ row[i].visible /\ row[i].status # s
    /\ row' = [row EXCEPT ![i].status = s]
    /\ list' = [list EXCEPT !.steady = IF s \in list.filter THEN @ ELSE @ \ {i}]
    /\ UNCHANGED <<decision, now>>

Tick == now < MaxTime /\ now' = now + 1 /\ UNCHANGED <<row, decision, list>>

-----------------------------------------------------------------------------
\* The list

Key(i) == <<row[i].created, i>>

\* createdAt desc, id desc
Before(k, l) == k[1] > l[1] \/ (k[1] = l[1] /\ k[2] > l[2])

\* Mutant: the time alone tells which rows are left.
BeyondByTime(k, cursor) == cursor = <<>> \/ cursor[1] > k[1]

\* Mutant: rows of the same time are sent once more.
BeyondWithTies(k, cursor) == cursor = <<>> \/ cursor[1] >= k[1]

\* The cursor condition of findManyByUserId; no cursor, no condition.
Beyond(k, cursor) == cursor = <<>> \/ Before(cursor, k)

Matching(filter) == {i \in Ids : row[i].visible /\ row[i].status \in filter}

\* findManyByUserId: the first rows in order, one more than the page holds.
FindMany(filter, cursor, limit) ==
    LET found == {i \in Matching(filter) : Beyond(Key(i), cursor)} IN
    {page \in SeqOf(found, limit + 1) :
        /\ \A m, n \in DOMAIN page : m < n => Before(Key(page[m]), Key(page[n]))
        /\ \A i \in found : \/ \E n \in DOMAIN page : page[n] = i
                            \/ /\ Len(page) = limit + 1
                               /\ Before(Key(page[limit + 1]), Key(i))}

\* A client begins a listing, of all statuses or of one.
OpenList(filter) ==
    /\ list.pc = "idle"
    /\ list' = [pc |-> "open", filter |-> filter, shown |-> <<>>, cursor |-> <<>>,
                steady |-> Matching(filter)]
    /\ UNCHANGED <<row, decision, now>>

\* Mutant: the cursor names the row after the page.
NextCursorFetched(fetched, items) == Key(Last(fetched))

\* encodeTransactionListCursor of the last item; decoding it on the next
\* request gives the same time, in milliseconds, and id.
NextCursor(fetched, items) == Key(Last(items))

\* findMany: the extra row tells that there is a next page, and is not sent.
FetchPage(limit) ==
    /\ list.pc = "open"
    /\ \E fetched \in FindMany(list.filter, list.cursor, limit) :
         LET hasNext == Len(fetched) > limit
             items == IF hasNext THEN SubSeq(fetched, 1, limit) ELSE fetched
         IN  list' = [list EXCEPT !.shown = @ \o [n \in DOMAIN items |-> Key(items[n])],
                                  !.cursor = IF hasNext THEN NextCursor(fetched, items) ELSE <<>>,
                                  !.pc = IF hasNext THEN "open" ELSE "ended"]
    /\ UNCHANGED <<row, decision, now>>

Next ==
    \/ \E i \in Ids : \/ \E q \in Quotes, s \in Statuses : ConfirmQuote(i, q, s)
                      \/ CommitInsert(i) \/ AbortInsert(i)
                      \/ \E s \in Statuses : ChangeStatus(i, s)
    \/ \E filter \in {Statuses} \cup {{s} : s \in Statuses} : OpenList(filter)
    \/ \E limit \in Limits : FetchPage(limit)
    \/ Tick

Spec == Init /\ [][Next]_vars

-----------------------------------------------------------------------------
\* Properties

\* Types; and while pages are left, the cursor of a listing that has begun is
\* the key of the last row it showed (findMany).
TypeOK ==
    /\ row \in [Ids -> [there : BOOLEAN, visible : BOOLEAN, created : 0 .. MaxTime, status : Statuses]]
    /\ list.pc \in {"idle", "open", "ended"}
    /\ list.filter \subseteq Statuses /\ list.steady \subseteq Ids
    /\ (list.pc = "open" /\ list.shown # <<>>) => list.cursor = Last(list.shown)
    /\ decision.verdict \in {"within", "exceeded", "unsupported"}
    /\ now \in 0 .. MaxTime

\* A listing goes down strictly by time and id, across all its pages: no row is
\* shown twice, whatever is inserted or changes status between the pages and
\* whatever sizes the pages have (findManyByUserId's tie-breaker).
ListDescends ==
    \A n \in 1 .. Len(list.shown) - 1 : Before(list.shown[n], list.shown[n + 1])

\* A listing that has ended has shown every row that was there when it began
\* and has matched its filter ever since (findMany).
NothingSkipped ==
    list.pc = "ended" => \A i \in list.steady : \E n \in DOMAIN list.shown : list.shown[n] = Key(i)

\* A transfer passes the limit exactly if its currency has a rate and its USD
\* value is less than half a cent above the limit: that much, not the limit
\* itself, is the ceiling (assertWithinPerTxnLimit).  CeilingHolds, the stricter
\* promise of the rate table's comment, does not hold.
LimitToHalfACent ==
    decision.currency \in DOMAIN UsdReferenceRates =>
        LET rate == UsdReferenceRates[decision.currency] IN
        (decision.verdict = "within") <=>
            2 * decision.amount * rate[1] < (2 * LimitUsd * Units + PerCent) * rate[2]

\* "never letting a true >$5,000 transfer slip under the ceiling"
\* (per-txn-limit.ts:25-26): a transfer that passes is not above the limit.  In
\* dollars no reference rate stands between the amount and its true value.
CeilingHolds ==
    decision.currency = "USD" /\ decision.verdict = "within" =>
        decision.amount <= LimitUsd * Units
=============================================================================
