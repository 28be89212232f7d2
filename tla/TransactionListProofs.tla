----------------------- MODULE TransactionListProofs -----------------------
(***************************************************************************)
(* Theorems about TransactionList and TransferLimit for every set of rows  *)
(* and statuses, all page sizes and all quotes.                            *)
(***************************************************************************)
EXTENDS TransactionList, TLAPS

-----------------------------------------------------------------------------
(* The limit *)

\* Rounding to cents, halves up, exceeds a limit in cents exactly from half a cent above the
\* limit on, for a rate r1 / r2 with the denominators of the table.
LEMMA CentsExceed ==
    ASSUME NEW a \in Nat, NEW l \in Nat,
           NEW r2 \in {1, 10, 1000, 1100, 14000, 22000}, NEW r1 \in {1, 8, 12, 14, 32}
    PROVE  Cents(a, <<r1, r2>>) > l * 100 <=> ~ (2 * a * r1 < (2 * l * Units + PerCent) * r2)
<1>1. Units = 1000 /\ PerCent = 10
  BY DEF Units, PerCent
<1>2. CASE r2 = 1
  BY <1>1, <1>2 DEF Cents
<1>3. CASE r2 = 10
  BY <1>1, <1>3 DEF Cents
<1>4. CASE r2 = 1000
  BY <1>1, <1>4 DEF Cents
<1>5. CASE r2 = 1100
  BY <1>1, <1>5 DEF Cents
<1>6. CASE r2 = 14000
  BY <1>1, <1>6 DEF Cents
<1>7. CASE r2 = 22000
  BY <1>1, <1>7 DEF Cents
<1>8. QED
  BY <1>2, <1>3, <1>4, <1>5, <1>6, <1>7

\* The verdict on a quote is what exact arithmetic says, up to half a cent.
LEMMA VerdictToHalfACent ==
    ASSUME NEW a \in Nat, NEW l \in Nat, NEW currency \in DOMAIN UsdReferenceRates
    PROVE  LET rate == UsdReferenceRates[currency] IN
           (Verdict(a, currency, l) = "within")
               <=> 2 * a * rate[1] < (2 * l * Units + PerCent) * rate[2]
<1>1. \E r1 \in {1, 8, 12, 14, 32}, r2 \in {1, 10, 1000, 1100, 14000, 22000} :
         UsdReferenceRates[currency] = <<r1, r2>>
  BY DEF UsdReferenceRates
<1>2. PICK r1 \in {1, 8, 12, 14, 32}, r2 \in {1, 10, 1000, 1100, 14000, 22000} :
         UsdReferenceRates[currency] = <<r1, r2>>
  BY <1>1
<1>3. Cents(a, <<r1, r2>>) > l * 100 <=> ~ (2 * a * r1 < (2 * l * Units + PerCent) * r2)
  BY CentsExceed
<1>4. Verdict(a, currency, l) = "within" <=> ~ (Cents(a, <<r1, r2>>) > l * 100)
  BY <1>2 DEF Verdict
<1>5. QED
  BY <1>2, <1>3, <1>4

-----------------------------------------------------------------------------
(* Types *)

\* Booleans, as a name for the provers.
Flags == BOOLEAN
Row == [there : Flags, visible : Flags, created : 0 .. MaxTime, status : Statuses]
Keys == (0 .. MaxTime) \X Ids
Listing == [pc : {"idle", "open", "ended"}, filter : SUBSET Statuses, shown : Seq(Keys),
            cursor : Keys \cup {<<>>}, steady : SUBSET Ids]

\* Rows and listings have their types, only a row that is there is visible, and the last
\* verdict is the one on the last quote.
TypeInv ==
    /\ row \in [Ids -> Row]
    /\ \A i \in Ids : row[i].visible => row[i].there
    /\ list \in Listing
    /\ now \in 0 .. MaxTime
    /\ decision.amount \in Nat
    /\ decision.verdict = Verdict(decision.amount, decision.currency, LimitUsd)

\* A row that is not there.
LEMMA NoRowType ==
    /\ NoRow \in Row
    /\ ~ NoRow.visible
<1>1. (CHOOSE s \in Statuses : TRUE) \in Statuses
  BY ListAssumption
<1>2. 0 \in 0 .. MaxTime /\ FALSE \in Flags
  BY ListAssumption DEF Flags
<1>3. QED
  BY <1>1, <1>2 DEF NoRow, Row

\* The key of a row.
LEMMA KeyType ==
    ASSUME row \in [Ids -> Row], NEW i \in Ids
    PROVE  Key(i) \in Keys
BY DEF Key, Keys, Row

\* The cursor of a row is not the empty one.
LEMMA KeyIsNoEnd ==
    ASSUME NEW k \in Keys
    PROVE  k # <<>>
<1>1. PICK time \in 0 .. MaxTime, i \in Ids : k = <<time, i>>
  BY DEF Keys
<1>2. 1 \in DOMAIN <<time, i>> /\ 1 \notin DOMAIN <<>>
  OBVIOUS
<1>3. QED
  BY <1>1, <1>2

\* The order of the list is transitive.
LEMMA BeforeThrough ==
    ASSUME NEW k \in Keys, NEW l \in Keys, NEW m \in Keys, Before(k, l), Before(l, m)
    PROVE  Before(k, m)
<1>1. Ids \subseteq Nat /\ 0 .. MaxTime \subseteq Nat
  BY ListAssumption
<1>2. \A j \in Keys : j[1] \in Nat /\ j[2] \in Nat
  <2>1. ASSUME NEW j \in Keys
        PROVE  j[1] \in 0 .. MaxTime /\ j[2] \in Ids
    BY <2>1, SMT DEF Keys
  <2>2. QED
    BY <1>1, <2>1, Zenon
<1>3. QED
  BY <1>2 DEF Before

\* What a page shows: its keys, in order, all behind the cursor; every matching row behind the
\* cursor is on the page, or behind the cursor of the next one.
LEMMA PageShown ==
    ASSUME TypeInv, NEW limit \in Limits, FetchPage(limit)
    PROVE  \E keys \in Seq(Keys) :
             /\ list'.shown = list.shown \o keys
             /\ list'.filter = list.filter /\ list'.steady = list.steady
             /\ list.pc = "open" /\ list'.pc \in {"open", "ended"}
             /\ list' \in Listing
             /\ \A m, n \in DOMAIN keys : m < n => Before(keys[m], keys[n])
             /\ \A n \in DOMAIN keys : Beyond(keys[n], list.cursor)
             /\ list'.pc = "open" => keys # <<>> /\ list'.cursor = keys[Len(keys)]
             /\ \A i \in Matching(list.filter) : Beyond(Key(i), list.cursor) =>
                    \/ \E n \in DOMAIN keys : keys[n] = Key(i)
                    \/ list'.pc = "open" /\ Before(list'.cursor, Key(i))
<1>1. limit \in Nat \ {0} /\ Ids \subseteq Nat /\ MaxTime \in Nat
  BY ListAssumption
<1>2. PICK fetched \in FindMany(list.filter, list.cursor, limit) : FetchPage(limit)!2!(fetched)
  BY DEF FetchPage
<1> DEFINE found == {i \in Matching(list.filter) : Beyond(Key(i), list.cursor)}
<1>3. fetched \in SeqOf(found, limit + 1)
  BY DEF FindMany
<1>4. PICK size \in 0 .. limit + 1 : fetched \in [1 .. size -> found]
  BY <1>3 DEF SeqOf
<1>5. fetched \in Seq(found) /\ Len(fetched) = size /\ size \in Nat
  BY <1>1, <1>4
<1>6. /\ \A m, n \in 1 .. size : m < n => Before(Key(fetched[m]), Key(fetched[n]))
      /\ \A i \in found : \/ \E n \in 1 .. size : fetched[n] = i
                          \/ /\ size = limit + 1
                             /\ Before(Key(fetched[limit + 1]), Key(i))
  BY <1>4, <1>5 DEF FindMany
<1> DEFINE items == IF size > limit THEN SubSeq(fetched, 1, limit) ELSE fetched
           keys == [n \in DOMAIN items |-> Key(items[n])]
           end == IF size > limit THEN limit ELSE size
<1>7. end \in 0 .. size /\ (size > limit => end = limit /\ size = limit + 1 /\ end > 0)
  BY <1>1, <1>4
<1>8. items \in Seq(found) /\ Len(items) = end /\ \A n \in 1 .. end : items[n] = fetched[n]
  <2>1. CASE size > limit
    BY <1>1, <1>5, <1>7, <2>1
  <2>2. CASE ~ (size > limit)
    BY <1>5, <2>2
  <2>3. QED
    BY <2>1, <2>2
<1>9. DOMAIN items = 1 .. end
  BY <1>8
<1>10. found \subseteq Ids /\ \A i \in Ids : Key(i) \in Keys
  BY KeyType DEF TypeInv, Matching
<1>11. \A n \in 1 .. end : items[n] \in found
  BY <1>8, <1>9
<1>12. keys \in [1 .. end -> Keys]
  BY <1>9, <1>10, <1>11
<1>13. keys \in Seq(Keys) /\ DOMAIN keys = 1 .. end /\ Len(keys) = end
  <2>1. end \in Nat
    BY <1>5, <1>7
  <2> HIDE DEF keys, end
  <2>2. keys \in Seq(Keys)
    BY <1>12, <2>1
  <2>3. QED
    BY <1>12, <2>1, <2>2
<1>14. \A n \in 1 .. end : keys[n] = Key(fetched[n])
  BY <1>8, <1>9
<1>15. /\ list.pc = "open"
       /\ list' = [list EXCEPT !.shown = @ \o keys,
                               !.cursor = IF size > limit THEN NextCursor(fetched, items) ELSE <<>>,
                               !.pc = IF size > limit THEN "open" ELSE "ended"]
  BY <1>2, <1>5 DEF FetchPage
<1>16. ASSUME size > limit
       PROVE  NextCursor(fetched, items) = keys[end]
  <2>1. Last(items) = items[end]
    BY <1>8 DEF Last
  <2>2. end \in 1 .. end
    BY <1>7, <1>16, <1>5
  <2>3. QED
    BY <1>8, <1>14, <2>1, <2>2 DEF NextCursor
<1>17. /\ list'.shown = list.shown \o keys
       /\ list'.filter = list.filter /\ list'.steady = list.steady
       /\ list'.cursor = IF size > limit THEN keys[end] ELSE <<>>
       /\ list'.pc = IF size > limit THEN "open" ELSE "ended"
       /\ list' \in Listing
  <2> HIDE DEF keys, items
  <2>1. list \in Listing
    BY DEF TypeInv
  <2>2. list.shown \o keys \in Seq(Keys)
    BY <1>13, <2>1 DEF Listing
  <2>3. size > limit => keys[end] \in Keys
    BY <1>5, <1>7, <1>12
  <2>4. QED
    BY <1>15, <1>16, <2>1, <2>2, <2>3 DEF Listing
<1>18. \A m, n \in DOMAIN keys : m < n => Before(keys[m], keys[n])
  BY <1>5, <1>6, <1>7, <1>13, <1>14
<1>19. \A n \in DOMAIN keys : Beyond(keys[n], list.cursor)
  <2>1. \A n \in 1 .. end : fetched[n] \in found
    BY <1>8, <1>11
  <2>2. QED
    BY <1>13, <1>14, <2>1
<1>20. list'.pc = "open" => keys # <<>> /\ list'.cursor = keys[Len(keys)]
  <2>1. ASSUME list'.pc = "open"
        PROVE  size > limit
    BY <1>17, <2>1
  <2>2. size > limit => keys # <<>>
    BY <1>7, <1>13
  <2>3. QED
    BY <1>13, <1>17, <2>1, <2>2
<1>21. ASSUME NEW i \in found
       PROVE  \/ \E n \in DOMAIN keys : keys[n] = Key(i)
              \/ list'.pc = "open" /\ Before(list'.cursor, Key(i))
  <2>1. CASE \E n \in 1 .. end : fetched[n] = i
    BY <1>13, <1>14, <2>1
  <2>2. ASSUME ~ \E n \in 1 .. end : fetched[n] = i
        PROVE  list'.pc = "open" /\ Before(list'.cursor, Key(i))
    <3>1. size > limit
      BY <1>1, <1>5, <1>6, <2>2
    <3>2. size = limit + 1 /\ end = limit /\ limit + 1 \in 1 .. size /\ limit \in 1 .. size
      BY <1>1, <1>7, <3>1
    <3>3. Before(Key(fetched[limit]), Key(fetched[limit + 1]))
      BY <1>1, <1>6, <3>2
    <3>4. \/ i = fetched[limit + 1]
          \/ Before(Key(fetched[limit + 1]), Key(i))
      <4>1. ASSUME NEW n \in 1 .. size, fetched[n] = i
            PROVE  n = limit + 1
        BY <1>1, <2>2, <3>2, <4>1
      <4>2. QED
        BY <1>6, <4>1
    <3>5. /\ Key(fetched[limit]) \in Keys /\ Key(fetched[limit + 1]) \in Keys /\ Key(i) \in Keys
      BY <1>4, <1>10, <3>2
    <3>6. Before(Key(fetched[limit]), Key(i))
      BY <3>3, <3>4, <3>5, BeforeThrough
    <3>7. QED
      BY <1>14, <1>17, <3>1, <3>2, <3>6
  <2>3. QED
    BY <2>1, <2>2
<1> HIDE DEF keys, items, end
<1>22. QED
  BY <1>13, <1>15, <1>17, <1>18, <1>19, <1>20, <1>21

\* Types and verdicts hold initially.
LEMMA TypeStart ==
    ASSUME Init
    PROVE  TypeInv
<1>1. row \in [Ids -> Row] /\ \A i \in Ids : ~ row[i].visible
  BY NoRowType DEF Init
<1>2. list \in Listing
  BY DEF Init, NoList, Listing
<1>3. now \in 0 .. MaxTime
  BY ListAssumption DEF Init
<1>4. decision.amount \in Nat /\ decision.verdict = Verdict(decision.amount, decision.currency, LimitUsd)
  <2>1. Verdict(0, "USD", LimitUsd) = "within"
    <3>1. UsdReferenceRates["USD"] = <<1, 1>> /\ "USD" \in DOMAIN UsdReferenceRates
      BY DEF UsdReferenceRates
    <3>2. Cents(0, <<1, 1>>) = 0
      BY DEF Cents, Units, PerCent
    <3>3. QED
      BY <3>1, <3>2, ListAssumption DEF Verdict
  <2>2. QED
    BY <2>1 DEF Init, NoQuote
<1>5. QED
  BY <1>1, <1>2, <1>3, <1>4 DEF TypeInv

\* What the steps other than those of the list itself do to it, and to the rows it watches:
\* a visible row stays visible and keeps its key; if its status leaves the filter, the list
\* no longer watches it.
RowsGoOn ==
    /\ list' = [list EXCEPT !.steady = list'.steady]
    /\ list'.steady \subseteq list.steady
    /\ \A i \in Ids : row[i].visible =>
           /\ row'[i].visible /\ Key(i)' = Key(i)
           /\ i \in list'.steady /\ row[i].status \in list.filter => row'[i].status \in list.filter

\* The steps of the transfers and of the clock.
RowStep ==
    \/ \E i \in Ids : \/ \E q \in Quotes, s \in Statuses : ConfirmQuote(i, q, s)
                      \/ CommitInsert(i) \/ AbortInsert(i)
                      \/ \E s \in Statuses : ChangeStatus(i, s)
    \/ Tick

\* They keep the types, the verdicts, and the rows a list watches.
LEMMA RowsStep ==
    ASSUME TypeInv, RowStep
    PROVE  TypeInv' /\ RowsGoOn
<1>1. ASSUME NEW i \in Ids, NEW q \in Quotes, NEW s \in Statuses, ConfirmQuote(i, q, s)
      PROVE  TypeInv' /\ RowsGoOn
  <2> DEFINE new == [there |-> TRUE, visible |-> FALSE, created |-> now, status |-> s]
  <2>1. new \in Row /\ ~ new.visible
    BY DEF TypeInv, Row, Flags
  <2>2. ~ row[i].visible
    BY <1>1 DEF TypeInv, ConfirmQuote
  <2>3. row' = row \/ row' = [row EXCEPT ![i] = new]
    BY <1>1 DEF ConfirmQuote
  <2> HIDE DEF new
  <2>4. /\ row' \in [Ids -> Row]
        /\ \A j \in Ids : row'[j] = row[j] \/ (j = i /\ row'[j] = new)
    BY <2>1, <2>3 DEF TypeInv
  <2>5. q[1] \in Nat
    BY ListAssumption
  <2>6. decision'.amount \in Nat /\ decision'.verdict = Verdict(decision'.amount, decision'.currency, LimitUsd)
    BY <1>1, <2>5 DEF ConfirmQuote
  <2>7. list' = list /\ now' = now
    BY <1>1 DEF ConfirmQuote
  <2>8. TypeInv'
    BY <2>1, <2>4, <2>6, <2>7 DEF TypeInv
  <2>9. QED
    BY <2>2, <2>4, <2>7, <2>8 DEF TypeInv, RowsGoOn, Key, Listing
<1>2. ASSUME NEW i \in Ids, CommitInsert(i)
      PROVE  TypeInv' /\ RowsGoOn
  <2>1. /\ row' = [row EXCEPT ![i].visible = TRUE]
        /\ row[i].there /\ ~ row[i].visible
        /\ decision' = decision /\ list' = list /\ now' = now
    BY <1>2 DEF CommitInsert
  <2>2. row' \in [Ids -> Row]
    BY <2>1 DEF TypeInv, Row, Flags
  <2>3. \A j \in Ids : row'[j].there = row[j].there /\ (j # i => row'[j] = row[j])
    BY <2>1 DEF TypeInv, Row
  <2>4. TypeInv'
    BY <2>1, <2>2, <2>3 DEF TypeInv
  <2>5. QED
    BY <2>1, <2>3, <2>4 DEF TypeInv, RowsGoOn, Key, Listing
<1>3. ASSUME NEW i \in Ids, AbortInsert(i)
      PROVE  TypeInv' /\ RowsGoOn
  <2>1. /\ row' = [row EXCEPT ![i] = NoRow]
        /\ ~ row[i].visible
        /\ decision' = decision /\ list' = list /\ now' = now
    BY <1>3 DEF AbortInsert
  <2>2. /\ row' \in [Ids -> Row]
        /\ \A j \in Ids : row'[j] = row[j] \/ (j = i /\ row'[j] = NoRow)
    BY <2>1, NoRowType DEF TypeInv
  <2>3. TypeInv'
    BY <2>1, <2>2, NoRowType DEF TypeInv
  <2>4. QED
    BY <2>1, <2>2, <2>3 DEF TypeInv, RowsGoOn, Key, Listing
<1>4. ASSUME NEW i \in Ids, NEW s \in Statuses, ChangeStatus(i, s)
      PROVE  TypeInv' /\ RowsGoOn
  <2>1. /\ row' = [row EXCEPT ![i].status = s]
        /\ list' = [list EXCEPT !.steady = IF s \in list.filter THEN list.steady ELSE list.steady \ {i}]
        /\ decision' = decision /\ now' = now
    BY <1>4 DEF ChangeStatus
  <2>2. row' \in [Ids -> Row]
    BY <2>1 DEF TypeInv, Row
  <2>3. \A j \in Ids : /\ row'[j].there = row[j].there /\ row'[j].visible = row[j].visible
                       /\ row'[j].created = row[j].created
                       /\ j # i => row'[j].status = row[j].status
    BY <2>1 DEF TypeInv, Row
  <2>4. row'[i].status = s
    BY <2>1 DEF TypeInv, Row
  <2>5. /\ list'.steady = IF s \in list.filter THEN list.steady ELSE list.steady \ {i}
        /\ list' = [list EXCEPT !.steady = list'.steady]
        /\ list' \in Listing
    BY <2>1 DEF TypeInv, Listing
  <2>6. TypeInv'
    BY <2>1, <2>2, <2>3, <2>5 DEF TypeInv
  <2>7. QED
    BY <2>3, <2>4, <2>5, <2>6 DEF TypeInv, RowsGoOn, Key
<1>5. ASSUME Tick
      PROVE  TypeInv' /\ RowsGoOn
  <2>1. /\ row' = row /\ decision' = decision /\ list' = list
        /\ now < MaxTime /\ now' = now + 1
    BY <1>5 DEF Tick
  <2>2. now' \in 0 .. MaxTime
    BY <2>1, ListAssumption DEF TypeInv
  <2>3. QED
    BY <2>1, <2>2 DEF TypeInv, RowsGoOn, Key, Listing
<1>6. QED
  BY <1>1, <1>2, <1>3, <1>4, <1>5 DEF RowStep

\* A listing begins with nothing shown, and watches the rows that match.
LEMMA OpenStep ==
    ASSUME TypeInv, NEW filter \in SUBSET Statuses, OpenList(filter)
    PROVE  /\ TypeInv'
           /\ row' = row
           /\ list'.pc = "open" /\ list'.filter = filter /\ list'.shown = <<>> /\ list'.cursor = <<>>
           /\ list'.steady = Matching(filter)
<1>1. /\ list' = [pc |-> "open", filter |-> filter, shown |-> <<>>, cursor |-> <<>>,
                  steady |-> Matching(filter)]
      /\ row' = row /\ decision' = decision /\ now' = now
  BY DEF OpenList
<1>2. Matching(filter) \subseteq Ids /\ <<>> \in Seq(Keys)
  BY DEF Matching
<1>3. list' \in Listing
  BY <1>1, <1>2 DEF Listing
<1>4. QED
  BY <1>1, <1>3 DEF TypeInv

\* Every step is one of a row or of the clock, begins a listing, or fetches a page.
LEMMA StepKinds ==
    ASSUME [Next]_vars
    PROVE  \/ RowStep
           \/ \E filter \in SUBSET Statuses : OpenList(filter)
           \/ \E limit \in Limits : FetchPage(limit)
           \/ UNCHANGED vars
BY DEF Next, RowStep

\* Types and verdicts hold always.
LEMMA TypeStep ==
    ASSUME TypeInv, [Next]_vars
    PROVE  TypeInv'
<1>1. CASE RowStep
  BY <1>1, RowsStep
<1>2. CASE \E filter \in SUBSET Statuses : OpenList(filter)
  BY <1>2, OpenStep
<1>3. ASSUME NEW limit \in Limits, FetchPage(limit)
      PROVE  TypeInv'
  <2>1. list' \in Listing
    BY <1>3, PageShown
  <2>2. row' = row /\ decision' = decision /\ now' = now
    BY <1>3 DEF FetchPage
  <2>3. QED
    BY <2>1, <2>2 DEF TypeInv
<1>4. CASE UNCHANGED vars
  BY <1>4 DEF vars, TypeInv
<1>5. QED
  BY <1>1, <1>2, <1>3, <1>4, StepKinds

-----------------------------------------------------------------------------
(* The listing *)

\* While pages are left, the cursor is the key of the last row shown.
CursorIsLast ==
    list.pc = "open" =>
        /\ list.shown = <<>> => list.cursor = <<>>
        /\ list.shown # <<>> => list.cursor = list.shown[Len(list.shown)]

\* Every two rows shown, not only neighbours, are in order.
ShownDescends ==
    \A m, n \in DOMAIN list.shown : m < n => Before(list.shown[m], list.shown[n])

\* Every row the listing watches matches its filter, and has been shown or is still to come:
\* behind the cursor.
SteadyShown ==
    \A i \in list.steady :
        /\ row[i].visible /\ row[i].status \in list.filter
        /\ \/ \E n \in DOMAIN list.shown : list.shown[n] = Key(i)
           \/ list.pc = "open" /\ Beyond(Key(i), list.cursor)

ListInv == CursorIsLast /\ ShownDescends /\ SteadyShown

\* Nothing is watched or shown initially.
LEMMA ListStart ==
    ASSUME Init
    PROVE  ListInv
BY DEF Init, NoList, ListInv, CursorIsLast, ShownDescends, SteadyShown

\* Rows that come, go and change status leave a listing's account in order.
LEMMA ListRowStep ==
    ASSUME TypeInv, ListInv, RowsGoOn
    PROVE  ListInv'
<1>1. /\ list'.pc = list.pc /\ list'.filter = list.filter /\ list'.shown = list.shown
      /\ list'.cursor = list.cursor /\ list'.steady \subseteq list.steady
  BY DEF RowsGoOn, TypeInv, Listing
<1>2. CursorIsLast' /\ ShownDescends'
  BY <1>1 DEF ListInv, CursorIsLast, ShownDescends, Before
<1>3. ASSUME NEW i \in list'.steady
      PROVE  /\ row'[i].visible /\ row'[i].status \in list'.filter
             /\ \/ \E n \in DOMAIN list'.shown : list'.shown[n] = Key(i)'
                \/ list'.pc = "open" /\ Beyond(Key(i)', list'.cursor)
  <2>1. i \in Ids /\ i \in list.steady
    BY <1>1, <1>3 DEF TypeInv, Listing
  <2>2. /\ row[i].visible /\ row[i].status \in list.filter
        /\ \/ \E n \in DOMAIN list.shown : list.shown[n] = Key(i)
           \/ list.pc = "open" /\ Beyond(Key(i), list.cursor)
    BY <2>1 DEF ListInv, SteadyShown
  <2>3. row'[i].visible /\ Key(i)' = Key(i) /\ row'[i].status \in list.filter
    BY <1>3, <2>1, <2>2 DEF RowsGoOn
  <2>4. QED
    BY <1>1, <2>2, <2>3
<1>4. SteadyShown'
  BY <1>3 DEF SteadyShown, Beyond, Before, Key
<1>5. QED
  BY <1>2, <1>4 DEF ListInv

\* A page goes on where the last one ended, and passes over no row that is watched.
LEMMA ListPageStep ==
    ASSUME TypeInv, ListInv, NEW limit \in Limits, FetchPage(limit)
    PROVE  ListInv'
<1>1. PICK keys \in Seq(Keys) :
         /\ list'.shown = list.shown \o keys
         /\ list'.filter = list.filter /\ list'.steady = list.steady
         /\ list.pc = "open" /\ list'.pc \in {"open", "ended"}
         /\ list' \in Listing
         /\ \A m, n \in DOMAIN keys : m < n => Before(keys[m], keys[n])
         /\ \A n \in DOMAIN keys : Beyond(keys[n], list.cursor)
         /\ list'.pc = "open" => keys # <<>> /\ list'.cursor = keys[Len(keys)]
         /\ \A i \in Matching(list.filter) : Beyond(Key(i), list.cursor) =>
                \/ \E n \in DOMAIN keys : keys[n] = Key(i)
                \/ list'.pc = "open" /\ Before(list'.cursor, Key(i))
  BY PageShown
<1>2. row' = row
  BY DEF FetchPage
<1>3. PICK shown \in Seq(Keys) : shown = list.shown
  BY DEF TypeInv, Listing
<1>4. /\ Len(list'.shown) = Len(shown) + Len(keys)
      /\ Len(shown) \in Nat /\ Len(keys) \in Nat
      /\ DOMAIN shown = 1 .. Len(shown) /\ DOMAIN keys = 1 .. Len(keys)
      /\ DOMAIN list'.shown = 1 .. Len(shown) + Len(keys)
      /\ \A n \in 1 .. Len(shown) : list'.shown[n] = shown[n]
      /\ \A n \in 1 .. Len(keys) : list'.shown[Len(shown) + n] = keys[n]
  BY <1>1, <1>3
<1>5. CursorIsLast'
  <2>1. ASSUME list'.pc = "open"
        PROVE  list'.shown # <<>> /\ list'.cursor = list'.shown[Len(list'.shown)]
    <3>1. keys # <<>> /\ list'.cursor = keys[Len(keys)]
      BY <1>1, <2>1
    <3>2. Len(keys) \in 1 .. Len(keys)
      BY <1>4, <3>1
    <3>3. QED
      BY <1>4, <3>1, <3>2
  <2>2. QED
    BY <2>1 DEF CursorIsLast
<1>6. \A n \in 1 .. Len(shown) : shown[n] \in Keys
  BY <1>3, <1>4
<1>7. \A n \in 1 .. Len(keys) : keys[n] \in Keys
  BY <1>1, <1>4
<1>8. \A m \in 1 .. Len(shown), n \in 1 .. Len(keys) : Before(shown[m], keys[n])
  <2>1. SUFFICES ASSUME NEW m \in 1 .. Len(shown), NEW n \in 1 .. Len(keys)
                 PROVE  Before(shown[m], keys[n])
    OBVIOUS
  <2>2. Len(shown) \in 1 .. Len(shown) /\ shown # <<>>
    BY <1>3, <1>4
  <2>3. list.cursor = shown[Len(shown)]
    BY <1>1, <1>3, <2>2 DEF ListInv, CursorIsLast
  <2>4. shown[Len(shown)] \in Keys /\ shown[m] \in Keys /\ keys[n] \in Keys
    BY <1>6, <1>7, <2>2
  <2>5. shown[Len(shown)] # <<>>
    BY <2>4, KeyIsNoEnd
  <2>6. Before(shown[Len(shown)], keys[n])
    BY <1>1, <1>4, <2>3, <2>5 DEF Beyond
  <2>7. m = Len(shown) \/ Before(shown[m], shown[Len(shown)])
    <3>1. m = Len(shown) \/ m < Len(shown)
      <4>1. PICK size \in Nat : size = Len(shown)
        BY <1>4
      <4>2. m \in 1 .. size
        BY <4>1
      <4>3. m = size \/ m < size
        BY <4>2
      <4>4. QED
        BY <4>1, <4>3
    <3>2. \A a, b \in 1 .. Len(shown) : a < b => Before(shown[a], shown[b])
      BY <1>3, <1>4 DEF ListInv, ShownDescends
    <3>3. QED
      BY <2>2, <3>1, <3>2
  <2>8. QED
    BY <2>4, <2>6, <2>7, BeforeThrough
<1>9. ShownDescends'
  <2>1. ASSUME NEW m \in DOMAIN list'.shown, NEW n \in DOMAIN list'.shown, m < n
        PROVE  Before(list'.shown[m], list'.shown[n])
    <3>1. CASE n \in 1 .. Len(shown)
      <4>1. m \in 1 .. Len(shown)
        BY <1>4, <2>1, <3>1
      <4>2. Before(shown[m], shown[n])
        BY <1>3, <1>4, <2>1, <3>1, <4>1 DEF ListInv, ShownDescends
      <4>3. QED
        BY <1>4, <3>1, <4>1, <4>2
    <3>2. CASE m \in 1 .. Len(shown) /\ n \notin 1 .. Len(shown)
      <4>1. PICK k \in 1 .. Len(keys) : n = Len(shown) + k
        <5>1. n - Len(shown) \in 1 .. Len(keys) /\ n = Len(shown) + (n - Len(shown))
          BY <1>4, <2>1, <3>2
        <5>2. QED
          BY <5>1
      <4>2. QED
        BY <1>4, <1>8, <3>2, <4>1
    <3>3. CASE m \notin 1 .. Len(shown)
      <4>1. /\ m - Len(shown) \in 1 .. Len(keys) /\ n - Len(shown) \in 1 .. Len(keys)
            /\ m = Len(shown) + (m - Len(shown)) /\ n = Len(shown) + (n - Len(shown))
            /\ m - Len(shown) < n - Len(shown)
        BY <1>4, <2>1, <3>3
      <4>2. Before(keys[m - Len(shown)], keys[n - Len(shown)])
        BY <1>1, <1>4, <4>1
      <4>3. list'.shown[m] = keys[m - Len(shown)] /\ list'.shown[n] = keys[n - Len(shown)]
        BY <1>4, <4>1
      <4>4. QED
        BY <4>2, <4>3
    <3>4. QED
      BY <3>1, <3>2, <3>3
  <2>2. QED
    BY <2>1 DEF ShownDescends, Before
<1>10. ASSUME NEW i \in list'.steady
       PROVE  /\ row'[i].visible /\ row'[i].status \in list'.filter
              /\ \/ \E n \in DOMAIN list'.shown : list'.shown[n] = Key(i)
                 \/ list'.pc = "open" /\ Beyond(Key(i), list'.cursor)
  <2>1. i \in list.steady /\ i \in Ids
    BY <1>1, <1>10 DEF TypeInv, Listing
  <2>2. /\ row[i].visible /\ row[i].status \in list.filter
        /\ \/ \E n \in DOMAIN list.shown : list.shown[n] = Key(i)
           \/ Beyond(Key(i), list.cursor)
    BY <2>1 DEF ListInv, SteadyShown
  <2>3. ASSUME NEW n \in DOMAIN list.shown, list.shown[n] = Key(i)
        PROVE  n \in DOMAIN list'.shown /\ list'.shown[n] = Key(i)
    BY <1>3, <1>4, <2>3
  <2>4. ASSUME NEW n \in DOMAIN keys, keys[n] = Key(i)
        PROVE  Len(shown) + n \in DOMAIN list'.shown /\ list'.shown[Len(shown) + n] = Key(i)
    BY <1>4, <2>4
  <2>5. CASE \E n \in DOMAIN list.shown : list.shown[n] = Key(i)
    BY <1>1, <1>2, <2>2, <2>3, <2>5
  <2>6. ASSUME Beyond(Key(i), list.cursor)
        PROVE  \/ \E n \in DOMAIN list'.shown : list'.shown[n] = Key(i)
               \/ list'.pc = "open" /\ Beyond(Key(i), list'.cursor)
    <3>1. i \in Matching(list.filter)
      BY <2>1, <2>2 DEF Matching
    <3>2. \/ \E n \in DOMAIN keys : keys[n] = Key(i)
          \/ list'.pc = "open" /\ Before(list'.cursor, Key(i))
      BY <1>1, <2>6, <3>1
    <3>3. QED
      BY <2>4, <3>2 DEF Beyond
  <2>7. QED
    BY <1>1, <1>2, <2>2, <2>5, <2>6
<1>11. SteadyShown'
  <2>1. \A i : Key(i)' = Key(i)
    BY <1>2 DEF Key
  <2>2. QED
    BY <1>10, <2>1 DEF SteadyShown, Beyond, Before
<1>12. QED
  BY <1>5, <1>9, <1>11 DEF ListInv

\* The account of a listing holds always.
LEMMA ListStep ==
    ASSUME TypeInv, ListInv, [Next]_vars
    PROVE  ListInv'
<1>1. CASE RowStep
  BY <1>1, RowsStep, ListRowStep
<1>2. ASSUME NEW filter \in SUBSET Statuses, OpenList(filter)
      PROVE  ListInv'
  <2>1. /\ row' = row
        /\ list'.pc = "open" /\ list'.filter = filter /\ list'.shown = <<>> /\ list'.cursor = <<>>
        /\ list'.steady = Matching(filter)
    BY <1>2, OpenStep
  <2>2. CursorIsLast' /\ ShownDescends'
    BY <2>1 DEF CursorIsLast, ShownDescends
  <2>3. SteadyShown'
    BY <2>1 DEF SteadyShown, Matching, Beyond
  <2>4. QED
    BY <2>2, <2>3 DEF ListInv
<1>3. CASE \E limit \in Limits : FetchPage(limit)
  BY <1>3, ListPageStep
<1>4. CASE UNCHANGED vars
  BY <1>4 DEF vars, ListInv, CursorIsLast, ShownDescends, SteadyShown, Key, Beyond, Before
<1>5. QED
  BY <1>1, <1>2, <1>3, <1>4, StepKinds

\* The inductive invariant, as one fact.
LEMMA Invariant == Spec => [](TypeInv /\ ListInv)
<1>1. Init => TypeInv /\ ListInv
  BY TypeStart, ListStart
<1>2. (TypeInv /\ ListInv) /\ [Next]_vars => (TypeInv /\ ListInv)'
  BY TypeStep, ListStep
<1>3. QED
  BY <1>1, <1>2, PTL DEF Spec

-----------------------------------------------------------------------------
(* Theorems *)

\* The tables and the listing keep their types, and while pages are left the cursor of a
\* listing that has begun is the key of the last row it showed: findMany encodes it from the
\* last item of the page, which it cuts from one row more.
THEOREM TypeCorrect == Spec => []TypeOK
<1>1. TypeInv /\ ListInv => TypeOK
  <2> SUFFICES ASSUME TypeInv, ListInv
               PROVE  TypeOK
    OBVIOUS
  <2>1. row \in [Ids -> [there : BOOLEAN, visible : BOOLEAN, created : 0 .. MaxTime, status : Statuses]]
    BY DEF TypeInv, Row, Flags
  <2>2. /\ list.pc \in {"idle", "open", "ended"}
        /\ list.filter \subseteq Statuses /\ list.steady \subseteq Ids
    BY DEF TypeInv, Listing
  <2>3. (list.pc = "open" /\ list.shown # <<>>) => list.cursor = Last(list.shown)
    BY DEF ListInv, CursorIsLast, Last
  <2>4. decision.verdict \in {"within", "exceeded", "unsupported"}
    BY DEF TypeInv, Verdict
  <2>5. QED
    BY <2>1, <2>2, <2>3, <2>4 DEF TypeInv, TypeOK
<1>2. QED
  BY <1>1, Invariant, PTL

\* A listing goes down strictly by time and id across all its pages, whatever rows come and
\* change between them and whatever sizes the pages have: findManyByUserId asks for rows
\* before the cursor in the order of created_at and, for equal times, of id.
THEOREM ListGoesDown == Spec => []ListDescends
<1>1. TypeInv /\ ListInv => ListDescends
  <2> SUFFICES ASSUME TypeInv, ListInv
               PROVE  ListDescends
    OBVIOUS
  <2>1. Len(list.shown) \in Nat /\ DOMAIN list.shown = 1 .. Len(list.shown)
    BY DEF TypeInv, Listing
  <2>2. ASSUME NEW n \in 1 .. Len(list.shown) - 1
        PROVE  Before(list.shown[n], list.shown[n + 1])
    <3>1. n \in DOMAIN list.shown /\ n + 1 \in DOMAIN list.shown /\ n < n + 1
      BY <2>1, <2>2
    <3>2. QED
      BY <3>1 DEF ListInv, ShownDescends
  <2>3. QED
    BY <2>2 DEF ListDescends
<1>2. QED
  BY <1>1, Invariant, PTL

\* A listing that has ended has shown every row that was there when it began and has matched
\* its filter ever since: findMany sends a cursor whenever findManyByUserId found a row more
\* than the page holds.
THEOREM NothingIsSkipped == Spec => []NothingSkipped
<1>1. TypeInv /\ ListInv => NothingSkipped
  BY DEF ListInv, SteadyShown, NothingSkipped
<1>2. QED
  BY <1>1, Invariant, PTL

\* A transfer passes the limit exactly if its currency has a rate and its USD value is less
\* than half a cent above the limit: assertWithinPerTxnLimit compares the value rounded to
\* cents.  For every amount, every limit and every currency of the table.
THEOREM LimitHolds == Spec => []LimitToHalfACent
<1>1. TypeInv /\ ListInv => LimitToHalfACent
  BY VerdictToHalfACent, ListAssumption DEF TypeInv, LimitToHalfACent
<1>2. QED
  BY <1>1, Invariant, PTL
=============================================================================
