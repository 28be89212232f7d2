--------------------------- MODULE FaqAdminProofs ---------------------------
(***************************************************************************)
(* Theorems about FaqAdmin for every set of admins, FAQs, fields, values,  *)
(* categories and names, and every number of requests and faults.          *)
(***************************************************************************)
EXTENDS FaqAdmin, FiniteSetTheorems, TLAPS

-----------------------------------------------------------------------------
(* Type correctness *)

\* What a category may be called; None for no row.  Kept folded, as are the flags
\* below: the provers have no value for the blank name.
StoredNames == Names \cup {"", None}

Places == {"idle", "write", "remove", "audit", "insert", "find-name", "rename", "drop"}

CallRecord ==
    [pc : Places, id : Faqs \cup Categories \cup {None}, dto : Requests \cup {<<>>},
     before : Contents \cup {None}, after : Contents \cup {None}, name : RawNames, edit : Nat]

Flags == BOOLEAN

Edit == [n : Nat \ {0}, faq : Faqs, dto : Requests, answered : Flags]

Record == [faq : Faqs, old : Contents \cup {None}, new : Contents \cup {None}]

\* A request, with what it carries at each place.
Request ==
    {c \in CallRecord :
        /\ c.pc = "write" => c.id \in Faqs /\ c.dto \in Requests /\ c.before \in Contents
        /\ c.pc = "remove" => c.id \in Faqs /\ c.before \in Contents /\ c.after = None
        /\ c.pc = "audit" => c.id \in Faqs}

TypeInv ==
    /\ faq \in [Faqs -> Contents \cup {None}]
    /\ category \in [Categories -> StoredNames]
    /\ call \in [Admins -> Request]
    /\ audit \in Seq(Record)
    /\ past \in [Faqs -> Seq(Contents)]
    /\ edits \subseteq Edit
    /\ changes \in Nat /\ lost \in 0 .. MaxFaults /\ calls \in 0 .. MaxCalls

\* The bounds are numbers.
LEMMA BoundsType == MaxCalls \in Nat /\ MaxFaults \in Nat
BY Zenon, FaqAssumption

\* No row is what a table may hold.
LEMMA NoRowType == None \in StoredNames
BY Zenon DEF StoredNames

\* A name, once trimmed, is a name or blank.
LEMMA TrimType == ASSUME NEW name \in RawNames PROVE Trim(name) \in StoredNames
BY Zenon DEF RawNames, Trim, StoredNames

\* No name is one of the names as sent.
LEMMA NoNameType == NoName \in RawNames
<1>1. FALSE \in BOOLEAN
  OBVIOUS
<1>2. QED
  BY <1>1, Zenon DEF RawNames, NoName

\* The empty request of a finished call is in its type.
LEMMA NoCallType == NoCall \in Request
BY NoNameType DEF NoCall, Request, CallRecord, Places

\* What it holds.
LEMMA NoCallFields ==
    /\ NoCall \in CallRecord /\ NoCall.pc = "idle" /\ NoCall.edit = 0
    /\ NoCall.before = None /\ NoCall.after = None
<1>1. NoCall \in CallRecord
  BY NoCallType DEF Request
<1>2. QED
  BY <1>1 DEF NoCall

\* The stored row is a row.
LEMMA StoredType ==
    ASSUME NEW dto \in Requests, NEW before \in Contents, NEW row \in Contents
    PROVE  Stored(dto, before, row) \in Contents
BY DEF Stored, Requests, Contents, Differing

\* Contents are not the mark for a missing row.
LEMMA ContentsExist == None \notin Contents
BY Zenon, FaqAssumption DEF Contents

\* One step of an admin keeps every variable in its type.
LEMMA TypeStep == TypeInv /\ [Next]_vars => TypeInv'
<1> SUFFICES ASSUME TypeInv, [Next]_vars PROVE TypeInv'
  OBVIOUS
<1> USE BoundsType
<1>0. \A a \in Admins : call[a] \in Request
  BY DEF TypeInv
<1>1. ASSUME NEW a \in Admins, NEW f \in Faqs, NEW content \in Contents, CreateFaq(a, f, content) PROVE TypeInv'
  <2>1. faq' \in [Faqs -> Contents \cup {None}] /\ past' \in [Faqs -> Seq(Contents)] /\ changes' \in Nat
    BY <1>1, ContentsExist DEF CreateFaq, Changed, TypeInv
  <2>2. [NoCall EXCEPT !.pc = "audit", !.id = f, !.after = content] \in Request
    BY NoNameType DEF NoCall, Request, CallRecord, Places
  <2>3. call' \in [Admins -> Request]
    BY <1>1, <2>2 DEF CreateFaq, Enter, TypeInv
  <2>4. QED
    BY <1>1, <2>1, <2>3 DEF CreateFaq, Enter, TypeInv
<1>2. ASSUME NEW a \in Admins, NEW f \in Faqs, NEW dto \in Requests, UpdateFaq(a, f, dto) PROVE TypeInv'
  <2>1. /\ [n |-> calls + 1, faq |-> f, dto |-> dto, answered |-> TRUE] \in Edit
        /\ [n |-> calls + 1, faq |-> f, dto |-> dto, answered |-> FALSE] \in Edit
    <3>1. TRUE \in Flags /\ FALSE \in Flags
      BY DEF Flags
    <3>2. calls + 1 \in Nat \ {0}
      BY DEF TypeInv
    <3>3. QED
      BY <3>1, <3>2 DEF Edit
  <2>2. edits' \subseteq Edit
    BY <1>2, <2>1 DEF UpdateFaq, TypeInv
  <2>3. calls' \in 0 .. MaxCalls
    BY <1>2 DEF UpdateFaq, Enter, TypeInv
  <2>4. call' \in [Admins -> Request]
    <3>1. CASE call' = [call EXCEPT ![a] = NoCall]
      BY <3>1, NoCallType DEF TypeInv
    <3>2. CASE /\ faq[f] # None
               /\ call' = [call EXCEPT ![a] = [NoCall EXCEPT !.pc = "write", !.id = f, !.dto = dto,
                                                             !.before = faq[f], !.edit = calls + 1]]
      <4>1. faq[f] \in Contents /\ calls + 1 \in Nat
        BY <3>2 DEF TypeInv
      <4>2. [NoCall EXCEPT !.pc = "write", !.id = f, !.dto = dto, !.before = faq[f], !.edit = calls + 1] \in Request
        BY <4>1, NoNameType DEF NoCall, Request, CallRecord, Places
      <4>3. QED
        BY <3>2, <4>1, <4>2 DEF TypeInv
    <3>3. QED
      BY <1>2, <3>1, <3>2 DEF UpdateFaq, Enter
  <2>5. QED
    BY <1>2, <2>2, <2>3, <2>4 DEF UpdateFaq, TypeInv
<1>3. ASSUME NEW a \in Admins, NEW f \in Faqs, DeleteFaq(a, f) PROVE TypeInv'
  <2>1. call' \in [Admins -> Request]
    <3>1. CASE call' = [call EXCEPT ![a] = NoCall]
      BY <3>1, NoCallType DEF TypeInv
    <3>2. CASE /\ faq[f] # None
               /\ call' = [call EXCEPT ![a] = [NoCall EXCEPT !.pc = "remove", !.id = f, !.before = faq[f]]]
      <4>1. faq[f] \in Contents
        BY <3>2 DEF TypeInv
      <4>2. [NoCall EXCEPT !.pc = "remove", !.id = f, !.before = faq[f]] \in Request
        BY <4>1, NoNameType DEF NoCall, Request, CallRecord, Places
      <4>3. QED
        BY <3>2, <4>1, <4>2 DEF TypeInv
    <3>3. QED
      BY <1>3, <3>1, <3>2 DEF DeleteFaq, Enter
  <2>2. QED
    BY <1>3, <2>1 DEF DeleteFaq, Enter, TypeInv, faqSide
<1>4. ASSUME NEW a \in Admins, WriteFaq(a) PROVE TypeInv'
  <2>1. call[a].id \in Faqs /\ call[a].dto \in Requests /\ call[a].before \in Contents
    BY <1>0, <1>4 DEF WriteFaq, At, Request, CallRecord
  <2>2. CASE Finish(a) /\ UNCHANGED <<faq, past, changes>>
    <3>1. call' \in [Admins -> Request]
      BY <2>2, NoCallType DEF Finish, TypeInv
    <3>2. QED
      BY <1>4, <2>2, <3>1 DEF WriteFaq, TypeInv
  <2>3. CASE faq[call[a].id] # None
    <3> DEFINE f == call[a].id
               row == Stored(call[a].dto, call[a].before, faq[f])
    <3>1. row \in Contents
      BY <2>1, <2>3, StoredType DEF TypeInv
    <3> HIDE DEF row
    <3>2. faq' = [faq EXCEPT ![f] = row] /\ faq'[f] = row
      BY <1>4, <2>1, <2>3 DEF WriteFaq, TypeInv, row, Finish
    <3>3. past' \in [Faqs -> Seq(Contents)] /\ changes' \in Nat
      <4>1. past[f] \in Seq(Contents) /\ Append(past[f], row) \in Seq(Contents)
        BY <2>1, <3>1 DEF TypeInv
      <4>2. past' = [past EXCEPT ![f] = Append(past[f], row)] /\ changes' = changes + 1
        BY <1>4, <2>3, <3>1, <3>2, ContentsExist DEF WriteFaq, Changed
      <4>3. PICK s \in Seq(Contents) : past' = [past EXCEPT ![f] = s]
        BY <4>1, <4>2
      <4>4. past \in [Faqs -> Seq(Contents)] /\ changes \in Nat
        BY DEF TypeInv
      <4>5. QED
        BY <2>1, <4>2, <4>3, <4>4
    <3>4. call' = [call EXCEPT ![a].pc = "audit", ![a].after = row]
      BY <1>4, <2>3, <3>2 DEF WriteFaq, Returned
    <3>5. [call[a] EXCEPT !.pc = "audit", !.after = row] \in Request
      BY <1>0, <2>1, <3>1 DEF Request, CallRecord, Places
    <3>6. call' \in [Admins -> Request]
      BY <3>4, <3>5 DEF TypeInv
    <3>7. QED
      BY <1>4, <3>1, <3>2, <3>3, <3>6 DEF WriteFaq, TypeInv
  <2>4. QED
    BY <1>4, <2>2, <2>3 DEF WriteFaq
<1>5. ASSUME NEW a \in Admins, RemoveFaq(a) PROVE TypeInv'
  <2>1. call[a].id \in Faqs
    BY <1>0, <1>5 DEF RemoveFaq, At, Request, CallRecord
  <2>2. CASE Finish(a) /\ UNCHANGED <<faq, past, changes>>
    <3>1. call' \in [Admins -> Request]
      BY <2>2, NoCallType DEF Finish, TypeInv
    <3>2. QED
      BY <1>5, <2>2, <3>1 DEF RemoveFaq, TypeInv
  <2>3. CASE faq[call[a].id] # None
    <3>1. [call[a] EXCEPT !.pc = "audit"] \in Request
      BY <1>0, <2>1 DEF Request, CallRecord, Places
    <3>2. call' = [call EXCEPT ![a].pc = "audit"]
      BY <1>5, <2>3 DEF RemoveFaq
    <3>3. call' \in [Admins -> Request]
      BY <3>1, <3>2 DEF TypeInv
    <3>4. faq' = [faq EXCEPT ![call[a].id] = None] /\ faq'[call[a].id] = None
      BY <1>5, <2>1, <2>3 DEF RemoveFaq, TypeInv
    <3>5. past' = past /\ changes' = changes + 1
      BY <1>5, <2>3, <3>4 DEF RemoveFaq, Changed
    <3>6. QED
      BY <1>5, <3>3, <3>4, <3>5 DEF RemoveFaq, TypeInv
  <2>4. QED
    BY <1>5, <2>2, <2>3 DEF RemoveFaq
<1>6. ASSUME NEW a \in Admins, Audit(a) PROVE TypeInv'
  <2>1. call' \in [Admins -> Request]
    BY <1>6, NoCallType DEF Audit, Finish, TypeInv
  <2>2. [faq |-> call[a].id, old |-> call[a].before, new |-> call[a].after] \in Record
    BY <1>0, <1>6 DEF Audit, At, Request, CallRecord, Record
  <2>3. audit' \in Seq(Record) /\ lost' \in 0 .. MaxFaults
    <3>1. audit \in Seq(Record) /\ lost \in 0 .. MaxFaults
      BY DEF TypeInv
    <3>2. Append(audit, [faq |-> call[a].id, old |-> call[a].before, new |-> call[a].after]) \in Seq(Record)
      BY <2>2, <3>1
    <3>3. QED
      BY <1>6, <3>1, <3>2 DEF Audit
  <2>4. ASSUME NEW e \in edits, NEW n PROVE [e EXCEPT !.answered = e.answered \/ e.n = n] \in Edit
    <3>1. (e.answered \/ e.n = n) \in Flags
      BY DEF Flags
    <3>2. e \in Edit
      BY DEF TypeInv
    <3>3. QED
      BY <3>1, <3>2 DEF Edit
  <2>5. edits' \subseteq Edit
    <3>1. Answered(call[a].edit) \subseteq Edit
      BY <2>4 DEF Answered
    <3>2. QED
      BY <1>6, <3>1 DEF Audit, TypeInv
  <2>6. QED
    BY <1>6, <2>1, <2>3, <2>5 DEF Audit, TypeInv
<1>7. ASSUME NEW a \in Admins, NEW name \in RawNames, CreateCategory(a, name) PROVE TypeInv'
  <2>1. [NoCall EXCEPT !.pc = "insert", !.name = name] \in Request
    BY NoNameType DEF NoCall, Request, CallRecord, Places
  <2>2. call' \in [Admins -> Request]
    BY <1>7, <2>1, NoCallType DEF CreateCategory, Enter, TypeInv
  <2>3. QED
    BY <1>7, <2>2 DEF CreateCategory, Enter, TypeInv, faqSide
<1>8. ASSUME NEW a \in Admins, NEW g \in Categories, NEW name \in RawNames, UpdateCategory(a, g, name) PROVE TypeInv'
  <2>1. ASSUME NEW pc \in {"find-name", "rename"} PROVE [NoCall EXCEPT !.id = g, !.name = name, !.pc = pc] \in Request
    BY NoNameType DEF NoCall, Request, CallRecord, Places
  <2>2. call' \in [Admins -> Request]
    BY <1>8, <2>1, NoCallType DEF UpdateCategory, Enter, TypeInv
  <2>3. QED
    BY <1>8, <2>2 DEF UpdateCategory, Enter, TypeInv, faqSide
<1>9. ASSUME NEW a \in Admins, NEW g \in Categories, DeleteCategory(a, g) PROVE TypeInv'
  <2>1. [NoCall EXCEPT !.pc = "drop", !.id = g] \in Request
    BY NoNameType DEF NoCall, Request, CallRecord, Places
  <2>2. call' \in [Admins -> Request]
    BY <1>9, <2>1, NoCallType DEF DeleteCategory, Enter, TypeInv
  <2>3. QED
    BY <1>9, <2>2 DEF DeleteCategory, Enter, TypeInv, faqSide
<1>10. ASSUME NEW a \in Admins, InsertCategory(a) \/ RenameCategory(a) \/ DropCategory(a) PROVE TypeInv'
  <2>1. call' \in [Admins -> Request]
    BY <1>10, NoCallType DEF InsertCategory, RenameCategory, DropCategory, Finish, TypeInv
  <2>2. Trim(call[a].name) \in StoredNames
    BY <1>0, TrimType DEF Request, CallRecord
  <2>3. category' \in [Categories -> StoredNames]
    BY <1>10, <2>2, NoRowType DEF InsertCategory, RenameCategory, DropCategory, TypeInv
  <2>4. QED
    BY <1>10, <2>1, <2>3 DEF InsertCategory, RenameCategory, DropCategory, TypeInv, faqSide
<1>11. ASSUME NEW a \in Admins, FindName(a) PROVE TypeInv'
  <2>1. call' \in [Admins -> Request]
    <3>1. CASE Finish(a)
      BY <3>1, NoCallType DEF Finish, TypeInv
    <3>2. CASE call' = [call EXCEPT ![a].pc = "rename"]
      <4>1. [call[a] EXCEPT !.pc = "rename"] \in Request
        BY <1>0 DEF Request, CallRecord, Places
      <4>2. QED
        BY <3>2, <4>1 DEF TypeInv
    <3>3. QED
      BY <1>11, <3>1, <3>2 DEF FindName
  <2>2. QED
    BY <1>11, <2>1 DEF FindName, TypeInv, faqSide
<1>12. CASE UNCHANGED vars
  BY <1>12 DEF vars, TypeInv
<1>13. QED
  BY <1>1, <1>2, <1>3, <1>4, <1>5, <1>6, <1>7, <1>8, <1>9, <1>10, <1>11, <1>12 DEF Next

\* Nothing has been asked for yet.
LEMMA TypeInit == Init => TypeInv
<1> SUFFICES ASSUME Init PROVE TypeInv
  OBVIOUS
<1>1. call \in [Admins -> Request]
  BY NoCallType DEF Init
<1>2. audit \in Seq(Record) /\ past \in [Faqs -> Seq(Contents)] /\ edits \subseteq Edit
  BY DEF Init
<1>3. QED
  BY <1>1, <1>2, BoundsType, NoRowType DEF Init, TypeInv

\* The variables keep their types, and the category table holds trimmed names
\* only, whichever operation put them there (createCategory, updateCategory).
THEOREM TypeCorrect == Spec => []TypeOK
<1>1. TypeInv => TypeOK
  <2> SUFFICES ASSUME TypeInv PROVE TypeOK
    OBVIOUS
  <2>1. category \in [Categories -> Names \cup {"", None}]
    BY Zenon DEF TypeInv, StoredNames
  <2>2. \A a \in Admins : call[a].pc \in Places
    BY DEF TypeInv, Request, CallRecord
  <2>3. \A i \in DOMAIN audit : audit[i].old \in Contents \cup {None} /\ audit[i].new \in Contents \cup {None}
    <3>1. \A i \in DOMAIN audit : audit[i] \in Record
      BY DEF TypeInv
    <3>2. QED
      BY <3>1 DEF Record
  <2>4. faq \in [Faqs -> Contents \cup {None}] /\ lost \in 0 .. MaxFaults /\ calls \in 0 .. MaxCalls
    BY DEF TypeInv
  <2>5. QED
    BY <2>1, <2>2, <2>3, <2>4, Zenon DEF TypeOK, Places
<1>2. QED
  BY <1>1, TypeInit, TypeStep, PTL DEF Spec

-----------------------------------------------------------------------------
(* Names *)

\* No two categories have the same name, although both services only look
\* before they write: what passes the look meets the index (findByName, @@unique).
THEOREM NamesAreUnique == Spec => []UniqueNames
<1>1. Init => UniqueNames
  BY DEF Init, UniqueNames
<1>2. TypeInv /\ UniqueNames /\ [Next]_vars => UniqueNames'
  <2> SUFFICES ASSUME TypeInv, UniqueNames, [Next]_vars PROVE UniqueNames'
    OBVIOUS
  <2>1. category \in [Categories -> StoredNames]
    BY DEF TypeInv
  <2>2. CASE \E g \in Categories : \E name : MayHold(g, name) /\ category' = [category EXCEPT ![g] = name]
    BY <2>1, <2>2 DEF MayHold, UniqueNames
  <2>3. CASE \E g : category' = [category EXCEPT ![g] = None]
    BY <2>1, <2>3 DEF UniqueNames
  <2>4. CASE UNCHANGED category
    BY <2>4 DEF UniqueNames
  <2>5. ASSUME NEW a \in Admins, RenameCategory(a) PROVE UniqueNames'
    <3>1. CASE call[a].id \in Categories
      BY <2>2, <2>4, <2>5, <3>1 DEF RenameCategory
    <3>2. CASE call[a].id \notin Categories
      <4>1. category' = category
        BY <2>1, <2>5, <3>2 DEF RenameCategory
      <4>2. QED
        BY <2>4, <4>1
    <3>3. QED
      BY <3>1, <3>2
  <2>6. ASSUME NEW a \in Admins, InsertCategory(a) \/ DropCategory(a) PROVE UniqueNames'
    BY <2>2, <2>3, <2>4, <2>6 DEF InsertCategory, DropCategory
  <2>7. QED
    BY <2>4, <2>5, <2>6
       DEF Next, vars, CreateFaq, UpdateFaq, DeleteFaq, WriteFaq, RemoveFaq, Audit, CreateCategory, UpdateCategory,
           DeleteCategory, FindName
<1>3. QED
  BY <1>1, <1>2, TypeInit, TypeStep, PTL DEF Spec

-----------------------------------------------------------------------------
(* Steps *)

\* A step about categories.
CategoryStep(a) ==
    \/ \E name \in RawNames :
        \/ CreateCategory(a, name)
        \/ \E g \in Categories : UpdateCategory(a, g, name)
    \/ \E g \in Categories : DeleteCategory(a, g)
    \/ InsertCategory(a) \/ FindName(a) \/ RenameCategory(a) \/ DropCategory(a)

\* A step about FAQs.
FaqStep(a) ==
    \/ \E f \in Faqs :
        \/ \E content \in Contents : CreateFaq(a, f, content)
        \/ \E dto \in Requests : UpdateFaq(a, f, dto)
        \/ DeleteFaq(a, f)
    \/ WriteFaq(a) \/ RemoveFaq(a) \/ Audit(a)

\* Every step is somebody's.
LEMMA SomebodySteps ==
    ASSUME [Next]_vars
    PROVE  UNCHANGED vars \/ \E a \in Admins : FaqStep(a) \/ CategoryStep(a)
BY DEF Next, FaqStep, CategoryStep

\* A step touches no other request.
LEMMA OthersAreStill ==
    ASSUME TypeInv, NEW a \in Admins, NEW b \in Admins \ {a}, FaqStep(a) \/ CategoryStep(a)
    PROVE  call'[b] = call[b]
BY DEF TypeInv, FaqStep, CategoryStep, Enter, Finish, CreateFaq, UpdateFaq, DeleteFaq, WriteFaq, RemoveFaq, Audit,
       CreateCategory, UpdateCategory, DeleteCategory, InsertCategory, FindName, RenameCategory, DropCategory

\* Steps about categories leave the FAQs alone and come from no request about a FAQ.
LEMMA CategorySteps ==
    ASSUME TypeInv, NEW a \in Admins, CategoryStep(a)
    PROVE  /\ UNCHANGED faqSide /\ calls \leq calls'
           /\ call[a].pc \in {"idle", "insert", "find-name", "rename", "drop"}
           /\ call'[a].pc \in {"idle", "insert", "find-name", "rename", "drop"}
           /\ call'[a].edit = 0 \/ call'[a].edit = call[a].edit
<1> USE DEF At, Enter, Finish
<1>1. call \in [Admins -> Request] /\ call[a] \in CallRecord /\ calls \in Nat
  BY BoundsType DEF TypeInv, Request
<1> DEFINE Goal == /\ UNCHANGED faqSide /\ calls \leq calls'
                   /\ call[a].pc \in {"idle", "insert", "find-name", "rename", "drop"}
                   /\ call'[a].pc \in {"idle", "insert", "find-name", "rename", "drop"}
                   /\ call'[a].edit = 0 \/ call'[a].edit = call[a].edit
<1>2. ASSUME NEW name \in RawNames, CreateCategory(a, name) PROVE Goal
  <2>1. UNCHANGED faqSide /\ call[a].pc = "idle" /\ calls' = calls + 1
    BY <1>2 DEF CreateCategory
  <2>2. call'[a] = NoCall \/ call'[a] = [NoCall EXCEPT !.pc = "insert", !.name = name]
    BY <1>1, <1>2 DEF CreateCategory
  <2>3. call'[a].pc \in {"idle", "insert"} /\ call'[a].edit = 0
    BY <2>2, NoCallFields DEF CallRecord
  <2>4. QED
    BY <1>1, <2>1, <2>3
<1>3. ASSUME NEW name \in RawNames, NEW g \in Categories, UpdateCategory(a, g, name) PROVE Goal
  <2>1. UNCHANGED faqSide /\ call[a].pc = "idle" /\ calls' = calls + 1
    BY <1>3 DEF UpdateCategory
  <2>2. \/ call'[a] = NoCall
        \/ call'[a] = [NoCall EXCEPT !.id = g, !.name = name, !.pc = "find-name"]
        \/ call'[a] = [NoCall EXCEPT !.id = g, !.name = name, !.pc = "rename"]
    BY <1>1, <1>3 DEF UpdateCategory
  <2>3. call'[a].pc \in {"idle", "find-name", "rename"} /\ call'[a].edit = 0
    BY <2>2, NoCallFields DEF CallRecord
  <2>4. QED
    BY <1>1, <2>1, <2>3
<1>4. ASSUME NEW g \in Categories, DeleteCategory(a, g) PROVE Goal
  <2>1. UNCHANGED faqSide /\ call[a].pc = "idle" /\ calls' = calls + 1
    BY <1>4 DEF DeleteCategory
  <2>2. call'[a] = NoCall \/ call'[a] = [NoCall EXCEPT !.pc = "drop", !.id = g]
    BY <1>1, <1>4 DEF DeleteCategory
  <2>3. call'[a].pc \in {"idle", "drop"} /\ call'[a].edit = 0
    BY <2>2, NoCallFields DEF CallRecord
  <2>4. QED
    BY <1>1, <2>1, <2>3
<1>5. CASE InsertCategory(a) \/ RenameCategory(a) \/ DropCategory(a)
  BY <1>1, <1>5 DEF InsertCategory, RenameCategory, DropCategory, NoCall
<1>6. CASE FindName(a)
  BY <1>1, <1>6 DEF FindName, CallRecord, NoCall
<1>7. QED
  BY <1>2, <1>3, <1>4, <1>5, <1>6 DEF CategoryStep

\* A row is written: it enters the history as well.
Writes(f, row) ==
    /\ faq[f] # None \/ past[f] = <<>>
    /\ faq' = [faq EXCEPT ![f] = row] /\ past' = [past EXCEPT ![f] = Append(past[f], row)]
    /\ changes' = changes + 1

\* A row is removed.
Removes(f) ==
    /\ faq[f] # None
    /\ faq' = [faq EXCEPT ![f] = None] /\ past' = past
    /\ changes' = changes + 1

\* Creating a FAQ writes its first row.
LEMMA CreateWrites ==
    ASSUME TypeInv, NEW a \in Admins, NEW f \in Faqs, NEW content \in Contents, CreateFaq(a, f, content)
    PROVE  Writes(f, content)
<1>1. faq' = [faq EXCEPT ![f] = content] /\ past[f] = <<>> /\ faq'[f] = content
  BY DEF CreateFaq, TypeInv
<1>2. QED
  BY <1>1, ContentsExist DEF CreateFaq, Changed, Writes

\* The write of an update writes the stored row, if the FAQ is still there.
LEMMA UpdateWrites ==
    ASSUME TypeInv, NEW a \in Admins, WriteFaq(a), faq[call[a].id] # None
    PROVE  /\ call[a].id \in Faqs /\ call[a].dto \in Requests /\ call[a].before \in Contents
           /\ faq[call[a].id] \in Contents
           /\ \E row \in Contents :
                /\ row = Stored(call[a].dto, call[a].before, faq[call[a].id])
                /\ Writes(call[a].id, row)
                /\ call' = [call EXCEPT ![a].pc = "audit", ![a].after = row]
<1> DEFINE f == call[a].id
           row == Stored(call[a].dto, call[a].before, faq[f])
<1>1. f \in Faqs /\ call[a].dto \in Requests /\ call[a].before \in Contents
  BY DEF WriteFaq, At, TypeInv, Request, CallRecord
<1>2. faq[f] \in Contents
  BY <1>1 DEF TypeInv
<1>3. row \in Contents
  BY <1>1, <1>2, StoredType
<1> HIDE DEF row
<1>4. faq' = [faq EXCEPT ![f] = row] /\ faq'[f] = row
  BY <1>1 DEF WriteFaq, TypeInv, row
<1>5. Writes(f, row)
  BY <1>3, <1>4, ContentsExist DEF WriteFaq, Changed, Writes
<1>6. call' = [call EXCEPT ![a].pc = "audit", ![a].after = row]
  BY <1>4 DEF WriteFaq, Returned
<1>7. QED
  BY <1>1, <1>2, <1>3, <1>5, <1>6 DEF row

\* The deletion removes the row, if the FAQ is still there.
LEMMA DeleteRemoves ==
    ASSUME TypeInv, NEW a \in Admins, RemoveFaq(a), faq[call[a].id] # None
    PROVE  /\ call[a].id \in Faqs /\ Removes(call[a].id)
           /\ call' = [call EXCEPT ![a].pc = "audit"]
<1>1. call[a].id \in Faqs
  BY DEF RemoveFaq, At, TypeInv, Request, CallRecord
<1>2. faq' = [faq EXCEPT ![call[a].id] = None] /\ faq'[call[a].id] = None
  BY <1>1 DEF RemoveFaq, TypeInv
<1>3. QED
  BY <1>1, <1>2 DEF RemoveFaq, Changed, Removes

\* Every step writes a row, removes one, or leaves the table alone.
LEMMA TableStep ==
    ASSUME TypeInv, [Next]_vars
    PROVE  \/ UNCHANGED <<faq, past, changes>>
           \/ \E f \in Faqs, row \in Contents : Writes(f, row)
           \/ \E f \in Faqs : Removes(f)
<1>1. ASSUME NEW a \in Admins, WriteFaq(a)
      PROVE  \/ UNCHANGED <<faq, past, changes>>
             \/ \E f \in Faqs, row \in Contents : Writes(f, row)
  BY <1>1, UpdateWrites DEF WriteFaq
<1>2. ASSUME NEW a \in Admins, RemoveFaq(a)
      PROVE  UNCHANGED <<faq, past, changes>> \/ \E f \in Faqs : Removes(f)
  BY <1>2, DeleteRemoves DEF RemoveFaq
<1>3. ASSUME NEW a \in Admins, CategoryStep(a) PROVE UNCHANGED <<faq, past, changes>>
  BY <1>3, CategorySteps DEF faqSide
<1>4. QED
  BY <1>1, <1>2, <1>3, CreateWrites, SomebodySteps DEF FaqStep, vars, UpdateFaq, DeleteFaq, Audit, faqSide

-----------------------------------------------------------------------------
(* The history of a FAQ, and the audit records *)

\* A FAQ with this history once had this content, as the m-th.
Had(history, row, m) == m \in DOMAIN history /\ history[m] = row

\* What a request has read is in the history, and what it has written came after.
PastOf(a) ==
    LET c == call[a] IN
    /\ c.pc \in {"write", "remove"} => \E m : Had(past[c.id], c.before, m)
    /\ (c.pc = "audit" /\ c.before # None /\ c.after # None) =>
           \E m, n : m < n /\ Had(past[c.id], c.before, m) /\ Had(past[c.id], c.after, n)

\* What the row of a FAQ holds is in its history.
RowsInPast == \A f \in Faqs : faq[f] # None => \E m : Had(past[f], faq[f], m)

PastInv ==
    /\ RowsInPast
    /\ \A a \in Admins : PastOf(a)
    /\ AuditTellsTruth

\* What is written is in the history, after all that was there before.
LEMMA WrittenIsLast ==
    ASSUME TypeInv, NEW f \in Faqs, NEW row \in Contents, Writes(f, row)
    PROVE  /\ faq'[f] = row
           /\ \A g \in Faqs \ {f} : faq'[g] = faq[g]
           /\ Had(past'[f], row, Len(past[f]) + 1)
           /\ \A old : \A m : Had(past[f], old, m) => m < Len(past[f]) + 1 /\ Had(past'[f], old, m)
           /\ \A g \in Faqs \ {f} : past'[g] = past[g]
<1>1. faq \in [Faqs -> Contents \cup {None}] /\ past \in [Faqs -> Seq(Contents)]
  BY DEF TypeInv
<1>2. past[f] \in Seq(Contents) /\ past'[f] = Append(past[f], row)
  BY <1>1 DEF Writes
<1>3. QED
  BY <1>1, <1>2 DEF Writes, Had

\* History is never rewritten.
LEMMA PastGrows ==
    ASSUME TypeInv, [Next]_vars, NEW f \in Faqs, NEW row, NEW m, Had(past[f], row, m)
    PROVE  Had(past'[f], row, m)
<1>1. ASSUME NEW g \in Faqs, NEW new \in Contents, Writes(g, new)
      PROVE  Had(past'[f], row, m)
  BY <1>1, WrittenIsLast
<1>2. CASE past' = past
  BY <1>2
<1>3. QED
  BY <1>1, <1>2, TableStep DEF Removes

\* A record of an update names contents of the past, in order.
Tells(r) ==
    (r.old # None /\ r.new # None) => \E m, n : m < n /\ Had(past[r.faq], r.old, m) /\ Had(past[r.faq], r.new, n)

\* The two ways to say it.
LEMMA TellsTruth == ASSUME TypeInv PROVE AuditTellsTruth <=> \A i \in DOMAIN audit : Tells(audit[i])
BY DEF AuditTellsTruth, Tells, Had

\* What was told stays told.
LEMMA TellsStays ==
    ASSUME TypeInv, [Next]_vars, NEW r \in Record, Tells(r)
    PROVE  Tells(r)'
<1>1. r.faq \in Faqs
  BY DEF Record
<1>2. CASE r.old = None \/ r.new = None
  BY <1>2 DEF Tells
<1>3. CASE r.old # None /\ r.new # None
  <2>1. PICK m, n : m < n /\ Had(past[r.faq], r.old, m) /\ Had(past[r.faq], r.new, n)
    BY <1>3 DEF Tells
  <2>2. Had(past'[r.faq], r.old, m) /\ Had(past'[r.faq], r.new, n)
    BY <1>1, <2>1, PastGrows
  <2>3. QED
    BY <2>1, <2>2 DEF Tells
<1>4. QED
  BY <1>2, <1>3

\* What a request at rest remembers stays in the history.
LEMMA PastOfStays ==
    ASSUME TypeInv, [Next]_vars, NEW a \in Admins, PastOf(a), call'[a] = call[a]
    PROVE  PastOf(a)'
<1> DEFINE c == call[a]
<1>1. c \in Request
  BY DEF TypeInv
<1>2. ASSUME c.pc \in {"write", "remove"} PROVE \E m : Had(past'[c.id], c.before, m)
  <2>1. c.id \in Faqs
    BY <1>1, <1>2 DEF Request
  <2>2. PICK m : Had(past[c.id], c.before, m)
    BY <1>2 DEF PastOf
  <2>3. QED
    BY <2>1, <2>2, PastGrows
<1>3. ASSUME c.pc = "audit", c.before # None, c.after # None
      PROVE  \E m, n : m < n /\ Had(past'[c.id], c.before, m) /\ Had(past'[c.id], c.after, n)
  <2>1. c.id \in Faqs
    BY <1>1, <1>3 DEF Request
  <2>2. PICK m, n : m < n /\ Had(past[c.id], c.before, m) /\ Had(past[c.id], c.after, n)
    BY <1>3 DEF PastOf
  <2>3. Had(past'[c.id], c.before, m) /\ Had(past'[c.id], c.after, n)
    BY <2>1, <2>2, PastGrows
  <2>4. QED
    BY <2>2, <2>3
<1>4. QED
  BY <1>2, <1>3 DEF PastOf

\* It stays so.
LEMMA RowsInPastStep == ASSUME TypeInv, RowsInPast, [Next]_vars PROVE RowsInPast'
<1>1. CASE UNCHANGED <<faq, past, changes>>
  BY <1>1 DEF RowsInPast
<1>2. ASSUME NEW f \in Faqs, NEW row \in Contents, Writes(f, row) PROVE RowsInPast'
  BY <1>2, WrittenIsLast DEF RowsInPast
<1>3. ASSUME NEW f \in Faqs, Removes(f) PROVE RowsInPast'
  BY <1>3 DEF RowsInPast, Removes, TypeInv
<1>4. QED
  BY <1>1, <1>2, <1>3, TableStep

\* A request that takes a step remembers what is in the history.
LEMMA PastOfStep ==
    ASSUME TypeInv, RowsInPast, NEW a \in Admins, PastOf(a), FaqStep(a) \/ CategoryStep(a)
    PROVE  PastOf(a)'
<1> USE DEF At, Enter, Finish
<1>1. call \in [Admins -> Request] /\ call[a] \in Request /\ call[a] \in CallRecord
  BY DEF TypeInv, Request
<1>2. ASSUME call'[a].pc \notin {"write", "remove", "audit"} PROVE PastOf(a)'
  BY <1>2 DEF PastOf
<1>3. ASSUME call'[a].pc = "audit", call'[a].before = None \/ call'[a].after = None PROVE PastOf(a)'
  BY <1>3 DEF PastOf
<1>4. ASSUME call'[a] = NoCall PROVE PastOf(a)'
  BY <1>2, <1>4, NoCallFields
<1>5. ASSUME NEW f \in Faqs, NEW content \in Contents, CreateFaq(a, f, content) PROVE PastOf(a)'
  <2>1. call'[a] = [NoCall EXCEPT !.pc = "audit", !.id = f, !.after = content]
    BY <1>1, <1>5 DEF CreateFaq
  <2>2. call'[a].pc = "audit" /\ call'[a].before = None
    BY <2>1, NoCallFields DEF CallRecord
  <2>3. QED
    BY <1>3, <2>2
<1>6. ASSUME NEW f \in Faqs, NEW dto \in Requests, UpdateFaq(a, f, dto) PROVE PastOf(a)'
  <2>1. CASE call' = [call EXCEPT ![a] = NoCall]
    BY <1>1, <1>4, <2>1
  <2>2. CASE /\ faq[f] # None
             /\ call' = [call EXCEPT ![a] = [NoCall EXCEPT !.pc = "write", !.id = f, !.dto = dto,
                                                           !.before = faq[f], !.edit = calls + 1]]
    <3>1. call'[a].pc = "write" /\ call'[a].id = f /\ call'[a].before = faq[f]
      BY <1>1, <2>2, NoCallFields DEF CallRecord
    <3>2. past' = past
      BY <1>6 DEF UpdateFaq
    <3>3. QED
      BY <2>2, <3>1, <3>2 DEF PastOf, RowsInPast
  <2>3. QED
    BY <1>6, <2>1, <2>2 DEF UpdateFaq
<1>7. ASSUME NEW f \in Faqs, DeleteFaq(a, f) PROVE PastOf(a)'
  <2>1. CASE call' = [call EXCEPT ![a] = NoCall]
    BY <1>1, <1>4, <2>1
  <2>2. CASE /\ faq[f] # None
             /\ call' = [call EXCEPT ![a] = [NoCall EXCEPT !.pc = "remove", !.id = f, !.before = faq[f]]]
    <3>1. call'[a].pc = "remove" /\ call'[a].id = f /\ call'[a].before = faq[f]
      BY <1>1, <2>2, NoCallFields DEF CallRecord
    <3>2. past' = past
      BY <1>7 DEF DeleteFaq, faqSide
    <3>3. QED
      BY <2>2, <3>1, <3>2 DEF PastOf, RowsInPast
  <2>3. QED
    BY <1>7, <2>1, <2>2 DEF DeleteFaq
<1>8. CASE WriteFaq(a)
  <2>1. CASE faq[call[a].id] = None
    BY <1>1, <1>4, <1>8, <2>1 DEF WriteFaq
  <2>2. CASE faq[call[a].id] # None
    <3>1. PICK row \in Contents : /\ Writes(call[a].id, row)
                                  /\ call' = [call EXCEPT ![a].pc = "audit", ![a].after = row]
      BY <1>8, <2>2, UpdateWrites
    <3>2. /\ call'[a].pc = "audit" /\ call'[a].id = call[a].id
          /\ call'[a].before = call[a].before /\ call'[a].after = row
      BY <1>1, <3>1 DEF CallRecord
    <3>3. call[a].id \in Faqs
      BY <1>8, <2>2, UpdateWrites
    <3>4. PICK m : Had(past[call[a].id], call[a].before, m)
      BY <1>8 DEF PastOf, WriteFaq
    <3> DEFINE n == Len(past[call[a].id]) + 1
    <3>5. Had(past'[call[a].id], row, n) /\ m < n /\ Had(past'[call[a].id], call[a].before, m)
      BY <3>1, <3>3, <3>4, WrittenIsLast
    <3>6. QED
      BY <3>2, <3>5 DEF PastOf
  <2>3. QED
    BY <2>1, <2>2
<1>9. CASE RemoveFaq(a)
  <2>1. CASE faq[call[a].id] = None
    BY <1>1, <1>4, <1>9, <2>1 DEF RemoveFaq
  <2>2. CASE faq[call[a].id] # None
    <3>1. call' = [call EXCEPT ![a].pc = "audit"]
      BY <1>9, <2>2, DeleteRemoves
    <3>2. call[a].after = None
      BY <1>1, <1>9 DEF RemoveFaq, Request
    <3>3. call'[a].pc = "audit" /\ call'[a].after = None
      BY <1>1, <3>1, <3>2 DEF CallRecord
    <3>4. QED
      BY <1>3, <3>3
  <2>3. QED
    BY <2>1, <2>2
<1>10. CASE Audit(a)
  BY <1>1, <1>4, <1>10 DEF Audit
<1>11. CASE CategoryStep(a)
  BY <1>2, <1>11, CategorySteps
<1>12. QED
  BY <1>5, <1>6, <1>7, <1>8, <1>9, <1>10, <1>11 DEF FaqStep

\* Everything said of the history stays true.
LEMMA PastStep == TypeInv /\ PastInv /\ [Next]_vars => PastInv'
<1> SUFFICES ASSUME TypeInv, PastInv, [Next]_vars PROVE PastInv'
  OBVIOUS
<1>1. RowsInPast'
  BY RowsInPastStep DEF PastInv
<1>2. \A a \in Admins : PastOf(a)'
  <2>1. CASE UNCHANGED vars
    BY <2>1, PastOfStays DEF PastInv, vars
  <2>2. ASSUME NEW a \in Admins, FaqStep(a) \/ CategoryStep(a), NEW b \in Admins PROVE PastOf(b)'
    <3>1. CASE a = b
      BY <2>2, <3>1, PastOfStep DEF PastInv
    <3>2. CASE a # b
      BY <2>2, <3>2, OthersAreStill, PastOfStays DEF PastInv
    <3>3. QED
      BY <3>1, <3>2
  <2>3. QED
    BY <2>1, <2>2, SomebodySteps
<1>3. AuditTellsTruth'
  <2>1. audit \in Seq(Record) /\ \A i \in DOMAIN audit : audit[i] \in Record /\ Tells(audit[i])
    BY TellsTruth DEF PastInv, TypeInv
  <2>2. ASSUME NEW i \in DOMAIN audit, audit'[i] = audit[i] PROVE Tells(audit[i])'
    <3>1. PICK r \in Record : r = audit[i]
      BY <2>1
    <3>2. Tells(r)'
      BY <2>1, <3>1, TellsStays
    <3>3. QED
      BY <2>2, <3>1, <3>2 DEF Tells
  <2>3. \A i \in DOMAIN audit' : Tells(audit[i])'
    <3>1. CASE audit' = audit
      BY <2>2, <3>1
    <3>2. ASSUME NEW a \in Admins, Audit(a),
                 audit' = Append(audit, [faq |-> call[a].id, old |-> call[a].before, new |-> call[a].after])
          PROVE  \A i \in DOMAIN audit' : Tells(audit[i])'
      <4>1. PICK r : r = [faq |-> call[a].id, old |-> call[a].before, new |-> call[a].after]
        OBVIOUS
      <4>2. r \in Record
        BY <3>2, <4>1 DEF Audit, At, TypeInv, Request, CallRecord, Record
      <4>3. Tells(r)
        BY <3>2, <4>1 DEF Audit, At, PastInv, PastOf, Tells
      <4>4. Tells(r)'
        BY <4>2, <4>3, TellsStays
      <4>5. audit' = Append(audit, r)
        BY <3>2, <4>1
      <4>6. ASSUME NEW i \in DOMAIN audit' PROVE (i \in DOMAIN audit /\ audit'[i] = audit[i]) \/ audit'[i] = r
        BY <2>1, <4>2, <4>5, <4>6
      <4>7. ASSUME NEW i, audit'[i] = r PROVE Tells(audit[i])'
        BY <4>4, <4>7 DEF Tells
      <4>8. QED
        BY <2>2, <4>6, <4>7
    <3>3. ASSUME NEW a \in Admins, Audit(a) PROVE \A i \in DOMAIN audit' : Tells(audit[i])'
      BY <3>1, <3>2, <3>3 DEF Audit
    <3>4. ASSUME NEW a \in Admins, FaqStep(a), ~ Audit(a) PROVE audit' = audit
      BY <3>4 DEF FaqStep, CreateFaq, UpdateFaq, DeleteFaq, WriteFaq, RemoveFaq, faqSide
    <3>5. ASSUME NEW a \in Admins, CategoryStep(a) PROVE audit' = audit
      BY <3>5, CategorySteps DEF faqSide
    <3>6. QED
      BY <3>1, <3>3, <3>4, <3>5, SomebodySteps DEF vars
  <2>4. (AuditTellsTruth <=> \A i \in DOMAIN audit : Tells(audit[i]))'
    BY TypeStep DEF AuditTellsTruth, Tells, Had
  <2>5. QED
    BY <2>3, <2>4
<1>4. QED
  BY <1>1, <1>2, <1>3 DEF PastInv

\* There is no history yet.
LEMMA PastInit == Init => PastInv
BY NoCallFields DEF Init, PastInv, RowsInPast, PastOf, AuditTellsTruth

\* Both sides of an audit record of an update are contents the FAQ has had, the
\* old one first, although the row is free between the read and the write
\* (update's before and updatedFaq).
THEOREM AuditIsTrue == Spec => []AuditTellsTruth
<1>1. PastInv => AuditTellsTruth
  BY DEF PastInv
<1>2. QED
  BY <1>1, TypeInit, TypeStep, PastInit, PastStep, PTL DEF Spec

-----------------------------------------------------------------------------
(* The audit records are complete *)

\* The requests whose change is made and whose record is not.
Auditing == {a \in Admins : At(a, "audit")}

\* They are finitely many.
LEMMA AuditingType == IsFiniteSet(Auditing) /\ Cardinality(Auditing) \in Nat
<1>1. IsFiniteSet(Admins)
  BY Zenon, FaqAssumption
<1>2. IsFiniteSet(Auditing)
  BY <1>1, FS_Subset DEF Auditing
<1>3. QED
  BY <1>2, FS_CardinalityType

\* How their number follows the one request that moves.
LEMMA AuditingMoves ==
    ASSUME NEW a \in Admins, \A b \in Admins \ {a} : call'[b] = call[b]
    PROVE  /\ ~ At(a, "audit") /\ At(a, "audit")' => Cardinality(Auditing)' = Cardinality(Auditing) + 1
           /\ At(a, "audit") /\ ~ At(a, "audit")' => Cardinality(Auditing) = Cardinality(Auditing)' + 1
           /\ ~ At(a, "audit") /\ ~ At(a, "audit")' => Auditing' = Auditing
<1>1. ASSUME ~ At(a, "audit"), At(a, "audit")' PROVE Cardinality(Auditing)' = Cardinality(Auditing) + 1
  <2>1. Auditing' = Auditing \cup {a} /\ a \notin Auditing
    BY <1>1 DEF Auditing, At
  <2>2. Cardinality(Auditing \cup {a}) = Cardinality(Auditing) + 1
    BY <2>1, AuditingType, FS_AddElement
  <2>3. QED
    BY <2>1, <2>2, Zenon
<1>2. ASSUME At(a, "audit"), ~ At(a, "audit")' PROVE Cardinality(Auditing) = Cardinality(Auditing)' + 1
  <2>1. Auditing' = Auditing \ {a} /\ a \in Auditing
    BY <1>2 DEF Auditing, At
  <2>2. Cardinality(Auditing \ {a}) = Cardinality(Auditing) - 1
    BY <2>1, AuditingType, FS_RemoveElement
  <2>3. Cardinality(Auditing') = Cardinality(Auditing) - 1
    BY <2>1, <2>2, Zenon
  <2>4. QED
    BY <2>3, AuditingType
<1>3. ASSUME ~ At(a, "audit"), ~ At(a, "audit")' PROVE Auditing' = Auditing
  BY <1>3 DEF Auditing, At
<1>4. QED
  BY <1>1, <1>2, <1>3

\* Whatever a request about a FAQ does, the count follows.
LEMMA CountStep ==
    ASSUME TypeInv, AuditIsComplete, NEW a \in Admins, FaqStep(a)
    PROVE  AuditIsComplete'
<1> USE DEF At, Enter, Finish
<1>1. /\ call \in [Admins -> Request] /\ call[a] \in Request /\ call[a] \in CallRecord
      /\ changes \in Nat /\ lost \in Nat /\ audit \in Seq(Record) /\ Len(audit) \in Nat
  BY BoundsType DEF TypeInv, Request
<1>2. changes = Len(audit) + Cardinality(Auditing) + lost /\ Cardinality(Auditing) \in Nat
  BY AuditingType DEF AuditIsComplete, Auditing
<1>3. \A b \in Admins \ {a} : call'[b] = call[b]
  BY OthersAreStill
<1>4. SUFFICES changes' = Len(audit') + Cardinality(Auditing)' + lost'
  BY DEF AuditIsComplete, Auditing
<1>5. ASSUME call[a].pc # "audit", call'[a].pc = "audit", changes' = changes + 1, UNCHANGED <<audit, lost>>
      PROVE  changes' = Len(audit') + Cardinality(Auditing)' + lost'
  BY <1>1, <1>2, <1>3, <1>5, AuditingMoves
<1>6. ASSUME call[a].pc # "audit", call'[a].pc # "audit", UNCHANGED <<changes, audit, lost>>
      PROVE  changes' = Len(audit') + Cardinality(Auditing)' + lost'
  <2>1. Auditing' = Auditing
    BY <1>3, <1>6, AuditingMoves
  <2>2. QED
    BY <1>2, <1>6, <2>1
<1>7. ASSUME NEW f \in Faqs, NEW content \in Contents, CreateFaq(a, f, content)
      PROVE  changes' = Len(audit') + Cardinality(Auditing)' + lost'
  <2>1. call'[a] = [NoCall EXCEPT !.pc = "audit", !.id = f, !.after = content]
    BY <1>1, <1>7 DEF CreateFaq
  <2>2. call'[a].pc = "audit"
    BY <2>1, NoCallFields DEF CallRecord
  <2>3. QED
    BY <1>5, <1>7, <2>2 DEF CreateFaq, Changed
<1>8. ASSUME NEW f \in Faqs, NEW dto \in Requests, UpdateFaq(a, f, dto)
      PROVE  changes' = Len(audit') + Cardinality(Auditing)' + lost'
  <2>1. \/ call'[a] = NoCall
        \/ call'[a] = [NoCall EXCEPT !.pc = "write", !.id = f, !.dto = dto, !.before = faq[f], !.edit = calls + 1]
    BY <1>1, <1>8 DEF UpdateFaq
  <2>2. call'[a].pc \in {"idle", "write"}
    BY <2>1, NoCallFields DEF CallRecord
  <2>3. QED
    BY <1>6, <1>8, <2>2 DEF UpdateFaq
<1>9. ASSUME NEW f \in Faqs, DeleteFaq(a, f)
      PROVE  changes' = Len(audit') + Cardinality(Auditing)' + lost'
  <2>1. \/ call'[a] = NoCall
        \/ call'[a] = [NoCall EXCEPT !.pc = "remove", !.id = f, !.before = faq[f]]
    BY <1>1, <1>9 DEF DeleteFaq
  <2>2. call'[a].pc \in {"idle", "remove"}
    BY <2>1, NoCallFields DEF CallRecord
  <2>3. QED
    BY <1>6, <1>9, <2>2 DEF DeleteFaq, faqSide
<1>10. CASE WriteFaq(a)
  <2>1. CASE faq[call[a].id] = None
    <3>1. call'[a] = NoCall
      BY <1>1, <1>10, <2>1 DEF WriteFaq
    <3>2. QED
      BY <1>6, <1>10, <2>1, <3>1, NoCallFields DEF WriteFaq
  <2>2. CASE faq[call[a].id] # None
    <3>1. changes' = changes + 1 /\ \E row : call' = [call EXCEPT ![a].pc = "audit", ![a].after = row]
      BY <1>10, <2>2, UpdateWrites DEF Writes
    <3>2. call'[a].pc = "audit"
      BY <1>1, <3>1 DEF CallRecord
    <3>3. QED
      BY <1>5, <1>10, <3>1, <3>2 DEF WriteFaq
  <2>3. QED
    BY <2>1, <2>2
<1>11. CASE RemoveFaq(a)
  <2>1. CASE faq[call[a].id] = None
    <3>1. call'[a] = NoCall
      BY <1>1, <1>11, <2>1 DEF RemoveFaq
    <3>2. QED
      BY <1>6, <1>11, <2>1, <3>1, NoCallFields DEF RemoveFaq
  <2>2. CASE faq[call[a].id] # None
    <3>1. changes' = changes + 1 /\ call' = [call EXCEPT ![a].pc = "audit"]
      BY <1>11, <2>2, DeleteRemoves DEF Removes
    <3>2. call'[a].pc = "audit"
      BY <1>1, <3>1 DEF CallRecord
    <3>3. QED
      BY <1>5, <1>11, <3>1, <3>2 DEF RemoveFaq
  <2>3. QED
    BY <2>1, <2>2
<1>12. CASE Audit(a)
  <2>1. call[a].pc = "audit" /\ call'[a].pc # "audit" /\ changes' = changes
    BY <1>1, <1>12, NoCallFields DEF Audit
  <2>2. Cardinality(Auditing) = Cardinality(Auditing)' + 1 /\ Cardinality(Auditing)' \in Nat
    <3>1. IsFiniteSet(Auditing')
      <4>1. IsFiniteSet(Admins)
        BY Zenon, FaqAssumption
      <4>2. Auditing' \subseteq Admins
        BY DEF Auditing
      <4>3. QED
        BY <4>1, <4>2, FS_Subset
    <3>2. QED
      BY <1>3, <2>1, <3>1, AuditingMoves, FS_CardinalityType
  <2>3. \/ Len(audit') = Len(audit) + 1 /\ lost' = lost
        \/ audit' = audit /\ lost' = lost + 1
    BY <1>1, <1>12 DEF Audit
  <2>4. QED
    BY <1>1, <1>2, <2>1, <2>2, <2>3
<1>13. QED
  BY <1>7, <1>8, <1>9, <1>10, <1>11, <1>12 DEF FaqStep

\* Every change of a FAQ has exactly one audit record, one about to be written
\* or one that failed; two deletions of one FAQ leave one (create, update,
\* delete).
THEOREM AuditCountsAll == Spec => []AuditIsComplete
<1>1. Init => AuditIsComplete
  <2> SUFFICES ASSUME Init PROVE AuditIsComplete
    OBVIOUS
  <2>1. Auditing = {}
    BY NoCallFields DEF Init, Auditing, At
  <2>2. QED
    BY <2>1, FS_EmptySet DEF Init, AuditIsComplete, Auditing
<1>2. TypeInv /\ AuditIsComplete /\ [Next]_vars => AuditIsComplete'
  <2> SUFFICES ASSUME TypeInv, AuditIsComplete, [Next]_vars PROVE AuditIsComplete'
    OBVIOUS
  <2>1. CASE UNCHANGED vars
    BY <2>1 DEF vars, AuditIsComplete, At
  <2>2. ASSUME NEW a \in Admins, CategoryStep(a) PROVE AuditIsComplete'
    <3>1. UNCHANGED faqSide /\ ~ At(a, "audit") /\ ~ At(a, "audit")'
      BY <2>2, CategorySteps DEF At
    <3>2. Auditing' = Auditing
      BY <2>2, <3>1, OthersAreStill, AuditingMoves
    <3>3. QED
      BY <3>1, <3>2 DEF AuditIsComplete, Auditing, faqSide
  <2>3. QED
    BY <2>1, <2>2, CountStep, SomebodySteps
<1>3. QED
  BY <1>1, <1>2, TypeInit, TypeStep, PTL DEF Spec

-----------------------------------------------------------------------------
(* Edits hold *)

\* Field x of FAQ f holds v as far as update n is concerned: the FAQ is gone, the
\* field holds v, or another update has asked for what it holds instead.
Kept(n, f, x, v) ==
    \/ faq[f] = None \/ faq[f][x] = v
    \/ \E d \in edits : d.n # n /\ d.faq = f /\ x \in DOMAIN d.dto /\ d.dto[x] = faq[f][x]

\* Updates are numbered by the requests, and are of FAQs that exist or did.
EditsKnown == \A e \in edits : e.n \leq calls /\ past[e.faq] # <<>>

\* A number is one update.
EditsDiffer == \A d, e \in edits : d.n = e.n => d.faq = e.faq /\ d.dto = e.dto

\* A request that carries an update is the one that asked for it.
Carries(a) ==
    LET c == call[a] IN
    /\ c.edit # 0 => /\ c.pc \in {"write", "audit"}
                     /\ \E e \in edits : e.n = c.edit /\ e.faq = c.id /\ e.dto = c.dto
    /\ c.pc = "write" => c.edit # 0

\* No two requests carry the same one.
CarriedOnce == \A a, b \in Admins : (a # b /\ call[a].edit # 0) => call[a].edit # call[b].edit

\* What an update has read and not written yet still holds.
ReadHolds(a) ==
    LET c == call[a] IN c.pc = "write" => \A x \in Fields : Kept(c.edit, c.id, x, c.before[x])

\* An update is done once it is answered, or written with its record to come.
Done(e) == e.answered \/ \E a \in Admins : At(a, "audit") /\ call[a].edit = e.n

\* What a done update asked for holds.
DoneHolds == \A e \in edits : Done(e) => \A x \in DOMAIN e.dto : Kept(e.n, e.faq, x, e.dto[x])

EditInv ==
    /\ EditsKnown /\ EditsDiffer /\ CarriedOnce /\ DoneHolds
    /\ \A a \in Admins : Carries(a) /\ ReadHolds(a)

\* Two forms of one update, before and after its answer.
SameEdit(d, e) == d.n = e.n /\ d.faq = e.faq /\ d.dto = e.dto

\* Answering an update changes nothing else in it.
LEMMA AnsweredIsSame ==
    ASSUME NEW d \in Edit, NEW n
    PROVE  /\ SameEdit(d, [d EXCEPT !.answered = d.answered \/ d.n = n])
           /\ [d EXCEPT !.answered = d.answered \/ d.n = n].answered => d.answered \/ d.n = n
BY DEF Edit, SameEdit

\* No update is forgotten.
LEMMA EditsGrow ==
    ASSUME TypeInv, [Next]_vars, NEW d \in edits
    PROVE  \E e \in edits' : SameEdit(d, e)
<1>1. d \in Edit
  BY DEF TypeInv
<1>2. CASE d \in edits'
  BY <1>2 DEF SameEdit
<1>3. ASSUME NEW a \in Admins, Audit(a) PROVE \E e \in edits' : SameEdit(d, e)
  <2>1. CASE edits' = Answered(call[a].edit)
    BY <1>1, <2>1, AnsweredIsSame DEF Answered
  <2>2. QED
    BY <1>2, <1>3, <2>1 DEF Audit
<1>4. ASSUME NEW a \in Admins, FaqStep(a), ~ Audit(a) PROVE d \in edits'
  BY <1>4 DEF FaqStep, CreateFaq, UpdateFaq, DeleteFaq, WriteFaq, RemoveFaq, faqSide
<1>5. ASSUME NEW a \in Admins, CategoryStep(a) PROVE d \in edits'
  BY <1>5, CategorySteps DEF faqSide
<1>6. QED
  BY <1>2, <1>3, <1>4, <1>5, SomebodySteps DEF vars

\* An update comes from the table of updates, newly answered perhaps, or is being
\* asked for; one that changes nothing is answered at once.
LEMMA EditsFrom ==
    ASSUME TypeInv, [Next]_vars, NEW e \in edits'
    PROVE  \/ \E d \in edits :
                /\ SameEdit(d, e)
                /\ e.answered => d.answered \/ \E a \in Admins : Audit(a) /\ call[a].edit = d.n
           \/ \E a \in Admins, f \in Faqs, dto \in Requests :
                /\ UpdateFaq(a, f, dto) /\ faq[f] # None
                /\ e.n = calls + 1 /\ e.faq = f /\ e.dto = dto /\ edits' = edits \cup {e}
                /\ e.answered => Differing(dto, faq[f]) = {}
<1> DEFINE Old == \E d \in edits :
                     /\ SameEdit(d, e)
                     /\ e.answered => d.answered \/ \E a \in Admins : Audit(a) /\ call[a].edit = d.n
           New == \E a \in Admins, f \in Faqs, dto \in Requests :
                     /\ UpdateFaq(a, f, dto) /\ faq[f] # None
                     /\ e.n = calls + 1 /\ e.faq = f /\ e.dto = dto /\ edits' = edits \cup {e}
                     /\ e.answered => Differing(dto, faq[f]) = {}
<1>1. ASSUME e \in edits PROVE Old
  BY <1>1 DEF SameEdit
<1>2. ASSUME NEW a \in Admins, Audit(a) PROVE Old
  <2>1. CASE edits' = Answered(call[a].edit)
    <3>1. PICK d \in edits : e = [d EXCEPT !.answered = d.answered \/ d.n = call[a].edit]
      BY <2>1 DEF Answered
    <3>2. d \in Edit
      BY DEF TypeInv
    <3>3. SameEdit(d, e) /\ (e.answered => d.answered \/ d.n = call[a].edit)
      BY <3>1, <3>2, AnsweredIsSame
    <3>4. QED
      BY <1>2, <3>3
  <2>2. edits' = Answered(call[a].edit) \/ edits' = edits
    BY <1>2 DEF Audit
  <2>3. QED
    BY <1>1, <2>1, <2>2
<1>3. ASSUME NEW a \in Admins, NEW f \in Faqs, NEW dto \in Requests, UpdateFaq(a, f, dto) PROVE Old \/ New
  <2>1. CASE edits' = edits
    BY <1>1, <2>1
  <2>2. CASE /\ faq[f] # None /\ Differing(dto, faq[f]) = {}
             /\ edits' = edits \cup {[n |-> calls + 1, faq |-> f, dto |-> dto, answered |-> TRUE]}
    <3>1. CASE e \in edits
      BY <1>1, <3>1
    <3>2. CASE e \notin edits
      <4>1. e = [n |-> calls + 1, faq |-> f, dto |-> dto, answered |-> TRUE]
        BY <2>2, <3>2
      <4>2. e.n = calls + 1 /\ e.faq = f /\ e.dto = dto /\ edits' = edits \cup {e}
        BY <2>2, <4>1
      <4>3. QED
        BY <1>3, <2>2, <4>1, <4>2
    <3>3. QED
      BY <3>1, <3>2
  <2>3. CASE /\ faq[f] # None
             /\ edits' = edits \cup {[n |-> calls + 1, faq |-> f, dto |-> dto, answered |-> FALSE]}
    <3>1. CASE e \in edits
      BY <1>1, <3>1
    <3>2. CASE e \notin edits
      <4>1. e = [n |-> calls + 1, faq |-> f, dto |-> dto, answered |-> FALSE]
        BY <2>3, <3>2
      <4>2. e.n = calls + 1 /\ e.faq = f /\ e.dto = dto /\ edits' = edits \cup {e}
        BY <2>3, <4>1
      <4>3. QED
        BY <1>3, <2>3, <4>1, <4>2
    <3>3. QED
      BY <3>1, <3>2
  <2>4. QED
    BY <1>3, <2>1, <2>2, <2>3 DEF UpdateFaq
<1>4. ASSUME NEW a \in Admins, FaqStep(a), ~ Audit(a),
             ~ \E f \in Faqs, dto \in Requests : UpdateFaq(a, f, dto)
      PROVE  edits' = edits
  BY <1>4 DEF FaqStep, CreateFaq, DeleteFaq, WriteFaq, RemoveFaq, faqSide
<1>5. ASSUME NEW a \in Admins, CategoryStep(a) PROVE edits' = edits
  BY <1>5, CategorySteps DEF faqSide
<1>6. QED
  BY <1>1, <1>2, <1>3, <1>4, <1>5, SomebodySteps DEF vars

\* How a request comes by an update, keeps it through the write, and lets it go.
LEMMA CarryMoves ==
    ASSUME TypeInv, NEW a \in Admins, Carries(a), FaqStep(a) \/ CategoryStep(a)
    PROVE  \/ call'[a].edit = 0 /\ call'[a].pc # "write"
           \/ \E f \in Faqs, dto \in Requests :
                /\ UpdateFaq(a, f, dto) /\ faq[f] # None
                /\ call'[a].pc = "write" /\ call'[a].id = f /\ call'[a].dto = dto
                /\ call'[a].before = faq[f] /\ call'[a].edit = calls + 1
                /\ [n |-> calls + 1, faq |-> f, dto |-> dto, answered |-> FALSE] \in edits'
           \/ /\ WriteFaq(a) /\ faq[call[a].id] # None
              /\ call'[a].pc = "audit" /\ call'[a].id = call[a].id /\ call'[a].dto = call[a].dto
              /\ call'[a].edit = call[a].edit
<1> USE DEF At, Enter, Finish
<1>1. call \in [Admins -> Request] /\ call[a] \in Request /\ call[a] \in CallRecord
  BY DEF TypeInv, Request
<1>2. CASE call'[a] = NoCall
  BY <1>2, NoCallFields
<1>3. ASSUME NEW f \in Faqs, NEW content \in Contents, CreateFaq(a, f, content)
      PROVE  call'[a].edit = 0 /\ call'[a].pc # "write"
  <2>1. call'[a] = [NoCall EXCEPT !.pc = "audit", !.id = f, !.after = content]
    BY <1>1, <1>3 DEF CreateFaq
  <2>2. QED
    BY <2>1, NoCallFields DEF CallRecord
<1>4. ASSUME NEW f \in Faqs, NEW dto \in Requests, UpdateFaq(a, f, dto), call'[a] # NoCall
      PROVE  /\ faq[f] # None
             /\ call'[a].pc = "write" /\ call'[a].id = f /\ call'[a].dto = dto
             /\ call'[a].before = faq[f] /\ call'[a].edit = calls + 1
             /\ [n |-> calls + 1, faq |-> f, dto |-> dto, answered |-> FALSE] \in edits'
  <2>1. /\ faq[f] # None
        /\ call'[a] = [NoCall EXCEPT !.pc = "write", !.id = f, !.dto = dto, !.before = faq[f], !.edit = calls + 1]
        /\ [n |-> calls + 1, faq |-> f, dto |-> dto, answered |-> FALSE] \in edits'
    BY <1>1, <1>4 DEF UpdateFaq
  <2>2. QED
    BY <2>1, NoCallFields DEF CallRecord
<1>5. ASSUME NEW f \in Faqs, DeleteFaq(a, f) PROVE call'[a].edit = 0 /\ call'[a].pc # "write"
  <2>1. \/ call'[a] = NoCall
        \/ call'[a] = [NoCall EXCEPT !.pc = "remove", !.id = f, !.before = faq[f]]
    BY <1>1, <1>5 DEF DeleteFaq
  <2>2. QED
    BY <2>1, NoCallFields DEF CallRecord
<1>6. ASSUME WriteFaq(a), call'[a] # NoCall
      PROVE  /\ faq[call[a].id] # None
             /\ call'[a].pc = "audit" /\ call'[a].id = call[a].id /\ call'[a].dto = call[a].dto
             /\ call'[a].edit = call[a].edit
  <2>1. faq[call[a].id] # None
    BY <1>1, <1>6 DEF WriteFaq
  <2>2. PICK row : call' = [call EXCEPT ![a].pc = "audit", ![a].after = row]
    BY <1>6, <2>1, UpdateWrites
  <2>3. QED
    BY <1>1, <2>1, <2>2 DEF CallRecord
<1>7. ASSUME RemoveFaq(a), call'[a] # NoCall PROVE call'[a].edit = 0 /\ call'[a].pc # "write"
  <2>1. faq[call[a].id] # None
    BY <1>1, <1>7 DEF RemoveFaq
  <2>2. call' = [call EXCEPT ![a].pc = "audit"]
    BY <1>7, <2>1, DeleteRemoves
  <2>3. call[a].edit = 0
    BY <1>7 DEF RemoveFaq, Carries
  <2>4. QED
    BY <1>1, <2>2, <2>3 DEF CallRecord
<1>8. CASE Audit(a)
  BY <1>1, <1>2, <1>8 DEF Audit
<1>9. ASSUME CategoryStep(a) PROVE call'[a].edit = 0 /\ call'[a].pc # "write"
  <2>1. call[a].edit = 0
    BY <1>9, CategorySteps DEF Carries
  <2>2. QED
    BY <1>9, <2>1, CategorySteps
<1>10. QED
  BY <1>2, <1>3, <1>4, <1>5, <1>6, <1>7, <1>8, <1>9 DEF FaqStep

\* Another update that asks for what the field holds goes on asking for it.
LEMMA KeptWhileStill ==
    ASSUME TypeInv, [Next]_vars, NEW n, NEW f, NEW x, NEW v, Kept(n, f, x, v), faq'[f] = faq[f]
    PROVE  Kept(n, f, x, v)'
<1>1. CASE faq[f] = None \/ faq[f][x] = v
  BY <1>1 DEF Kept
<1>2. ASSUME NEW d \in edits, d.n # n, d.faq = f, x \in DOMAIN d.dto, d.dto[x] = faq[f][x]
      PROVE  Kept(n, f, x, v)'
  <2>1. PICK e \in edits' : SameEdit(d, e)
    BY EditsGrow
  <2>2. QED
    BY <1>2, <2>1 DEF SameEdit, Kept
<1>3. QED
  BY <1>1, <1>2 DEF Kept

\* The write of an update leaves a field alone, or puts there what it asks for.
LEMMA WriteField ==
    ASSUME TypeInv, NEW a \in Admins, WriteFaq(a), faq[call[a].id] # None, NEW x \in Fields
    PROVE  LET f == call[a].id
               dto == call[a].dto
           IN  \/ x \in DOMAIN dto /\ faq'[f][x] = dto[x]
               \/ /\ faq'[f][x] = faq[f][x]
                  /\ x \in DOMAIN dto => dto[x] = call[a].before[x]
<1> DEFINE f == call[a].id
           dto == call[a].dto
<1>1. PICK row \in Contents : row = Stored(dto, call[a].before, faq[f]) /\ Writes(f, row)
  BY UpdateWrites
<1>2. f \in Faqs
  BY UpdateWrites
<1>3. faq'[f] = row
  BY <1>1, <1>2, WrittenIsLast
<1>4. row[x] = IF x \in DOMAIN dto /\ x \in Differing(dto, call[a].before) THEN dto[x] ELSE faq[f][x]
  BY <1>1 DEF Stored
<1>5. QED
  BY <1>3, <1>4 DEF Differing

\* What holds for an update survives a step that does not write that update.
LEMMA KeptStep ==
    ASSUME TypeInv, [Next]_vars, \A a \in Admins : Carries(a),
           NEW n, NEW f \in Faqs, NEW x \in Fields, NEW v, Kept(n, f, x, v), past[f] # <<>>,
           \A a \in Admins : WriteFaq(a) /\ faq[call[a].id] # None => call[a].edit # n
    PROVE  Kept(n, f, x, v)'
<1>1. ASSUME NEW a \in Admins, WriteFaq(a), faq[call[a].id] # None PROVE Kept(n, f, x, v)'
  <2>1. call[a].id \in Faqs /\ \E row \in Contents : Writes(call[a].id, row)
    BY <1>1, UpdateWrites
  <2>2. CASE f # call[a].id
    BY <2>1, <2>2, WrittenIsLast, KeptWhileStill
  <2>3. CASE f = call[a].id
    <3>1. CASE faq'[f][x] = faq[f][x]
      <4>1. CASE faq[f][x] = v
        BY <3>1, <4>1 DEF Kept
      <4>2. ASSUME NEW d \in edits, d.n # n, d.faq = f, x \in DOMAIN d.dto, d.dto[x] = faq[f][x]
            PROVE  Kept(n, f, x, v)'
        <5>1. PICK e \in edits' : SameEdit(d, e)
          BY EditsGrow
        <5>2. QED
          BY <3>1, <4>2, <5>1 DEF SameEdit, Kept
      <4>3. QED
        BY <1>1, <2>3, <4>1, <4>2 DEF Kept
    <3>2. CASE x \in DOMAIN call[a].dto /\ faq'[f][x] = call[a].dto[x]
      <4>1. PICK d \in edits : d.n = call[a].edit /\ d.faq = f /\ d.dto = call[a].dto
        BY <1>1, <2>3 DEF Carries, WriteFaq, At
      <4>2. d.n # n
        BY <1>1, <4>1
      <4>3. PICK e \in edits' : SameEdit(d, e)
        BY EditsGrow
      <4>4. QED
        BY <3>2, <4>1, <4>2, <4>3 DEF SameEdit, Kept
    <3>3. QED
      BY <1>1, <2>3, <3>1, <3>2, WriteField
  <2>4. QED
    BY <2>2, <2>3
<1>2. ASSUME NEW a \in Admins, NEW g \in Faqs, NEW content \in Contents, CreateFaq(a, g, content)
      PROVE  Kept(n, f, x, v)'
  <2>1. g # f
    BY <1>2 DEF CreateFaq
  <2>2. faq'[f] = faq[f]
    BY <1>2, <2>1 DEF CreateFaq, TypeInv
  <2>3. QED
    BY <2>2, KeptWhileStill
<1>3. ASSUME NEW a \in Admins, RemoveFaq(a), faq[call[a].id] # None PROVE Kept(n, f, x, v)'
  <2>1. faq' = [faq EXCEPT ![call[a].id] = None]
    BY <1>3, DeleteRemoves DEF Removes
  <2>2. CASE f # call[a].id
    <3>1. faq'[f] = faq[f]
      BY <2>1, <2>2 DEF TypeInv
    <3>2. QED
      BY <3>1, KeptWhileStill
  <2>3. CASE f = call[a].id
    <3>1. faq'[f] = None
      BY <2>1, <2>3 DEF TypeInv
    <3>2. QED
      BY <3>1 DEF Kept
  <2>4. QED
    BY <2>2, <2>3
<1>4. CASE faq' = faq
  BY <1>4, KeptWhileStill
<1>5. ASSUME NEW a \in Admins, WriteFaq(a) \/ RemoveFaq(a), faq[call[a].id] = None PROVE faq' = faq
  BY <1>5 DEF WriteFaq, RemoveFaq
<1>6. ASSUME NEW a \in Admins, CategoryStep(a) PROVE faq' = faq
  BY <1>6, CategorySteps DEF faqSide
<1>7. ASSUME NEW a \in Admins,
             Audit(a) \/ \E g \in Faqs : DeleteFaq(a, g) \/ \E dto \in Requests : UpdateFaq(a, g, dto)
      PROVE  faq' = faq
  BY <1>7 DEF Audit, DeleteFaq, UpdateFaq, faqSide
<1>8. QED
  BY <1>1, <1>2, <1>3, <1>4, <1>5, <1>6, <1>7, SomebodySteps DEF FaqStep, vars

\* An update that is written holds: the fields it changes hold what it asks for,
\* and the fields it leaves out held it when they were read.
LEMMA OwnWrite ==
    ASSUME TypeInv, [Next]_vars, NEW a \in Admins, ReadHolds(a), WriteFaq(a), faq[call[a].id] # None,
           NEW n, NEW f, NEW dto, n = call[a].edit, f = call[a].id, dto = call[a].dto, NEW x \in DOMAIN dto
    PROVE  Kept(n, f, x, dto[x])'
<1>1. x \in Fields /\ f \in Faqs
  <2>1. dto \in Requests /\ f \in Faqs
    BY UpdateWrites
  <2>2. PICK F \in SUBSET Fields : dto \in [F -> Values]
    BY <2>1 DEF Requests
  <2>3. QED
    BY <2>1, <2>2
<1>2. CASE faq'[f][x] = dto[x]
  BY <1>2 DEF Kept
<1>3. CASE faq'[f][x] = faq[f][x] /\ dto[x] = call[a].before[x]
  <2>1. Kept(n, f, x, dto[x])
    BY <1>1, <1>3 DEF ReadHolds, WriteFaq, At
  <2>2. ASSUME NEW d \in edits, d.n # n, d.faq = f, x \in DOMAIN d.dto, d.dto[x] = faq[f][x]
        PROVE  Kept(n, f, x, dto[x])'
    <3>1. PICK e \in edits' : SameEdit(d, e)
      BY EditsGrow
    <3>2. QED
      BY <1>3, <2>2, <3>1 DEF SameEdit, Kept
  <2>3. QED
    BY <1>2, <1>3, <2>1, <2>2 DEF Kept
<1>4. QED
  BY <1>1, <1>2, <1>3, WriteField


\* The numbers of updates stay within the requests, the FAQs updated have a past,
\* and a new update takes a number of its own.
LEMMA EditsKnownStep ==
    ASSUME TypeInv, RowsInPast, EditsKnown, EditsDiffer, [Next]_vars
    PROVE  EditsKnown' /\ EditsDiffer'
<1>1. calls \in Nat /\ calls' \in Nat /\ edits \subseteq Edit
  BY TypeStep, BoundsType DEF TypeInv
<1>2. calls \leq calls'
  <2>1. ASSUME NEW a \in Admins, FaqStep(a) PROVE calls' = calls \/ calls' = calls + 1
    BY <2>1 DEF FaqStep, CreateFaq, UpdateFaq, DeleteFaq, WriteFaq, RemoveFaq, Audit, Enter
  <2>2. QED
    BY <1>1, <2>1, CategorySteps, SomebodySteps DEF vars
<1>3. ASSUME NEW f \in Faqs, past[f] # <<>> PROVE past'[f] # <<>>
  <2>1. CASE past' = past
    BY <1>3, <2>1
  <2>2. ASSUME NEW g \in Faqs, NEW row \in Contents, Writes(g, row) PROVE past'[f] # <<>>
    <3>1. CASE g = f
      <4>1. Had(past'[f], row, Len(past[f]) + 1)
        BY <2>2, <3>1, WrittenIsLast
      <4>2. QED
        BY <4>1 DEF Had
    <3>2. CASE g # f
      BY <1>3, <2>2, <3>2, WrittenIsLast
    <3>3. QED
      BY <3>1, <3>2
  <2>3. QED
    BY <2>1, <2>2, TableStep DEF Removes
<1>4. ASSUME NEW f \in Faqs, faq[f] # None PROVE past[f] # <<>>
  <2>1. PICK m : Had(past[f], faq[f], m)
    BY <1>4 DEF RowsInPast
  <2>2. QED
    BY <2>1 DEF Had
<1>5. EditsKnown'
  <2> SUFFICES ASSUME NEW e \in edits' PROVE e.n \leq calls' /\ past'[e.faq] # <<>>
    BY DEF EditsKnown
  <2>1. ASSUME NEW d \in edits, SameEdit(d, e) PROVE e.n \leq calls' /\ past'[e.faq] # <<>>
    <3>1. d.n \in Nat /\ d.faq \in Faqs /\ d.n \leq calls /\ past[d.faq] # <<>>
      BY <1>1 DEF Edit, EditsKnown
    <3>2. QED
      BY <1>1, <1>2, <1>3, <2>1, <3>1 DEF SameEdit
  <2>2. ASSUME NEW a \in Admins, NEW f \in Faqs, NEW dto \in Requests,
               UpdateFaq(a, f, dto), faq[f] # None, e.n = calls + 1, e.faq = f
        PROVE  e.n \leq calls' /\ past'[e.faq] # <<>>
    <3>1. calls' = calls + 1
      BY <2>2 DEF UpdateFaq, Enter
    <3>2. QED
      BY <1>1, <1>3, <1>4, <2>2, <3>1
  <2>3. QED
    BY <2>1, <2>2, EditsFrom
<1>6. EditsDiffer'
  <2> SUFFICES ASSUME NEW d \in edits', NEW e \in edits', d.n = e.n PROVE d.faq = e.faq /\ d.dto = e.dto
    BY DEF EditsDiffer
  <2>1. \A x \in edits : x.n \in Nat /\ x.n # calls + 1
    BY <1>1 DEF Edit, EditsKnown
  <2>2. \A x \in edits' : (\E y \in edits : SameEdit(y, x)) \/ (x.n = calls + 1 /\ edits' = edits \cup {x})
    BY EditsFrom
  <2>3. CASE \E y \in edits : SameEdit(y, d)
    <3>1. d.n # calls + 1
      BY <2>1, <2>3 DEF SameEdit
    <3>2. \E y \in edits : SameEdit(y, e)
      BY <2>2, <3>1
    <3>3. QED
      BY <2>3, <3>2 DEF EditsDiffer, SameEdit
  <2>4. CASE d.n = calls + 1 /\ edits' = edits \cup {d}
    BY <2>1, <2>4
  <2>5. QED
    BY <2>2, <2>3, <2>4
<1>7. QED
  BY <1>5, <1>6

\* Requests go on carrying updates that were asked for, each its own.
LEMMA CarriesStep ==
    ASSUME TypeInv, EditInv, [Next]_vars
    PROVE  CarriedOnce' /\ \A a \in Admins : Carries(a)'
<1>1. call \in [Admins -> Request] /\ edits \subseteq Edit /\ calls \in Nat
  BY BoundsType DEF TypeInv
<1>2. \A a \in Admins : call[a].edit \in Nat /\ call[a].edit # calls + 1
  <2> SUFFICES ASSUME NEW a \in Admins PROVE call[a].edit \in Nat /\ call[a].edit # calls + 1
    OBVIOUS
  <2>1. call[a].edit \in Nat
    BY <1>1 DEF Request, CallRecord
  <2>2. \A e \in edits : e.n \in Nat /\ e.n \leq calls
    BY <1>1 DEF EditInv, EditsKnown, Edit
  <2>3. QED
    BY <1>1, <2>1, <2>2 DEF EditInv, Carries
<1>3. ASSUME NEW a \in Admins, call'[a] = call[a] PROVE Carries(a)'
  <2>1. Carries(a)
    BY DEF EditInv
  <2>2. CASE call[a].edit # 0
    <3>1. PICK d \in edits : d.n = call[a].edit /\ d.faq = call[a].id /\ d.dto = call[a].dto
      BY <2>1, <2>2 DEF Carries
    <3>2. PICK e \in edits' : SameEdit(d, e)
      BY EditsGrow
    <3>3. QED
      BY <1>3, <2>1, <3>1, <3>2 DEF Carries, SameEdit
  <2>3. CASE call[a].edit = 0
    BY <1>3, <2>1, <2>3 DEF Carries
  <2>4. QED
    BY <2>2, <2>3
<1>4. ASSUME NEW a \in Admins, FaqStep(a) \/ CategoryStep(a)
      PROVE  /\ Carries(a)'
             /\ call'[a].edit = 0 \/ call'[a].edit = calls + 1 \/ call'[a].edit = call[a].edit
  <2>1. Carries(a)
    BY DEF EditInv
  <2>2. CASE call'[a].edit = 0 /\ call'[a].pc # "write"
    BY <2>2 DEF Carries
  <2>3. ASSUME NEW f \in Faqs, NEW dto \in Requests,
               call'[a].pc = "write" /\ call'[a].id = f /\ call'[a].dto = dto /\ call'[a].edit = calls + 1,
               [n |-> calls + 1, faq |-> f, dto |-> dto, answered |-> FALSE] \in edits'
        PROVE  Carries(a)'
    BY <1>1, <2>3 DEF Carries
  <2>4. CASE /\ WriteFaq(a)
             /\ call'[a].pc = "audit" /\ call'[a].id = call[a].id /\ call'[a].dto = call[a].dto
             /\ call'[a].edit = call[a].edit
    <3>1. PICK d \in edits : d.n = call[a].edit /\ d.faq = call[a].id /\ d.dto = call[a].dto
      BY <2>1, <2>4 DEF Carries, WriteFaq, At
    <3>2. PICK e \in edits' : SameEdit(d, e)
      BY EditsGrow
    <3>3. QED
      BY <2>4, <3>1, <3>2 DEF Carries, SameEdit
  <2>5. QED
    BY <1>4, <2>1, <2>2, <2>3, <2>4, CarryMoves
<1>5. \A a \in Admins : Carries(a)'
  BY <1>3, <1>4, OthersAreStill, SomebodySteps DEF vars
<1>6. CarriedOnce'
  <2>1. CASE UNCHANGED vars
    BY <2>1 DEF EditInv, CarriedOnce, vars
  <2>2. ASSUME NEW a \in Admins, FaqStep(a) \/ CategoryStep(a) PROVE CarriedOnce'
    <3>1. \A b \in Admins \ {a} : call'[b] = call[b]
      BY <2>2, OthersAreStill
    <3>2. call'[a].edit = 0 \/ call'[a].edit = calls + 1 \/ call'[a].edit = call[a].edit
      BY <1>4, <2>2
    <3>3. CarriedOnce
      BY DEF EditInv
    <3>4. QED
      BY <1>1, <1>2, <3>1, <3>2, <3>3 DEF CarriedOnce
  <2>3. QED
    BY <2>1, <2>2, SomebodySteps
<1>7. QED
  BY <1>5, <1>6

\* A FAQ with an update in progress has a past.
LEMMA CarriedHasPast ==
    ASSUME TypeInv, EditInv, NEW a \in Admins, call[a].pc = "write"
    PROVE  call[a].id \in Faqs /\ past[call[a].id] # <<>> /\ call[a].edit # 0
<1>1. call[a].id \in Faqs
  BY DEF TypeInv, Request
<1>2. call[a].edit # 0 /\ \E e \in edits : e.n = call[a].edit /\ e.faq = call[a].id
  BY DEF EditInv, Carries
<1>3. QED
  BY <1>1, <1>2 DEF EditInv, EditsKnown

\* What an update has read goes on holding until it is written.
LEMMA ReadHoldsStep ==
    ASSUME TypeInv, EditInv, [Next]_vars, NEW a \in Admins
    PROVE  ReadHolds(a)'
<1>1. ASSUME call'[a] = call[a], call[a].pc = "write",
             \A b \in Admins : WriteFaq(b) /\ faq[call[b].id] # None => call[b].edit # call[a].edit
      PROVE  ReadHolds(a)'
  <2>1. PICK n, f, row : n = call[a].edit /\ f = call[a].id /\ row = call[a].before
    OBVIOUS
  <2>2. f \in Faqs /\ past[f] # <<>>
    BY <1>1, <2>1, CarriedHasPast
  <2>3. ASSUME NEW x \in Fields PROVE Kept(n, f, x, row[x])'
    <3>1. Kept(n, f, x, row[x])
      BY <1>1, <2>1 DEF EditInv, ReadHolds
    <3>2. PICK v : v = row[x]
      OBVIOUS
    <3>3. Kept(n, f, x, v)'
      BY <1>1, <2>1, <2>2, <3>1, <3>2, KeptStep DEF EditInv
    <3>4. QED
      BY <3>2, <3>3
  <2>4. QED
    BY <1>1, <2>1, <2>3 DEF ReadHolds, Kept
<1>2. ASSUME NEW b \in Admins, FaqStep(b) \/ CategoryStep(b), b # a PROVE ReadHolds(a)'
  <2>1. call'[a] = call[a]
    BY <1>2, OthersAreStill
  <2>2. CASE call[a].pc = "write"
    <3>1. call[a].edit # 0
      BY <2>2, CarriedHasPast
    <3>2. ASSUME NEW c \in Admins, WriteFaq(c) PROVE c # a
      <4>1. call'[c] # call[c]
        <5>1. CASE faq[call[c].id] = None
          BY <3>2, <5>1, NoCallFields DEF WriteFaq, At, Finish, TypeInv
        <5>2. CASE faq[call[c].id] # None
          <6>1. PICK row : call' = [call EXCEPT ![c].pc = "audit", ![c].after = row]
            BY <3>2, <5>2, UpdateWrites
          <6>2. call[c].pc = "write" /\ call[c] \in CallRecord /\ call \in [Admins -> Request]
            BY <3>2 DEF WriteFaq, At, TypeInv, Request
          <6>3. call'[c].pc = "audit"
            BY <6>1, <6>2 DEF CallRecord
          <6>4. QED
            BY <6>2, <6>3
        <5>3. QED
          BY <5>1, <5>2
      <4>2. QED
        BY <2>1, <4>1
    <3>3. \A c \in Admins : WriteFaq(c) => call[c].edit # call[a].edit
      BY <3>1, <3>2 DEF EditInv, CarriedOnce
    <3>4. QED
      BY <1>1, <2>1, <2>2, <3>3
  <2>3. CASE call[a].pc # "write"
    BY <2>1, <2>3 DEF ReadHolds
  <2>4. QED
    BY <2>2, <2>3
<1>3. ASSUME FaqStep(a) \/ CategoryStep(a) PROVE ReadHolds(a)'
  <2>1. CASE call'[a].pc # "write"
    BY <2>1 DEF ReadHolds
  <2>2. ASSUME NEW f \in Faqs, NEW dto \in Requests, UpdateFaq(a, f, dto),
               call'[a].id = f, call'[a].before = faq[f]
        PROVE  ReadHolds(a)'
    <3>1. faq' = faq
      BY <2>2 DEF UpdateFaq
    <3>2. QED
      BY <2>2, <3>1 DEF ReadHolds, Kept
  <2>3. Carries(a)
    BY DEF EditInv
  <2>4. QED
    BY <1>3, <2>1, <2>2, <2>3, CarryMoves
<1>4. CASE UNCHANGED vars
  BY <1>4 DEF EditInv, ReadHolds, Kept, vars
<1>5. QED
  BY <1>2, <1>3, <1>4, SomebodySteps

\* A done update is written in this step, or was done before it, or changes nothing.
LEMMA DoneFrom ==
    ASSUME TypeInv, EditInv, [Next]_vars, NEW e \in edits', Done(e)'
    PROVE  \/ \E a \in Admins : /\ WriteFaq(a) /\ faq[call[a].id] # None /\ call[a].edit = e.n
                                /\ call[a].id = e.faq /\ call[a].dto = e.dto
           \/ \E d \in edits : SameEdit(d, e) /\ Done(d)
           \/ \E f \in Faqs, dto \in Requests : /\ faq' = faq /\ faq[f] # None /\ Differing(dto, faq[f]) = {}
                                                /\ e.faq = f /\ e.dto = dto
<1>1. calls \in Nat /\ edits \subseteq Edit /\ edits' \subseteq Edit
  BY TypeStep, BoundsType DEF TypeInv
<1>2. \A x \in edits : x.n \in Nat \ {0} /\ x.n # calls + 1
  BY <1>1 DEF Edit, EditInv, EditsKnown
<1>3. \A b \in Admins : call[b].edit # calls + 1
  BY <1>1, <1>2 DEF EditInv, Carries
<1>4. e.n # 0
  BY <1>1 DEF Edit
<1>5. ASSUME NEW a \in Admins, call'[a] # call[a], At(a, "audit")', call'[a].edit = e.n
      PROVE  WriteFaq(a) /\ faq[call[a].id] # None /\ call[a].edit = e.n
  <2>1. FaqStep(a) \/ CategoryStep(a)
    BY <1>5, OthersAreStill, SomebodySteps DEF vars
  <2>2. Carries(a)
    BY DEF EditInv
  <2>3. QED
    BY <1>4, <1>5, <2>1, <2>2, CarryMoves DEF At
<1>6. ASSUME NEW d \in edits, SameEdit(d, e),
             e.answered => d.answered \/ \E a \in Admins : Audit(a) /\ call[a].edit = d.n
      PROVE  \/ \E a \in Admins : /\ WriteFaq(a) /\ faq[call[a].id] # None /\ call[a].edit = e.n
                                  /\ call[a].id = e.faq /\ call[a].dto = e.dto
             \/ \E x \in edits : SameEdit(x, e) /\ Done(x)
  <2>1. CASE e.answered
    BY <1>6, <2>1 DEF Done, Audit
  <2>2. ASSUME NEW a \in Admins, At(a, "audit")', call'[a].edit = e.n, call'[a] = call[a]
        PROVE  Done(d)
    BY <1>6, <2>2 DEF Done, At, SameEdit
  <2>3. ASSUME NEW a \in Admins, WriteFaq(a), call[a].edit = e.n
        PROVE  call[a].id = e.faq /\ call[a].dto = e.dto
    <3>1. PICK x \in edits : x.n = call[a].edit /\ x.faq = call[a].id /\ x.dto = call[a].dto
      BY <1>4, <2>3 DEF EditInv, Carries
    <3>2. QED
      BY <1>6, <2>3, <3>1 DEF EditInv, EditsDiffer, SameEdit
  <2>4. QED
    BY <1>5, <1>6, <2>1, <2>2, <2>3 DEF Done
<1>7. ASSUME NEW a \in Admins, NEW f \in Faqs, NEW dto \in Requests, UpdateFaq(a, f, dto), faq[f] # None,
             e.n = calls + 1, e.faq = f, e.dto = dto, e.answered => Differing(dto, faq[f]) = {}
      PROVE  faq' = faq /\ Differing(dto, faq[f]) = {}
  <2>1. faq' = faq
    BY <1>7 DEF UpdateFaq
  <2>2. e.answered
    BY <1>3, <1>5, <1>7 DEF Done
  <2>3. QED
    BY <1>7, <2>1, <2>2
<1>8. QED
  BY <1>6, <1>7, EditsFrom

\* What a done update asked for goes on holding.
LEMMA DoneHoldsStep == ASSUME TypeInv, EditInv, [Next]_vars PROVE DoneHolds'
<1> SUFFICES ASSUME NEW e \in edits', Done(e)', NEW x \in DOMAIN e.dto PROVE Kept(e.n, e.faq, x, e.dto[x])'
  BY DEF DoneHolds
<1>1. ASSUME NEW a \in Admins, WriteFaq(a), faq[call[a].id] # None, call[a].edit = e.n,
             call[a].id = e.faq, call[a].dto = e.dto
      PROVE  Kept(e.n, e.faq, x, e.dto[x])'
  BY <1>1, OwnWrite DEF EditInv
<1>2. ASSUME NEW d \in edits, SameEdit(d, e), Done(d),
             ~ \E a \in Admins : WriteFaq(a) /\ faq[call[a].id] # None /\ call[a].edit = e.n
      PROVE  Kept(e.n, e.faq, x, e.dto[x])'
  <2>1. d \in Edit
    BY DEF TypeInv
  <2>2. d.faq \in Faqs /\ past[d.faq] # <<>> /\ x \in Fields
    <3>1. PICK F \in SUBSET Fields : d.dto \in [F -> Values]
      BY <2>1 DEF Edit, Requests
    <3>2. QED
      BY <1>2, <2>1, <3>1 DEF Edit, SameEdit, EditInv, EditsKnown
  <2>3. Kept(e.n, e.faq, x, e.dto[x])
    BY <1>2 DEF EditInv, DoneHolds, SameEdit
  <2>4. QED
    BY <1>2, <2>2, <2>3, KeptStep DEF EditInv, SameEdit
<1>3. ASSUME NEW a \in Admins, WriteFaq(a), faq[call[a].id] # None, call[a].edit = e.n, NEW d \in edits, SameEdit(d, e)
      PROVE  call[a].id = e.faq /\ call[a].dto = e.dto
  <2>1. d.n # 0
    BY DEF TypeInv, Edit
  <2>2. PICK y \in edits : y.n = call[a].edit /\ y.faq = call[a].id /\ y.dto = call[a].dto
    BY <1>3, <2>1 DEF EditInv, Carries, SameEdit
  <2>3. QED
    BY <1>3, <2>2 DEF EditInv, EditsDiffer, SameEdit
<1>4. ASSUME NEW f \in Faqs, NEW dto \in Requests, faq' = faq, Differing(dto, faq[f]) = {}, e.faq = f, e.dto = dto
      PROVE  Kept(e.n, e.faq, x, e.dto[x])'
  BY <1>4 DEF Kept, Differing
<1>5. QED
  BY <1>1, <1>2, <1>3, <1>4, DoneFrom

\* Everything said of the updates stays true.
LEMMA EditStep == TypeInv /\ PastInv /\ EditInv /\ [Next]_vars => EditInv'
<1> SUFFICES ASSUME TypeInv, PastInv, EditInv, [Next]_vars PROVE EditInv'
  OBVIOUS
<1>1. EditsKnown' /\ EditsDiffer'
  BY EditsKnownStep DEF PastInv, EditInv
<1>2. QED
  BY <1>1, CarriesStep, ReadHoldsStep, DoneHoldsStep DEF EditInv

\* Of two admins who update different fields of a FAQ at once, neither undoes
\* the other's work: what an answered update asked for is there until the FAQ
\* is deleted, or another update has asked for what is there instead (update's
\* collection of the fields that differ).
THEOREM AnsweredEditsHold == Spec => []AnsweredEditHolds
<1>1. Init => EditInv
  BY NoCallFields DEF Init, EditInv, EditsKnown, EditsDiffer, CarriedOnce, DoneHolds, Carries, ReadHolds
<1>2. EditInv => AnsweredEditHolds
  BY DEF EditInv, DoneHolds, Done, Kept, AnsweredEditHolds
<1>3. QED
  BY <1>1, <1>2, TypeInit, TypeStep, PastInit, PastStep, EditStep, PTL DEF Spec
=============================================================================
