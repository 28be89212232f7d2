------------------------------ MODULE FaqAdmin ------------------------------
(***************************************************************************)
(* The admin operations on FAQs (FaqService: create, update and delete,    *)
(* each followed by an audit record) and on FAQ categories                 *)
(* (FaqCategoryService: create, update and delete, names unique).  Each    *)
(* database call is a step of its own; nothing runs in a transaction.      *)
(*                                                                         *)
(* The reads (findOne, findAll, getCategoryById, getCategoryList) change   *)
(* nothing and are left out, as is the description of a category.          *)
(***************************************************************************)
EXTENDS Naturals, Sequences, FiniteSets

CONSTANTS
    Admins,     \* one request at a time each
    Faqs,       \* ids the database may give out
    Fields,     \* fields of a FAQ
    Values,     \* what a field may hold
    Categories, \* ids
    Names,      \* trimmed names that are not blank
    None,       \* no row, no name, no id
    MaxCalls,   \* bound: requests
    MaxFaults   \* bound: audit records that fail

ASSUME FaqAssumption ==
    /\ MaxCalls \in Nat /\ MaxFaults \in Nat
    /\ None \notin [Fields -> Values] /\ None \notin Names \cup Faqs \cup Categories
    /\ "" \notin Names
    /\ IsFiniteSet(Admins)

\* Names as sent, bare or with white space around them.
RawNames == [base : Names \cup {""}, padded : BOOLEAN]
NoName == [base |-> "", padded |-> FALSE]
Contents == [Fields -> Values]
Requests == UNION {[F -> Values] : F \in SUBSET Fields}

VARIABLES
    faq,        \* the faqs table
    category,   \* the faq_categories table: the name of each row
    call,       \* requests in progress, with their local variables
    audit,      \* audit records, in order
    \* history and counters
    past,       \* the contents a FAQ has had, in order
    edits,      \* updates of FAQs: which, what they ask for, and whether answered
    changes,    \* creations, updates and deletions of FAQs
    lost,       \* audit records that failed
    calls

vars == <<faq, category, call, audit, past, edits, changes, lost, calls>>
faqSide == <<faq, audit, past, edits, changes, lost>>

NoCall == [pc |-> "idle", id |-> None, dto |-> <<>>, before |-> None, after |-> None,
           name |-> NoName, edit |-> 0]

Init ==
    /\ faq = [f \in Faqs |-> None] /\ past = [f \in Faqs |-> <<>>]
    /\ category = [g \in Categories |-> None]
    /\ call = [a \in Admins |-> NoCall]
    /\ audit = <<>> /\ edits = {} /\ changes = 0 /\ lost = 0 /\ calls = 0

At(a, place) == call[a].pc = place
Finish(a) == call' = [call EXCEPT ![a] = NoCall]

\* A request arrives and makes its first database call; NoCall if that ends it.
Enter(a, next) ==
    /\ At(a, "idle") /\ calls < MaxCalls
    /\ calls' = calls + 1
    /\ call' = [call EXCEPT ![a] = next]

\* An effective write to a FAQ: its history and the counter follow.
Changed(f) ==
    /\ changes' = changes + 1
    /\ past' = IF faq'[f] = None THEN past ELSE [past EXCEPT ![f] = Append(@, faq'[f])]

-----------------------------------------------------------------------------
\* FaqService

\* create, with a fresh id; optional fields have defaults.
CreateFaq(a, f, content) ==
    /\ faq[f] = None /\ past[f] = <<>>
    /\ faq' = [faq EXCEPT ![f] = content]
    /\ Changed(f)
    /\ Enter(a, [NoCall EXCEPT !.pc = "audit", !.id = f, !.after = content])
    /\ UNCHANGED <<category, audit, edits, lost>>

Differing(dto, row) == {x \in DOMAIN dto : dto[x] # row[x]}

Answered(n) == {[e EXCEPT !.answered = e.answered \/ e.n = n] : e \in edits}

\* update: getFaqOrThrow, and the fields that are present and different.
UpdateFaq(a, f, dto) ==
    LET n == calls + 1
        asked(done) == edits' = edits \cup {[n |-> n, faq |-> f, dto |-> dto, answered |-> done]}
    IN
    /\ \/ faq[f] = None /\ Enter(a, NoCall) /\ UNCHANGED edits
       \/ /\ faq[f] # None /\ Differing(dto, faq[f]) = {}
          /\ Enter(a, NoCall) /\ asked(TRUE)
       \/ /\ faq[f] # None /\ Differing(dto, faq[f]) # {}
          /\ Enter(a, [NoCall EXCEPT !.pc = "write", !.id = f, !.dto = dto,
                                     !.before = faq[f], !.edit = n])
          /\ asked(FALSE)
    /\ UNCHANGED <<faq, category, audit, past, changes, lost>>

\* Mutant: the whole row is written back.
StoredSnapshot(dto, before, row) == [x \in Fields |-> IF x \in DOMAIN dto THEN dto[x] ELSE before[x]]

\* repository.update: the fields collected from the request, over the row as it
\* is now.
Stored(dto, before, row) ==
    [x \in Fields |-> IF x \in DOMAIN dto /\ x \in Differing(dto, before) THEN dto[x] ELSE row[x]]

\* Mutant: the record is made from what was read and what was asked for.
ReturnedMerge(dto, before, row) == [x \in Fields |-> IF x \in DOMAIN dto THEN dto[x] ELSE before[x]]

\* What the update returns, for the record and the answer: the row.
Returned(dto, before, row) == row

WriteFaq(a) ==
    LET c == call[a] IN
    /\ At(a, "write")
    /\ \/ /\ faq[c.id] # None
          /\ faq' = [faq EXCEPT ![c.id] = Stored(c.dto, c.before, @)]
          /\ Changed(c.id)
          /\ call' = [call EXCEPT ![a].pc = "audit", ![a].after = Returned(c.dto, c.before, faq'[c.id])]
       \/ faq[c.id] = None /\ Finish(a) /\ UNCHANGED <<faq, past, changes>>
    /\ UNCHANGED <<category, audit, edits, lost, calls>>

\* delete: getFaqOrThrow;
DeleteFaq(a, f) ==
    /\ \/ faq[f] = None /\ Enter(a, NoCall)
       \/ /\ faq[f] # None
          /\ Enter(a, [NoCall EXCEPT !.pc = "remove", !.id = f, !.before = faq[f]])
    /\ UNCHANGED <<category, faqSide>>

\* Mutant: removing a row that is gone is no error.
RemoveFaqIfThere(a) ==
    LET f == call[a].id IN
    /\ At(a, "remove")
    /\ faq' = [faq EXCEPT ![f] = None]
    /\ changes' = IF faq[f] = None THEN changes ELSE changes + 1
    /\ call' = [call EXCEPT ![a].pc = "audit"]
    /\ UNCHANGED <<category, audit, past, edits, lost, calls>>

\* repository.delete, which throws when the row is gone.
RemoveFaq(a) ==
    LET f == call[a].id IN
    /\ At(a, "remove")
    /\ \/ /\ faq[f] # None
          /\ faq' = [faq EXCEPT ![f] = None] /\ Changed(f)
          /\ call' = [call EXCEPT ![a].pc = "audit"]
       \/ faq[f] = None /\ Finish(a) /\ UNCHANGED <<faq, past, changes>>
    /\ UNCHANGED <<category, audit, edits, lost, calls>>

\* auditLog.admin, awaited before the answer.  When it fails the request fails,
\* and the change stays.
Audit(a) ==
    LET c == call[a] IN
    /\ At(a, "audit")
    /\ \/ /\ audit' = Append(audit, [faq |-> c.id, old |-> c.before, new |-> c.after])
          /\ edits' = Answered(c.edit)
          /\ UNCHANGED lost
       \/ lost < MaxFaults /\ lost' = lost + 1 /\ UNCHANGED <<audit, edits>>
    /\ Finish(a)
    /\ UNCHANGED <<faq, category, past, changes, calls>>

-----------------------------------------------------------------------------
\* FaqCategoryService

\* Mutant: names are kept as they are sent.
TrimNot(name) == IF name.padded THEN " " \o name.base ELSE name.base

Trim(name) == name.base

\* A bare blank name is falsy in updateCategory.
Truthy(name) == name # NoName

Taken(name) == \E g \in Categories : category[g] = name

\* createCategory and its findByName.  The DTO wants a name that is not empty;
\* white space will do.
CreateCategory(a, name) ==
    /\ name # NoName
    /\ \/ Taken(Trim(name)) /\ Enter(a, NoCall)
       \/ ~ Taken(Trim(name)) /\ Enter(a, [NoCall EXCEPT !.pc = "insert", !.name = name])
    /\ UNCHANGED <<category, faqSide>>

\* Mutant: the table has no unique index.
MayHoldAny(g, name) == TRUE

\* @@unique([name])
MayHold(g, name) == \A h \in Categories \ {g} : category[h] # name

\* create, with a fresh id; a name taken since makes it throw.
InsertCategory(a) ==
    LET name == Trim(call[a].name) IN
    /\ At(a, "insert")
    /\ Finish(a)
    /\ \/ \E g \in Categories :
            category[g] = None /\ MayHold(g, name) /\ category' = [category EXCEPT ![g] = name]
       \/ Taken(name) /\ UNCHANGED category
    /\ UNCHANGED <<faqSide, calls>>

\* updateCategory: findById; the name is looked up only if it is not blank and
\* not the one just read.
UpdateCategory(a, g, name) ==
    /\ \/ category[g] = None /\ Enter(a, NoCall)
       \/ /\ category[g] # None
          /\ Enter(a, [NoCall EXCEPT !.id = g, !.name = name,
                                     !.pc = IF Truthy(name) /\ Trim(name) # category[g]
                                            THEN "find-name" ELSE "rename"])
    /\ UNCHANGED <<category, faqSide>>

FindName(a) ==
    /\ At(a, "find-name")
    /\ \/ Taken(Trim(call[a].name)) /\ Finish(a)
       \/ ~ Taken(Trim(call[a].name)) /\ call' = [call EXCEPT ![a].pc = "rename"]
    /\ UNCHANGED <<category, faqSide, calls>>

\* update by id: throws when the row is gone or the name was taken since.
RenameCategory(a) ==
    LET g == call[a].id
        name == Trim(call[a].name)
    IN
    /\ At(a, "rename")
    /\ Finish(a)
    /\ \/ category[g] # None /\ MayHold(g, name) /\ category' = [category EXCEPT ![g] = name]
       \/ (category[g] = None \/ ~ MayHold(g, name)) /\ UNCHANGED category
    /\ UNCHANGED <<faqSide, calls>>

\* deleteCategory: findById, then delete, which throws when the row is gone.
DeleteCategory(a, g) ==
    /\ \/ category[g] = None /\ Enter(a, NoCall)
       \/ category[g] # None /\ Enter(a, [NoCall EXCEPT !.pc = "drop", !.id = g])
    /\ UNCHANGED <<category, faqSide>>

DropCategory(a) ==
    /\ At(a, "drop")
    /\ Finish(a)
    /\ category' = [category EXCEPT ![call[a].id] = None]
    /\ UNCHANGED <<faqSide, calls>>

Next ==
    \E a \in Admins :
        \/ \E f \in Faqs :
            \/ \E content \in Contents : CreateFaq(a, f, content)
            \/ \E dto \in Requests : UpdateFaq(a, f, dto)
            \/ DeleteFaq(a, f)
        \/ WriteFaq(a) \/ RemoveFaq(a) \/ Audit(a)
        \/ \E name \in RawNames :
            \/ CreateCategory(a, name)
            \/ \E g \in Categories : UpdateCategory(a, g, name)
        \/ \E g \in Categories : DeleteCategory(a, g)
        \/ InsertCategory(a) \/ FindName(a) \/ RenameCategory(a) \/ DropCategory(a)

Spec == Init /\ [][Next]_vars

-----------------------------------------------------------------------------
\* Properties

\* Types; and what the category table holds is trimmed, whichever operation put
\* it there (createCategory, updateCategory).
TypeOK ==
    /\ faq \in [Faqs -> Contents \cup {None}]
    /\ category \in [Categories -> Names \cup {"", None}]
    /\ \A a \in Admins : call[a].pc \in {"idle", "write", "remove", "audit", "insert",
                                         "find-name", "rename", "drop"}
    /\ \A i \in DOMAIN audit : audit[i].old \in Contents \cup {None}
                               /\ audit[i].new \in Contents \cup {None}
    /\ lost \in 0 .. MaxFaults /\ calls \in 0 .. MaxCalls

\* Of two admins who update different fields of a FAQ at once, neither undoes
\* the other's work: what an answered update asked for is there until the FAQ
\* is deleted, or another update has asked for what is there instead (update's
\* collection of the fields that differ).
AnsweredEditHolds ==
    \A e \in edits : (e.answered /\ faq[e.faq] # None) =>
        \A x \in DOMAIN e.dto :
            \/ faq[e.faq][x] = e.dto[x]
            \/ \E d \in edits : /\ d.n # e.n /\ d.faq = e.faq
                                /\ x \in DOMAIN d.dto /\ d.dto[x] = faq[e.faq][x]

\* Both sides of an audit record of an update are contents the FAQ really had,
\* the old one before the new one, although nothing holds the row between the
\* read and the write (update's before and updatedFaq).
AuditTellsTruth ==
    \A i \in DOMAIN audit : LET r == audit[i] IN
        (r.old # None /\ r.new # None) =>
            \E m, n \in DOMAIN past[r.faq] :
                m < n /\ past[r.faq][m] = r.old /\ past[r.faq][n] = r.new

\* Every change of a FAQ has exactly one audit record, one about to be written
\* or one that failed; two deletions of one FAQ leave one (create, update,
\* delete).
AuditIsComplete ==
    changes = Len(audit) + Cardinality({a \in Admins : At(a, "audit")}) + lost

\* No two categories have the same name, although both services check before
\* they write; the index catches what passes the check (findByName, @@unique).
UniqueNames ==
    \A g, h \in Categories : (g # h /\ category[g] # None) => category[g] # category[h]
=============================================================================
