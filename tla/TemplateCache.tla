--------------------------- MODULE TemplateCache ---------------------------
(***************************************************************************)
(* Editable notification copy: the table of templates, the cache that each *)
(* replica's NotificationTemplateService keeps of it, and the admin        *)
(* operations of NotificationAdminService that change it.                  *)
(*                                                                         *)
(* One template stands for all: a load reads the whole table at once.  Its *)
(* copy is a version: 0 when the table has no row (the code default is     *)
(* shown), 1 for the seeded default, n + 1 for the copy of the n-th edit;  *)
(* a reset is an edit to the default.  Alimtalk always shows the code      *)
(* default and takes no part.  Renders that wait for the same load are     *)
(* answered together when it ends.                                         *)
(***************************************************************************)
EXTENDS Naturals, Sequences, FiniteSets, NotificationCatalog

CONSTANTS
    Replicas,     \* processes of the service
    Loads,        \* identities of loads in flight
    None,         \* no load
    Ttl,          \* CACHE_TTL_MS
    MaxLoad,      \* assumption: a table read ends within this time
    MaxTime,      \* bound: the clock
    MaxEdits,     \* bound: edits and resets
    MaxFailures,  \* bound: table reads that fail
    MaxRestarts   \* bound: replicas that restart

ASSUME TemplateAssumption ==
    /\ None \notin Loads \cup Replicas
    /\ {Ttl, MaxLoad, MaxTime, MaxEdits, MaxFailures, MaxRestarts} \subseteq Nat
    /\ Ttl > 0

Missing == 0
Seeded == 1

VARIABLES
    stored,       \* the template's row
    cache,        \* cache and cacheExpiresAt of a replica
    cachePromise, \* the load its renders share
    load,         \* loads in flight
    admin,        \* the edit a replica has saved and not yet answered; 0 for none
    up,           \* replicas past onModuleInit
    now,
    \* history and counters
    savedAt,      \* times of the edits
    answered,     \* the last edit a replica has answered
    invalidated,  \* how often a replica has dropped its cache
    failures, restarts

local == <<cache, cachePromise, load, answered, invalidated>>
vars == <<stored, local, admin, up, now, savedAt, failures, restarts>>

NoCache == [there |-> FALSE, version |-> Missing, expires |-> 0, overtaken |-> FALSE]
NoLoad == [at |-> None, stage |-> "free", version |-> Missing, began |-> 0,
           overtaken |-> FALSE, wanted |-> 0, due |-> 0]

Init ==
    /\ stored = Missing /\ up = {} /\ admin = [r \in Replicas |-> 0]
    /\ cache = [r \in Replicas |-> NoCache]
    /\ cachePromise = [r \in Replicas |-> None]
    /\ load = [l \in Loads |-> NoLoad]
    /\ answered = [r \in Replicas |-> 0] /\ invalidated = [r \in Replicas |-> 0]
    /\ now = 0 /\ savedAt = <<>> /\ failures = 0 /\ restarts = 0

InFlight(r) == {l \in Loads : load[l].at = r}

\* The newest of the edits whose cached predecessor has surely run out.
Due == LET old == {n \in DOMAIN savedAt : savedAt[n] + Ttl + MaxLoad <= now}
       IN  IF old = {} THEN 0 ELSE 1 + Cardinality(old)

Later(m, n) == IF m >= n THEN m ELSE n

-----------------------------------------------------------------------------
\* Rendering

\* The cache of a replica, while it lasts.
Hit(r) == cache[r].there /\ now < cache[r].expires

\* Mutant: a hit prolongs the entry.
FromCacheProlonged(r) ==
    /\ Hit(r)
    /\ cache' = [cache EXCEPT ![r].expires = now + Ttl]
    /\ UNCHANGED <<cachePromise, load>>

\* loadOverrides: a render is answered from the cache,
FromCache(r) ==
    /\ Hit(r)
    /\ UNCHANGED <<cache, cachePromise, load>>

\* Mutant: every render that misses the cache reads the table.
FromLoadUnshared(r) ==
    /\ ~ Hit(r)
    /\ \E l \in Loads :
        /\ load[l] = NoLoad
        /\ load' = [load EXCEPT ![l] = [NoLoad EXCEPT !.at = r, !.stage = "asked", !.began = now,
                                                      !.wanted = answered[r], !.due = Due]]
        /\ cachePromise' = [cachePromise EXCEPT ![r] = l]
    /\ UNCHANGED cache

\* or the load in flight, or a new one.
FromLoad(r) ==
    /\ ~ Hit(r)
    /\ \/ LET l == cachePromise[r] IN
          /\ l # None
          /\ load' = [load EXCEPT ![l].wanted = Later(@, answered[r]), ![l].due = Later(@, Due)]
          /\ UNCHANGED cachePromise
       \/ /\ cachePromise[r] = None
          /\ \E l \in Loads :
              /\ load[l] = NoLoad
              /\ load' = [load EXCEPT ![l] = [NoLoad EXCEPT !.at = r, !.stage = "asked", !.began = now,
                                                            !.wanted = answered[r], !.due = Due]]
              /\ cachePromise' = [cachePromise EXCEPT ![r] = l]
    /\ UNCHANGED cache

Render(r) ==
    /\ r \in up
    /\ FromCache(r) \/ FromLoad(r)
    /\ UNCHANGED <<stored, admin, up, now, savedAt, answered, invalidated, failures, restarts>>

\* The database runs the query of a load.
ReadTable(l) ==
    /\ load[l].stage = "asked"
    /\ load' = [load EXCEPT ![l].stage = "read", ![l].version = stored]
    /\ UNCHANGED <<stored, cache, cachePromise, admin, up, now, savedAt, answered,
                   invalidated, failures, restarts>>

\* Mutant: without the finally clause.
SettleKeepingPromise(l) ==
    /\ load' = [load EXCEPT ![l] = NoLoad]
    /\ UNCHANGED cachePromise

\* The renders that wait are answered; whatever load the replica shares by now
\* is shared no longer.
Settle(l) ==
    /\ load' = [load EXCEPT ![l] = NoLoad]
    /\ cachePromise' = [cachePromise EXCEPT ![load[l].at] = None]

\* The rows arrive and become the cache, invalidated meanwhile or not.
InstallLoad(l) ==
    LET r == load[l].at IN
    /\ load[l].stage = "read"
    /\ cache' = [cache EXCEPT ![r] = [there |-> TRUE, version |-> load[l].version,
                                      expires |-> now + Ttl, overtaken |-> load[l].overtaken]]
    /\ Settle(l)
    /\ UNCHANGED <<stored, admin, up, now, savedAt, answered, invalidated, failures, restarts>>

\* The read fails: the old cache, however old, or the code defaults.
FailLoad(l) ==
    /\ load[l].stage \in {"asked", "read"}
    /\ failures < MaxFailures
    /\ failures' = failures + 1
    /\ Settle(l)
    /\ UNCHANGED <<stored, cache, admin, up, now, savedAt, answered, invalidated, restarts>>

-----------------------------------------------------------------------------
\* Editing

\* updateMessageTemplate and resetMessageTemplate, up to the upsert.  An edit
\* of an unknown event or locale is refused before it.
SaveTemplate(r) ==
    /\ r \in up /\ admin[r] = 0
    /\ Len(savedAt) < MaxEdits
    /\ savedAt' = Append(savedAt, now)
    /\ stored' = Len(savedAt) + 2
    /\ admin' = [admin EXCEPT ![r] = stored']
    /\ UNCHANGED <<local, up, now, failures, restarts>>

\* Mutant: only the shared load is dropped.
InvalidateSharedLoad(r) == UNCHANGED cache

\* invalidateCache, cache and cacheExpiresAt.
InvalidateCache(r) == cache' = [cache EXCEPT ![r] = NoCache]

\* The upsert has returned: drop the cache and the shared load, and answer.
\* A load in flight is not stopped.
AnswerAdmin(r) ==
    /\ admin[r] # 0
    /\ InvalidateCache(r)
    /\ cachePromise' = [cachePromise EXCEPT ![r] = None]
    /\ load' = [l \in Loads |-> IF l \in InFlight(r) THEN [load[l] EXCEPT !.overtaken = TRUE] ELSE load[l]]
    /\ answered' = [answered EXCEPT ![r] = Later(@, admin[r])]
    /\ invalidated' = [invalidated EXCEPT ![r] = @ + 1]
    /\ admin' = [admin EXCEPT ![r] = 0]
    /\ UNCHANGED <<stored, up, now, savedAt, failures, restarts>>

-----------------------------------------------------------------------------
\* Processes and time

\* Mutant: seeding writes the defaults over what is there.
SeedOverEdits == stored' = Seeded

\* seedMessageTemplates: createMany with skipDuplicates.
SeedTemplates == stored' = IF stored = Missing THEN Seeded ELSE stored

\* onModuleInit: seeding fails without stopping the start.
Boot(r) ==
    /\ r \notin up
    /\ up' = up \cup {r}
    /\ SeedTemplates \/ UNCHANGED stored
    /\ UNCHANGED <<local, admin, now, savedAt, failures, restarts>>

\* The process ends, and with it its cache, its loads and an unanswered edit.
Restart(r) ==
    /\ r \in up /\ restarts < MaxRestarts
    /\ restarts' = restarts + 1
    /\ up' = up \ {r}
    /\ cache' = [cache EXCEPT ![r] = NoCache]
    /\ cachePromise' = [cachePromise EXCEPT ![r] = None]
    /\ load' = [l \in Loads |-> IF l \in InFlight(r) THEN NoLoad ELSE load[l]]
    /\ admin' = [admin EXCEPT ![r] = 0]
    /\ UNCHANGED <<stored, now, savedAt, answered, invalidated, failures>>

Tick ==
    /\ now < MaxTime
    /\ \A l \in Loads : load[l].stage # "free" => now - load[l].began < MaxLoad
    /\ now' = now + 1
    /\ UNCHANGED <<stored, local, admin, up, savedAt, failures, restarts>>

Next ==
    \/ \E r \in Replicas : Render(r) \/ SaveTemplate(r) \/ AnswerAdmin(r) \/ Boot(r) \/ Restart(r)
    \/ \E l \in Loads : ReadTable(l) \/ InstallLoad(l) \/ FailLoad(l)
    \/ Tick

Spec == Init /\ [][Next]_vars

-----------------------------------------------------------------------------
\* Properties

Versions == 0 .. MaxEdits + 1

\* Types; and the load that the renders of a replica share is one in flight on
\* that replica, so that no render waits for a load that has ended
\* (loadOverrides, its finally clause).
TypeOK ==
    /\ stored \in Versions /\ now \in 0 .. MaxTime
    /\ up \subseteq Replicas /\ admin \in [Replicas -> Versions]
    /\ cache \in [Replicas -> [there : BOOLEAN, version : Versions,
                               expires : 0 .. MaxTime + Ttl, overtaken : BOOLEAN]]
    /\ load \in [Loads -> [at : Replicas \cup {None}, stage : {"free", "asked", "read"},
                           version : Versions, began : 0 .. MaxTime, overtaken : BOOLEAN,
                           wanted : Versions, due : Versions]]
    /\ \A r \in Replicas : cachePromise[r] \in InFlight(r) \cup {None}
    /\ answered \in [Replicas -> Versions] /\ invalidated \in [Replicas -> 0 .. MaxEdits]
    /\ failures \in 0 .. MaxFailures /\ restarts \in 0 .. MaxRestarts

\* A render that begins after an edit was answered on its own replica shows
\* that edit or a later one, from the cache as from a load it shares, with two
\* exceptions: the table cannot be read, or the load was already in flight when
\* the cache was dropped (updateMessageTemplate's "takes effect immediately,
\* not after the TTL").
EditShownAtOnce ==
    /\ \A r \in up : Hit(r) /\ cache[r].version < answered[r] => cache[r].overtaken
    /\ \A l \in Loads : load[l].stage = "read" /\ load[l].version < load[l].wanted
                          => load[l].overtaken

\* On every replica, and through such a load too, an edit is shown once the TTL
\* and the duration of a load have passed since it was saved, unless the table
\* cannot be read (CACHE_TTL_MS).
StaleOnlyForTtl ==
    /\ \A r \in up : Hit(r) => cache[r].version >= Due
    /\ \A l \in Loads : load[l].stage = "read" => load[l].version >= load[l].due

\* Renders that miss the cache do not stampede the database: a replica has at
\* most one load in flight, and one more for each time its cache was dropped,
\* even though a load that ends un-shares the next one (loadOverrides).
LoadsBounded == \A r \in Replicas : Cardinality(InFlight(r)) <= 1 + invalidated[r]

\* No start of a replica, and nothing else, puts older copy over an edit in the
\* table (seedMessageTemplates: "admin-edited copy survives a redeploy").
EditsSurvive == [][stored' >= stored]_vars
=============================================================================
