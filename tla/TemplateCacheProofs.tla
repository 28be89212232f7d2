------------------------- MODULE TemplateCacheProofs -------------------------
(***************************************************************************)
(* Theorems about TemplateCache for every number of replicas and loads,    *)
(* every TTL above zero, every duration of a load, and every bound.        *)
(***************************************************************************)
EXTENDS TemplateCache, FiniteSetTheorems, TLAPS

-----------------------------------------------------------------------------
(* Type correctness *)

\* Kept folded: the provers reason about fields that are truth values as values.
Flags == BOOLEAN

Entry == [there : Flags, version : Versions, expires : 0 .. MaxTime + Ttl, overtaken : Flags]

Load == [at : Replicas \cup {None}, stage : {"free", "asked", "read"}, version : Versions,
         began : 0 .. MaxTime, overtaken : Flags, wanted : Versions, due : Versions]

TypeInv ==
    /\ stored \in Versions /\ now \in 0 .. MaxTime
    /\ up \subseteq Replicas /\ admin \in [Replicas -> Versions]
    /\ cache \in [Replicas -> Entry]
    /\ cachePromise \in [Replicas -> Loads \cup {None}]
    /\ load \in [Loads -> Load]
    /\ answered \in [Replicas -> Versions] /\ invalidated \in [Replicas -> Nat]
    /\ savedAt \in Seq(0 .. MaxTime) /\ Len(savedAt) \leq MaxEdits
    /\ failures \in 0 .. MaxFailures /\ restarts \in 0 .. MaxRestarts

\* The bounds are numbers.
LEMMA BoundsType ==
    /\ Ttl \in Nat /\ MaxLoad \in Nat /\ MaxTime \in Nat
    /\ MaxEdits \in Nat /\ MaxFailures \in Nat /\ MaxRestarts \in Nat
    /\ Ttl > 0
BY TemplateAssumption

\* No load is not a load, nor a replica.
LEMMA NobodyType == None \notin Loads /\ None \notin Replicas
BY TemplateAssumption

\* An empty cache and a free load are in their types.
LEMMA EmptyType == NoCache \in Entry /\ NoLoad \in Load
<1>1. TRUE \in Flags /\ FALSE \in Flags
  BY DEF Flags
<1>2. 0 \in Versions /\ 0 \in 0 .. MaxTime /\ 0 \in 0 .. MaxTime + Ttl
  BY BoundsType DEF Versions
<1>3. NoCache \in Entry
  BY <1>1, <1>2 DEF NoCache, Entry, Missing
<1>4. NoLoad \in Load
  BY <1>1, <1>2 DEF NoLoad, Load, Missing
<1>5. QED
  BY <1>3, <1>4

\* What they hold.
LEMMA EmptyFields ==
    /\ NoCache.there = FALSE
    /\ NoLoad.at = None /\ NoLoad.stage = "free"
BY DEF NoCache, NoLoad

\* The edits whose cached predecessor has surely run out.
Old == {n \in DOMAIN savedAt : savedAt[n] + Ttl + MaxLoad <= now}

\* Due is at most a version when all those edits are: they are among its predecessors.
LEMMA DueAtMost ==
    ASSUME TypeInv, NEW v \in Nat, \A n \in Old : n + 1 <= v
    PROVE  Due \in Nat /\ Due <= v
<1>1. CASE Old = {}
  BY <1>1 DEF Due, Old
<1>2. CASE Old # {}
  <2>1. PICK m \in Old : m + 1 <= v
    BY <1>2
  <2>2. \A n \in Old : n \in Nat /\ n >= 1
    BY DEF Old, TypeInv
  <2>3. Old \subseteq 1 .. v - 1 /\ v - 1 \in Nat
    BY <2>1, <2>2
  <2>4. IsFiniteSet(1 .. v - 1) /\ Cardinality(1 .. v - 1) = v - 1
    BY <2>3, FS_Interval
  <2>5. Cardinality(Old) <= v - 1 /\ Cardinality(Old) \in Nat
    BY <2>3, <2>4, FS_Subset, FS_CardinalityType
  <2>6. Due = 1 + Cardinality(Old)
    BY <1>2 DEF Due, Old
  <2>7. QED
    BY <2>5, <2>6
<1>3. QED
  BY <1>1, <1>2

\* So it is a version.
LEMMA DueType == ASSUME TypeInv PROVE Due \in Versions
<1>1. MaxEdits + 1 \in Nat /\ \A n \in Old : n + 1 <= MaxEdits + 1
  BY BoundsType DEF Old, TypeInv
<1>2. QED
  BY <1>1, DueAtMost DEF Versions

\* The later of two versions is one, and no earlier than either.
LEMMA LaterType ==
    ASSUME NEW m \in Versions, NEW n \in Versions
    PROVE  Later(m, n) \in Versions /\ Later(m, n) >= m /\ Later(m, n) >= n
BY BoundsType DEF Later, Versions

\* A load that an edit has overtaken.
LEMMA OvertakeFields ==
    ASSUME NEW k \in Load, NEW j, j = [k EXCEPT !.overtaken = TRUE]
    PROVE  /\ j \in Load
           /\ j.at = k.at /\ j.stage = k.stage /\ j.version = k.version /\ j.began = k.began
           /\ j.overtaken = TRUE /\ j.wanted = k.wanted /\ j.due = k.due
<1>1. TRUE \in Flags
  BY DEF Flags
<1>2. QED
  BY <1>1 DEF Load

\* What a load leaves in the cache.
LEMMA InstallFields ==
    ASSUME NEW k \in Load, NEW t \in 0 .. MaxTime,
           NEW c, c = [there |-> TRUE, version |-> k.version, expires |-> t + Ttl, overtaken |-> k.overtaken]
    PROVE  c \in Entry /\ c.version = k.version /\ c.expires = t + Ttl /\ c.overtaken = k.overtaken
<1>1. TRUE \in Flags
  BY DEF Flags
<1>2. k.version \in Versions /\ k.overtaken \in Flags
  BY DEF Load
<1>3. t + Ttl \in 0 .. MaxTime + Ttl
  BY BoundsType
<1>4. QED
  BY <1>1, <1>2, <1>3 DEF Entry

\* A render joins load l of its replica r: j is the load afterwards.
Joins(r, l, j) ==
    /\ l = cachePromise[r] /\ l # None
    /\ j.at = load[l].at /\ j.stage = load[l].stage /\ j.version = load[l].version
    /\ j.began = load[l].began /\ j.overtaken = load[l].overtaken
    /\ j.wanted = Later(load[l].wanted, answered[r]) /\ j.due = Later(load[l].due, Due)
    /\ UNCHANGED cachePromise

\* A render starts load l as j.
Starts(r, l, j) ==
    /\ cachePromise[r] = None /\ load[l] = NoLoad
    /\ j.at = r /\ j.stage = "asked" /\ j.began = now /\ j.wanted = answered[r] /\ j.due = Due
    /\ cachePromise' = [cachePromise EXCEPT ![r] = l]

\* What a render does to the loads.
LEMMA RenderLoads ==
    ASSUME TypeInv, NEW r \in Replicas, Render(r)
    PROVE  \/ UNCHANGED <<cachePromise, load>>
           \/ \E l \in Loads, j \in Load :
                load' = [load EXCEPT ![l] = j] /\ (Joins(r, l, j) \/ Starts(r, l, j))
<1>1. Due \in Versions /\ answered[r] \in Versions /\ now \in 0 .. MaxTime
  BY DueType DEF TypeInv
<1>2. CASE FromCache(r)
  BY <1>2 DEF FromCache
<1>3. ASSUME NEW l \in Loads, l = cachePromise[r], l # None, UNCHANGED cachePromise,
             load' = [load EXCEPT ![l].wanted = Later(@, answered[r]), ![l].due = Later(@, Due)]
      PROVE  \E j \in Load : load' = [load EXCEPT ![l] = j] /\ Joins(r, l, j)
  <2>1. load \in [Loads -> Load] /\ load[l] \in Load
    BY DEF TypeInv
  <2>2. load[l].wanted \in Versions /\ load[l].due \in Versions
    BY <2>1 DEF Load
  <2>3. /\ Later(load[l].wanted, answered[r]) \in Versions
        /\ Later(load[l].due, Due) \in Versions
    BY <1>1, <2>2, LaterType
  <2>4. PICK k \in Load, w \in Versions, d \in Versions :
          k = load[l] /\ w = Later(load[l].wanted, answered[r]) /\ d = Later(load[l].due, Due)
    BY <2>1, <2>3
  <2>5. PICK j : j = [k EXCEPT !.wanted = w, !.due = d]
    OBVIOUS
  <2>6. load' = [load EXCEPT ![l] = j]
    BY <1>3, <2>1, <2>4, <2>5 DEF Load
  <2>7. /\ j \in Load
        /\ j.at = k.at /\ j.stage = k.stage /\ j.version = k.version /\ j.began = k.began
        /\ j.overtaken = k.overtaken /\ j.wanted = w /\ j.due = d
    BY <2>4, <2>5 DEF Load
  <2>8. Joins(r, l, j)
    BY <1>3, <2>4, <2>7 DEF Joins
  <2>9. QED
    BY <2>6, <2>7, <2>8
<1>4. ASSUME NEW l \in Loads, cachePromise[r] = None, load[l] = NoLoad,
             load' = [load EXCEPT ![l] = [NoLoad EXCEPT !.at = r, !.stage = "asked", !.began = now,
                                                        !.wanted = answered[r], !.due = Due]],
             cachePromise' = [cachePromise EXCEPT ![r] = l]
      PROVE  \E j \in Load : load' = [load EXCEPT ![l] = j] /\ Starts(r, l, j)
  <2>1. PICK j : j = [NoLoad EXCEPT !.at = r, !.stage = "asked", !.began = now, !.wanted = answered[r], !.due = Due]
    OBVIOUS
  <2>2. load' = [load EXCEPT ![l] = j]
    BY <1>4, <2>1
  <2>3. j \in Load /\ j.at = r /\ j.stage = "asked" /\ j.began = now /\ j.wanted = answered[r] /\ j.due = Due
    BY <1>1, <2>1, EmptyType DEF Load
  <2>4. Starts(r, l, j)
    BY <1>4, <2>3 DEF Starts
  <2>5. QED
    BY <2>2, <2>3, <2>4
<1>5. QED
  BY <1>2, <1>3, <1>4 DEF Render, FromLoad, TypeInv

\* What the query of a load does to it.
LEMMA ReadLoads ==
    ASSUME TypeInv, NEW l \in Loads, ReadTable(l)
    PROVE  \E j \in Load :
             /\ load' = [load EXCEPT ![l] = j]
             /\ j.at = load[l].at /\ j.stage = "read" /\ j.version = stored /\ j.began = load[l].began
             /\ j.overtaken = load[l].overtaken /\ j.wanted = load[l].wanted /\ j.due = load[l].due
<1>1. load \in [Loads -> Load] /\ load[l] \in Load /\ stored \in Versions
  BY DEF TypeInv
<1>2. PICK j : j = [load[l] EXCEPT !.stage = "read", !.version = stored]
  OBVIOUS
<1>3. load' = [load EXCEPT ![l] = j]
  BY <1>1, <1>2 DEF ReadTable, Load
<1>4. /\ j \in Load
      /\ j.at = load[l].at /\ j.stage = "read" /\ j.version = stored /\ j.began = load[l].began
      /\ j.overtaken = load[l].overtaken /\ j.wanted = load[l].wanted /\ j.due = load[l].due
  BY <1>1, <1>2 DEF Load
<1>5. QED
  BY <1>3, <1>4

\* What the answer to an edit does to the loads of its replica.
LEMMA AnswerLoads ==
    ASSUME TypeInv, NEW r \in Replicas, AnswerAdmin(r), NEW l \in Loads
    PROVE  /\ load[l].at # r => load'[l] = load[l]
           /\ load[l].at = r =>
                /\ load'[l] \in Load
                /\ load'[l].at = r /\ load'[l].stage = load[l].stage /\ load'[l].version = load[l].version
                /\ load'[l].began = load[l].began /\ load'[l].overtaken = TRUE
                /\ load'[l].wanted = load[l].wanted /\ load'[l].due = load[l].due
<1>1. load[l] \in Load
  BY DEF TypeInv
<1>2. CASE load[l].at # r
  BY <1>2 DEF AnswerAdmin, InFlight
<1>3. CASE load[l].at = r
  <2>1. load'[l] = [load[l] EXCEPT !.overtaken = TRUE]
    BY <1>3 DEF AnswerAdmin, InFlight
  <2>2. QED
    BY <1>1, <1>3, <2>1, OvertakeFields
<1>4. QED
  BY <1>2, <1>3

\* What the end of a load leaves in the cache.
LEMMA InstallCache ==
    ASSUME TypeInv, NEW l \in Loads, InstallLoad(l), load[l].at \in Replicas
    PROVE  \E c \in Entry :
             /\ cache' = [cache EXCEPT ![load[l].at] = c]
             /\ c.version = load[l].version /\ c.expires = now + Ttl /\ c.overtaken = load[l].overtaken
<1>1. load[l] \in Load /\ now \in 0 .. MaxTime
  BY DEF TypeInv
<1>2. PICK c : c = [there |-> TRUE, version |-> load[l].version, expires |-> now + Ttl,
                    overtaken |-> load[l].overtaken]
  OBVIOUS
<1>3. cache' = [cache EXCEPT ![load[l].at] = c]
  BY <1>2 DEF InstallLoad
<1>4. c \in Entry /\ c.version = load[l].version /\ c.expires = now + Ttl /\ c.overtaken = load[l].overtaken
  BY <1>1, <1>2, InstallFields
<1>5. QED
  BY <1>3, <1>4

\* One step keeps every variable in its type.
LEMMA TypeStep == TypeInv /\ [Next]_vars => TypeInv'
<1> SUFFICES ASSUME TypeInv, [Next]_vars PROVE TypeInv'
  OBVIOUS
<1> USE BoundsType
<1>1. ASSUME NEW r \in Replicas, Render(r) PROVE TypeInv'
  <2>1. cachePromise' \in [Replicas -> Loads \cup {None}] /\ load' \in [Loads -> Load]
    BY <1>1, RenderLoads DEF TypeInv, Joins, Starts
  <2>2. cache' = cache
    BY <1>1 DEF Render, FromCache, FromLoad
  <2>3. QED
    BY <1>1, <2>1, <2>2 DEF Render, TypeInv
<1>2. ASSUME NEW r \in Replicas, SaveTemplate(r) PROVE TypeInv'
  <2>1. savedAt' \in Seq(0 .. MaxTime) /\ Len(savedAt') \leq MaxEdits
    BY <1>2 DEF SaveTemplate, TypeInv
  <2>2. stored' \in Versions
    BY <1>2 DEF SaveTemplate, TypeInv, Versions
  <2>3. QED
    BY <1>2, <2>1, <2>2 DEF SaveTemplate, TypeInv, local
<1>3. ASSUME NEW r \in Replicas, AnswerAdmin(r) PROVE TypeInv'
  <2>1. \A l \in Loads : load'[l] \in Load
    BY <1>3, AnswerLoads DEF TypeInv
  <2>2. load' \in [Loads -> Load]
    <3>1. \E f : load' = [l \in Loads |-> f[l]]
      <4> DEFINE f == [l \in Loads |-> IF l \in InFlight(r) THEN [load[l] EXCEPT !.overtaken = TRUE] ELSE load[l]]
      <4>1. load' = f
        BY <1>3 DEF AnswerAdmin
      <4>2. f = [l \in Loads |-> f[l]]
        OBVIOUS
      <4> HIDE DEF f
      <4>3. QED
        BY <4>1, <4>2
    <3>2. QED
      BY <2>1, <3>1
  <2>3. cache' \in [Replicas -> Entry]
    BY <1>3, EmptyType DEF AnswerAdmin, InvalidateCache, TypeInv
  <2>4. answered' \in [Replicas -> Versions] /\ admin' \in [Replicas -> Versions]
    <3>1. answered[r] \in Versions /\ admin[r] \in Versions /\ 0 \in Versions
      BY DEF TypeInv, Versions
    <3>2. Later(answered[r], admin[r]) \in Versions
      BY <3>1, LaterType
    <3>3. QED
      BY <1>3, <3>1, <3>2 DEF AnswerAdmin, TypeInv
  <2>5. cachePromise' \in [Replicas -> Loads \cup {None}] /\ invalidated' \in [Replicas -> Nat]
    BY <1>3 DEF AnswerAdmin, TypeInv
  <2>6. QED
    BY <1>3, <2>2, <2>3, <2>4, <2>5 DEF AnswerAdmin, TypeInv
<1>4. ASSUME NEW r \in Replicas, Boot(r) PROVE TypeInv'
  <2>1. stored' \in Versions
    BY <1>4 DEF Boot, SeedTemplates, TypeInv, Versions, Missing, Seeded
  <2>2. QED
    BY <1>4, <2>1 DEF Boot, TypeInv, local
<1>5. ASSUME NEW r \in Replicas, Restart(r) PROVE TypeInv'
  <2>1. load' \in [Loads -> Load] /\ cache' \in [Replicas -> Entry]
    BY <1>5, EmptyType DEF Restart, TypeInv
  <2>2. admin' \in [Replicas -> Versions]
    BY <1>5 DEF Restart, TypeInv, Versions
  <2>3. QED
    BY <1>5, <2>1, <2>2 DEF Restart, TypeInv
<1>6. ASSUME NEW l \in Loads, ReadTable(l) PROVE TypeInv'
  <2>1. load' \in [Loads -> Load]
    BY <1>6, ReadLoads DEF TypeInv
  <2>2. QED
    BY <1>6, <2>1 DEF ReadTable, TypeInv
<1>7. ASSUME NEW l \in Loads, Settle(l) PROVE /\ load' \in [Loads -> Load]
                                              /\ cachePromise' \in [Replicas -> Loads \cup {None}]
  BY <1>7, EmptyType DEF Settle, TypeInv
<1>8. ASSUME NEW l \in Loads, InstallLoad(l) PROVE TypeInv'
  <2>1. cache' \in [Replicas -> Entry]
    <3>1. CASE load[l].at \in Replicas
      BY <1>8, <3>1, InstallCache DEF TypeInv
    <3>2. CASE load[l].at \notin Replicas
      <4>1. cache' = cache
        BY <1>8, <3>2 DEF InstallLoad, TypeInv
      <4>2. QED
        BY <4>1 DEF TypeInv
    <3>3. QED
      BY <3>1, <3>2
  <2>2. QED
    BY <1>7, <1>8, <2>1 DEF InstallLoad, TypeInv
<1>9. ASSUME NEW l \in Loads, FailLoad(l) PROVE TypeInv'
  BY <1>7, <1>9 DEF FailLoad, TypeInv
<1>10. CASE Tick
  BY <1>10 DEF Tick, TypeInv, local
<1>11. CASE UNCHANGED vars
  BY <1>11 DEF TypeInv, vars, local
<1>12. QED
  BY <1>1, <1>2, <1>3, <1>4, <1>5, <1>6, <1>8, <1>9, <1>10, <1>11 DEF Next

\* Nothing has happened yet.
LEMMA TypeInit == Init => TypeInv
BY EmptyType, BoundsType DEF Init, TypeInv, Versions, Missing

-----------------------------------------------------------------------------
(* Versions: an edit is numbered higher than all that came before *)

\* What a replica has to answer and has answered; it drops its cache once for
\* each edit that it answers.
AdminInv(r) ==
    /\ answered[r] <= stored /\ admin[r] <= stored
    /\ admin[r] # 0 => admin[r] >= 2 /\ answered[r] < admin[r]
    /\ invalidated[r] = 0 \/ invalidated[r] < answered[r]

\* The row holds the last edit, or the default, or is missing.
VersionInv ==
    /\ stored <= Len(savedAt) + 1
    /\ \A n \in DOMAIN savedAt : n + 1 <= stored
    /\ \A r \in Replicas : AdminInv(r)

\* The row never goes back.
LEMMA StoredGrows ==
    ASSUME TypeInv, VersionInv, [Next]_vars
    PROVE  /\ stored' >= stored
           /\ \A n \in DOMAIN savedAt' : n + 1 <= stored'
           /\ stored' <= Len(savedAt') + 1
<1> USE BoundsType DEF TypeInv, Versions
<1>1. CASE UNCHANGED <<stored, savedAt>>
  BY <1>1 DEF VersionInv
<1>2. ASSUME NEW r \in Replicas, SaveTemplate(r)
      PROVE  /\ stored' >= stored
             /\ \A n \in DOMAIN savedAt' : n + 1 <= stored'
             /\ stored' <= Len(savedAt') + 1
  BY <1>2 DEF SaveTemplate, VersionInv
<1>3. ASSUME NEW r \in Replicas, Boot(r)
      PROVE  /\ stored' >= stored
             /\ \A n \in DOMAIN savedAt' : n + 1 <= stored'
             /\ stored' <= Len(savedAt') + 1
  BY <1>3 DEF Boot, SeedTemplates, VersionInv, Missing, Seeded
<1>4. QED
  BY <1>1, <1>2, <1>3
     DEF Next, vars, Render, AnswerAdmin, Restart, ReadTable, InstallLoad, FailLoad, Tick

\* The numbers stay in order.
LEMMA VersionStep == TypeInv /\ VersionInv /\ [Next]_vars => VersionInv'
<1> SUFFICES ASSUME TypeInv, VersionInv, [Next]_vars PROVE VersionInv'
  OBVIOUS
<1>1. stored' >= stored /\ stored \in Nat /\ stored' \in Nat
  BY TypeStep, StoredGrows DEF TypeInv, Versions
<1>2. \A r \in Replicas : AdminInv(r) /\ answered[r] \in Nat /\ admin[r] \in Nat /\ invalidated[r] \in Nat
  BY DEF TypeInv, Versions, VersionInv
<1>3. ASSUME NEW r \in Replicas, UNCHANGED <<answered[r], admin[r], invalidated[r]>> PROVE AdminInv(r)'
  BY <1>1, <1>2, <1>3 DEF AdminInv
<1>4. ASSUME NEW a \in Replicas, SaveTemplate(a), NEW r \in Replicas PROVE AdminInv(r)'
  <2>1. CASE r = a
    <3>1. admin'[r] = Len(savedAt) + 2 /\ stored' = Len(savedAt) + 2 /\ UNCHANGED <<answered, invalidated>>
      BY <1>4, <2>1 DEF SaveTemplate, TypeInv, local
    <3>2. Len(savedAt) \in Nat /\ stored <= Len(savedAt) + 1
      BY DEF TypeInv, VersionInv
    <3>3. QED
      BY <1>1, <1>2, <3>1, <3>2 DEF AdminInv
  <2>2. CASE r # a
    BY <1>3, <1>4, <2>2 DEF SaveTemplate, TypeInv, local
  <2>3. QED
    BY <2>1, <2>2
<1>5. ASSUME NEW a \in Replicas, AnswerAdmin(a), NEW r \in Replicas PROVE AdminInv(r)'
  <2>1. CASE r = a
    <3>1. /\ admin[r] # 0 /\ admin'[r] = 0 /\ answered'[r] = Later(answered[r], admin[r])
          /\ invalidated'[r] = invalidated[r] + 1
      BY <1>5, <2>1 DEF AnswerAdmin, TypeInv
    <3>2. answered'[r] = admin[r]
      BY <1>2, <3>1 DEF AdminInv, Later
    <3>3. QED
      BY <1>1, <1>2, <3>1, <3>2 DEF AdminInv
  <2>2. CASE r # a
    BY <1>3, <1>5, <2>2 DEF AnswerAdmin, TypeInv
  <2>3. QED
    BY <2>1, <2>2
<1>6. ASSUME NEW a \in Replicas, Restart(a), NEW r \in Replicas PROVE AdminInv(r)'
  <2>1. CASE r = a
    <3>1. admin'[r] = 0 /\ UNCHANGED <<answered, invalidated>>
      BY <1>6, <2>1 DEF Restart, TypeInv
    <3>2. QED
      BY <1>1, <1>2, <3>1 DEF AdminInv
  <2>2. CASE r # a
    BY <1>3, <1>6, <2>2 DEF Restart, TypeInv
  <2>3. QED
    BY <2>1, <2>2
<1>7. \A r \in Replicas : AdminInv(r)'
  BY <1>3, <1>4, <1>5, <1>6 DEF Next, vars, local, Render, Boot, ReadTable, InstallLoad, FailLoad, Tick
<1>8. QED
  BY <1>7, StoredGrows DEF VersionInv

\* There are no edits yet.
LEMMA VersionInit == Init => VersionInv
BY DEF Init, VersionInv, AdminInv, Missing

\* No start of a replica, and nothing else, puts older copy over an edit in the
\* table (seedMessageTemplates: "admin-edited copy survives a redeploy").
THEOREM EditsAreKept == Spec => EditsSurvive
<1>1. TypeInv /\ VersionInv /\ [Next]_vars => [stored' >= stored]_vars
  BY StoredGrows
<1>2. QED
  BY <1>1, TypeInit, TypeStep, VersionInit, VersionStep, PTL DEF Spec, EditsSurvive

-----------------------------------------------------------------------------
(* Loads in flight *)

\* A load has a replica exactly while it is in flight.
PlacedLoad(l) == load[l].stage = "free" <=> load[l].at = None

\* The load that the renders of a replica share is one of its own.
SharedLoad(r) == cachePromise[r] # None => load[cachePromise[r]].at = r

FlightInv ==
    /\ \A l \in Loads : PlacedLoad(l)
    /\ \A r \in Replicas : SharedLoad(r)

\* It stays so.
LEMMA FlightStep == TypeInv /\ FlightInv /\ [Next]_vars => FlightInv'
<1> SUFFICES ASSUME TypeInv, FlightInv, [Next]_vars PROVE FlightInv'
  OBVIOUS
<1>1. load \in [Loads -> Load] /\ cachePromise \in [Replicas -> Loads \cup {None}]
  BY DEF TypeInv
<1>2. \A l \in Loads : PlacedLoad(l) /\ load[l].at \in Replicas \cup {None}
  BY DEF TypeInv, Load, FlightInv
<1>3. \A r \in Replicas : SharedLoad(r)
  BY DEF FlightInv
<1>4. ASSUME UNCHANGED <<load, cachePromise>> PROVE FlightInv'
  BY <1>4 DEF FlightInv, PlacedLoad, SharedLoad
<1>5. ASSUME NEW r \in Replicas, Render(r) PROVE FlightInv'
  <2>1. ASSUME NEW l \in Loads, NEW j \in Load, load' = [load EXCEPT ![l] = j], Joins(r, l, j) PROVE FlightInv'
    <3>1. \A k \in Loads : load'[k].at = load[k].at /\ load'[k].stage = load[k].stage
      BY <1>1, <2>1 DEF Joins
    <3>2. cachePromise' = cachePromise
      BY <2>1 DEF Joins
    <3>3. QED
      BY <1>1, <1>2, <1>3, <3>1, <3>2 DEF FlightInv, PlacedLoad, SharedLoad
  <2>2. ASSUME NEW l \in Loads, NEW j \in Load, load' = [load EXCEPT ![l] = j], Starts(r, l, j) PROVE FlightInv'
    <3>1. load[l].at = None /\ j.at = r /\ j.stage = "asked" /\ cachePromise' = [cachePromise EXCEPT ![r] = l]
      BY <2>2, EmptyFields DEF Starts
    <3>2. \A k \in Loads : PlacedLoad(k)'
      BY <1>1, <1>2, <2>2, <3>1, NobodyType DEF PlacedLoad
    <3>3. \A q \in Replicas : SharedLoad(q)'
      BY <1>1, <1>3, <2>2, <3>1, NobodyType DEF SharedLoad
    <3>4. QED
      BY <3>2, <3>3 DEF FlightInv
  <2>3. QED
    BY <1>4, <1>5, <2>1, <2>2, RenderLoads
<1>6. ASSUME NEW r \in Replicas, AnswerAdmin(r) PROVE FlightInv'
  <2>1. \A l \in Loads : load'[l].at = load[l].at /\ load'[l].stage = load[l].stage
    BY <1>6, AnswerLoads
  <2>2. cachePromise' = [cachePromise EXCEPT ![r] = None]
    BY <1>6 DEF AnswerAdmin
  <2>3. QED
    BY <1>1, <1>2, <1>3, <2>1, <2>2 DEF FlightInv, PlacedLoad, SharedLoad
<1>7. ASSUME NEW r \in Replicas, Restart(r) PROVE FlightInv'
  <2>1. \A l \in Loads : load'[l] = IF load[l].at = r THEN NoLoad ELSE load[l]
    BY <1>7 DEF Restart, InFlight
  <2>2. cachePromise' = [cachePromise EXCEPT ![r] = None]
    BY <1>7 DEF Restart
  <2>3. \A l \in Loads : PlacedLoad(l)'
    BY <1>2, <2>1, EmptyFields DEF PlacedLoad
  <2>4. \A q \in Replicas : SharedLoad(q)'
    BY <1>1, <1>3, <2>1, <2>2 DEF SharedLoad
  <2>5. QED
    BY <2>3, <2>4 DEF FlightInv
<1>8. ASSUME NEW l \in Loads, ReadTable(l) PROVE FlightInv'
  <2>1. PICK j \in Load : load' = [load EXCEPT ![l] = j] /\ j.at = load[l].at /\ j.stage = "read"
    BY <1>8, ReadLoads
  <2>2. load[l].stage = "asked" /\ cachePromise' = cachePromise
    BY <1>8 DEF ReadTable
  <2>3. QED
    BY <1>1, <1>2, <1>3, <2>1, <2>2 DEF FlightInv, PlacedLoad, SharedLoad
<1>9. ASSUME NEW l \in Loads, Settle(l) PROVE FlightInv'
  <2>1. load' = [load EXCEPT ![l] = NoLoad] /\ cachePromise' = [cachePromise EXCEPT ![load[l].at] = None]
    BY <1>9 DEF Settle
  <2>2. \A k \in Loads : PlacedLoad(k)'
    BY <1>1, <1>2, <2>1, EmptyFields DEF PlacedLoad
  <2>3. \A q \in Replicas : SharedLoad(q)'
    BY <1>1, <1>3, <2>1 DEF SharedLoad
  <2>4. QED
    BY <2>2, <2>3 DEF FlightInv
<1>10. QED
  BY <1>4, <1>5, <1>6, <1>7, <1>8, <1>9
     DEF Next, vars, local, SaveTemplate, Boot, InstallLoad, FailLoad, Tick

\* No load is in flight yet.
LEMMA FlightInit == Init => FlightInv
BY EmptyFields DEF Init, FlightInv, PlacedLoad, SharedLoad

\* The variables keep their types, and the load that the renders of a replica
\* share is one in flight on that replica, so that no render waits for a load
\* that has ended (loadOverrides, its finally clause).
THEOREM TypeCorrect == Spec => []TypeOK
<1>1. TypeInv /\ VersionInv /\ FlightInv => TypeOK
  <2> SUFFICES ASSUME TypeInv, VersionInv, FlightInv PROVE TypeOK
    OBVIOUS
  <2>1. invalidated \in [Replicas -> 0 .. MaxEdits]
    <3>1. ASSUME NEW r \in Replicas PROVE invalidated[r] \in 0 .. MaxEdits
      <4>1. invalidated[r] \in Nat /\ answered[r] \in 0 .. MaxEdits + 1
        BY DEF TypeInv, Versions
      <4>2. invalidated[r] = 0 \/ invalidated[r] < answered[r]
        BY DEF VersionInv, AdminInv
      <4>3. QED
        BY <4>1, <4>2, BoundsType
    <3>2. QED
      BY <3>1 DEF TypeInv
  <2>2. \A r \in Replicas : cachePromise[r] \in InFlight(r) \cup {None}
    BY DEF TypeInv, FlightInv, SharedLoad, InFlight
  <2>3. QED
    BY <2>1, <2>2, Zenon DEF TypeOK, TypeInv, Entry, Load, Flags
<1>2. QED
  BY <1>1, TypeInit, TypeStep, VersionInit, VersionStep, FlightInit, FlightStep, PTL DEF Spec

-----------------------------------------------------------------------------
(* How a step moves a load, a cache, the clock and the edits *)

\* A load stays as it is, ends, is joined, starts, reads the table, or is
\* overtaken by the answer to an edit.
LEMMA LoadMoves ==
    ASSUME TypeInv, [Next]_vars, NEW l \in Loads
    PROVE  \/ load'[l] = load[l]
           \/ load'[l].stage = "free"
           \/ \E r \in Replicas : Render(r) /\ (Joins(r, l, load'[l]) \/ Starts(r, l, load'[l]))
           \/ /\ ReadTable(l) /\ load'[l].stage = "read" /\ load'[l].version = stored
              /\ load'[l].at = load[l].at /\ load'[l].began = load[l].began
              /\ load'[l].overtaken = load[l].overtaken
              /\ load'[l].wanted = load[l].wanted /\ load'[l].due = load[l].due
           \/ /\ \E r \in Replicas : AnswerAdmin(r) /\ load[l].at = r
              /\ load'[l].at = load[l].at /\ load'[l].stage = load[l].stage
              /\ load'[l].version = load[l].version /\ load'[l].began = load[l].began
              /\ load'[l].overtaken = TRUE
              /\ load'[l].wanted = load[l].wanted /\ load'[l].due = load[l].due
<1>1. load \in [Loads -> Load]
  BY DEF TypeInv
<1>2. ASSUME NEW r \in Replicas, Render(r)
      PROVE  load'[l] = load[l] \/ Joins(r, l, load'[l]) \/ Starts(r, l, load'[l])
  <2>1. ASSUME NEW k \in Loads, NEW j \in Load, load' = [load EXCEPT ![k] = j], Joins(r, k, j) \/ Starts(r, k, j)
        PROVE  load'[l] = load[l] \/ Joins(r, l, load'[l]) \/ Starts(r, l, load'[l])
    <3>1. CASE k = l
      <4>1. load'[l] = j
        BY <1>1, <2>1, <3>1
      <4>2. QED
        BY <2>1, <3>1, <4>1
    <3>2. CASE k # l
      BY <1>1, <2>1, <3>2
    <3>3. QED
      BY <3>1, <3>2
  <2>2. QED
    BY <1>2, <2>1, RenderLoads
<1>3. ASSUME NEW k \in Loads, Settle(k) PROVE load'[l] = load[l] \/ load'[l].stage = "free"
  BY <1>1, <1>3, EmptyFields DEF Settle
<1>4. ASSUME NEW r \in Replicas, Restart(r) PROVE load'[l] = load[l] \/ load'[l].stage = "free"
  BY <1>4, EmptyFields DEF Restart
<1>5. ASSUME NEW k \in Loads, ReadTable(k), k # l PROVE load'[l] = load[l]
  BY <1>1, <1>5 DEF ReadTable
<1>6. ASSUME ReadTable(l)
      PROVE  /\ load'[l].stage = "read" /\ load'[l].version = stored
             /\ load'[l].at = load[l].at /\ load'[l].began = load[l].began
             /\ load'[l].overtaken = load[l].overtaken
             /\ load'[l].wanted = load[l].wanted /\ load'[l].due = load[l].due
  BY <1>1, <1>6, ReadLoads
<1>7. ASSUME NEW r \in Replicas, AnswerAdmin(r)
      PROVE  \/ load'[l] = load[l]
             \/ /\ load[l].at = r
                /\ load'[l].at = load[l].at /\ load'[l].stage = load[l].stage
                /\ load'[l].version = load[l].version /\ load'[l].began = load[l].began
                /\ load'[l].overtaken = TRUE
                /\ load'[l].wanted = load[l].wanted /\ load'[l].due = load[l].due
  BY <1>7, AnswerLoads
<1>8. ASSUME NEW k \in Loads, InstallLoad(k) \/ FailLoad(k) PROVE load'[l] = load[l] \/ load'[l].stage = "free"
  BY <1>3, <1>8 DEF InstallLoad, FailLoad
<1>9. ASSUME Tick \/ UNCHANGED vars \/ \E r \in Replicas : SaveTemplate(r) \/ Boot(r) PROVE load'[l] = load[l]
  BY <1>9 DEF Tick, SaveTemplate, Boot, vars, local
<1>10. QED
  BY <1>2, <1>4, <1>5, <1>6, <1>7, <1>8, <1>9 DEF Next

\* A cache stays as it is, is dropped, or is what a load of its replica has read.
LEMMA CacheMoves ==
    ASSUME TypeInv, FlightInv, [Next]_vars, NEW r \in Replicas
    PROVE  \/ cache'[r] = cache[r]
           \/ cache'[r].there = FALSE
           \/ \E l \in Loads :
                /\ InstallLoad(l) /\ load[l].at = r /\ load[l].stage = "read"
                /\ cache'[r].version = load[l].version /\ cache'[r].expires = now + Ttl
                /\ cache'[r].overtaken = load[l].overtaken
<1>1. cache \in [Replicas -> Entry]
  BY DEF TypeInv
<1>2. ASSUME NEW q \in Replicas, AnswerAdmin(q) \/ Restart(q) PROVE cache'[r] = cache[r] \/ cache'[r].there = FALSE
  BY <1>1, <1>2, EmptyFields DEF AnswerAdmin, InvalidateCache, Restart
<1>3. ASSUME NEW l \in Loads, InstallLoad(l)
      PROVE  \/ cache'[r] = cache[r]
             \/ /\ load[l].at = r /\ load[l].stage = "read"
                /\ cache'[r].version = load[l].version /\ cache'[r].expires = now + Ttl
                /\ cache'[r].overtaken = load[l].overtaken
  <2>1. load[l].stage = "read" /\ load[l].at \in Replicas
    BY <1>3 DEF InstallLoad, FlightInv, PlacedLoad, TypeInv, Load
  <2>2. PICK c \in Entry : /\ cache' = [cache EXCEPT ![load[l].at] = c]
                           /\ c.version = load[l].version /\ c.expires = now + Ttl /\ c.overtaken = load[l].overtaken
    BY <1>3, <2>1, InstallCache
  <2>3. CASE load[l].at = r
    <3>1. cache'[r] = c
      BY <1>1, <2>2, <2>3
    <3>2. QED
      BY <2>1, <2>2, <2>3, <3>1
  <2>4. CASE load[l].at # r
    BY <1>1, <2>2, <2>4
  <2>5. QED
    BY <2>3, <2>4
<1>4. QED
  BY <1>2, <1>3
     DEF Next, vars, local, Render, FromCache, FromLoad, SaveTemplate, Boot, ReadTable, FailLoad, Tick

\* A save in the table is an old one, or one made now by a step that does nothing else
\* to loads, caches and the clock.
LEMMA SavesMove ==
    ASSUME TypeInv, [Next]_vars, NEW n \in DOMAIN savedAt'
    PROVE  \/ n \in DOMAIN savedAt /\ savedAt'[n] = savedAt[n]
           \/ savedAt'[n] = now /\ UNCHANGED <<load, cache, now>>
<1>1. ASSUME NEW r \in Replicas, SaveTemplate(r)
      PROVE  \/ n \in DOMAIN savedAt /\ savedAt'[n] = savedAt[n]
             \/ savedAt'[n] = now /\ UNCHANGED <<load, cache, now>>
  BY <1>1 DEF SaveTemplate, TypeInv, local
<1>2. CASE savedAt' = savedAt
  BY <1>2
<1>3. QED
  BY <1>1, <1>2 DEF Next, vars, Render, AnswerAdmin, Boot, Restart, ReadTable, InstallLoad, FailLoad, Tick

\* The clock stands still or ticks, and it ticks only while no load has taken its time.
LEMMA ClockMoves ==
    ASSUME [Next]_vars
    PROVE  \/ now' = now
           \/ /\ now' = now + 1 /\ load' = load
              /\ \A l \in Loads : load[l].stage # "free" => now - load[l].began < MaxLoad
BY DEF Next, vars, local, Render, AnswerAdmin, SaveTemplate, Boot, Restart, ReadTable, InstallLoad, FailLoad, Tick

-----------------------------------------------------------------------------
(* Staleness *)

\* A load in flight began at most MaxLoad ago.
LoadTime(l) == load[l].stage # "free" => load[l].began <= now /\ now - load[l].began <= MaxLoad

\* It has read every edit saved before it began,
LoadFresh(l) ==
    load[l].stage = "read" =>
        \A n \in DOMAIN savedAt : savedAt[n] < load[l].began => n + 1 <= load[l].version

\* and all that it owes the renders which wait for it.
LoadDue(l) ==
    /\ load[l].stage # "free" => load[l].due <= stored
    /\ load[l].stage = "read" => load[l].due <= load[l].version

\* A cache holds every edit saved before the load that filled it can have begun.
CacheFresh(r) ==
    cache[r].there =>
        /\ cache[r].expires <= now + Ttl
        /\ \A n \in DOMAIN savedAt : savedAt[n] + Ttl + MaxLoad < cache[r].expires => n + 1 <= cache[r].version

FreshInv ==
    /\ \A n \in DOMAIN savedAt : savedAt[n] <= now
    /\ \A l \in Loads : LoadTime(l) /\ LoadFresh(l) /\ LoadDue(l)
    /\ \A r \in Replicas : CacheFresh(r)

\* The numbers that these are about.
LEMMA FreshTypes ==
    ASSUME TypeInv
    PROVE  /\ now \in Nat /\ stored \in Nat /\ Due \in Nat
           /\ \A n \in DOMAIN savedAt : n \in Nat /\ savedAt[n] \in Nat
           /\ \A l \in Loads : load[l].began \in Nat /\ load[l].version \in Nat /\ load[l].due \in Nat
           /\ \A r \in Replicas : cache[r].expires \in Nat /\ cache[r].version \in Nat
<1>1. now \in Nat /\ stored \in Nat /\ Due \in Nat /\ \A n \in DOMAIN savedAt : n \in Nat /\ savedAt[n] \in Nat
  BY DueType, BoundsType DEF TypeInv, Versions
<1>2. \A l \in Loads : load[l].began \in Nat /\ load[l].version \in Nat /\ load[l].due \in Nat
  BY BoundsType DEF TypeInv, Load, Versions
<1>3. \A r \in Replicas : cache[r].expires \in Nat /\ cache[r].version \in Nat
  BY BoundsType DEF TypeInv, Entry, Versions
<1>4. QED
  BY <1>1, <1>2, <1>3

\* A render that joins a load is owed no more than the table holds, nor than the
\* load has read: what is due was saved before the load began, the TTL being above zero.
LEMMA JoinedDue ==
    ASSUME TypeInv, VersionInv, FreshInv
    PROVE  /\ Due <= stored
           /\ \A l \in Loads : load[l].stage = "read" => Due <= load[l].version
<1> USE BoundsType, FreshTypes
<1>1. \A n \in Old : n + 1 <= stored
  BY DEF Old, VersionInv
<1>2. ASSUME NEW l \in Loads, load[l].stage = "read", NEW n \in Old PROVE n + 1 <= load[l].version
  <2>1. savedAt[n] + Ttl + MaxLoad <= now /\ n \in DOMAIN savedAt
    BY DEF Old
  <2>2. now - load[l].began <= MaxLoad
    BY <1>2 DEF FreshInv, LoadTime
  <2>3. savedAt[n] < load[l].began
    BY <2>1, <2>2
  <2>4. QED
    BY <1>2, <2>1, <2>3 DEF FreshInv, LoadFresh
<1>3. QED
  BY <1>1, <1>2, DueAtMost

\* A load keeps to its time.
LEMMA LoadTimeStep == ASSUME TypeInv, FreshInv, [Next]_vars, NEW l \in Loads PROVE LoadTime(l)'
<1> USE BoundsType, FreshTypes
<1>1. LoadTime(l)
  BY DEF FreshInv
<1>2. CASE now' = now /\ load'[l].stage = load[l].stage /\ load'[l].began = load[l].began
  BY <1>1, <1>2 DEF LoadTime
<1>3. CASE now' = now + 1 /\ load'[l] = load[l] /\ (load[l].stage # "free" => now - load[l].began < MaxLoad)
  BY <1>1, <1>3 DEF LoadTime
<1>4. CASE load'[l].stage = "free"
  BY <1>4 DEF LoadTime
<1>5. ASSUME NEW r \in Replicas, Render(r), Starts(r, l, load'[l]) PROVE LoadTime(l)'
  BY <1>5 DEF Render, Starts, LoadTime
<1>6. ASSUME NEW r \in Replicas, Render(r), Joins(r, l, load'[l]) PROVE LoadTime(l)'
  BY <1>2, <1>6 DEF Render, Joins
<1>7. ASSUME ReadTable(l), load'[l].began = load[l].began PROVE LoadTime(l)'
  BY <1>1, <1>7 DEF ReadTable, LoadTime
<1>8. ASSUME NEW r \in Replicas, AnswerAdmin(r), load'[l].stage = load[l].stage, load'[l].began = load[l].began
      PROVE  LoadTime(l)'
  BY <1>2, <1>8 DEF AnswerAdmin
<1>9. CASE load'[l] = load[l]
  BY <1>2, <1>3, <1>9, ClockMoves
<1>10. QED
  BY <1>4, <1>5, <1>6, <1>7, <1>8, <1>9, LoadMoves

\* What a load has read stays ahead of what was saved before it began.
LEMMA LoadFreshStep == ASSUME TypeInv, VersionInv, FreshInv, [Next]_vars, NEW l \in Loads PROVE LoadFresh(l)'
<1> USE BoundsType, FreshTypes
<1>1. LoadFresh(l) /\ LoadTime(l)
  BY DEF FreshInv
<1>2. CASE /\ load'[l].stage = load[l].stage /\ load'[l].began = load[l].began
           /\ load'[l].version = load[l].version
  <2> SUFFICES ASSUME load[l].stage = "read", NEW n \in DOMAIN savedAt', savedAt'[n] < load[l].began
               PROVE  n + 1 <= load[l].version
    BY <1>2 DEF LoadFresh
  <2>1. savedAt'[n] # now
    BY <1>1 DEF LoadTime
  <2>2. n \in DOMAIN savedAt /\ savedAt[n] < load[l].began
    BY <2>1, SavesMove
  <2>3. QED
    BY <1>1, <2>2 DEF LoadFresh
<1>3. CASE load'[l].stage # "read"
  BY <1>3 DEF LoadFresh
<1>4. ASSUME ReadTable(l), load'[l].version = stored PROVE LoadFresh(l)'
  BY <1>4 DEF ReadTable, LoadFresh, VersionInv
<1>5. ASSUME NEW r \in Replicas, Render(r), Joins(r, l, load'[l]) PROVE LoadFresh(l)'
  BY <1>2, <1>5 DEF Joins
<1>6. ASSUME NEW r \in Replicas, Render(r), Starts(r, l, load'[l]) PROVE LoadFresh(l)'
  BY <1>3, <1>6 DEF Starts
<1>7. QED
  BY <1>2, <1>3, <1>4, <1>5, <1>6, LoadMoves

\* A load never owes more than the table holds, nor than it has read.
LEMMA LoadDueStep == ASSUME TypeInv, VersionInv, FreshInv, [Next]_vars, NEW l \in Loads PROVE LoadDue(l)'
<1> USE BoundsType, FreshTypes
<1>1. LoadDue(l) /\ stored' >= stored /\ stored' \in Nat
  BY TypeStep, StoredGrows DEF FreshInv, TypeInv, Versions
<1>2. CASE /\ load'[l].stage = load[l].stage /\ load'[l].version = load[l].version
           /\ load'[l].due = load[l].due
  BY <1>1, <1>2 DEF LoadDue
<1>3. CASE load'[l].stage = "free"
  BY <1>3 DEF LoadDue
<1>4. ASSUME NEW r \in Replicas, Render(r), Starts(r, l, load'[l]) PROVE LoadDue(l)'
  <2>1. load'[l].stage = "asked" /\ load'[l].due = Due /\ Due <= stored
    BY <1>4, JoinedDue DEF Starts
  <2>2. QED
    BY <1>1, <2>1 DEF LoadDue
<1>5. ASSUME NEW r \in Replicas, Render(r), Joins(r, l, load'[l]) PROVE LoadDue(l)'
  <2>1. /\ load'[l].stage = load[l].stage /\ load'[l].version = load[l].version
        /\ load'[l].due = Later(load[l].due, Due)
    BY <1>5 DEF Joins
  <2>2. load'[l].due = load[l].due \/ load'[l].due = Due
    BY <2>1 DEF Later
  <2>3. QED
    BY <1>1, <2>1, <2>2, JoinedDue DEF LoadDue
<1>6. ASSUME ReadTable(l), load'[l].stage = "read", load'[l].version = stored, load'[l].due = load[l].due
      PROVE  LoadDue(l)'
  BY <1>1, <1>6 DEF ReadTable, LoadDue
<1>7. CASE load'[l] = load[l]
  BY <1>2, <1>7
<1>8. QED
  BY <1>2, <1>3, <1>4, <1>5, <1>6, <1>7, LoadMoves

\* A cache stays ahead of what was saved before the load that filled it can have begun.
LEMMA CacheFreshStep ==
    ASSUME TypeInv, FlightInv, FreshInv, [Next]_vars, NEW r \in Replicas
    PROVE  CacheFresh(r)'
<1> USE BoundsType, FreshTypes
<1>1. CASE cache'[r] = cache[r]
  <2>1. CacheFresh(r)
    BY DEF FreshInv
  <2> SUFFICES ASSUME cache[r].there
               PROVE  /\ cache[r].expires <= now' + Ttl
                      /\ \A n \in DOMAIN savedAt' :
                            savedAt'[n] + Ttl + MaxLoad < cache[r].expires => n + 1 <= cache[r].version
    BY <1>1 DEF CacheFresh
  <2>2. cache[r].expires <= now + Ttl
    BY <2>1 DEF CacheFresh
  <2>3. cache[r].expires <= now' + Ttl
    BY <2>2, ClockMoves
  <2>4. ASSUME NEW n \in DOMAIN savedAt', savedAt'[n] + Ttl + MaxLoad < cache[r].expires
        PROVE  n + 1 <= cache[r].version
    <3>1. savedAt'[n] # now
      BY <2>2, <2>4
    <3>2. n \in DOMAIN savedAt /\ savedAt[n] + Ttl + MaxLoad < cache[r].expires
      BY <2>4, <3>1, SavesMove
    <3>3. QED
      BY <2>1, <3>2 DEF CacheFresh
  <2>5. QED
    BY <2>3, <2>4
<1>2. CASE cache'[r].there = FALSE
  BY <1>2 DEF CacheFresh
<1>3. ASSUME NEW l \in Loads, InstallLoad(l), load[l].stage = "read",
             cache'[r].version = load[l].version, cache'[r].expires = now + Ttl
      PROVE  CacheFresh(r)'
  <2>1. now' = now /\ savedAt' = savedAt
    BY <1>3 DEF InstallLoad
  <2>2. now - load[l].began <= MaxLoad
    BY <1>3 DEF FreshInv, LoadTime
  <2>3. ASSUME NEW n \in DOMAIN savedAt, savedAt[n] + Ttl + MaxLoad < now + Ttl PROVE n + 1 <= load[l].version
    <3>1. savedAt[n] < load[l].began
      BY <2>2, <2>3
    <3>2. QED
      BY <1>3, <3>1 DEF FreshInv, LoadFresh
  <2>4. QED
    BY <1>3, <2>1, <2>3 DEF CacheFresh
<1>4. QED
  BY <1>1, <1>2, <1>3, CacheMoves

\* Everything said of staleness stays true.
LEMMA FreshStep == TypeInv /\ VersionInv /\ FlightInv /\ FreshInv /\ [Next]_vars => FreshInv'
<1> SUFFICES ASSUME TypeInv, VersionInv, FlightInv, FreshInv, [Next]_vars PROVE FreshInv'
  OBVIOUS
<1>1. ASSUME NEW n \in DOMAIN savedAt' PROVE savedAt'[n] <= now'
  BY FreshTypes, SavesMove, ClockMoves DEF FreshInv
<1>2. QED
  BY <1>1, LoadTimeStep, LoadFreshStep, LoadDueStep, CacheFreshStep DEF FreshInv

\* There is nothing to be stale yet.
LEMMA FreshInit == Init => FreshInv
BY EmptyFields DEF Init, FreshInv, LoadTime, LoadFresh, LoadDue, CacheFresh

\* On every replica, and through a load that was in flight when the cache was
\* dropped too, an edit is shown once the TTL and the duration of a load have
\* passed since it was saved, unless the table cannot be read (CACHE_TTL_MS).
THEOREM StalenessIsBounded == Spec => []StaleOnlyForTtl
<1>1. TypeInv /\ FreshInv => StaleOnlyForTtl
  <2> SUFFICES ASSUME TypeInv, FreshInv PROVE StaleOnlyForTtl
    OBVIOUS
  <2> USE BoundsType, FreshTypes
  <2>1. ASSUME NEW r \in up, Hit(r) PROVE cache[r].version >= Due
    <3>1. r \in Replicas
      BY DEF TypeInv
    <3>2. \A n \in Old : n + 1 <= cache[r].version
      BY <2>1, <3>1 DEF Old, Hit, FreshInv, CacheFresh
    <3>3. QED
      BY <3>1, <3>2, DueAtMost
  <2>2. ASSUME NEW l \in Loads, load[l].stage = "read" PROVE load[l].version >= load[l].due
    BY <2>2 DEF FreshInv, LoadDue
  <2>3. QED
    BY <2>1, <2>2 DEF StaleOnlyForTtl
<1>2. QED
  BY <1>1, TypeInit, TypeStep, VersionInit, VersionStep, FlightInit, FlightStep, FreshInit, FreshStep, PTL DEF Spec

-----------------------------------------------------------------------------
(* Edits show at once where they were made *)

\* A cache that is behind an edit answered by its replica was filled by a load in
\* flight at the time.
CacheAnswers(r) == cache[r].there /\ cache[r].version < answered[r] => cache[r].overtaken

\* So was a load that has read such copy; and no render wants more of it than its
\* replica has answered.
LoadAnswers(l) ==
    load[l].stage # "free" =>
        /\ load[l].wanted <= answered[load[l].at]
        /\ load[l].stage = "read" /\ load[l].version < answered[load[l].at] => load[l].overtaken

AnswerInv ==
    /\ \A r \in Replicas : CacheAnswers(r)
    /\ \A l \in Loads : LoadAnswers(l)

\* Only the answer to an edit changes what a replica has answered; it drops the cache.
LEMMA AnswersMove ==
    ASSUME TypeInv, [Next]_vars, NEW r \in Replicas
    PROVE  \/ answered'[r] = answered[r]
           \/ AnswerAdmin(r) /\ answered'[r] >= answered[r] /\ cache'[r].there = FALSE
<1>1. ASSUME AnswerAdmin(r) PROVE answered'[r] >= answered[r] /\ cache'[r].there = FALSE
  BY <1>1, EmptyFields, LaterType DEF AnswerAdmin, InvalidateCache, TypeInv
<1>2. ASSUME NEW q \in Replicas, AnswerAdmin(q), q # r PROVE answered'[r] = answered[r]
  BY <1>2 DEF AnswerAdmin, TypeInv
<1>3. CASE answered' = answered
  BY <1>3
<1>4. QED
  BY <1>1, <1>2, <1>3
     DEF Next, vars, local, Render, SaveTemplate, Boot, Restart, ReadTable, InstallLoad, FailLoad, Tick

\* Everything said of answered edits stays true.
LEMMA AnswerStep == TypeInv /\ VersionInv /\ FlightInv /\ AnswerInv /\ [Next]_vars => AnswerInv'
<1> SUFFICES ASSUME TypeInv, VersionInv, FlightInv, AnswerInv, [Next]_vars PROVE AnswerInv'
  OBVIOUS
<1>1. /\ \A r \in Replicas : answered[r] \in Nat /\ answered'[r] \in Nat /\ answered[r] <= stored
      /\ \A l \in Loads : load[l].version \in Nat /\ load[l].wanted \in Nat
  <2>1. \A r \in Replicas : answered[r] \in Nat /\ answered[r] <= stored
    BY DEF TypeInv, Versions, VersionInv, AdminInv
  <2>2. \A r \in Replicas : answered'[r] \in Nat
    BY TypeStep DEF TypeInv, Versions
  <2>3. \A l \in Loads : load[l].version \in Nat /\ load[l].wanted \in Nat
    BY BoundsType DEF TypeInv, Load, Versions
  <2>4. QED
    BY <2>1, <2>2, <2>3
<1>2. \A l \in Loads : load[l].stage # "free" => load[l].at \in Replicas
  BY DEF TypeInv, Load, FlightInv, PlacedLoad
<1>3. ASSUME NEW r \in Replicas PROVE CacheAnswers(r)'
  <2>1. CASE cache'[r].there = FALSE
    BY <2>1 DEF CacheAnswers
  <2>2. CASE cache'[r] = cache[r]
    <3>1. CacheAnswers(r)
      BY DEF AnswerInv
    <3>2. CASE answered'[r] = answered[r]
      BY <2>2, <3>1, <3>2 DEF CacheAnswers
    <3>3. QED
      BY <2>1, <3>2, AnswersMove
  <2>3. ASSUME NEW l \in Loads, InstallLoad(l), load[l].at = r, load[l].stage = "read",
               cache'[r].version = load[l].version, cache'[r].overtaken = load[l].overtaken
        PROVE  CacheAnswers(r)'
    BY <2>3 DEF InstallLoad, AnswerInv, LoadAnswers, CacheAnswers
  <2>4. QED
    BY <2>1, <2>2, <2>3, CacheMoves
<1>4. ASSUME NEW l \in Loads PROVE LoadAnswers(l)'
  <2>1. LoadAnswers(l)
    BY DEF AnswerInv
  <2>2. ASSUME load[l].stage # "free", load'[l].at = load[l].at, load'[l].stage = load[l].stage,
               load'[l].wanted = load[l].wanted, load'[l].version = load[l].version,
               load'[l].overtaken = TRUE
        PROVE  LoadAnswers(l)'
    <3>1. PICK r \in Replicas : r = load[l].at
      BY <1>2, <2>2
    <3>2. /\ answered[r] \in Nat /\ answered'[r] \in Nat
          /\ (answered'[r] = answered[r] \/ answered'[r] >= answered[r])
      <4>1. answered[r] \in Nat /\ answered'[r] \in Nat
        BY <1>1
      <4>2. answered'[r] = answered[r] \/ answered'[r] >= answered[r]
        BY AnswersMove
      <4>3. QED
        BY <4>1, <4>2
    <3>3. load[l].wanted <= answered[r]
      BY <2>1, <2>2, <3>1 DEF LoadAnswers
    <3>4. load[l].wanted <= answered'[r]
      BY <1>1, <3>2, <3>3
    <3>5. QED
      BY <2>2, <3>1, <3>4 DEF LoadAnswers
  <2>3. CASE load'[l] = load[l]
    <3>1. CASE load[l].stage = "free"
      BY <2>3, <3>1 DEF LoadAnswers
    <3>2. CASE load[l].stage # "free"
      <4> DEFINE r == load[l].at
      <4>1. r \in Replicas
        BY <1>2, <3>2
      <4>2. CASE answered'[r] = answered[r]
        BY <2>1, <2>3, <3>2, <4>2 DEF LoadAnswers
      <4>3. CASE AnswerAdmin(r)
        <5>1. load'[l].overtaken = TRUE
          BY <4>1, <4>3, AnswerLoads
        <5>2. QED
          BY <2>2, <2>3, <3>2, <5>1
      <4>4. QED
        BY <4>1, <4>2, <4>3, AnswersMove
    <3>3. QED
      BY <3>1, <3>2
  <2>4. CASE load'[l].stage = "free"
    BY <2>4 DEF LoadAnswers
  <2>5. ASSUME NEW r \in Replicas, Render(r), Joins(r, l, load'[l]) PROVE LoadAnswers(l)'
    <3>1. answered' = answered /\ load[l].at = r
      BY <2>5 DEF Render, Joins, FlightInv, SharedLoad
    <3>2. load'[l].wanted = load[l].wanted \/ load'[l].wanted = answered[r]
      BY <2>5 DEF Joins, Later
    <3>3. QED
      BY <1>1, <2>1, <2>5, <3>1, <3>2 DEF Joins, LoadAnswers
  <2>6. ASSUME NEW r \in Replicas, Render(r), Starts(r, l, load'[l]) PROVE LoadAnswers(l)'
    BY <1>1, <2>6 DEF Render, Starts, LoadAnswers
  <2>7. ASSUME ReadTable(l), load'[l].at = load[l].at, load'[l].wanted = load[l].wanted, load'[l].version = stored
        PROVE  LoadAnswers(l)'
    <3>1. answered' = answered /\ load[l].stage = "asked"
      BY <2>7 DEF ReadTable
    <3>2. load[l].at \in Replicas
      BY <1>2, <3>1
    <3>3. stored \in Nat /\ ~ stored < answered[load[l].at]
      BY <1>1, <3>2 DEF TypeInv, Versions
    <3>4. QED
      BY <2>1, <2>7, <3>1, <3>3 DEF LoadAnswers
  <2>8. QED
    BY <2>2, <2>3, <2>4, <2>5, <2>6, <2>7, LoadMoves
<1>5. QED
  BY <1>3, <1>4 DEF AnswerInv

\* Nothing is answered yet.
LEMMA AnswerInit == Init => AnswerInv
BY EmptyFields DEF Init, AnswerInv, CacheAnswers, LoadAnswers

\* A render that begins after an edit was answered on its own replica shows
\* that edit or a later one, from the cache as from a load it shares, unless the
\* table cannot be read or the load was already in flight when the cache was
\* dropped (updateMessageTemplate's "takes effect immediately, not after the TTL").
THEOREM EditsShowAtOnce == Spec => []EditShownAtOnce
<1>1. TypeInv /\ FlightInv /\ AnswerInv => EditShownAtOnce
  <2> SUFFICES ASSUME TypeInv, FlightInv, AnswerInv PROVE EditShownAtOnce
    OBVIOUS
  <2>1. ASSUME NEW r \in up, Hit(r) /\ cache[r].version < answered[r] PROVE cache[r].overtaken
    BY <2>1 DEF Hit, AnswerInv, CacheAnswers, TypeInv
  <2>2. ASSUME NEW l \in Loads, load[l].stage = "read" /\ load[l].version < load[l].wanted PROVE load[l].overtaken
    <3>1. load[l].at \in Replicas
      BY <2>2 DEF TypeInv, Load, FlightInv, PlacedLoad
    <3>2. load[l].version \in Nat /\ load[l].wanted \in Nat /\ answered[load[l].at] \in Nat
      BY <3>1, BoundsType DEF TypeInv, Load, Versions
    <3>3. load[l].version < answered[load[l].at]
      BY <2>2, <3>2 DEF AnswerInv, LoadAnswers
    <3>4. QED
      BY <2>2, <3>3 DEF AnswerInv, LoadAnswers
  <2>3. QED
    BY <2>1, <2>2 DEF EditShownAtOnce
<1>2. QED
  BY <1>1, TypeInit, TypeStep, VersionInit, VersionStep, FlightInit, FlightStep, AnswerInit, AnswerStep, PTL DEF Spec

-----------------------------------------------------------------------------
(* No stampede *)

\* A load in flight is the one that the renders of its replica share, or one of
\* those un-shared by the answers to edits: one each.  A load that ends un-shares
\* the next one too, and makes room for it.
CountOf(r) ==
    /\ IsFiniteSet(InFlight(r))
    /\ Cardinality(InFlight(r)) <= invalidated[r] + (IF cachePromise[r] = None THEN 0 ELSE 1)

\* The count follows the loads.
LEMMA CountStep ==
    ASSUME TypeInv, FlightInv, [Next]_vars, NEW r \in Replicas, CountOf(r)
    PROVE  CountOf(r)'
<1>1. /\ load \in [Loads -> Load] /\ cachePromise \in [Replicas -> Loads \cup {None}]
      /\ invalidated[r] \in Nat /\ invalidated \in [Replicas -> Nat]
  BY DEF TypeInv
<1>2. /\ IsFiniteSet(InFlight(r)) /\ Cardinality(InFlight(r)) \in Nat
      /\ Cardinality(InFlight(r)) <= invalidated[r] + (IF cachePromise[r] = None THEN 0 ELSE 1)
  BY FS_CardinalityType DEF CountOf
<1>3. ASSUME InFlight(r)' = InFlight(r), invalidated'[r] = invalidated[r], cachePromise'[r] = cachePromise[r]
      PROVE  CountOf(r)'
  BY <1>2, <1>3 DEF CountOf
<1>4. ASSUME UNCHANGED <<load, invalidated, cachePromise>> PROVE CountOf(r)'
  BY <1>3, <1>4 DEF InFlight
<1>5. ASSUME NEW q \in Replicas, Render(q) PROVE CountOf(r)'
  <2>1. invalidated' = invalidated
    BY <1>5 DEF Render
  <2>2. ASSUME NEW l \in Loads, NEW j \in Load, load' = [load EXCEPT ![l] = j], Joins(q, l, j) PROVE CountOf(r)'
    <3>1. InFlight(r)' = InFlight(r)
      BY <1>1, <2>2 DEF InFlight, Joins
    <3>2. QED
      BY <1>3, <2>1, <2>2, <3>1 DEF Joins
  <2>3. ASSUME NEW l \in Loads, NEW j \in Load, load' = [load EXCEPT ![l] = j], Starts(q, l, j) PROVE CountOf(r)'
    <3>1. load[l].at = None /\ j.at = q /\ cachePromise[q] = None /\ cachePromise' = [cachePromise EXCEPT ![q] = l]
      BY <2>3, EmptyFields DEF Starts
    <3>2. CASE q = r
      <4>1. InFlight(r)' = InFlight(r) \cup {l} /\ l \notin InFlight(r)
        BY <1>1, <2>3, <3>1, <3>2, NobodyType DEF InFlight
      <4>2. IsFiniteSet(InFlight(r)') /\ Cardinality(InFlight(r)') = Cardinality(InFlight(r)) + 1
        BY <1>2, <4>1, FS_AddElement
      <4>3. cachePromise[r] = None /\ cachePromise'[r] # None
        BY <1>1, <3>1, <3>2, NobodyType
      <4>4. QED
        BY <1>1, <1>2, <2>1, <4>2, <4>3 DEF CountOf
    <3>3. CASE q # r
      <4>1. InFlight(r)' = InFlight(r)
        BY <1>1, <2>3, <3>1, <3>3, NobodyType DEF InFlight
      <4>2. QED
        BY <1>1, <1>3, <2>1, <3>1, <3>3, <4>1
    <3>4. QED
      BY <3>2, <3>3
  <2>4. QED
    BY <1>4, <1>5, <2>1, <2>2, <2>3, RenderLoads
<1>6. ASSUME NEW q \in Replicas, AnswerAdmin(q) PROVE CountOf(r)'
  <2>1. InFlight(r)' = InFlight(r)
    <3>1. \A l \in Loads : load'[l].at = load[l].at
      BY <1>6, AnswerLoads
    <3>2. QED
      BY <3>1 DEF InFlight
  <2>2. CASE q = r
    <3>1. invalidated'[r] = invalidated[r] + 1 /\ cachePromise'[r] = None
      BY <1>1, <1>6, <2>2 DEF AnswerAdmin
    <3>2. QED
      BY <1>1, <1>2, <2>1, <3>1 DEF CountOf
  <2>3. CASE q # r
    BY <1>1, <1>3, <1>6, <2>1, <2>3 DEF AnswerAdmin
  <2>4. QED
    BY <2>2, <2>3
<1>7. ASSUME NEW q \in Replicas, Restart(q) PROVE CountOf(r)'
  <2>1. invalidated' = invalidated
    BY <1>7 DEF Restart
  <2>2. \A l \in Loads : load'[l] = IF load[l].at = q THEN NoLoad ELSE load[l]
    BY <1>7 DEF Restart, InFlight
  <2>3. CASE q = r
    <3>1. InFlight(r)' = {}
      BY <2>2, <2>3, EmptyFields, NobodyType DEF InFlight
    <3>2. QED
      BY <1>1, <2>1, <3>1, FS_EmptySet DEF CountOf
  <2>4. CASE q # r
    <3>1. InFlight(r)' = InFlight(r)
      BY <2>2, <2>4, EmptyFields, NobodyType DEF InFlight
    <3>2. QED
      BY <1>1, <1>3, <1>7, <2>1, <2>4, <3>1 DEF Restart
  <2>5. QED
    BY <2>3, <2>4
<1>8. ASSUME NEW l \in Loads, InstallLoad(l) \/ FailLoad(l) PROVE CountOf(r)'
  <2>1. /\ load' = [load EXCEPT ![l] = NoLoad] /\ cachePromise' = [cachePromise EXCEPT ![load[l].at] = None]
        /\ invalidated' = invalidated
    BY <1>8 DEF InstallLoad, FailLoad, Settle
  <2>2. CASE load[l].at = r
    <3>1. InFlight(r)' = InFlight(r) \ {l} /\ l \in InFlight(r)
      BY <1>1, <2>1, <2>2, EmptyFields, NobodyType DEF InFlight
    <3>2. IsFiniteSet(InFlight(r)') /\ Cardinality(InFlight(r)') = Cardinality(InFlight(r)) - 1
      BY <1>2, <3>1, FS_RemoveElement
    <3>3. cachePromise'[r] = None
      BY <1>1, <2>1, <2>2
    <3>4. QED
      BY <1>1, <1>2, <2>1, <3>2, <3>3 DEF CountOf
  <2>3. CASE load[l].at # r
    <3>1. InFlight(r)' = InFlight(r)
      BY <1>1, <2>1, <2>3, EmptyFields, NobodyType DEF InFlight
    <3>2. QED
      BY <1>1, <1>3, <2>1, <2>3, <3>1
  <2>4. QED
    BY <2>2, <2>3
<1>9. ASSUME NEW l \in Loads, ReadTable(l) PROVE CountOf(r)'
  <2>1. PICK j \in Load : load' = [load EXCEPT ![l] = j] /\ j.at = load[l].at
    BY <1>9, ReadLoads
  <2>2. InFlight(r)' = InFlight(r)
    BY <1>1, <2>1 DEF InFlight
  <2>3. QED
    BY <1>3, <1>9, <2>2 DEF ReadTable
<1>10. QED
  BY <1>4, <1>5, <1>6, <1>7, <1>8, <1>9 DEF Next, vars, local, SaveTemplate, Boot, Tick

\* Renders that miss the cache do not stampede the database: a replica has at
\* most one load in flight, and one more for each time its cache was dropped,
\* even though a load that ends un-shares the next one (loadOverrides).
THEOREM NoStampede == Spec => []LoadsBounded
<1> DEFINE CountInv == \A r \in Replicas : CountOf(r)
<1>1. Init => CountInv
  <2> SUFFICES ASSUME Init, NEW r \in Replicas PROVE CountOf(r)
    OBVIOUS
  <2>1. InFlight(r) = {} /\ invalidated[r] = 0
    BY EmptyFields, NobodyType DEF Init, InFlight
  <2>2. QED
    BY <2>1, FS_EmptySet DEF CountOf
<1>2. TypeInv /\ FlightInv /\ CountInv /\ [Next]_vars => CountInv'
  BY CountStep
<1>3. TypeInv /\ CountInv => LoadsBounded
  <2> SUFFICES ASSUME TypeInv, NEW r \in Replicas, CountOf(r) PROVE Cardinality(InFlight(r)) <= 1 + invalidated[r]
    BY DEF LoadsBounded
  <2>1. invalidated[r] \in Nat /\ Cardinality(InFlight(r)) \in Nat
    BY FS_CardinalityType DEF TypeInv, CountOf
  <2>2. QED
    BY <2>1 DEF CountOf
<1> HIDE DEF CountInv
<1>4. QED
  BY <1>1, <1>2, <1>3, TypeInit, TypeStep, FlightInit, FlightStep, PTL DEF Spec

-----------------------------------------------------------------------------
(* The default copy *)

\* The default copy of an event needs no variable its payload may lack, and offers none its
\* payload cannot carry.
TablesAgree(type) ==
    /\ BareVariables[type] \subseteq RequiredFields[type]
    /\ DefaultedVariables[type] \subseteq RequiredFields[type] \cup OptionalFields[type]

\* The events there are.
LEMMA EventTypeNames ==
    EventTypes = {"KYC_PENDING", "KYC_REJECTED", "KYC_APPROVED",
                  "KYC_REVERIFICATION_REQUIRED", "KYC_REVERIFICATION_REQUIRED_ADMIN",
                  "KYC_REVERIFICATION_SUCCESS", "KYC_REVERIFICATION_SUSPENDED",
                  "REMITTANCE_PROCESSING", "REMITTANCE_DELAYED", "REMITTANCE_FAILED",
                  "REMITTANCE_COMPLETED", "LIMIT_WARNING", "FX_ALERT", "TICKET_RECEIVED",
                  "TICKET_RESOLVED", "REFERRAL_JOINED", "REFERRAL_REWARDED", "FDS_ALERT",
                  "NEW_DEVICE_LOGIN", "SUSPICIOUS_TRANSFER", "SYSTEM_DOWNTIME",
                  "AUDIT_SENSITIVE_ACCESS", "AUDIT_ACCOUNT_CREATION", "AUDIT_PERSONAL_DATA",
                  "AUDIT_CUSTOMER_FUNDS", "AUDIT_FX_DEPOSIT"}
BY DEF EventTypes, RequiredFields

\* The tables agree, row by row.
LEMMA TablesOfAll == \A type \in EventTypes : TablesAgree(type)
<1> USE EventTypeNames
        DEF TablesAgree, BareVariables, RequiredFields, DefaultedVariables, OptionalFields
<1>1. TablesAgree("KYC_PENDING")
  OBVIOUS
<1>2. TablesAgree("KYC_REJECTED")
  OBVIOUS
<1>3. TablesAgree("KYC_APPROVED")
  OBVIOUS
<1>4. TablesAgree("KYC_REVERIFICATION_REQUIRED")
  OBVIOUS
<1>5. TablesAgree("KYC_REVERIFICATION_REQUIRED_ADMIN")
  OBVIOUS
<1>6. TablesAgree("KYC_REVERIFICATION_SUCCESS")
  OBVIOUS
<1>7. TablesAgree("KYC_REVERIFICATION_SUSPENDED")
  OBVIOUS
<1>8. TablesAgree("REMITTANCE_PROCESSING")
  OBVIOUS
<1>9. TablesAgree("REMITTANCE_DELAYED")
  OBVIOUS
<1>10. TablesAgree("REMITTANCE_FAILED")
  OBVIOUS
<1>11. TablesAgree("REMITTANCE_COMPLETED")
  OBVIOUS
<1>12. TablesAgree("LIMIT_WARNING")
  OBVIOUS
<1>13. TablesAgree("FX_ALERT")
  OBVIOUS
<1>14. TablesAgree("TICKET_RECEIVED")
  OBVIOUS
<1>15. TablesAgree("TICKET_RESOLVED")
  OBVIOUS
<1>16. TablesAgree("REFERRAL_JOINED")
  OBVIOUS
<1>17. TablesAgree("REFERRAL_REWARDED")
  OBVIOUS
<1>18. TablesAgree("FDS_ALERT")
  OBVIOUS
<1>19. TablesAgree("NEW_DEVICE_LOGIN")
  OBVIOUS
<1>20. TablesAgree("SUSPICIOUS_TRANSFER")
  OBVIOUS
<1>21. TablesAgree("SYSTEM_DOWNTIME")
  OBVIOUS
<1>22. TablesAgree("AUDIT_SENSITIVE_ACCESS")
  OBVIOUS
<1>23. TablesAgree("AUDIT_ACCOUNT_CREATION")
  OBVIOUS
<1>24. TablesAgree("AUDIT_PERSONAL_DATA")
  OBVIOUS
<1>25. TablesAgree("AUDIT_CUSTOMER_FUNDS")
  OBVIOUS
<1>26. TablesAgree("AUDIT_FX_DEPOSIT")
  OBVIOUS
<1> HIDE DEF TablesAgree, BareVariables, RequiredFields, DefaultedVariables, OptionalFields
<1>27. QED
  BY <1>1, <1>2, <1>3, <1>4, <1>5, <1>6, <1>7, <1>8, <1>9, <1>10, <1>11, <1>12, <1>13,
     <1>14, <1>15, <1>16, <1>17, <1>18, <1>19, <1>20, <1>21, <1>22, <1>23, <1>24, <1>25, <1>26, EventTypeNames, Zenon

\* Of every payload that validation accepts, not only of the smallest, the default copy shows
\* every variable that has no default of its own.
LEMMA AcceptedLeavesNoHole ==
    ASSUME NEW type \in EventTypes, NEW fields, Accepts(type, fields)
    PROVE  Holes(BareVariables[type], fields, {}) = {}
BY TablesOfAll DEF TablesAgree, Accepts, Holes

\* No payload that validation accepts leaves a hole in the default copy of its event, and
\* admins are offered only variables a payload can carry (PAYLOAD_SCHEMAS, TEMPLATE_TEXT,
\* interpolate, extractVariables).
THEOREM CopyIsComplete == DefaultCopyIsComplete
BY AcceptedLeavesNoHole, TablesOfAll DEF TablesAgree, Variables, DefaultCopyIsComplete
=============================================================================
