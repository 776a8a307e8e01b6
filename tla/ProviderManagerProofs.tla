------------------------ MODULE ProviderManagerProofs ------------------------
(***************************************************************************)
(* What holds of ProviderManager for every number of requests, operations, *)
(* generations and failures: the reference counts are exact, cleanups do   *)
(* not overlap, close() is complete, and the manager implements            *)
(* Generations.  The inductive invariant is built in layers.               *)
(*                                                                         *)
(* What holds of ResponsesBridge for every number of items, attempts and   *)
(* blocks: a client of the Responses API is told what the upstream said.   *)
(***************************************************************************)
EXTENDS ProviderManager, ResponsesBridge, FiniteSetTheorems, SequenceTheorems, TLAPS

\* TypeOK, except that the reference counts may be any integers.
Typed ==
    /\ current \in Gens
    /\ leases \in [Gens -> Int]
    /\ retired \subseteq Gens /\ cleaned \subseteq Gens /\ owned \subseteq Gens
    /\ pending \in [Gens -> Nat] /\ running \in [Gens -> Nat]
    /\ lease \in [Requests -> Gens \union {0}]
    /\ refreshTask \in Gens \union {0}
    /\ task \in [Gens -> TaskStates]
    /\ unpublished \subseteq Candidates /\ discarded \subseteq Candidates
    /\ failures \in Candidates \union {0}
    /\ lock \in Processes \union {None}
    /\ pc \in [Processes -> PCs]
    /\ kind \in [Ops -> Kinds]
    /\ target \in [Ops -> Gens \union {0}]
    /\ todo \in [Processes -> SUBSET Candidates]
    /\ batch \subseteq Gens
    /\ flop \in BOOLEAN /\ serving \in BOOLEAN
    /\ closing \in BOOLEAN /\ closed \in BOOLEAN

HasLock(p) ==
    \/ pc[p] \in {"cancelling", "discarding", "settling", "discovering"}
    \/ p \in Ops /\ pc[p] = "purging"

\* Who holds _replace_lock, and where close() and startup stand.
Locked ==
    /\ \A p \in Processes : HasLock(p) <=> lock = p
    /\ \A o \in Ops : pc[o] \notin {"draining", "joining"}
    /\ pc[Closer] \notin {"discovering", "discarding", "settling"}
    /\ closing => \A o \in Ops : ~HasLock(o)
    /\ pc[Closer] \in {"cancelling", "draining", "joining", "purging"} => closing
    /\ closed => closing /\ pc[Closer] = "idle"
    /\ ~serving => \A o \in Ops : pc[o] = "idle"

\* The current generation is the last one, the only one not retired, and the
\* only one whose discovery is not on its way out.
Succession ==
    /\ \A g \in Gens : g < current => g \in retired
    /\ \A g \in retired : g <= current
    /\ current \in retired => closing
    /\ pc[Closer] \in {"draining", "joining", "purging"} \/ closed =>
           current \in retired
    /\ refreshTask \in {0, current}
    /\ \A g \in Gens : task[g] \in {"created", "running"} =>
           g = current /\ refreshTask = g /\ ~closing
    /\ \A g \in Gens : task[g] # "none" => g <= current
    /\ \A o \in Ops : pc[o] = "discovering" =>
           target[o] = current /\ (kind[o] = "refresh" => ~TaskLive(current))
    /\ \A o \in Ops : pc[o] = "purging" => ~TaskLive(current)
    /\ ~serving => current = 1 /\ \A g \in Gens : task[g] = "none"
    /\ \A r \in Requests : lease[r] <= current

\* Cleanups are of retired generations that nobody leases, one at a time.
Cleaning ==
    \A g \in Gens :
        /\ pending[g] + running[g] <= 1
        /\ g \in owned <=> (CleanupLive(g) \/ g \in cleaned)
        /\ g \in owned => g \in retired /\ leases[g] = 0
        /\ g \in cleaned => ~CleanupLive(g)

\* How far close() has come.
ShuttingDown ==
    /\ pc[Closer] \in {"draining", "joining"} =>
           /\ batch \subseteq retired
           /\ \A g \in Gens : g <= current => g \in batch \/ g \in cleaned
    /\ pc[Closer] = "joining" =>
           \A g \in batch : flop \/ CleanupLive(g) \/ g \in cleaned
    /\ pc[Closer] = "purging" =>
           \/ flop
           \/ /\ \A g \in Gens : g <= current => g \in cleaned
              /\ unpublished \subseteq todo[Closer]
    /\ closed => /\ \A g \in Gens : g <= current => g \in cleaned
                 /\ unpublished = {}

\* No candidate is lost.
Accounted ==
    /\ \A p \in Processes : todo[p] \subseteq 1..failures
    /\ unpublished \union discarded = 1..failures
    /\ \A o \in Ops : pc[o] = "discarding" => failures > 0

IInv == /\ Typed /\ Locked /\ Succession /\ LeasesCounted /\ Cleaning
        /\ ShuttingDown /\ Accounted

-----------------------------------------------------------------------------
LEMMA GenIds ==
    /\ \A g \in Gens : g \in Nat /\ g > 0
    /\ \A g \in Gens : g < MaxGenerations => g + 1 \in Gens
    /\ 1 \in Gens
BY BoundsAssumption DEF Gens

-----------------------------------------------------------------------------
LEMMA CleanupTypes ==
    ASSUME Typed, NEW gens \in SUBSET Gens, CloseGenerations(gens)
    PROVE  /\ owned' \subseteq Gens /\ pending' \in [Gens -> Nat]
           /\ UNCHANGED <<cleaned, running>>
           /\ \A g \in Gens : pending'[g] >= pending[g]
BY DEF Typed, CloseGenerations

\* Every step keeps the types.
LEMMA TypedStep == ASSUME Typed, Accounted, [Next]_vars PROVE Typed'
<1> USE GenIds, NamesAssumption
    DEF Typed, Processes, PCs, Kinds, TaskStates, genVars, cleanupVars,
        refreshVars, candidateVars, closeVars, opVars
<1>0. \A o \in Ops : pc[o] = "discarding" => failures \in Candidates
  BY DEF Accounted, Candidates
<1>1. ASSUME NEW r \in Requests, Acquire(r) PROVE Typed'
  BY <1>1 DEF Acquire
<1>2. ASSUME NEW r \in Requests, Release(r) PROVE Typed'
  BY <1>2, CleanupTypes DEF Release, ReleaseLease
<1>3. ASSUME NEW o \in Ops, NEW k \in Kinds, Call(o, k) PROVE Typed'
  BY <1>3 DEF Call, GoesTo
<1>4. ASSUME NEW o \in Ops, Refused(o) PROVE Typed'
  BY <1>4 DEF Refused, GoesTo
<1>5. ASSUME NEW o \in Ops, Granted(o) PROVE Typed'
  BY <1>5 DEF Granted, CancelRefresh, GoesTo
<1>6. ASSUME NEW o \in Ops, ReplaceGoesOn(o) PROVE Typed'
  BY <1>6 DEF ReplaceGoesOn, GoesTo
<1>7. ASSUME NEW o \in Ops, RefreshGoesOn(o) PROVE Typed'
  BY <1>7 DEF RefreshGoesOn, GoesTo
<1>8. ASSUME NEW o \in Ops, Discovered(o) PROVE Typed'
  BY <1>8, CleanupTypes DEF Discovered, Returns, GoesTo, ReleaseLease
<1>9. ASSUME NEW o \in Ops, FactoryFails(o) PROVE Typed'
  BY <1>9 DEF FactoryFails, Returns, GoesTo
<1>10. ASSUME NEW o \in Ops, CommitFails(o) PROVE Typed'
  BY <1>10, BoundsAssumption DEF CommitFails, GoesTo, Candidates
<1>11. ASSUME NEW o \in Ops, Publish(o) PROVE Typed'
  BY <1>11, CleanupTypes DEF Publish, Returns, GoesTo
<1>12. ASSUME NEW o \in Ops, Settled(o) PROVE Typed'
  BY <1>12 DEF Settled, Returns, GoesTo
<1>13. ASSUME NEW o \in Ops, NEW ok \in BOOLEAN, Discard(o, ok) PROVE Typed'
  BY <1>13, <1>0 DEF Discard, Discards, Returns, GoesTo
<1>14. ASSUME NEW g \in Gens, CleanupBegins(g) PROVE Typed'
  BY <1>14 DEF CleanupBegins
<1>15. ASSUME NEW g \in Gens, CleanupSucceeds(g) PROVE Typed'
  BY <1>15 DEF CleanupSucceeds
<1>16. ASSUME NEW g \in Gens, CleanupFails(g) PROVE Typed'
  BY <1>16 DEF CleanupFails
<1>17. ASSUME NEW g \in Gens, RefreshBegins(g) PROVE Typed'
  BY <1>17 DEF RefreshBegins
<1>18. ASSUME NEW g \in Gens, RefreshEnds(g) PROVE Typed'
  BY <1>18, CleanupTypes DEF RefreshEnds, ReleaseLease
<1>19. ASSUME NEW p \in Processes, NEW c \in Candidates, NEW ok \in BOOLEAN, Purge(p, c, ok)
        PROVE Typed'
  BY <1>19 DEF Purge, Discards
<1>20. ASSUME NEW p \in Processes, Cancel(p) PROVE Typed'
  BY <1>20 DEF Cancel, GoesTo
<1>21. ASSUME StartModelListRefresh PROVE Typed'
  BY <1>21 DEF StartModelListRefresh
<1>22. ASSUME Close PROVE Typed'
  BY <1>22 DEF Close, GoesTo
<1>23. ASSUME CloseGranted PROVE Typed'
  BY <1>23 DEF CloseGranted, CancelRefresh, GoesTo
<1>24. ASSUME CloseRetires PROVE Typed'
  BY <1>24 DEF CloseRetires, GoesTo
<1>25. ASSUME CloseDrained PROVE Typed'
  BY <1>25, CleanupTypes DEF CloseDrained, GoesTo
<1>26. ASSUME CloseJoined PROVE Typed'
  BY <1>26 DEF CloseJoined, GoesTo
<1>27. ASSUME CloseEnds PROVE Typed'
  BY <1>27 DEF CloseEnds, GoesTo
<1>28. ASSUME UNCHANGED vars PROVE Typed'
  BY <1>28 DEF vars
<1>29. ASSUME NEW o \in Ops, OpStep(o) PROVE Typed'
  BY <1>29, <1>3, <1>4, <1>5, <1>6, <1>7, <1>8, <1>9, <1>10, <1>11, <1>12, <1>13
  DEF OpStep
<1>30. ASSUME NEW g \in Gens, GenStep(g) PROVE Typed'
  BY <1>30, <1>14, <1>15, <1>16, <1>17, <1>18 DEF GenStep
<1>31. ASSUME CloseStep PROVE Typed'
  BY <1>31, <1>22, <1>23, <1>24, <1>25, <1>26, <1>27 DEF CloseStep
<1> QED
  BY <1>1, <1>2, <1>19, <1>20, <1>21, <1>28, <1>29, <1>30, <1>31 DEF Next, Terminated

-----------------------------------------------------------------------------
\* Every step keeps the lock where it belongs.
LEMMA LockedStep == ASSUME Typed, Typed', Locked, [Next]_vars PROVE Locked'
<1> USE NamesAssumption
    DEF Typed, Processes, PCs, Kinds, Locked, HasLock,
        genVars, cleanupVars, refreshVars, candidateVars, closeVars, opVars
<1>1. ASSUME NEW r \in Requests, Acquire(r) PROVE Locked'
  BY <1>1 DEF Acquire
<1>2. ASSUME NEW r \in Requests, Release(r) PROVE Locked'
  BY <1>2 DEF Release
<1>3. ASSUME NEW o \in Ops, NEW k \in Kinds, Call(o, k) PROVE Locked'
  BY <1>3 DEF Call, GoesTo
<1>4. ASSUME NEW o \in Ops, Refused(o) PROVE Locked'
  BY <1>4 DEF Refused, GoesTo
<1>5. ASSUME NEW o \in Ops, Granted(o) PROVE Locked'
  BY <1>5 DEF Granted, CancelRefresh, GoesTo
<1>6. ASSUME NEW o \in Ops, ReplaceGoesOn(o) PROVE Locked'
  BY <1>6 DEF ReplaceGoesOn, GoesTo
<1>7. ASSUME NEW o \in Ops, RefreshGoesOn(o) PROVE Locked'
  BY <1>7 DEF RefreshGoesOn, GoesTo
<1>8. ASSUME NEW o \in Ops, Discovered(o) PROVE Locked'
  BY <1>8 DEF Discovered, Returns, GoesTo
<1>9. ASSUME NEW o \in Ops, FactoryFails(o) PROVE Locked'
  BY <1>9 DEF FactoryFails, Returns, GoesTo
<1>10. ASSUME NEW o \in Ops, CommitFails(o) PROVE Locked'
  BY <1>10 DEF CommitFails, GoesTo, Candidates
<1>11. ASSUME NEW o \in Ops, Publish(o) PROVE Locked'
  BY <1>11 DEF Publish, Returns, GoesTo
<1>12. ASSUME NEW o \in Ops, Settled(o) PROVE Locked'
  BY <1>12 DEF Settled, Returns, GoesTo
<1>13. ASSUME NEW o \in Ops, NEW ok \in BOOLEAN, Discard(o, ok) PROVE Locked'
  BY <1>13 DEF Discard, Discards, Returns, GoesTo
<1>14. ASSUME NEW g \in Gens, CleanupBegins(g) PROVE Locked'
  BY <1>14 DEF CleanupBegins
<1>15. ASSUME NEW g \in Gens, CleanupSucceeds(g) PROVE Locked'
  BY <1>15 DEF CleanupSucceeds
<1>16. ASSUME NEW g \in Gens, CleanupFails(g) PROVE Locked'
  BY <1>16 DEF CleanupFails
<1>17. ASSUME NEW g \in Gens, RefreshBegins(g) PROVE Locked'
  BY <1>17 DEF RefreshBegins
<1>18. ASSUME NEW g \in Gens, RefreshEnds(g) PROVE Locked'
  BY <1>18 DEF RefreshEnds
<1>19. ASSUME NEW p \in Processes, NEW c \in Candidates, NEW ok \in BOOLEAN, Purge(p, c, ok)
        PROVE Locked'
  BY <1>19 DEF Purge, Discards
<1>20. ASSUME NEW p \in Processes, Cancel(p) PROVE Locked'
  BY <1>20 DEF Cancel, GoesTo
<1>21. ASSUME StartModelListRefresh PROVE Locked'
  BY <1>21 DEF StartModelListRefresh
<1>22. ASSUME Close PROVE Locked'
  BY <1>22 DEF Close, GoesTo
<1>23. ASSUME CloseGranted PROVE Locked'
  BY <1>23 DEF CloseGranted, CancelRefresh, GoesTo
<1>24. ASSUME CloseRetires PROVE Locked'
  BY <1>24 DEF CloseRetires, GoesTo
<1>25. ASSUME CloseDrained PROVE Locked'
  BY <1>25 DEF CloseDrained, GoesTo
<1>26. ASSUME CloseJoined PROVE Locked'
  BY <1>26 DEF CloseJoined, GoesTo
<1>27. ASSUME CloseEnds PROVE Locked'
  BY <1>27 DEF CloseEnds, GoesTo
<1>28. ASSUME UNCHANGED vars PROVE Locked'
  BY <1>28 DEF vars
<1>29. ASSUME NEW o \in Ops, OpStep(o) PROVE Locked'
  BY <1>29, <1>3, <1>4, <1>5, <1>6, <1>7, <1>8, <1>9, <1>10, <1>11, <1>12, <1>13
  DEF OpStep
<1>30. ASSUME NEW g \in Gens, GenStep(g) PROVE Locked'
  BY <1>30, <1>14, <1>15, <1>16, <1>17, <1>18 DEF GenStep
<1>31. ASSUME CloseStep PROVE Locked'
  BY <1>31, <1>22, <1>23, <1>24, <1>25, <1>26, <1>27 DEF CloseStep
<1> QED
  BY <1>1, <1>2, <1>19, <1>20, <1>21, <1>28, <1>29, <1>30, <1>31 DEF Next, Terminated

-----------------------------------------------------------------------------
\* Every step keeps the generations in line.
LEMMA SuccessionStep ==
    ASSUME Typed, Typed', Locked, Succession, [Next]_vars PROVE Succession'
<1> USE NamesAssumption, GenIds
    DEF Typed, Processes, PCs, Kinds, TaskStates, Locked, HasLock,
        Succession, TaskLive, genVars, cleanupVars, refreshVars, candidateVars, closeVars, opVars
<1>1. ASSUME NEW r \in Requests, Acquire(r) PROVE Succession'
  BY <1>1 DEF Acquire
<1>2. ASSUME NEW r \in Requests, Release(r) PROVE Succession'
  BY <1>2 DEF Release
<1>3. ASSUME NEW o \in Ops, NEW k \in Kinds, Call(o, k) PROVE Succession'
  BY <1>3 DEF Call, GoesTo
<1>4. ASSUME NEW o \in Ops, Refused(o) PROVE Succession'
  BY <1>4 DEF Refused, GoesTo
<1>5. ASSUME NEW o \in Ops, Granted(o) PROVE Succession'
  BY <1>5 DEF Granted, CancelRefresh, GoesTo
<1>6. ASSUME NEW o \in Ops, ReplaceGoesOn(o) PROVE Succession'
  BY <1>6 DEF ReplaceGoesOn, GoesTo
<1>7. ASSUME NEW o \in Ops, RefreshGoesOn(o) PROVE Succession'
  BY <1>7 DEF RefreshGoesOn, GoesTo
<1>8. ASSUME NEW o \in Ops, Discovered(o) PROVE Succession'
  BY <1>8 DEF Discovered, Returns, GoesTo
<1>9. ASSUME NEW o \in Ops, FactoryFails(o) PROVE Succession'
  BY <1>9 DEF FactoryFails, Returns, GoesTo
<1>10. ASSUME NEW o \in Ops, CommitFails(o) PROVE Succession'
  BY <1>10 DEF CommitFails, GoesTo, Candidates
<1>11. ASSUME NEW o \in Ops, Publish(o) PROVE Succession'
  <2>1. /\ current' = current + 1 /\ current \in Nat /\ current' \in Gens
        /\ retired' = retired \union {current} /\ refreshTask' = current'
        /\ ~closing /\ serving /\ pc[Closer] \notin {"draining", "joining", "purging"}
        /\ ~closed /\ ~TaskLive(current)
        /\ UNCHANGED <<closing, serving, closed, kind, lease>>
    BY <1>11 DEF Publish
  <2>2. \A g \in Gens : task'[g] = IF g = current' THEN "created" ELSE task[g]
    BY <1>11, <2>1 DEF Publish
  <2>3. \A p \in Processes : p # o => pc'[p] = pc[p]
    BY <1>11 DEF Publish, Returns, GoesTo
  <2>4. pc'[o] \in {"settling", "idle"}
    BY <1>11 DEF Publish, Returns, GoesTo
  <2>5. \A x \in Ops : pc'[x] \notin {"discovering", "purging"}
    BY <1>11, <2>3, <2>4 DEF Publish
  <2>6. pc'[Closer] = pc[Closer]
    BY <2>3
  <2> HIDE <1>11
  <2>7. /\ \A g \in Gens : g < current' => g \in retired'
        /\ \A g \in retired' : g <= current'
        /\ current' \notin retired'
    BY <2>1
  <2>8. /\ \A g \in Gens : task'[g] \in {"created", "running"} => g = current'
        /\ \A g \in Gens : task'[g] # "none" => g <= current'
    BY <2>1, <2>2
  <2>9. ASSUME NEW r \in Requests PROVE lease'[r] <= current'
    <3>1. lease' = lease
      BY <2>1
    <3>2. lease[r] \in Gens \union {0}
      OBVIOUS
    <3>3. lease[r] <= current
      OBVIOUS
    <3>4. current' = current + 1 /\ current \in Nat
      BY <2>1
    <3> QED
      BY ONLY GenIds, <3>1, <3>2, <3>3, <3>4
  <2> QED
    BY <2>1, <2>5, <2>6, <2>7, <2>8, <2>9
<1>12. ASSUME NEW o \in Ops, Settled(o) PROVE Succession'
  BY <1>12 DEF Settled, Returns, GoesTo
<1>13. ASSUME NEW o \in Ops, NEW ok \in BOOLEAN, Discard(o, ok)
        PROVE Succession'
  BY <1>13 DEF Discard, Discards, Returns, GoesTo
<1>14. ASSUME NEW g \in Gens, CleanupBegins(g) PROVE Succession'
  BY <1>14 DEF CleanupBegins
<1>15. ASSUME NEW g \in Gens, CleanupSucceeds(g) PROVE Succession'
  BY <1>15 DEF CleanupSucceeds
<1>16. ASSUME NEW g \in Gens, CleanupFails(g) PROVE Succession'
  BY <1>16 DEF CleanupFails
<1>17. ASSUME NEW g \in Gens, RefreshBegins(g) PROVE Succession'
  BY <1>17 DEF RefreshBegins
<1>18. ASSUME NEW g \in Gens, RefreshEnds(g) PROVE Succession'
  BY <1>18 DEF RefreshEnds
<1>19. ASSUME NEW p \in Processes, NEW c \in Candidates, NEW ok \in BOOLEAN, Purge(p, c, ok)
        PROVE Succession'
  BY <1>19 DEF Purge, Discards
<1>20. ASSUME NEW p \in Processes, Cancel(p) PROVE Succession'
  BY <1>20 DEF Cancel, GoesTo
<1>21. ASSUME StartModelListRefresh PROVE Succession'
  BY <1>21 DEF StartModelListRefresh
<1>22. ASSUME Close PROVE Succession'
  BY <1>22 DEF Close, GoesTo
<1>23. ASSUME CloseGranted PROVE Succession'
  BY <1>23 DEF CloseGranted, CancelRefresh, GoesTo
<1>24. ASSUME CloseRetires PROVE Succession'
  BY <1>24 DEF CloseRetires, GoesTo
<1>25. ASSUME CloseDrained PROVE Succession'
  BY <1>25 DEF CloseDrained, GoesTo
<1>26. ASSUME CloseJoined PROVE Succession'
  BY <1>26 DEF CloseJoined, GoesTo
<1>27. ASSUME CloseEnds PROVE Succession'
  BY <1>27 DEF CloseEnds, GoesTo
<1>28. ASSUME UNCHANGED vars PROVE Succession'
  BY <1>28 DEF vars
<1>29. ASSUME NEW o \in Ops, OpStep(o) PROVE Succession'
  BY <1>29, <1>3, <1>4, <1>5, <1>6, <1>7, <1>8, <1>9, <1>10, <1>11, <1>12, <1>13
  DEF OpStep
<1>30. ASSUME NEW g \in Gens, GenStep(g) PROVE Succession'
  BY <1>30, <1>14, <1>15, <1>16, <1>17, <1>18 DEF GenStep
<1>31. ASSUME CloseStep PROVE Succession'
  BY <1>31, <1>22, <1>23, <1>24, <1>25, <1>26, <1>27 DEF CloseStep
<1> QED
  BY <1>1, <1>2, <1>19, <1>20, <1>21, <1>28, <1>29, <1>30, <1>31 DEF Next, Terminated


-----------------------------------------------------------------------------
(* The reference counts. *)

LEMMA CardAdd ==
    ASSUME NEW S, IsFiniteSet(S), NEW x, x \notin S
    PROVE  Cardinality(S \union {x}) = Cardinality(S) + 1
BY FS_AddElement

LEMMA CardRemove ==
    ASSUME NEW S, IsFiniteSet(S), NEW x \in S
    PROVE  Cardinality(S \ {x}) = Cardinality(S) - 1
BY FS_RemoveElement

LEMMA HoldersFinite ==
    ASSUME NEW g
    PROVE  /\ IsFiniteSet(Leased(g)) /\ Cardinality(Leased(g)) \in Nat
           /\ IsFiniteSet(Refreshing(g)) /\ Cardinality(Refreshing(g)) \in Nat
<1>1. Leased(g) \subseteq Requests /\ Refreshing(g) \subseteq Ops
  BY DEF Leased, Refreshing, Discovering
<1> QED
  BY <1>1, FiniteAssumption, FS_Subset, FS_CardinalityType

\* A count of zero means that there is no holder, and none is negative.
LEMMA NoHolder ==
    ASSUME Typed, LeasesCounted, NEW g \in Gens
    PROVE  /\ leases[g] >= 0
           /\ leases[g] = 0 =>
                  /\ \A r \in Requests : lease[r] # g
                  /\ Refreshing(g) = {}
                  /\ ~Background(g)
<1>1. /\ Leased(g) = {} \/ Cardinality(Leased(g)) # 0
      /\ Refreshing(g) = {} \/ Cardinality(Refreshing(g)) # 0
  BY HoldersFinite, FS_EmptySet
<1>2. leases[g] = Cardinality(Leased(g)) + Cardinality(Refreshing(g))
                  + (IF Background(g) THEN 1 ELSE 0)
  BY DEF LeasesCounted
<1>3. /\ leases[g] >= 0
      /\ leases[g] = 0 => Leased(g) = {} /\ Refreshing(g) = {} /\ ~Background(g)
  BY <1>1, <1>2, HoldersFinite
<1> QED
  BY <1>3 DEF Leased

Refreshes(o) == pc[o] = "discovering" /\ kind[o] = "refresh"

\* Nobody takes, gives back or moves a lease.
Quiet ==
    /\ UNCHANGED <<leases, lease>>
    /\ \A g \in Gens : Background(g)' = Background(g)
    /\ \A o \in Ops : Refreshes(o)' = Refreshes(o)
    /\ \A o \in Ops : Refreshes(o) => target'[o] = target[o]

LEMMA QuietCounted == ASSUME LeasesCounted, Quiet PROVE LeasesCounted'
<1> SUFFICES ASSUME NEW g \in Gens
             PROVE  leases'[g] = Cardinality(Leased(g)') + Cardinality(Refreshing(g)')
                                 + (IF Background(g)' THEN 1 ELSE 0)
  BY DEF LeasesCounted
<1>1. Leased(g)' = Leased(g) /\ Background(g)' = Background(g) /\ leases'[g] = leases[g]
  BY DEF Quiet, Leased
<1>2. Refreshing(g)' = Refreshing(g)
  BY DEF Quiet, Refreshes, Refreshing, Discovering
<1>3. leases[g] = Cardinality(Leased(g)) + Cardinality(Refreshing(g))
                  + (IF Background(g) THEN 1 ELSE 0)
  BY DEF LeasesCounted
<1> QED
  BY <1>1, <1>2, <1>3

\* The holders of one generation change; its count follows.
LEMMA OneCountChanges ==
    ASSUME LeasesCounted, NEW g \in Gens, NEW d \in Int,
           leases \in [Gens -> Int],
           leases' = [leases EXCEPT ![g] = @ + d],
           \A h \in Gens \ {g} : /\ Leased(h)' = Leased(h)
                                 /\ Refreshing(h)' = Refreshing(h)
                                 /\ Background(h)' = Background(h),
           Cardinality(Leased(g)') + Cardinality(Refreshing(g)')
             + (IF Background(g)' THEN 1 ELSE 0)
           = Cardinality(Leased(g)) + Cardinality(Refreshing(g))
             + (IF Background(g) THEN 1 ELSE 0) + d
    PROVE  LeasesCounted'
<1> SUFFICES ASSUME NEW h \in Gens
             PROVE  leases'[h] = Cardinality(Leased(h)') + Cardinality(Refreshing(h)')
                                 + (IF Background(h)' THEN 1 ELSE 0)
  BY DEF LeasesCounted
<1>1. leases[h] = Cardinality(Leased(h)) + Cardinality(Refreshing(h))
                  + (IF Background(h) THEN 1 ELSE 0)
  BY DEF LeasesCounted
<1>2. CASE h = g
  BY <1>1, <1>2
<1>3. CASE h # g
  <2>1. leases'[h] = leases[h]
    BY <1>3
  <2> QED
    BY <1>1, <1>3, <2>1
<1> QED
  BY <1>2, <1>3

LEMMA CountedStep ==
    ASSUME Typed, Locked, Succession, LeasesCounted, [Next]_vars
    PROVE  LeasesCounted'
<1> USE NamesAssumption, GenIds
    DEF Typed, Processes, PCs, Kinds, Locked, HasLock, Succession,
        genVars, cleanupVars, refreshVars, candidateVars, closeVars, opVars
<1>1. ASSUME NEW r \in Requests, Acquire(r) PROVE LeasesCounted'
  <2>0. PICK g \in Gens : g = current
    BY <1>1 DEF Acquire
  <2>1. leases' = [leases EXCEPT ![g] = @ + (1)]
    BY <1>1, <2>0 DEF Acquire
  <2>2. \A h \in Gens \ {g} : /\ Leased(h)' = Leased(h)
                            /\ Refreshing(h)' = Refreshing(h)
                            /\ Background(h)' = Background(h)
    BY <1>1, <2>0 DEF Acquire, Leased, Refreshing, Discovering, Background
  <2>3. Leased(g)' = Leased(g) \union {r} /\ r \notin Leased(g)
    BY <1>1, <2>0, GenIds DEF Acquire, Leased
  <2>4. Cardinality(Leased(g)') = Cardinality(Leased(g)) + 1
    BY <2>3, CardAdd, HoldersFinite
  <2>5. Refreshing(g)' = Refreshing(g) /\ Background(g)' = Background(g)
    BY <1>1 DEF Acquire, Refreshing, Discovering, Background
  <2>6. Cardinality(Leased(g)') + Cardinality(Refreshing(g)')
          + (IF Background(g)' THEN 1 ELSE 0)
        = Cardinality(Leased(g)) + Cardinality(Refreshing(g))
          + (IF Background(g) THEN 1 ELSE 0) + (1)
    BY <2>4, <2>5, HoldersFinite
  <2>7. leases \in [Gens -> Int] /\ 1 \in Int
    OBVIOUS
  <2> QED
    BY ONLY LeasesCounted, <2>1, <2>2, <2>6, <2>7, OneCountChanges
<1>2. ASSUME NEW r \in Requests, Release(r) PROVE LeasesCounted'
  <2>0. PICK g \in Gens : g = lease[r]
    BY <1>2 DEF Release
  <2>1. leases' = [leases EXCEPT ![g] = @ + (-1)]
    BY <1>2, <2>0 DEF Release, ReleaseLease
  <2>2. \A h \in Gens \ {g} : /\ Leased(h)' = Leased(h)
                            /\ Refreshing(h)' = Refreshing(h)
                            /\ Background(h)' = Background(h)
    BY <1>2, <2>0
    DEF Release, ReleaseLease, Leased, Refreshing, Discovering, Background
  <2>3. Leased(g)' = Leased(g) \ {r} /\ r \in Leased(g)
    BY <1>2, <2>0, GenIds DEF Release, Leased
  <2>4. Cardinality(Leased(g)') = Cardinality(Leased(g)) - 1
    BY <2>3, CardRemove, HoldersFinite
  <2>5. Refreshing(g)' = Refreshing(g) /\ Background(g)' = Background(g)
    BY <1>2 DEF Release, Refreshing, Discovering, Background
  <2>6. Cardinality(Leased(g)') + Cardinality(Refreshing(g)')
          + (IF Background(g)' THEN 1 ELSE 0)
        = Cardinality(Leased(g)) + Cardinality(Refreshing(g))
          + (IF Background(g) THEN 1 ELSE 0) + (-1)
    BY <2>4, <2>5, HoldersFinite
  <2>7. leases \in [Gens -> Int] /\ -1 \in Int
    OBVIOUS
  <2> QED
    BY ONLY LeasesCounted, <2>1, <2>2, <2>6, <2>7, OneCountChanges
<1>3. ASSUME NEW o \in Ops, NEW k \in Kinds, Call(o, k) PROVE LeasesCounted'
  <2>1. Quiet
    BY <1>3 DEF Quiet, Refreshes, Background, Call, GoesTo
  <2> QED
    BY <2>1, QuietCounted
<1>4. ASSUME NEW o \in Ops, Refused(o) PROVE LeasesCounted'
  <2>1. Quiet
    BY <1>4 DEF Quiet, Refreshes, Background, Refused, GoesTo
  <2> QED
    BY <2>1, QuietCounted
<1>5. ASSUME NEW o \in Ops, Granted(o) PROVE LeasesCounted'
  <2>1. Quiet
    BY <1>5 DEF Quiet, Refreshes, Background, Granted, CancelRefresh, GoesTo
  <2> QED
    BY <2>1, QuietCounted
<1>6. ASSUME NEW o \in Ops, ReplaceGoesOn(o) PROVE LeasesCounted'
  <2>1. Quiet
    BY <1>6 DEF Quiet, Refreshes, Background, ReplaceGoesOn, GoesTo
  <2> QED
    BY <2>1, QuietCounted
<1>7. ASSUME NEW o \in Ops, RefreshGoesOn(o) PROVE LeasesCounted'
  <2>0. PICK g \in Gens : g = current
    BY <1>7 DEF RefreshGoesOn
  <2>1. leases' = [leases EXCEPT ![g] = @ + (1)]
    BY <1>7, <2>0 DEF RefreshGoesOn, GoesTo
  <2>2. \A h \in Gens \ {g} : /\ Leased(h)' = Leased(h)
                            /\ Refreshing(h)' = Refreshing(h)
                            /\ Background(h)' = Background(h)
    BY <1>7, <2>0
    DEF RefreshGoesOn, GoesTo, Leased, Refreshing, Discovering, Background
  <2>3. Refreshing(g)' = Refreshing(g) \union {o} /\ o \notin Refreshing(g)
    BY <1>7, <2>0 DEF RefreshGoesOn, GoesTo, Refreshing, Discovering
  <2>4. Cardinality(Refreshing(g)') = Cardinality(Refreshing(g)) + 1
    BY <2>3, CardAdd, HoldersFinite
  <2>5. Leased(g)' = Leased(g) /\ Background(g)' = Background(g)
    BY <1>7 DEF RefreshGoesOn, Leased, Background
  <2>6. Cardinality(Leased(g)') + Cardinality(Refreshing(g)')
          + (IF Background(g)' THEN 1 ELSE 0)
        = Cardinality(Leased(g)) + Cardinality(Refreshing(g))
          + (IF Background(g) THEN 1 ELSE 0) + (1)
    BY <2>4, <2>5, HoldersFinite
  <2>7. leases \in [Gens -> Int] /\ 1 \in Int
    OBVIOUS
  <2> QED
    BY ONLY LeasesCounted, <2>1, <2>2, <2>6, <2>7, OneCountChanges
<1>8. ASSUME NEW o \in Ops, Discovered(o) PROVE LeasesCounted'
  <2>q. CASE kind[o] # "refresh"
    <3>1. UNCHANGED <<leases, lease, task, kind>>
      BY <1>8, <2>q DEF Discovered
    <3>2. \A x \in Ops \ {o} : pc'[x] = pc[x] /\ target'[x] = target[x]
      BY <1>8 DEF Discovered, Returns, GoesTo
    <3>3. pc'[o] = "idle" /\ pc[o] = "discovering"
          /\ \A x \in Ops \ {o} : pc[x] # "discovering"
      BY <1>8 DEF Discovered, Returns, GoesTo
    <3>4. Quiet
      BY ONLY <2>q, <3>1, <3>2, <3>3 DEF Quiet, Refreshes, Background
    <3> QED
      BY <3>4, QuietCounted
  <2>. SUFFICES ASSUME kind[o] = "refresh" PROVE LeasesCounted'
    BY <2>q
  <2>0. PICK g \in Gens : g = target[o]
    BY <1>8 DEF Discovered
  <2>1. leases' = [leases EXCEPT ![g] = @ + (-1)]
    BY <1>8, <2>0 DEF Discovered, Returns, GoesTo, ReleaseLease
  <2>2. \A h \in Gens \ {g} : /\ Leased(h)' = Leased(h)
                            /\ Refreshing(h)' = Refreshing(h)
                            /\ Background(h)' = Background(h)
    BY <1>8, <2>0
    DEF Discovered, Returns, GoesTo, ReleaseLease, Leased, Refreshing,
        Discovering, Background
  <2>3. Refreshing(g)' = Refreshing(g) \ {o} /\ o \in Refreshing(g)
    BY <1>8, <2>0 DEF Discovered, Returns, GoesTo, Refreshing, Discovering
  <2>4. Cardinality(Refreshing(g)') = Cardinality(Refreshing(g)) - 1
    BY <2>3, CardRemove, HoldersFinite
  <2>5. Leased(g)' = Leased(g) /\ Background(g)' = Background(g)
    BY <1>8 DEF Discovered, Leased, Background
  <2>6. Cardinality(Leased(g)') + Cardinality(Refreshing(g)')
          + (IF Background(g)' THEN 1 ELSE 0)
        = Cardinality(Leased(g)) + Cardinality(Refreshing(g))
          + (IF Background(g) THEN 1 ELSE 0) + (-1)
    BY <2>4, <2>5, HoldersFinite
  <2>7. leases \in [Gens -> Int] /\ -1 \in Int
    OBVIOUS
  <2> QED
    BY ONLY LeasesCounted, <2>1, <2>2, <2>6, <2>7, OneCountChanges
<1>9. ASSUME NEW o \in Ops, FactoryFails(o) PROVE LeasesCounted'
  <2>1. Quiet
    BY <1>9 DEF Quiet, Refreshes, Background, FactoryFails, Returns, GoesTo
  <2> QED
    BY <2>1, QuietCounted
<1>10. ASSUME NEW o \in Ops, CommitFails(o) PROVE LeasesCounted'
  <2>1. Quiet
    BY <1>10 DEF Quiet, Refreshes, Background, CommitFails, GoesTo, Candidates
  <2> QED
    BY <2>1, QuietCounted
<1>11. ASSUME NEW o \in Ops, Publish(o) PROVE LeasesCounted'
  <2>1. Quiet
    BY <1>11 DEF Quiet, Refreshes, Background, Publish, Returns, GoesTo
  <2> QED
    BY <2>1, QuietCounted
<1>12. ASSUME NEW o \in Ops, Settled(o) PROVE LeasesCounted'
  <2>1. Quiet
    BY <1>12 DEF Quiet, Refreshes, Background, Settled, Returns, GoesTo
  <2> QED
    BY <2>1, QuietCounted
<1>13. ASSUME NEW o \in Ops, NEW ok \in BOOLEAN, Discard(o, ok)
        PROVE LeasesCounted'
  <2>1. Quiet
    BY <1>13 DEF Quiet, Refreshes, Background, Discard, Discards, Returns, GoesTo
  <2> QED
    BY <2>1, QuietCounted
<1>14. ASSUME NEW g \in Gens, CleanupBegins(g) PROVE LeasesCounted'
  <2>1. Quiet
    BY <1>14 DEF Quiet, Refreshes, Background, CleanupBegins
  <2> QED
    BY <2>1, QuietCounted
<1>15. ASSUME NEW g \in Gens, CleanupSucceeds(g) PROVE LeasesCounted'
  <2>1. Quiet
    BY <1>15 DEF Quiet, Refreshes, Background, CleanupSucceeds
  <2> QED
    BY <2>1, QuietCounted
<1>16. ASSUME NEW g \in Gens, CleanupFails(g) PROVE LeasesCounted'
  <2>1. Quiet
    BY <1>16 DEF Quiet, Refreshes, Background, CleanupFails
  <2> QED
    BY <2>1, QuietCounted
<1>17. ASSUME NEW g \in Gens, RefreshBegins(g) PROVE LeasesCounted'
  <2>0. CASE g \in cleaned
    <3>1. Quiet
      BY <1>17, <2>0 DEF RefreshBegins, Quiet, Refreshes, Background
    <3> QED
      BY <3>1, QuietCounted
  <2>. SUFFICES ASSUME g \notin cleaned PROVE LeasesCounted'
    BY <2>0
  <2>1. leases' = [leases EXCEPT ![g] = @ + (1)]
    BY <1>17 DEF RefreshBegins
  <2>2. \A h \in Gens \ {g} : /\ Leased(h)' = Leased(h)
                            /\ Refreshing(h)' = Refreshing(h)
                            /\ Background(h)' = Background(h)
    BY <1>17 DEF RefreshBegins, Leased, Refreshing, Discovering, Background
  <2>4. ~Background(g) /\ Background(g)'
    BY <1>17 DEF RefreshBegins, Background
  <2>5. Leased(g)' = Leased(g) /\ Refreshing(g)' = Refreshing(g)
    BY <1>17 DEF RefreshBegins, Leased, Refreshing, Discovering
  <2>6. Cardinality(Leased(g)') + Cardinality(Refreshing(g)')
          + (IF Background(g)' THEN 1 ELSE 0)
        = Cardinality(Leased(g)) + Cardinality(Refreshing(g))
          + (IF Background(g) THEN 1 ELSE 0) + (1)
    BY <2>4, <2>5, HoldersFinite
  <2>7. leases \in [Gens -> Int] /\ 1 \in Int
    OBVIOUS
  <2> QED
    BY ONLY LeasesCounted, <2>1, <2>2, <2>6, <2>7, OneCountChanges
<1>18. ASSUME NEW g \in Gens, RefreshEnds(g) PROVE LeasesCounted'
  <2>1. leases' = [leases EXCEPT ![g] = @ + (-1)]
    BY <1>18 DEF RefreshEnds, ReleaseLease
  <2>2. \A h \in Gens \ {g} : /\ Leased(h)' = Leased(h)
                            /\ Refreshing(h)' = Refreshing(h)
                            /\ Background(h)' = Background(h)
    BY <1>18
    DEF RefreshEnds, ReleaseLease, Leased, Refreshing, Discovering, Background
  <2>4. Background(g) /\ ~Background(g)'
    BY <1>18 DEF RefreshEnds, Background
  <2>5. Leased(g)' = Leased(g) /\ Refreshing(g)' = Refreshing(g)
    BY <1>18 DEF RefreshEnds, Leased, Refreshing, Discovering
  <2>6. Cardinality(Leased(g)') + Cardinality(Refreshing(g)')
          + (IF Background(g)' THEN 1 ELSE 0)
        = Cardinality(Leased(g)) + Cardinality(Refreshing(g))
          + (IF Background(g) THEN 1 ELSE 0) + (-1)
    BY <2>4, <2>5, HoldersFinite
  <2>7. leases \in [Gens -> Int] /\ -1 \in Int
    OBVIOUS
  <2> QED
    BY ONLY LeasesCounted, <2>1, <2>2, <2>6, <2>7, OneCountChanges
<1>19. ASSUME NEW p \in Processes, NEW c \in Candidates, NEW ok \in BOOLEAN, Purge(p, c, ok)
        PROVE LeasesCounted'
  <2>1. Quiet
    BY <1>19 DEF Quiet, Refreshes, Background, Purge, Discards
  <2> QED
    BY <2>1, QuietCounted
<1>20. ASSUME NEW p \in Processes, Cancel(p) PROVE LeasesCounted'
  <2>1. Quiet
    BY <1>20 DEF Quiet, Refreshes, Background, Cancel, GoesTo
  <2> QED
    BY <2>1, QuietCounted
<1>21. ASSUME StartModelListRefresh PROVE LeasesCounted'
  <2>1. Quiet
    BY <1>21 DEF Quiet, Refreshes, Background, StartModelListRefresh
  <2> QED
    BY <2>1, QuietCounted
<1>22. ASSUME Close PROVE LeasesCounted'
  <2>1. Quiet
    BY <1>22 DEF Quiet, Refreshes, Background, Close, GoesTo
  <2> QED
    BY <2>1, QuietCounted
<1>23. ASSUME CloseGranted PROVE LeasesCounted'
  <2>1. Quiet
    BY <1>23 DEF Quiet, Refreshes, Background, CloseGranted, CancelRefresh, GoesTo
  <2> QED
    BY <2>1, QuietCounted
<1>24. ASSUME CloseRetires PROVE LeasesCounted'
  <2>1. Quiet
    BY <1>24 DEF Quiet, Refreshes, Background, CloseRetires, GoesTo
  <2> QED
    BY <2>1, QuietCounted
<1>25. ASSUME CloseDrained PROVE LeasesCounted'
  <2>1. Quiet
    BY <1>25 DEF Quiet, Refreshes, Background, CloseDrained, GoesTo
  <2> QED
    BY <2>1, QuietCounted
<1>26. ASSUME CloseJoined PROVE LeasesCounted'
  <2>1. Quiet
    BY <1>26 DEF Quiet, Refreshes, Background, CloseJoined, GoesTo
  <2> QED
    BY <2>1, QuietCounted
<1>27. ASSUME CloseEnds PROVE LeasesCounted'
  <2>1. Quiet
    BY <1>27 DEF Quiet, Refreshes, Background, CloseEnds, GoesTo
  <2> QED
    BY <2>1, QuietCounted
<1>28. ASSUME UNCHANGED vars PROVE LeasesCounted'
  <2>1. Quiet
    BY <1>28 DEF vars, Quiet, Refreshes, Background
  <2> QED
    BY <2>1, QuietCounted
<1> QED
  BY <1>1, <1>2, <1>3, <1>4, <1>5, <1>6, <1>7, <1>8, <1>9, <1>10, <1>11, <1>12,
     <1>13, <1>14, <1>15, <1>16, <1>17, <1>18, <1>19, <1>20, <1>21, <1>22,
     <1>23, <1>24, <1>25, <1>26, <1>27, <1>28
  DEF Next, OpStep, GenStep, CloseStep, Terminated

-----------------------------------------------------------------------------
(* Cleanup. *)

\* Asking for the cleanup of retired generations keeps Cleaning, whatever else
\* the step does, if it takes no lease on a generation that has been cleaned.
LEMMA CleanupAsked ==
    ASSUME Typed, Cleaning, NEW gens \in SUBSET retired, CloseGenerations(gens),
           retired \subseteq retired', leases' \in [Gens -> Int],
           \A g \in owned : leases'[g] = 0
    PROVE  /\ Cleaning'
           /\ \A g \in gens : leases'[g] = 0 => CleanupLive(g)' \/ g \in cleaned'
<1> USE DEF Typed
<1> DEFINE fresh == {g \in gens : g \notin cleaned /\ leases'[g] = 0 /\ g \notin owned}
<1>1. /\ owned' = owned \union fresh /\ cleaned' = cleaned /\ running' = running
      /\ \A g \in Gens :
             pending'[g] = IF g \in fresh THEN pending[g] + 1 ELSE pending[g]
  BY DEF CloseGenerations
<1>2. fresh \subseteq retired /\ \A g \in fresh : leases'[g] = 0 /\ g \notin owned
  OBVIOUS
<1>3. ASSUME NEW g \in gens, leases'[g] = 0 PROVE g \in cleaned \/ g \in fresh \/ g \in owned
  BY <1>3
<1> HIDE DEF fresh
<1>4. ASSUME NEW g \in Gens
      PROVE  /\ pending'[g] + running'[g] <= 1
             /\ g \in owned' <=> (CleanupLive(g)' \/ g \in cleaned')
             /\ g \in owned' => g \in retired' /\ leases'[g] = 0
             /\ g \in cleaned' => ~CleanupLive(g)'
  <2>1. CASE g \in fresh
    BY <1>1, <1>2, <2>1 DEF Cleaning, CleanupLive
  <2>2. CASE g \notin fresh
    BY <1>1, <1>2, <2>2 DEF Cleaning, CleanupLive
  <2> QED
    BY <2>1, <2>2
<1>5. Cleaning'
  BY <1>4 DEF Cleaning
<1> QED
  BY <1>1, <1>3, <1>4, <1>5

\* The last release asks for the cleanup of a retired generation only.
LEMMA ReleaseCleans ==
    ASSUME Typed, LeasesCounted, Cleaning, NEW g \in Gens, leases[g] # 0,
           ReleaseLease(g), UNCHANGED retired
    PROVE  Cleaning'
<1>1. leases' = [leases EXCEPT ![g] = @ - 1] /\ leases \in [Gens -> Int]
  BY DEF ReleaseLease, Typed
<1>2. \A h \in owned : leases'[h] = 0
  BY <1>1 DEF Cleaning, Typed
<1>3. PICK gens \in SUBSET retired : CloseGenerations(gens)
  <2> DEFINE gens == IF leases'[g] = 0 /\ g \in retired /\ ~closing THEN {g} ELSE {}
  <2>1. gens \in SUBSET retired /\ CloseGenerations(gens)
    BY DEF ReleaseLease
  <2> QED
    BY <2>1
<1> QED
  BY ONLY Typed, Cleaning, <1>1, <1>2, <1>3, UNCHANGED retired, CleanupAsked

LEMMA CleaningStep ==
    ASSUME Typed, Typed', Locked, Succession, LeasesCounted, Cleaning,
           ShuttingDown, [Next]_vars
    PROVE  Cleaning'
<1> USE NamesAssumption, GenIds
    DEF Typed, Processes, PCs, Kinds, Locked, HasLock, Succession, Cleaning,
        CleanupLive, genVars, cleanupVars, refreshVars, candidateVars, closeVars, opVars
<1>1. ASSUME NEW r \in Requests, Acquire(r) PROVE Cleaning'
  BY <1>1 DEF Acquire
<1>2. ASSUME NEW r \in Requests, Release(r) PROVE Cleaning'
  <2>1. ReleaseLease(lease[r]) /\ UNCHANGED retired
    BY <1>2 DEF Release
  <2>2. lease[r] \in Gens
    BY <1>2 DEF Release
  <2>3. leases[lease[r]] # 0
    BY ONLY Typed, LeasesCounted, <2>2, <1>2, NoHolder
  <2> QED
    BY ONLY Typed, LeasesCounted, Cleaning, <2>1, <2>2, <2>3, ReleaseCleans
<1>3. ASSUME NEW o \in Ops, NEW k \in Kinds, Call(o, k) PROVE Cleaning'
  BY <1>3 DEF Call, GoesTo
<1>4. ASSUME NEW o \in Ops, Refused(o) PROVE Cleaning'
  BY <1>4 DEF Refused, GoesTo
<1>5. ASSUME NEW o \in Ops, Granted(o) PROVE Cleaning'
  BY <1>5 DEF Granted, CancelRefresh, GoesTo
<1>6. ASSUME NEW o \in Ops, ReplaceGoesOn(o) PROVE Cleaning'
  BY <1>6 DEF ReplaceGoesOn, GoesTo
<1>7. ASSUME NEW o \in Ops, RefreshGoesOn(o) PROVE Cleaning'
  BY <1>7 DEF RefreshGoesOn, GoesTo
<1>8. ASSUME NEW o \in Ops, Discovered(o) PROVE Cleaning'
  <2>1. CASE kind[o] = "refresh"
    <3>1. ReleaseLease(target[o]) /\ UNCHANGED retired
      BY <1>8, <2>1 DEF Discovered
    <3>2. target[o] \in Gens /\ o \in Refreshing(target[o])
      BY <1>8, <2>1 DEF Discovered, Refreshing, Discovering
    <3>3. leases[target[o]] # 0
      BY ONLY Typed, LeasesCounted, <3>2, NoHolder
    <3> QED
      BY ONLY Typed, LeasesCounted, Cleaning, <3>1, <3>2, <3>3, ReleaseCleans
  <2>2. CASE kind[o] # "refresh"
    BY <1>8, <2>2 DEF Discovered
  <2> QED
    BY <2>1, <2>2
<1>9. ASSUME NEW o \in Ops, FactoryFails(o) PROVE Cleaning'
  BY <1>9 DEF FactoryFails, Returns, GoesTo
<1>10. ASSUME NEW o \in Ops, CommitFails(o) PROVE Cleaning'
  BY <1>10 DEF CommitFails, GoesTo, Candidates
<1>11. ASSUME NEW o \in Ops, Publish(o) PROVE Cleaning'
  <2>1. CASE leases[current] = 0
    <3>1. /\ CloseGenerations({current}) /\ leases' = leases
          /\ retired' = retired \union {current}
      BY <1>11, <2>1 DEF Publish
    <3>2. current \notin owned /\ current \notin cleaned /\ ~CleanupLive(current)
      BY <1>11 DEF Publish
    <3>3. /\ owned' = owned \union {current} /\ cleaned' = cleaned
          /\ running' = running
          /\ \A g \in Gens : pending'[g] =
                 IF g = current THEN pending[g] + 1 ELSE pending[g]
      BY <3>1, <3>2, <2>1 DEF CloseGenerations
    <3>4. ASSUME NEW g \in Gens
          PROVE  /\ pending'[g] + running'[g] <= 1
                 /\ g \in owned' <=> (CleanupLive(g)' \/ g \in cleaned')
                 /\ g \in owned' => g \in retired' /\ leases'[g] = 0
                 /\ g \in cleaned' => ~CleanupLive(g)'
      <4>1. CASE g = current
        BY <3>1, <3>2, <3>3, <2>1, <4>1
      <4>2. CASE g # current
        BY <3>1, <3>3, <4>2
      <4> QED
        BY <4>1, <4>2
    <3> QED
      BY <3>4
  <2>2. CASE leases[current] # 0
    BY <1>11, <2>2 DEF Publish
  <2> QED
    BY <2>1, <2>2
<1>12. ASSUME NEW o \in Ops, Settled(o) PROVE Cleaning'
  BY <1>12 DEF Settled, Returns, GoesTo
<1>13. ASSUME NEW o \in Ops, NEW ok \in BOOLEAN, Discard(o, ok) PROVE Cleaning'
  BY <1>13 DEF Discard, Discards, Returns, GoesTo
<1>14. ASSUME NEW g \in Gens, CleanupBegins(g) PROVE Cleaning'
  BY <1>14 DEF CleanupBegins
<1>15. ASSUME NEW g \in Gens, CleanupSucceeds(g) PROVE Cleaning'
  BY <1>15 DEF CleanupSucceeds
<1>16. ASSUME NEW g \in Gens, CleanupFails(g) PROVE Cleaning'
  BY <1>16 DEF CleanupFails
<1>17. ASSUME NEW g \in Gens, RefreshBegins(g) PROVE Cleaning'
  BY <1>17 DEF RefreshBegins
<1>18. ASSUME NEW g \in Gens, RefreshEnds(g) PROVE Cleaning'
  <2>1. ReleaseLease(g) /\ UNCHANGED retired /\ Background(g)
    BY <1>18 DEF RefreshEnds, Background
  <2>2. leases[g] # 0
    BY ONLY Typed, LeasesCounted, g \in Gens, <2>1, NoHolder
  <2> QED
    BY ONLY Typed, LeasesCounted, Cleaning, g \in Gens, <2>1, <2>2, ReleaseCleans
<1>19. ASSUME NEW p \in Processes, NEW c \in Candidates, NEW ok \in BOOLEAN, Purge(p, c, ok)
        PROVE Cleaning'
  BY <1>19 DEF Purge, Discards
<1>20. ASSUME NEW p \in Processes, Cancel(p) PROVE Cleaning'
  BY <1>20 DEF Cancel, GoesTo
<1>21. ASSUME StartModelListRefresh PROVE Cleaning'
  BY <1>21 DEF StartModelListRefresh
<1>22. ASSUME Close PROVE Cleaning'
  BY <1>22 DEF Close, GoesTo
<1>23. ASSUME CloseGranted PROVE Cleaning'
  BY <1>23 DEF CloseGranted, CancelRefresh, GoesTo
<1>24. ASSUME CloseRetires PROVE Cleaning'
  BY <1>24 DEF CloseRetires, GoesTo
<1>25. ASSUME CloseDrained PROVE Cleaning'
  <2>1. CloseGenerations(batch) /\ batch \in SUBSET retired
        /\ UNCHANGED <<retired, leases>>
    BY <1>25 DEF CloseDrained, ShuttingDown
  <2>2. leases' \in [Gens -> Int] /\ \A g \in owned : leases'[g] = 0
    BY <2>1
  <2> QED
    BY ONLY Typed, Cleaning, <2>1, <2>2, CleanupAsked
<1>26. ASSUME CloseJoined PROVE Cleaning'
  BY <1>26 DEF CloseJoined, GoesTo
<1>27. ASSUME CloseEnds PROVE Cleaning'
  BY <1>27 DEF CloseEnds, GoesTo
<1>28. ASSUME UNCHANGED vars PROVE Cleaning'
  BY <1>28 DEF vars
<1> QED
  BY <1>1, <1>2, <1>3, <1>4, <1>5, <1>6, <1>7, <1>8, <1>9, <1>10, <1>11, <1>12,
     <1>13, <1>14, <1>15, <1>16, <1>17, <1>18, <1>19, <1>20, <1>21, <1>22,
     <1>23, <1>24, <1>25, <1>26, <1>27, <1>28
  DEF Next, OpStep, GenStep, CloseStep, Terminated

-----------------------------------------------------------------------------
(* close(). *)

LEMMA ShuttingDownStep ==
    ASSUME Typed, Typed', Locked, Locked', Succession, Cleaning, ShuttingDown,
           Accounted, [Next]_vars
    PROVE  ShuttingDown'
<1> USE NamesAssumption, GenIds
    DEF Typed, Processes, PCs, Kinds, Locked, HasLock, Succession, Cleaning,
        CleanupLive, ShuttingDown, genVars, cleanupVars, refreshVars, candidateVars, closeVars, opVars
<1>1. ASSUME NEW r \in Requests, Acquire(r) PROVE ShuttingDown'
  BY <1>1 DEF Acquire
<1>2. ASSUME NEW r \in Requests, Release(r) PROVE ShuttingDown'
  <2>1. UNCHANGED <<cleaned, running>> /\ \A h \in Gens : pending'[h] >= pending[h]
    BY <1>2, CleanupTypes DEF Release, ReleaseLease
  <2>2. UNCHANGED <<current, retired, closing, batch, flop, closed, pc, todo,
                    unpublished>>
    BY <1>2 DEF Release
  <2>3. \A h \in Gens : CleanupLive(h) => CleanupLive(h)'
    BY <2>1
  <2> HIDE DEF CleanupLive
  <2> QED
    BY <2>1, <2>2, <2>3
<1>3. ASSUME NEW o \in Ops, NEW k \in Kinds, Call(o, k) PROVE ShuttingDown'
  BY <1>3 DEF Call, GoesTo
<1>4. ASSUME NEW o \in Ops, Refused(o) PROVE ShuttingDown'
  BY <1>4 DEF Refused, GoesTo
<1>5. ASSUME NEW o \in Ops, Granted(o) PROVE ShuttingDown'
  BY <1>5 DEF Granted, CancelRefresh, GoesTo
<1>6. ASSUME NEW o \in Ops, ReplaceGoesOn(o) PROVE ShuttingDown'
  BY <1>6 DEF ReplaceGoesOn, GoesTo
<1>7. ASSUME NEW o \in Ops, RefreshGoesOn(o) PROVE ShuttingDown'
  BY <1>7 DEF RefreshGoesOn, GoesTo
<1>8. ASSUME NEW o \in Ops, Discovered(o) PROVE ShuttingDown'
  BY <1>8 DEF Discovered, Returns, GoesTo, CloseGenerations
<1>9. ASSUME NEW o \in Ops, FactoryFails(o) PROVE ShuttingDown'
  BY <1>9 DEF FactoryFails, Returns, GoesTo
<1>10. ASSUME NEW o \in Ops, CommitFails(o) PROVE ShuttingDown'
  BY <1>10 DEF CommitFails, GoesTo, Candidates
<1>11. ASSUME NEW o \in Ops, Publish(o) PROVE ShuttingDown'
  BY <1>11 DEF Publish, Returns, GoesTo, CloseGenerations
<1>12. ASSUME NEW o \in Ops, Settled(o) PROVE ShuttingDown'
  BY <1>12 DEF Settled, Returns, GoesTo
<1>13. ASSUME NEW o \in Ops, NEW ok \in BOOLEAN, Discard(o, ok)
        PROVE ShuttingDown'
  BY <1>13 DEF Discard, Discards, Returns, GoesTo
<1>14. ASSUME NEW g \in Gens, CleanupBegins(g) PROVE ShuttingDown'
  BY <1>14 DEF CleanupBegins
<1>15. ASSUME NEW g \in Gens, CleanupSucceeds(g) PROVE ShuttingDown'
  BY <1>15 DEF CleanupSucceeds
<1>16. ASSUME NEW g \in Gens, CleanupFails(g) PROVE ShuttingDown'
  BY <1>16 DEF CleanupFails
<1>17. ASSUME NEW g \in Gens, RefreshBegins(g) PROVE ShuttingDown'
  BY <1>17 DEF RefreshBegins
<1>18. ASSUME NEW g \in Gens, RefreshEnds(g) PROVE ShuttingDown'
  <2>1. UNCHANGED <<cleaned, running>> /\ \A h \in Gens : pending'[h] >= pending[h]
    BY <1>18, CleanupTypes DEF RefreshEnds, ReleaseLease
  <2>2. UNCHANGED <<current, retired, closing, batch, flop, closed, pc, todo,
                    unpublished>>
    BY <1>18 DEF RefreshEnds
  <2>3. \A h \in Gens : CleanupLive(h) => CleanupLive(h)'
    BY <2>1
  <2> HIDE DEF CleanupLive
  <2> QED
    BY <2>1, <2>2, <2>3
<1>19. ASSUME NEW p \in Processes, NEW c \in Candidates, NEW ok \in BOOLEAN, Purge(p, c, ok)
        PROVE ShuttingDown'
  BY <1>19 DEF Purge, Discards
<1>20. ASSUME NEW p \in Processes, Cancel(p) PROVE ShuttingDown'
  BY <1>20 DEF Cancel, GoesTo
<1>21. ASSUME StartModelListRefresh PROVE ShuttingDown'
  BY <1>21 DEF StartModelListRefresh
<1>22. ASSUME Close PROVE ShuttingDown'
  BY <1>22 DEF Close, GoesTo
<1>23. ASSUME CloseGranted PROVE ShuttingDown'
  BY <1>23 DEF CloseGranted, CancelRefresh, GoesTo
<1>24. ASSUME CloseRetires PROVE ShuttingDown'
  BY <1>24 DEF CloseRetires, GoesTo
<1>25. ASSUME CloseDrained PROVE ShuttingDown'
  BY <1>25 DEF CloseDrained, CloseGenerations, GoesTo
<1>26. ASSUME CloseJoined PROVE ShuttingDown'
  BY <1>26 DEF CloseJoined, GoesTo
<1>27. ASSUME CloseEnds PROVE ShuttingDown'
  BY <1>27 DEF CloseEnds, GoesTo
<1>28. ASSUME UNCHANGED vars PROVE ShuttingDown'
  BY <1>28 DEF vars
<1> QED
  BY <1>1, <1>2, <1>3, <1>4, <1>5, <1>6, <1>7, <1>8, <1>9, <1>10, <1>11, <1>12,
     <1>13, <1>14, <1>15, <1>16, <1>17, <1>18, <1>19, <1>20, <1>21, <1>22,
     <1>23, <1>24, <1>25, <1>26, <1>27, <1>28
  DEF Next, OpStep, GenStep, CloseStep, Terminated

LEMMA AccountedStep ==
    ASSUME Typed, Typed', Locked, ShuttingDown, Accounted, [Next]_vars
    PROVE  Accounted'
<1> USE NamesAssumption, BoundsAssumption
    DEF Typed, Processes, Candidates, PCs, Kinds, Locked, HasLock, Accounted,
        genVars, cleanupVars, refreshVars, candidateVars, closeVars, opVars
<1>1. ASSUME NEW r \in Requests, Acquire(r) PROVE Accounted'
  BY <1>1 DEF Acquire
<1>2. ASSUME NEW r \in Requests, Release(r) PROVE Accounted'
  BY <1>2 DEF Release
<1>3. ASSUME NEW o \in Ops, NEW k \in Kinds, Call(o, k) PROVE Accounted'
  BY <1>3 DEF Call, GoesTo
<1>4. ASSUME NEW o \in Ops, Refused(o) PROVE Accounted'
  BY <1>4 DEF Refused, GoesTo
<1>5. ASSUME NEW o \in Ops, Granted(o) PROVE Accounted'
  BY <1>5 DEF Granted, CancelRefresh, GoesTo
<1>6. ASSUME NEW o \in Ops, ReplaceGoesOn(o) PROVE Accounted'
  BY <1>6 DEF ReplaceGoesOn, GoesTo
<1>7. ASSUME NEW o \in Ops, RefreshGoesOn(o) PROVE Accounted'
  BY <1>7 DEF RefreshGoesOn, GoesTo
<1>8. ASSUME NEW o \in Ops, Discovered(o) PROVE Accounted'
  BY <1>8 DEF Discovered, Returns, GoesTo
<1>9. ASSUME NEW o \in Ops, FactoryFails(o) PROVE Accounted'
  BY <1>9 DEF FactoryFails, Returns, GoesTo
<1>10. ASSUME NEW o \in Ops, CommitFails(o) PROVE Accounted'
  BY <1>10 DEF CommitFails, GoesTo
<1>11. ASSUME NEW o \in Ops, Publish(o) PROVE Accounted'
  BY <1>11 DEF Publish, Returns, GoesTo
<1>12. ASSUME NEW o \in Ops, Settled(o) PROVE Accounted'
  BY <1>12 DEF Settled, Returns, GoesTo
<1>13. ASSUME NEW o \in Ops, NEW ok \in BOOLEAN, Discard(o, ok) PROVE Accounted'
  BY <1>13 DEF Discard, Discards, Returns, GoesTo
<1>14. ASSUME NEW g \in Gens, CleanupBegins(g) PROVE Accounted'
  BY <1>14 DEF CleanupBegins
<1>15. ASSUME NEW g \in Gens, CleanupSucceeds(g) PROVE Accounted'
  BY <1>15 DEF CleanupSucceeds
<1>16. ASSUME NEW g \in Gens, CleanupFails(g) PROVE Accounted'
  BY <1>16 DEF CleanupFails
<1>17. ASSUME NEW g \in Gens, RefreshBegins(g) PROVE Accounted'
  BY <1>17 DEF RefreshBegins
<1>18. ASSUME NEW g \in Gens, RefreshEnds(g) PROVE Accounted'
  BY <1>18 DEF RefreshEnds
<1>19. ASSUME NEW p \in Processes, NEW c \in Candidates, NEW ok \in BOOLEAN, Purge(p, c, ok)
        PROVE Accounted'
  BY <1>19 DEF Purge, Discards
<1>20. ASSUME NEW p \in Processes, Cancel(p) PROVE Accounted'
  BY <1>20 DEF Cancel, GoesTo
<1>21. ASSUME StartModelListRefresh PROVE Accounted'
  BY <1>21 DEF StartModelListRefresh
<1>22. ASSUME Close PROVE Accounted'
  BY <1>22 DEF Close, GoesTo
<1>23. ASSUME CloseGranted PROVE Accounted'
  BY <1>23 DEF CloseGranted, CancelRefresh, GoesTo
<1>24. ASSUME CloseRetires PROVE Accounted'
  BY <1>24 DEF CloseRetires, GoesTo
<1>25. ASSUME CloseDrained PROVE Accounted'
  BY <1>25 DEF CloseDrained, GoesTo
<1>26. ASSUME CloseJoined PROVE Accounted'
  BY <1>26 DEF CloseJoined, GoesTo
<1>27. ASSUME CloseEnds PROVE Accounted'
  BY <1>27 DEF CloseEnds, GoesTo
<1>28. ASSUME UNCHANGED vars PROVE Accounted'
  BY <1>28 DEF vars
<1> QED
  BY <1>1, <1>2, <1>3, <1>4, <1>5, <1>6, <1>7, <1>8, <1>9, <1>10, <1>11, <1>12,
     <1>13, <1>14, <1>15, <1>16, <1>17, <1>18, <1>19, <1>20, <1>21, <1>22,
     <1>23, <1>24, <1>25, <1>26, <1>27, <1>28
  DEF Next, OpStep, GenStep, CloseStep, Terminated

-----------------------------------------------------------------------------
(* Theorems. *)

LEMMA InitEstablishes == ASSUME Init PROVE IInv
<1> USE GenIds, NamesAssumption, BoundsAssumption DEF Init
<1>1. Typed
  <2>1. /\ leases \in [Gens -> Int] /\ lease \in [Requests -> Gens \union {0}]
        /\ pending \in [Gens -> Nat] /\ running \in [Gens -> Nat]
        /\ task \in [Gens -> TaskStates] /\ current \in Gens
    BY DEF TaskStates
  <2>2. /\ pc \in [Processes -> PCs] /\ kind \in [Ops -> Kinds]
        /\ target \in [Ops -> Gens \union {0}]
        /\ todo \in [Processes -> SUBSET Candidates]
    BY DEF PCs, Kinds
  <2> QED
    BY <2>1, <2>2 DEF Typed
<1>2. Locked
  BY DEF Locked, HasLock, Processes
<1>3. Succession
  BY DEF Succession, Processes, TaskLive
<1>4. LeasesCounted
  <2> SUFFICES ASSUME NEW g \in Gens
               PROVE  leases[g] = Cardinality(Leased(g)) + Cardinality(Refreshing(g))
                                  + (IF Background(g) THEN 1 ELSE 0)
    BY DEF LeasesCounted
  <2>1. Leased(g) = {} /\ Refreshing(g) = {} /\ ~Background(g) /\ leases[g] = 0
    BY DEF Leased, Refreshing, Discovering, Background, Processes
  <2> QED
    BY <2>1, FS_EmptySet
<1>5. Cleaning
  BY DEF Cleaning, CleanupLive
<1>6. ShuttingDown /\ Accounted
  BY DEF ShuttingDown, Accounted, Processes
<1> QED
  BY <1>1, <1>2, <1>3, <1>4, <1>5, <1>6 DEF IInv

LEMMA StepKeeps == ASSUME IInv, [Next]_vars PROVE IInv'
<1>1. Typed'
  BY TypedStep DEF IInv
<1>2. Locked'
  BY <1>1, LockedStep DEF IInv
<1>3. Succession' /\ LeasesCounted'
  BY <1>1, SuccessionStep, CountedStep DEF IInv
<1>4. Cleaning' /\ Accounted'
  BY <1>1, CleaningStep, AccountedStep DEF IInv
<1>5. ShuttingDown'
  BY <1>1, <1>2, ShuttingDownStep DEF IInv
<1> QED
  BY <1>1, <1>2, <1>3, <1>4, <1>5 DEF IInv

\* The inductive invariant.
THEOREM Invariance == Spec => []IInv
<1>1. IInv /\ [Next]_vars => IInv'
  BY StepKeeps
<1> QED
  BY InitEstablishes, <1>1, PTL DEF Spec

\* TypeOK, for any number of requests, operations and generations.
THEOREM TypeCorrectness == Spec => []TypeOK
<1>1. IInv => TypeOK
  <2> SUFFICES ASSUME IInv PROVE TypeOK
    OBVIOUS
  <2>1. \A g \in Gens : leases[g] >= 0
    BY NoHolder DEF IInv
  <2>2. Typed
    BY DEF IInv
  <2>3. leases \in [Gens -> Nat]
    BY <2>1, <2>2 DEF Typed
  <2> QED
    BY <2>2, <2>3 DEF Typed, TypeOK
<1> QED
  BY Invariance, <1>1, PTL

\* The reference counts are exact.
THEOREM LeaseCounting == Spec => []LeasesCounted
<1>1. IInv => LeasesCounted
  BY DEF IInv
<1> QED
  BY Invariance, <1>1, PTL

\* Cleanups of a generation do not overlap, and none follows a success.
THEOREM CleanedOnce == Spec => []SingleCleanup
<1>1. IInv => SingleCleanup
  BY DEF IInv, Cleaning, SingleCleanup
<1> QED
  BY Invariance, <1>1, PTL

\* Discovery stays with the current generation.
THEOREM DiscoveryOnCurrent == Spec => []DiscoveryIsCurrent
<1>1. IInv => DiscoveryIsCurrent
  BY DEF IInv, Succession, DiscoveryIsCurrent
<1> QED
  BY Invariance, <1>1, PTL

\* Nothing is left behind a close() that returned normally.
THEOREM CompleteClose == Spec => []CloseIsComplete
<1>1. IInv => CloseIsComplete
  <2> SUFFICES ASSUME IInv, closed PROVE CloseIsComplete
    BY DEF CloseIsComplete
  <2> USE GenIds DEF IInv
  <2>1. \A g \in Gens : g \in cleaned <=> g <= current
    BY DEF ShuttingDown, Cleaning, Succession, Typed
  <2>2. cleaned = 1..current
    <3>1. cleaned \subseteq Gens /\ current \in Gens
      BY DEF Typed
    <3>2. \A g : g \in 1..current <=> g \in Gens /\ g <= current
      BY ONLY <3>1, BoundsAssumption DEF Gens
    <3> QED
      BY ONLY <2>1, <3>1, <3>2
  <2>3. unpublished = {} /\ discarded = 1..failures
    BY DEF ShuttingDown, Accounted
  <2>4. ASSUME NEW g \in Gens PROVE leases[g] = 0 /\ ~TaskLive(g)
    <3>1. CASE g <= current
      <4>1. leases[g] = 0
        BY <2>1, <3>1 DEF Cleaning
      <4>2. ~Background(g)
        BY <4>1, NoHolder
      <4> QED
        BY <4>1, <4>2 DEF Background, TaskLive, Succession, Locked
    <3>2. CASE ~(g <= current)
      <4>1. task[g] = "none" /\ \A r \in Requests : lease[r] # g
        BY <3>2 DEF Succession, Typed
      <4>2. \A o \in Ops : pc[o] # "discovering"
        BY DEF Locked, HasLock, Processes
      <4>3. Leased(g) = {} /\ Refreshing(g) = {} /\ ~Background(g)
        BY <4>1, <4>2 DEF Leased, Refreshing, Discovering, Background
      <4>4. leases[g] = Cardinality(Leased(g)) + Cardinality(Refreshing(g))
                        + (IF Background(g) THEN 1 ELSE 0)
        BY DEF LeasesCounted
      <4> QED
        BY <4>1, <4>3, <4>4, FS_EmptySet DEF TaskLive
    <3> QED
      BY <3>1, <3>2
  <2> QED
    BY <2>2, <2>3, <2>4 DEF CloseIsComplete
<1> QED
  BY Invariance, <1>1, PTL

NothingStarts ==
    closing => /\ current' = current
               /\ \A g \in Gens : leases'[g] <= leases[g]

LEMMA NothingStartsStep ==
    ASSUME Typed, Locked, Succession, [Next]_vars
    PROVE  NothingStarts
<1> USE NamesAssumption, GenIds
    DEF Typed, Processes, PCs, Kinds, Locked, HasLock, Succession,
        NothingStarts, genVars, cleanupVars, refreshVars, candidateVars, closeVars, opVars
<1>1. ASSUME NEW r \in Requests, Acquire(r) PROVE NothingStarts
  BY <1>1 DEF Acquire
<1>2. ASSUME NEW r \in Requests, Release(r) PROVE NothingStarts
  BY <1>2 DEF Release, ReleaseLease
<1>3. ASSUME NEW o \in Ops, NEW k \in Kinds, Call(o, k) PROVE NothingStarts
  BY <1>3 DEF Call, GoesTo
<1>4. ASSUME NEW o \in Ops, Refused(o) PROVE NothingStarts
  BY <1>4 DEF Refused, GoesTo
<1>5. ASSUME NEW o \in Ops, Granted(o) PROVE NothingStarts
  BY <1>5 DEF Granted, CancelRefresh, GoesTo
<1>6. ASSUME NEW o \in Ops, ReplaceGoesOn(o) PROVE NothingStarts
  BY <1>6 DEF ReplaceGoesOn, GoesTo
<1>7. ASSUME NEW o \in Ops, RefreshGoesOn(o) PROVE NothingStarts
  BY <1>7 DEF RefreshGoesOn, GoesTo
<1>8. ASSUME NEW o \in Ops, Discovered(o) PROVE NothingStarts
  BY <1>8 DEF Discovered, Returns, GoesTo, ReleaseLease
<1>9. ASSUME NEW o \in Ops, FactoryFails(o) PROVE NothingStarts
  BY <1>9 DEF FactoryFails, Returns, GoesTo
<1>10. ASSUME NEW o \in Ops, CommitFails(o) PROVE NothingStarts
  BY <1>10 DEF CommitFails, GoesTo, Candidates
<1>11. ASSUME NEW o \in Ops, Publish(o) PROVE NothingStarts
  BY <1>11 DEF Publish, Returns, GoesTo
<1>12. ASSUME NEW o \in Ops, Settled(o) PROVE NothingStarts
  BY <1>12 DEF Settled, Returns, GoesTo
<1>13. ASSUME NEW o \in Ops, NEW ok \in BOOLEAN, Discard(o, ok)
        PROVE NothingStarts
  BY <1>13 DEF Discard, Returns, GoesTo
<1>14. ASSUME NEW g \in Gens, CleanupBegins(g) PROVE NothingStarts
  BY <1>14 DEF CleanupBegins
<1>15. ASSUME NEW g \in Gens, CleanupSucceeds(g) PROVE NothingStarts
  BY <1>15 DEF CleanupSucceeds
<1>16. ASSUME NEW g \in Gens, CleanupFails(g) PROVE NothingStarts
  BY <1>16 DEF CleanupFails
<1>17. ASSUME NEW g \in Gens, RefreshBegins(g) PROVE NothingStarts
  BY <1>17 DEF RefreshBegins
<1>18. ASSUME NEW g \in Gens, RefreshEnds(g) PROVE NothingStarts
  BY <1>18 DEF RefreshEnds, ReleaseLease
<1>19. ASSUME NEW p \in Processes, NEW c \in Candidates, NEW ok \in BOOLEAN, Purge(p, c, ok)
        PROVE NothingStarts
  BY <1>19 DEF Purge
<1>20. ASSUME NEW p \in Processes, Cancel(p) PROVE NothingStarts
  BY <1>20 DEF Cancel, GoesTo
<1>21. ASSUME StartModelListRefresh PROVE NothingStarts
  BY <1>21 DEF StartModelListRefresh
<1>22. ASSUME Close PROVE NothingStarts
  BY <1>22 DEF Close, GoesTo
<1>23. ASSUME CloseGranted PROVE NothingStarts
  BY <1>23 DEF CloseGranted, CancelRefresh, GoesTo
<1>24. ASSUME CloseRetires PROVE NothingStarts
  BY <1>24 DEF CloseRetires, GoesTo
<1>25. ASSUME CloseDrained PROVE NothingStarts
  BY <1>25 DEF CloseDrained, GoesTo
<1>26. ASSUME CloseJoined PROVE NothingStarts
  BY <1>26 DEF CloseJoined, GoesTo
<1>27. ASSUME CloseEnds PROVE NothingStarts
  BY <1>27 DEF CloseEnds, GoesTo
<1>28. ASSUME UNCHANGED vars PROVE NothingStarts
  BY <1>28 DEF vars
<1> QED
  BY <1>1, <1>2, <1>3, <1>4, <1>5, <1>6, <1>7, <1>8, <1>9, <1>10, <1>11, <1>12,
     <1>13, <1>14, <1>15, <1>16, <1>17, <1>18, <1>19, <1>20, <1>21, <1>22,
     <1>23, <1>24, <1>25, <1>26, <1>27, <1>28
  DEF Next, OpStep, GenStep, CloseStep, Terminated

\* Once the manager is closing, nothing is published or leased any more.
THEOREM ClosingStartsNothing == Spec => NothingStartsWhileClosing
<1>1. IInv /\ [Next]_vars => [NothingStarts]_vars
  BY NothingStartsStep DEF IInv
<1> QED
  BY Invariance, <1>1, PTL DEF Spec, NothingStartsWhileClosing, NothingStarts

-----------------------------------------------------------------------------
(* The manager implements Generations. *)

Everyone == Requests \union Ops \union {Refresher}

LEMMA SameStatus ==
    ASSUME UNCHANGED <<current, cleaned, running, retired>>
    PROVE  \A h \in Gens : Status(h)' = Status(h)
BY DEF Status

LEMMA Stutters ==
    ASSUME UNCHANGED <<current, cleaned, running, retired, closing>>,
           \A h \in Gens : UsersOf(h)' = UsersOf(h)
    PROVE  UNCHANGED <<[g \in Gens |-> Status(g)], [g \in Gens |-> UsersOf(g)], closing>>
BY SameStatus

LEMMA Enters ==
    ASSUME NEW u \in Everyone, NEW g \in Gens, ~closing, Status(g) = "current",
           UNCHANGED <<current, cleaned, running, retired, closing>>,
           \A h \in Gens : UsersOf(h)' =
               IF h = g THEN UsersOf(h) \union {u} ELSE UsersOf(h)
    PROVE  G!Next
<1>1. G!Enter(u, g)
  BY SameStatus DEF G!Enter
<1> QED
  BY <1>1 DEF G!Next, Everyone

LEMMA Leaves ==
    ASSUME NEW u \in Everyone, NEW g \in Gens, u \in UsersOf(g),
           UNCHANGED <<current, cleaned, running, retired, closing>>,
           \A h \in Gens : UsersOf(h)' =
               IF h = g THEN UsersOf(h) \ {u} ELSE UsersOf(h)
    PROVE  G!Next
<1>1. G!Leave(u, g)
  BY SameStatus DEF G!Leave
<1> QED
  BY <1>1 DEF G!Next, Everyone

\* Only one generation is current.
LEMMA CurrentStatus ==
    ASSUME Typed, Locked, Succession, Cleaning, ~closing
    PROVE  Status(current) = "current"
<1>1. current \notin retired /\ current \notin owned /\ current \in Gens
  BY DEF Typed, Succession, Cleaning
<1>2. current \notin cleaned /\ ~CleanupLive(current)
  BY <1>1 DEF Cleaning
<1>3. ~(running[current] > 0) /\ current \in Nat
  BY <1>1, <1>2, GenIds DEF CleanupLive, Typed
<1> QED
  BY <1>1, <1>2, <1>3 DEF Status

\* Nobody uses a generation that is being cleaned up or has been.
LEMMA OwnedUnused ==
    ASSUME Typed, Locked, Succession, LeasesCounted, Cleaning, NEW g \in owned
    PROVE  UsersOf(g) = {}
<1>1. g \in Gens /\ leases[g] = 0 /\ g \in retired
  BY DEF Typed, Cleaning
<1>2. Leased(g) = {} /\ Refreshing(g) = {} /\ ~Background(g)
  BY <1>1, NoHolder DEF Leased
<1>3. Discovering(g) = {}
  <2> SUFFICES ASSUME NEW o \in Ops, pc[o] = "discovering", target[o] = g
               PROVE  FALSE
    BY DEF Discovering
  <2>1. g = current /\ HasLock(o)
    BY DEF Succession, HasLock
  <2> QED
    BY <1>1, <2>1 DEF Succession, Locked
<1> QED
  BY <1>2, <1>3 DEF UsersOf

LEMMA ImplementsInit == ASSUME Init PROVE G!Init
<1>1. \A g \in Gens : Status(g) = IF g = 1 THEN "current" ELSE "unborn"
  BY GenIds DEF Init, Status
<1>2. \A g \in Gens : UsersOf(g) = {}
  BY GenIds DEF Init, UsersOf, Leased, Discovering, Background, Processes
<1>3. closing = FALSE
  BY DEF Init
<1> QED
  BY <1>1, <1>2, <1>3 DEF G!Init

GStep == G!Next \/ UNCHANGED <<[g \in Gens |-> Status(g)],
                               [g \in Gens |-> UsersOf(g)], closing>>

LEMMA ImplementsStep ==
    ASSUME Typed, Typed', Locked, Succession, LeasesCounted, Cleaning, [Next]_vars
    PROVE  GStep
<1> USE NamesAssumption, GenIds
    DEF Typed, Processes, PCs, Kinds, Locked, HasLock, Succession,
        genVars, cleanupVars, refreshVars, candidateVars, closeVars, opVars
<1>1. ASSUME NEW r \in Requests, Acquire(r) PROVE GStep
  <2>0. PICK g0 \in Gens : g0 = current
    BY <1>1 DEF Acquire
  <2>1. UNCHANGED <<current, cleaned, running, retired, closing>>
    BY <1>1, CleanupTypes DEF Acquire
  <2>2. ~closing
    BY <1>1 DEF Acquire
  <2>3. g0 = current
    BY <1>1, <2>0 DEF Acquire
  <2>4. Status(g0) = "current"
    BY ONLY Typed, Locked, Succession, Cleaning, <2>2, <2>3, CurrentStatus
  <2>5. \A h \in Gens : UsersOf(h)' =
           IF h = g0 THEN UsersOf(h) \union {r} ELSE UsersOf(h)
    BY <1>1, <2>0 DEF Acquire, UsersOf, Leased, Discovering, Background
  <2>6. r \in Everyone
    BY DEF Everyone
  <2> QED
    BY ONLY g0 \in Gens, <2>2, <2>1, <2>4, <2>5, <2>6, Enters DEF GStep
<1>2. ASSUME NEW r \in Requests, Release(r) PROVE GStep
  <2>r. lease[r] \in Gens
    BY ONLY <1>2, Typed DEF Release, Typed
  <2>0. PICK g0 \in Gens : g0 = lease[r]
    BY <2>r
  <2>1. UNCHANGED <<current, cleaned, running, retired, closing>>
    BY <1>2, CleanupTypes DEF Release, ReleaseLease
  <2>4. r \in UsersOf(g0)
    BY <1>2, <2>0
    DEF Release, ReleaseLease, UsersOf, Leased, Discovering, Background
  <2>5. \A h \in Gens : UsersOf(h)' =
           IF h = g0 THEN UsersOf(h) \ {r} ELSE UsersOf(h)
    BY <1>2, <2>0
    DEF Release, ReleaseLease, UsersOf, Leased, Discovering, Background
  <2>6. r \in Everyone
    BY DEF Everyone
  <2> QED
    BY ONLY g0 \in Gens, <2>1, <2>4, <2>5, <2>6, Leaves DEF GStep
<1>3. ASSUME NEW o \in Ops, NEW k \in Kinds, Call(o, k) PROVE GStep
  <2>1. UNCHANGED <<current, cleaned, running, retired, closing>>
    BY <1>3, CleanupTypes DEF Call, GoesTo
  <2>2. \A h \in Gens : UsersOf(h)' = UsersOf(h)
    BY <1>3 DEF Call, GoesTo, UsersOf, Leased, Discovering, Background
  <2> QED
    BY ONLY <2>1, <2>2, Stutters DEF GStep
<1>4. ASSUME NEW o \in Ops, Refused(o) PROVE GStep
  <2>1. UNCHANGED <<current, cleaned, running, retired, closing>>
    BY <1>4, CleanupTypes DEF Refused, GoesTo
  <2>2. \A h \in Gens : UsersOf(h)' = UsersOf(h)
    BY <1>4 DEF Refused, GoesTo, UsersOf, Leased, Discovering, Background
  <2> QED
    BY ONLY <2>1, <2>2, Stutters DEF GStep
<1>5. ASSUME NEW o \in Ops, Granted(o) PROVE GStep
  <2>a. CASE kind[o] # "connect"
    <3>1. UNCHANGED <<current, cleaned, running, retired, closing>>
      BY <1>5, <2>a, CleanupTypes DEF Granted, GoesTo, CancelRefresh
    <3>2. \A h \in Gens : UsersOf(h)' = UsersOf(h)
      BY <1>5, <2>a
      DEF Granted, GoesTo, CancelRefresh, UsersOf, Leased, Discovering, Background
    <3> QED
      BY ONLY <3>1, <3>2, Stutters DEF GStep
  <2>b. CASE kind[o] = "connect"
    <3>0. PICK g0 \in Gens : g0 = current
      BY <1>5, <2>b DEF Granted, GoesTo
    <3>1. UNCHANGED <<current, cleaned, running, retired, closing>>
      BY <1>5, <2>b, CleanupTypes DEF Granted, GoesTo
    <3>2. ~closing
      BY <1>5, <2>b DEF Granted, GoesTo
    <3>3. g0 = current
      BY <1>5, <2>b, <3>0 DEF Granted, GoesTo
    <3>4. Status(g0) = "current"
      BY ONLY Typed, Locked, Succession, Cleaning, <3>2, <3>3, CurrentStatus
    <3>5. \A h \in Gens : UsersOf(h)' =
             IF h = g0 THEN UsersOf(h) \union {o} ELSE UsersOf(h)
      BY <1>5, <2>b, <3>0
      DEF Granted, GoesTo, UsersOf, Leased, Discovering, Background
    <3>6. o \in Everyone
      BY DEF Everyone
    <3> QED
      BY ONLY g0 \in Gens, <3>2, <3>1, <3>4, <3>5, <3>6, Enters DEF GStep
  <2> QED
    BY <2>a, <2>b
<1>6. ASSUME NEW o \in Ops, ReplaceGoesOn(o) PROVE GStep
  <2>1. UNCHANGED <<current, cleaned, running, retired, closing>>
    BY <1>6, CleanupTypes DEF ReplaceGoesOn, GoesTo
  <2>2. \A h \in Gens : UsersOf(h)' = UsersOf(h)
    BY <1>6 DEF ReplaceGoesOn, GoesTo, UsersOf, Leased, Discovering, Background
  <2> QED
    BY ONLY <2>1, <2>2, Stutters DEF GStep
<1>7. ASSUME NEW o \in Ops, RefreshGoesOn(o) PROVE GStep
  <2>0. PICK g0 \in Gens : g0 = current
    BY <1>7 DEF RefreshGoesOn, GoesTo
  <2>1. UNCHANGED <<current, cleaned, running, retired, closing>>
    BY <1>7, CleanupTypes DEF RefreshGoesOn, GoesTo
  <2>2. ~closing
    BY <1>7 DEF RefreshGoesOn, GoesTo
  <2>3. g0 = current
    BY <1>7, <2>0 DEF RefreshGoesOn, GoesTo
  <2>4. Status(g0) = "current"
    BY ONLY Typed, Locked, Succession, Cleaning, <2>2, <2>3, CurrentStatus
  <2>5. \A h \in Gens : UsersOf(h)' =
           IF h = g0 THEN UsersOf(h) \union {o} ELSE UsersOf(h)
    BY <1>7, <2>0
    DEF RefreshGoesOn, GoesTo, UsersOf, Leased, Discovering, Background
  <2>6. o \in Everyone
    BY DEF Everyone
  <2> QED
    BY ONLY g0 \in Gens, <2>2, <2>1, <2>4, <2>5, <2>6, Enters DEF GStep
<1>8. ASSUME NEW o \in Ops, Discovered(o) PROVE GStep
  <2>0. PICK g0 \in Gens : g0 = target[o]
    BY <1>8 DEF Discovered, Returns, GoesTo, ReleaseLease
  <2>1. UNCHANGED <<current, cleaned, running, retired, closing>>
    BY <1>8, CleanupTypes DEF Discovered, Returns, GoesTo, ReleaseLease
  <2>4. o \in UsersOf(g0)
    BY <1>8, <2>0
    DEF Discovered, Returns, GoesTo, ReleaseLease, UsersOf, Leased, Discovering,
        Background
  <2>5. \A h \in Gens : UsersOf(h)' =
           IF h = g0 THEN UsersOf(h) \ {o} ELSE UsersOf(h)
    BY <1>8, <2>0
    DEF Discovered, Returns, GoesTo, ReleaseLease, UsersOf, Leased, Discovering,
        Background
  <2>6. o \in Everyone
    BY DEF Everyone
  <2> QED
    BY ONLY g0 \in Gens, <2>1, <2>4, <2>5, <2>6, Leaves DEF GStep
<1>9. ASSUME NEW o \in Ops, FactoryFails(o) PROVE GStep
  <2>1. UNCHANGED <<current, cleaned, running, retired, closing>>
    BY <1>9, CleanupTypes DEF FactoryFails, Returns, GoesTo
  <2>2. \A h \in Gens : UsersOf(h)' = UsersOf(h)
    BY <1>9
    DEF FactoryFails, Returns, GoesTo, UsersOf, Leased, Discovering, Background
  <2> QED
    BY ONLY <2>1, <2>2, Stutters DEF GStep
<1>10. ASSUME NEW o \in Ops, CommitFails(o) PROVE GStep
  <2>1. UNCHANGED <<current, cleaned, running, retired, closing>>
    BY <1>10, CleanupTypes DEF CommitFails, GoesTo, Candidates
  <2>2. \A h \in Gens : UsersOf(h)' = UsersOf(h)
    BY <1>10
    DEF CommitFails, GoesTo, Candidates, UsersOf, Leased, Discovering, Background
  <2> QED
    BY ONLY <2>1, <2>2, Stutters DEF GStep
<1>11. ASSUME NEW o \in Ops, Publish(o) PROVE GStep
  <2>1. /\ current' = current + 1 /\ current' \in Gens /\ current \in Gens
        /\ retired' = retired \union {current} /\ closing' = closing /\ ~closing
        /\ UNCHANGED <<cleaned, running>>
    BY <1>11, CleanupTypes DEF Publish
  <2>2. Status(current) = "current"
    BY ONLY Typed, Locked, Succession, Cleaning, <2>1, CurrentStatus
  <2>3. current' \notin cleaned /\ running[current'] = 0 /\ current' \notin retired
    <3>1. current' \notin retired
      BY <2>1
    <3> QED
      BY <2>1, <3>1 DEF Cleaning, CleanupLive
  <2>4. Status(current') = "unborn"
    BY <2>1 DEF Status
  <2>5. \A h \in Gens : UsersOf(h)' = UsersOf(h)
    <3>1. UNCHANGED lease /\ \A h \in Gens : Background(h)' = Background(h)
      BY <1>11, <2>1 DEF Publish, Background
    <3>2. \A x \in Ops : /\ pc[x] # "discovering"
                         /\ pc'[x] # "discovering"
      BY <1>11 DEF Publish, Returns, GoesTo
    <3> QED
      BY <3>1, <3>2 DEF UsersOf, Leased, Discovering
  <2>6. ASSUME NEW h \in Gens
        PROVE  Status(h)' = IF h = current' THEN "current"
                            ELSE IF h = current THEN "retired" ELSE Status(h)
    <3>1. CASE h = current'
      BY <2>1, <2>3, <3>1 DEF Status
    <3>2. CASE h = current
      <4>1. h \notin cleaned /\ ~(running[h] > 0)
        BY <2>1, <2>2, <3>2 DEF Status
      <4> QED
        BY <2>1, <3>2, <4>1 DEF Status
    <3>3. CASE h # current /\ h # current'
      BY <2>1, <3>3 DEF Status
    <3> QED
      BY <3>1, <3>2, <3>3
  <2>7. PICK old \in Gens, new \in Gens : old = current /\ new = current'
    BY <2>1
  <2>8. G!Publish(old, new)
    BY ONLY GenIds, old \in Gens, new \in Gens, <2>1, <2>2, <2>4, <2>5, <2>6, <2>7
       DEF G!Publish
  <2> QED
    BY ONLY old \in Gens, new \in Gens, <2>8 DEF GStep, G!Next
<1>12. ASSUME NEW o \in Ops, Settled(o) PROVE GStep
  <2>1. UNCHANGED <<current, cleaned, running, retired, closing>>
    BY <1>12, CleanupTypes DEF Settled, Returns, GoesTo
  <2>2. \A h \in Gens : UsersOf(h)' = UsersOf(h)
    BY <1>12 DEF Settled, Returns, GoesTo, UsersOf, Leased, Discovering, Background
  <2> QED
    BY ONLY <2>1, <2>2, Stutters DEF GStep
<1>13. ASSUME NEW o \in Ops, NEW ok \in BOOLEAN, Discard(o, ok) PROVE GStep
  <2>1. UNCHANGED <<current, cleaned, running, retired, closing>>
    BY <1>13, CleanupTypes DEF Discard, Discards, Returns, GoesTo
  <2>2. \A h \in Gens : UsersOf(h)' = UsersOf(h)
    BY <1>13
    DEF Discard, Discards, Returns, GoesTo, UsersOf, Leased, Discovering, Background
  <2> QED
    BY ONLY <2>1, <2>2, Stutters DEF GStep
<1>14. ASSUME NEW g \in Gens, CleanupBegins(g) PROVE GStep
  <2>1. g \in owned /\ g \in retired /\ g \notin cleaned /\ running[g] = 0
        /\ g <= current
    BY <1>14 DEF CleanupBegins, Cleaning, CleanupLive
  <2>2. UsersOf(g) = {}
    BY ONLY Typed, Locked, Succession, LeasesCounted, Cleaning, <2>1, OwnedUnused
  <2>3. \A h \in Gens : UsersOf(h)' = UsersOf(h)
    BY <1>14 DEF CleanupBegins, UsersOf, Leased, Discovering, Background
  <2>4. Status(g) = "retired"
    BY <2>1 DEF Status
  <2>5. \A h \in Gens : Status(h)' = IF h = g THEN "cleaning" ELSE Status(h)
    BY <1>14, <2>1 DEF CleanupBegins, Status
  <2>6. closing' = closing
    BY <1>14 DEF CleanupBegins
  <2>7. G!BeginCleanup(g)
    BY ONLY g \in Gens, <2>2, <2>3, <2>4, <2>5, <2>6 DEF G!BeginCleanup
  <2> QED
    BY ONLY g \in Gens, <2>7 DEF GStep, G!Next
<1>15. ASSUME NEW g \in Gens, CleanupSucceeds(g) PROVE GStep
  <2>1. g \in retired /\ g \notin cleaned /\ running[g] = 1 /\ g <= current
    BY <1>15 DEF CleanupSucceeds, Cleaning, CleanupLive
  <2>3. \A h \in Gens : UsersOf(h)' = UsersOf(h)
    BY <1>15 DEF CleanupSucceeds, UsersOf, Leased, Discovering, Background
  <2>4. Status(g) = "cleaning"
    BY <2>1 DEF Status
  <2>5. \A h \in Gens : Status(h)' = IF h = g THEN "cleaned" ELSE Status(h)
    BY <1>15, <2>1 DEF CleanupSucceeds, Status
  <2>6. closing' = closing
    BY <1>15 DEF CleanupSucceeds
  <2>7. G!EndCleanup(g)
    BY ONLY g \in Gens, <2>3, <2>4, <2>5, <2>6 DEF G!EndCleanup
  <2> QED
    BY ONLY g \in Gens, <2>7 DEF GStep, G!Next
<1>16. ASSUME NEW g \in Gens, CleanupFails(g) PROVE GStep
  <2>1. g \in retired /\ g \notin cleaned /\ running[g] = 1 /\ g <= current
    BY <1>16 DEF CleanupFails, Cleaning, CleanupLive
  <2>3. \A h \in Gens : UsersOf(h)' = UsersOf(h)
    BY <1>16 DEF CleanupFails, UsersOf, Leased, Discovering, Background
  <2>4. Status(g) = "cleaning"
    BY <2>1 DEF Status
  <2>5. \A h \in Gens : Status(h)' = IF h = g THEN "retired" ELSE Status(h)
    BY <1>16, <2>1 DEF CleanupFails, Status
  <2>6. closing' = closing
    BY <1>16 DEF CleanupFails
  <2>7. G!EndCleanup(g)
    BY ONLY g \in Gens, <2>3, <2>4, <2>5, <2>6 DEF G!EndCleanup
  <2> QED
    BY ONLY g \in Gens, <2>7 DEF GStep, G!Next
<1>17. ASSUME NEW g \in Gens, RefreshBegins(g) PROVE GStep
  <2>a. CASE g \in cleaned
    <3>1. UNCHANGED <<current, cleaned, running, retired, closing>>
      BY <1>17, <2>a, CleanupTypes DEF RefreshBegins
    <3>2. \A h \in Gens : UsersOf(h)' = UsersOf(h)
      BY <1>17, <2>a DEF RefreshBegins, UsersOf, Leased, Discovering, Background
    <3> QED
      BY ONLY <3>1, <3>2, Stutters DEF GStep
  <2>b. CASE g \notin cleaned
    <3>0. PICK g0 \in Gens : g0 = g
      BY <1>17, <2>b DEF RefreshBegins
    <3>1. UNCHANGED <<current, cleaned, running, retired, closing>>
      BY <1>17, <2>b, CleanupTypes DEF RefreshBegins
    <3>2. ~closing
      BY <1>17, <2>b DEF RefreshBegins
    <3>3. g0 = current
      BY <1>17, <2>b, <3>0 DEF RefreshBegins
    <3>4. Status(g0) = "current"
      BY ONLY Typed, Locked, Succession, Cleaning, <3>2, <3>3, CurrentStatus
    <3>5. \A h \in Gens : UsersOf(h)' =
             IF h = g0 THEN UsersOf(h) \union {Refresher} ELSE UsersOf(h)
      BY <1>17, <2>b, <3>0
      DEF RefreshBegins, UsersOf, Leased, Discovering, Background
    <3>6. Refresher \in Everyone
      BY DEF Everyone
    <3> QED
      BY ONLY g0 \in Gens, <3>2, <3>1, <3>4, <3>5, <3>6, Enters DEF GStep
  <2> QED
    BY <2>a, <2>b
<1>18. ASSUME NEW g \in Gens, RefreshEnds(g) PROVE GStep
  <2>0. PICK g0 \in Gens : g0 = g
    BY <1>18 DEF RefreshEnds, ReleaseLease
  <2>1. UNCHANGED <<current, cleaned, running, retired, closing>>
    BY <1>18, CleanupTypes DEF RefreshEnds, ReleaseLease
  <2>4. Refresher \in UsersOf(g0)
    BY <1>18, <2>0
    DEF RefreshEnds, ReleaseLease, UsersOf, Leased, Discovering, Background
  <2>5. \A h \in Gens : UsersOf(h)' =
           IF h = g0 THEN UsersOf(h) \ {Refresher} ELSE UsersOf(h)
    BY <1>18, <2>0
    DEF RefreshEnds, ReleaseLease, UsersOf, Leased, Discovering, Background
  <2>6. Refresher \in Everyone
    BY DEF Everyone
  <2> QED
    BY ONLY g0 \in Gens, <2>1, <2>4, <2>5, <2>6, Leaves DEF GStep
<1>19. ASSUME NEW p \in Processes, NEW c \in Candidates, NEW ok \in BOOLEAN, Purge(p, c, ok)
        PROVE GStep
  <2>1. UNCHANGED <<current, cleaned, running, retired, closing>>
    BY <1>19, CleanupTypes DEF Purge, Discards
  <2>2. \A h \in Gens : UsersOf(h)' = UsersOf(h)
    BY <1>19 DEF Purge, Discards, UsersOf, Leased, Discovering, Background
  <2> QED
    BY ONLY <2>1, <2>2, Stutters DEF GStep
<1>20. ASSUME NEW p \in Processes, Cancel(p) PROVE GStep
  <2>1. UNCHANGED <<current, cleaned, running, retired, closing>>
    BY <1>20, CleanupTypes DEF Cancel, GoesTo
  <2>2. \A h \in Gens : UsersOf(h)' = UsersOf(h)
    BY <1>20 DEF Cancel, GoesTo, UsersOf, Leased, Discovering, Background
  <2> QED
    BY ONLY <2>1, <2>2, Stutters DEF GStep
<1>21. ASSUME StartModelListRefresh PROVE GStep
  <2>1. UNCHANGED <<current, cleaned, running, retired, closing>>
    BY <1>21, CleanupTypes DEF StartModelListRefresh
  <2>2. \A h \in Gens : UsersOf(h)' = UsersOf(h)
    BY <1>21 DEF StartModelListRefresh, UsersOf, Leased, Discovering, Background
  <2> QED
    BY ONLY <2>1, <2>2, Stutters DEF GStep
<1>22. ASSUME Close PROVE GStep
  <2>1. UNCHANGED <<current, cleaned, running, retired, closing>>
    BY <1>22, CleanupTypes DEF Close, GoesTo
  <2>2. \A h \in Gens : UsersOf(h)' = UsersOf(h)
    BY <1>22 DEF Close, GoesTo, UsersOf, Leased, Discovering, Background
  <2> QED
    BY ONLY <2>1, <2>2, Stutters DEF GStep
<1>23. ASSUME CloseGranted PROVE GStep
  <2>1. UNCHANGED <<current, cleaned, running, retired>> /\ closing' = TRUE
    BY <1>23 DEF CloseGranted
  <2>2. \A h \in Gens : UsersOf(h)' = UsersOf(h)
    BY <1>23 DEF CloseGranted, CancelRefresh, GoesTo, UsersOf, Leased,
                 Discovering, Background
  <2>3. G!Seal
    BY ONLY <2>1, <2>2, SameStatus DEF G!Seal
  <2> QED
    BY ONLY <2>3 DEF GStep, G!Next
<1>24. ASSUME CloseRetires PROVE GStep
  <2>1. UNCHANGED <<current, cleaned, running, closing>> /\ closing
        /\ retired' = retired \union {current} /\ current \in Gens
    BY <1>24 DEF CloseRetires
  <2>2. \A h \in Gens : UsersOf(h)' = UsersOf(h)
    BY <1>24 DEF CloseRetires, GoesTo, UsersOf, Leased, Discovering, Background
  <2>3. CASE current \in retired
    <3>1. UNCHANGED retired
      BY <2>1, <2>3
    <3> QED
      BY ONLY <2>1, <2>2, <3>1, Stutters DEF GStep
  <2>4. CASE current \notin retired
    <3>1. Status(current) = "current"
      <4>1. current \notin owned
        BY <2>1, <2>4 DEF Cleaning
      <4>2. current \notin cleaned /\ ~(running[current] > 0)
        BY <2>1, <4>1 DEF Cleaning, CleanupLive
      <4> QED
        BY <2>1, <2>4, <4>2 DEF Status
    <3>2. \A h \in Gens : Status(h)' = IF h = current THEN "retired" ELSE Status(h)
      BY <2>1, <3>1 DEF Status
    <3>3. PICK g \in Gens : g = current
      BY <2>1
    <3>4. G!RetireLast(g)
      BY ONLY <2>1, <2>2, <3>1, <3>2, <3>3 DEF G!RetireLast
    <3> QED
      BY ONLY g \in Gens, <3>4 DEF GStep, G!Next
  <2> QED
    BY <2>3, <2>4
<1>25. ASSUME CloseDrained PROVE GStep
  <2>1. UNCHANGED <<current, cleaned, running, retired, closing>>
    BY <1>25, CleanupTypes DEF CloseDrained, GoesTo
  <2>2. \A h \in Gens : UsersOf(h)' = UsersOf(h)
    BY <1>25 DEF CloseDrained, GoesTo, UsersOf, Leased, Discovering, Background
  <2> QED
    BY ONLY <2>1, <2>2, Stutters DEF GStep
<1>26. ASSUME CloseJoined PROVE GStep
  <2>1. UNCHANGED <<current, cleaned, running, retired, closing>>
    BY <1>26, CleanupTypes DEF CloseJoined, GoesTo
  <2>2. \A h \in Gens : UsersOf(h)' = UsersOf(h)
    BY <1>26 DEF CloseJoined, GoesTo, UsersOf, Leased, Discovering, Background
  <2> QED
    BY ONLY <2>1, <2>2, Stutters DEF GStep
<1>27. ASSUME CloseEnds PROVE GStep
  <2>1. UNCHANGED <<current, cleaned, running, retired, closing>>
    BY <1>27, CleanupTypes DEF CloseEnds, GoesTo
  <2>2. \A h \in Gens : UsersOf(h)' = UsersOf(h)
    BY <1>27 DEF CloseEnds, GoesTo, UsersOf, Leased, Discovering, Background
  <2> QED
    BY ONLY <2>1, <2>2, Stutters DEF GStep
<1>28. ASSUME UNCHANGED vars PROVE GStep
  <2>1. UNCHANGED <<current, cleaned, running, retired, closing>>
    BY <1>28, CleanupTypes DEF vars
  <2>2. \A h \in Gens : UsersOf(h)' = UsersOf(h)
    BY <1>28 DEF vars, UsersOf, Leased, Discovering, Background
  <2> QED
    BY ONLY <2>1, <2>2, Stutters DEF GStep
<1> QED
  BY <1>1, <1>2, <1>3, <1>4, <1>5, <1>6, <1>7, <1>8, <1>9, <1>10, <1>11, <1>12,
     <1>13, <1>14, <1>15, <1>16, <1>17, <1>18, <1>19, <1>20, <1>21, <1>22,
     <1>23, <1>24, <1>25, <1>26, <1>27, <1>28
  DEF Next, OpStep, GenStep, CloseStep, Terminated

\* The manager's counters, locks and tasks implement Generations: initial
\* states map to initial states, every step to a step or a stutter.
THEOREM Implementation == Spec => ImplementsGenerations
<1>1. IInv /\ IInv' /\ [Next]_vars =>
          [G!Next]_<<[g \in Gens |-> Status(g)], [g \in Gens |-> UsersOf(g)], closing>>
  BY ImplementsStep DEF IInv, GStep
<1>2. Init => G!Init
  BY ImplementsInit
<1> QED
  BY Invariance, <1>1, <1>2, PTL DEF Spec, ImplementsGenerations, G!Spec
-----------------------------------------------------------------------------
(***************************************************************************)
(* ResponsesBridge. While the upstream is read, assembler and ledger agree *)
(* (Aligned): each block has its slot, open as long as it is active. What  *)
(* is open is the text, the thinking or a call (Contents), and each call   *)
(* of the upstream has a block of its own (Linked), with what has arrived  *)
(* of its arguments. Nothing but the end of a stream stops a call that is  *)
(* not done.                                                               *)
(***************************************************************************)
AnyKind == ItemKinds \cup {"message", "reasoning"}
BridgeBlock == [kind : AnyKind, open : BOOLEAN, args : Seq(Nat)]
Slot == [kind : AnyKind, done : BOOLEAN, input : Seq(Nat)]
Endings == {"failed", "completed", "incomplete"}
Item == [kind : ItemKinds, sent : 0..2, done : BOOLEAN, block : Nat]
BridgeClient == [created : BOOLEAN, slots : Seq(Slot), ended : {""} \cup Endings,
                 bad : BOOLEAN]
Bridge == [blocks : Seq(BridgeBlock), text : Nat, thinking : Nat, visible : BOOLEAN,
           active : SUBSET Nat, reason : {"", "tool_use", "max_tokens", "end_turn"},
           provisional : BOOLEAN, stopped : BOOLEAN, error : BOOLEAN, bad : BOOLEAN,
           client : BridgeClient]

\* The slots are those of the blocks; one that is missing its end is recorded.
Aligned(b) ==
    /\ b \in Bridge
    /\ ~b.bad /\ ~b.client.bad /\ b.client.created /\ b.client.ended = ""
    /\ Len(b.client.slots) = Len(b.blocks)
    /\ b.active = Open(b)
    /\ \A i \in DOMAIN b.blocks :
        /\ b.client.slots[i].kind = b.blocks[i].kind
        /\ b.client.slots[i].done =>
            /\ ~b.blocks[i].open /\ ~Invalid(b.blocks[i])
            /\ b.client.slots[i].input = b.blocks[i].args
        /\ b.blocks[i].open \/ b.client.slots[i].done
            \/ (b.provisional /\ Invalid(b.blocks[i]))

Contents(b) ==
    /\ b.text # 0 => b.text \in Open(b) /\ b.blocks[b.text].kind = "message"
    /\ b.thinking # 0 => b.thinking \in Open(b) /\ b.blocks[b.thinking].kind = "reasoning"
    /\ \A i \in Open(b) : b.blocks[i].kind \in Calls \/ i \in {b.text, b.thinking}

IsCall(xs, i) == i \in DOMAIN xs /\ xs[i].kind \in Calls

\* What has arrived of a call that has a block
Arrived(item) == IF item.sent = 1 THEN <<1>> ELSE Whole

Linked(xs, b) ==
    /\ \A i \in DOMAIN xs :
        IsCall(xs, i) =>
            IF xs[i].block = 0 THEN xs[i].sent = 0 /\ ~xs[i].done
            ELSE /\ xs[i].block \in DOMAIN b.blocks
                 /\ b.blocks[xs[i].block].kind = xs[i].kind
                 /\ b.blocks[xs[i].block].open <=> ~xs[i].done
                 /\ b.blocks[xs[i].block].args = Arrived(xs[i])
                 /\ xs[i].done => xs[i].sent # 1
                 /\ xs[i].sent = 0 => xs[i].done
    /\ \A i, j \in DOMAIN xs :
        IsCall(xs, i) /\ IsCall(xs, j) /\ xs[i].block = xs[j].block /\ xs[i].block # 0
            => i = j
    /\ \A k \in DOMAIN b.blocks :
        b.blocks[k].kind \in Calls => \E i \in DOMAIN xs : IsCall(xs, i) /\ xs[i].block = k

Reads(xs, b) == Aligned(b) /\ Contents(b) /\ ~b.provisional /\ Linked(xs, b)

\* A call that is told done has its arguments, but a custom one that was cut.
TellsCalls(c, cut) ==
    \A i \in DOMAIN c.slots :
        c.slots[i].done /\ c.slots[i].kind \in Calls =>
            c.slots[i].input = Whole \/ (c.slots[i].kind = "custom" /\ cut)

EachCallIn(xs, c) ==
    LET calls == {i \in DOMAIN xs : xs[i].kind \in Calls} IN
    /\ \A i \in calls : /\ xs[i].block \in DOMAIN c.slots
                        /\ c.slots[xs[i].block].kind = xs[i].kind
    /\ \A i, j \in calls : xs[i].block = xs[j].block => i = j
    /\ \A k \in DOMAIN c.slots :
        c.slots[k].kind \in Calls => \E i \in calls : xs[i].block = k

\* The client's stream has ended as the upstream has.
Tells(xs, b, how) ==
    /\ b \in Bridge /\ ~b.bad /\ ~b.client.bad /\ Open(b) = {}
    /\ b.client.ended # ""
    /\ TellsCalls(b.client, how = "incomplete")
    /\ b.client.ended = "completed" =>
        /\ how = "completed" \/ (how = "incomplete" /\ HasCall(b))
        /\ \A i \in DOMAIN b.client.slots : b.client.slots[i].done
    /\ how = "completed" => b.client.ended = "completed" /\ EachCallIn(xs, b.client)
    /\ b.client.ended = "incomplete" => how = "incomplete"

BridgeInv ==
    /\ phase \in {"opening", "reading", "done", "failed"}
    /\ upstream \in {"", "completed", "incomplete"}
    /\ committed \in BOOLEAN
    /\ items \in Seq(Item)
    /\ phase = "opening" => upstream = ""
    /\ phase \in {"opening", "reading"} /\ upstream = "" => Reads(items, bridge)
    /\ upstream # "" => Tells(items, bridge, upstream)
    /\ phase = "done" => upstream # "" /\ committed
    /\ phase = "failed" /\ upstream = "" =>
        /\ ~bridge.bad
        /\ committed => /\ ~bridge.client.bad /\ bridge.client.ended = "failed"
                        /\ TellsCalls(bridge.client, TRUE)
LEMMA SequenceBasics ==
    ASSUME NEW S, NEW s \in Seq(S)
    PROVE  Len(s) \in Nat /\ DOMAIN s = 1..Len(s) /\ \A i \in 1..Len(s) : s[i] \in S
  OBVIOUS

LEMMA FunctionIsSequence ==
    ASSUME NEW S, NEW n \in Nat, NEW f \in [1..n -> S]
    PROVE  f \in Seq(S) /\ Len(f) = n /\ DOMAIN f = 1..n
  OBVIOUS

\* d is the client c after it heard that slots are done.
Heard(c, done, blocks, d) ==
    /\ d \in BridgeClient /\ ~d.bad /\ d.created /\ d.ended = ""
    /\ Len(d.slots) = Len(c.slots)
    /\ \A i \in DOMAIN c.slots :
        /\ d.slots[i].kind = c.slots[i].kind
        /\ i \in done => d.slots[i].done /\ d.slots[i].input = blocks[i].args
        /\ i \notin done => d.slots[i] = c.slots[i]

LEMMA DoneHeard ==
    ASSUME NEW c \in BridgeClient, ~c.bad, c.created, c.ended = "",
           NEW done \in SUBSET Awaited(c),
           NEW blocks \in Seq(BridgeBlock), Len(blocks) = Len(c.slots)
    PROVE  Heard(c, done, blocks, HearsDone(c, done, blocks))
  <1> DEFINE s == [i \in DOMAIN c.slots |->
                    IF i \in done
                    THEN [c.slots[i] EXCEPT !.done = TRUE, !.input = blocks[i].args]
                    ELSE c.slots[i]]
             h == Hears(c, TRUE)
             n == Len(c.slots)
             d == HearsDone(c, done, blocks)
  <1> HIDE DEF s, h, n, d
  <1>1. c.slots \in Seq(Slot)
    BY DEF BridgeClient
  <1>2. n \in Nat /\ DOMAIN c.slots = 1..n /\ \A i \in 1..n : c.slots[i] \in Slot
    BY <1>1, SequenceBasics DEF n
  <1>3. DOMAIN blocks = 1..n /\ \A i \in 1..n : blocks[i].args \in Seq(Nat)
    <2>1. DOMAIN blocks = 1..n /\ \A i \in 1..n : blocks[i] \in BridgeBlock
      BY SequenceBasics DEF n
    <2> QED BY <2>1 DEF BridgeBlock
  <1>4. ASSUME NEW i \in 1..n
        PROVE  /\ s[i] \in Slot
               /\ s[i].kind = c.slots[i].kind
               /\ i \in done => s[i].done /\ s[i].input = blocks[i].args
               /\ i \notin done => s[i] = c.slots[i]
    <2>1. c.slots[i] \in Slot /\ blocks[i].args \in Seq(Nat)
      BY <1>2, <1>3
    <2>2. CASE i \in done
      <3>1. s[i] = [c.slots[i] EXCEPT !.done = TRUE, !.input = blocks[i].args]
        BY <2>2, <1>2 DEF s
      <3> QED BY <3>1, <2>1, <2>2 DEF Slot
    <2>3. CASE i \notin done
      BY <2>3, <2>1, <1>2 DEF s
    <2> QED BY <2>2, <2>3
  <1>5. s \in Seq(Slot) /\ Len(s) = n
    <2>1. s \in [1..n -> Slot]
      BY <1>2, <1>4 DEF s
    <2> QED BY <2>1, <1>2, FunctionIsSequence
  <1>6. /\ d \in BridgeClient /\ ~d.bad /\ d.created /\ d.ended = ""
        /\ Len(d.slots) = n
        /\ \A i \in 1..n :
                /\ d.slots[i].kind = c.slots[i].kind
                /\ i \in done => d.slots[i].done /\ d.slots[i].input = blocks[i].args
                /\ i \notin done => d.slots[i] = c.slots[i]
    <2>1. CASE done = {}
      <3>1. d = c
        BY <2>1 DEF HearsDone, d
      <3> QED BY <3>1, <2>1 DEF n
    <2>2. CASE done # {}
      <3>1. d = [h EXCEPT !.slots = s]
        BY <2>2 DEF HearsDone, s, h, d
      <3>2. /\ h \in BridgeClient /\ ~h.bad /\ h.created /\ h.ended = ""
        BY DEF Hears, BridgeClient, h
      <3>3. d \in BridgeClient
        BY <3>1, <3>2, <1>5 DEF BridgeClient
      <3>4. d.slots = s /\ ~d.bad /\ d.created /\ d.ended = ""
        BY <3>1, <3>2 DEF BridgeClient
      <3> QED BY <3>3, <3>4, <1>4, <1>5
    <2> QED BY <2>1, <2>2
  <1> QED BY <1>2, <1>6 DEF Heard, d, n

\* What Aligned says, with the lengths.
LEMMA AlignedBasics ==
    ASSUME NEW b, Aligned(b)
    PROVE  /\ b.blocks \in Seq(BridgeBlock) /\ b.client \in BridgeClient
           /\ Len(b.blocks) \in Nat /\ Len(b.client.slots) = Len(b.blocks)
           /\ DOMAIN b.blocks = 1..Len(b.blocks)
           /\ DOMAIN b.client.slots = 1..Len(b.blocks)
           /\ \A i \in 1..Len(b.blocks) : b.blocks[i] \in BridgeBlock
           /\ \A i \in 1..Len(b.blocks) : b.client.slots[i] \in Slot
           /\ Open(b) \subseteq 1..Len(b.blocks)
           /\ \A i \in 1..Len(b.blocks) : i \in Open(b) <=> b.blocks[i].open
  <1>1. b.blocks \in Seq(BridgeBlock) /\ b.client \in BridgeClient
    BY DEF Aligned, Bridge
  <1>2. b.client.slots \in Seq(Slot)
    BY <1>1 DEF BridgeClient
  <1>3. Len(b.client.slots) = Len(b.blocks)
    BY DEF Aligned
  <1>4. /\ Len(b.blocks) \in Nat /\ DOMAIN b.blocks = 1..Len(b.blocks)
        /\ \A i \in 1..Len(b.blocks) : b.blocks[i] \in BridgeBlock
    BY <1>1, SequenceBasics
  <1>5. /\ DOMAIN b.client.slots = 1..Len(b.client.slots)
        /\ \A i \in 1..Len(b.client.slots) : b.client.slots[i] \in Slot
    BY <1>2, SequenceBasics
  <1>6. Open(b) \subseteq 1..Len(b.blocks)
        /\ \A i \in 1..Len(b.blocks) : i \in Open(b) <=> b.blocks[i].open
    BY <1>4 DEF Open
  <1> QED BY <1>1, <1>3, <1>4, <1>5, <1>6

\* c is b with these of its blocks stopped.
Stopped(b, xs, c) ==
    /\ Aligned(c)
    /\ DOMAIN c.blocks = DOMAIN b.blocks
    /\ \A i \in DOMAIN b.blocks :
        /\ c.blocks[i].kind = b.blocks[i].kind /\ c.blocks[i].args = b.blocks[i].args
        /\ c.blocks[i].open <=> b.blocks[i].open /\ i \notin xs
    /\ Open(c) = Open(b) \ xs
    /\ c.text = b.text /\ c.thinking = b.thinking /\ c.visible = b.visible
    /\ c.reason = b.reason /\ c.stopped = b.stopped /\ c.error = b.error
    /\ c.provisional = (b.provisional \/ \E i \in xs : Invalid(b.blocks[i]))

LEMMA BlocksStopped ==
    ASSUME NEW b, Aligned(b), NEW xs \in SUBSET Open(b)
    PROVE  Stopped(b, xs, StopBlocks(b, xs))
  <1> DEFINE n == Len(b.blocks)
             blocks == [i \in DOMAIN b.blocks |->
                            IF i \in xs THEN [b.blocks[i] EXCEPT !.open = FALSE]
                            ELSE b.blocks[i]]
             inv == {i \in xs : Invalid(blocks[i])}
             c == [b EXCEPT !.bad = b.bad \/ ~(xs \subseteq Open(b)), !.blocks = blocks]
             p == b.provisional \/ inv # {}
             d == [c EXCEPT !.provisional = p]
             client == HearsDone(b.client, xs \ inv, blocks)
             e == StopBlocks(b, xs)
  <1> HIDE DEF n, blocks, inv, c, p, d, client, e
  <1>1. /\ b.blocks \in Seq(BridgeBlock) /\ b.client \in BridgeClient
        /\ n \in Nat /\ Len(b.client.slots) = n
        /\ DOMAIN b.blocks = 1..n /\ DOMAIN b.client.slots = 1..n
        /\ \A i \in 1..n : b.blocks[i] \in BridgeBlock /\ b.client.slots[i] \in Slot
        /\ \A i \in 1..n : i \in Open(b) <=> b.blocks[i].open
        /\ xs \subseteq 1..n /\ \A i \in xs : b.blocks[i].open
    BY AlignedBasics DEF n
  <1>2. /\ b \in Bridge /\ b.bad = FALSE /\ b.active = Open(b)
        /\ ~b.client.bad /\ b.client.created /\ b.client.ended = ""
    BY DEF Aligned, Bridge
  <1>17. \A i \in 1..n :
            /\ b.client.slots[i].kind = b.blocks[i].kind
            /\ b.client.slots[i].done =>
                /\ ~b.blocks[i].open /\ ~Invalid(b.blocks[i])
                /\ b.client.slots[i].input = b.blocks[i].args
            /\ b.blocks[i].open \/ b.client.slots[i].done
                \/ (b.provisional /\ Invalid(b.blocks[i]))
    BY <1>1 DEF Aligned
  <1>3. ASSUME NEW i \in 1..n
        PROVE  /\ blocks[i] \in BridgeBlock
               /\ blocks[i].kind = b.blocks[i].kind /\ blocks[i].args = b.blocks[i].args
               /\ blocks[i].open <=> b.blocks[i].open /\ i \notin xs
    <2>1. b.blocks[i] \in BridgeBlock
      BY <1>1
    <2>2. CASE i \in xs
      <3>1. blocks[i] = [b.blocks[i] EXCEPT !.open = FALSE]
        BY <2>2, <1>1 DEF blocks
      <3> QED BY <3>1, <2>1, <2>2 DEF BridgeBlock
    <2>3. CASE i \notin xs
      <3>1. blocks[i] = b.blocks[i]
        BY <2>3, <1>1 DEF blocks
      <3> QED BY <3>1, <2>1, <2>3 DEF BridgeBlock
    <2> QED BY <2>2, <2>3
  <1>4. blocks \in Seq(BridgeBlock) /\ Len(blocks) = n /\ DOMAIN blocks = 1..n
    <2>1. blocks \in [1..n -> BridgeBlock]
      BY <1>1, <1>3 DEF blocks
    <2> QED BY <2>1, <1>1, FunctionIsSequence
  <1>5. \A i \in 1..n : Invalid(blocks[i]) <=> Invalid(b.blocks[i])
    <2>1. \A i \in 1..n : blocks[i].kind = b.blocks[i].kind /\ blocks[i].args = b.blocks[i].args
      BY <1>3
    <2> QED BY <2>1 DEF Invalid
  <1>6. inv \subseteq xs /\ \A i \in xs : i \in inv <=> Invalid(b.blocks[i])
    BY <1>1, <1>5 DEF inv
  <1>7. e = [d EXCEPT !.active = b.active \ xs, !.client = client]
    <2>1. c.active = b.active /\ c.client = b.client /\ c.blocks = blocks
          /\ c.provisional = b.provisional
      BY <1>2 DEF c, Bridge
    <2>2. xs \cap b.active = xs
      BY <1>2
    <2>3. e = CompleteBlocks(c, xs)
      BY <2>2 DEF StopBlocks, e, c, blocks
    <2>4. {i \in xs : Invalid(c.blocks[i])} = inv
      BY <2>1 DEF inv
    <2>5. InvalidCalls(c, inv) = d
      BY <2>1 DEF InvalidCalls, d, p
    <2> QED BY <2>1, <2>3, <2>4, <2>5 DEF CompleteBlocks, client
  <1>8. /\ c \in Bridge /\ c.bad = FALSE /\ c.blocks = blocks /\ c.client = b.client
        /\ c.text = b.text /\ c.thinking = b.thinking /\ c.visible = b.visible
        /\ c.reason = b.reason /\ c.stopped = b.stopped /\ c.error = b.error
    BY <1>2, <1>4 DEF c, Bridge
  <1>9. /\ d \in Bridge /\ d.bad = FALSE /\ d.blocks = blocks
        /\ d.text = b.text /\ d.thinking = b.thinking /\ d.visible = b.visible
        /\ d.reason = b.reason /\ d.stopped = b.stopped /\ d.error = b.error
        /\ d.provisional = p
    <2>1. p \in BOOLEAN
      BY DEF p
    <2> QED BY <1>8, <2>1 DEF d, Bridge
  <1>10. /\ client \in BridgeClient /\ ~client.bad /\ client.created /\ client.ended = ""
         /\ Len(client.slots) = n
         /\ \A i \in 1..n :
                /\ client.slots[i].kind = b.client.slots[i].kind
                /\ i \in xs \ inv => /\ client.slots[i].done
                                     /\ client.slots[i].input = blocks[i].args
                /\ i \notin xs \ inv => client.slots[i] = b.client.slots[i]
    <2>1. ASSUME NEW i \in xs PROVE i \in Awaited(b.client)
      <3>1. i \in 1..n /\ b.blocks[i].open /\ i \in DOMAIN b.client.slots
        BY <1>1
      <3>2. b.client.slots[i].done => ~b.blocks[i].open
        BY <3>1, <1>17
      <3> QED BY <3>1, <3>2 DEF Awaited
    <2>2. xs \ inv \in SUBSET Awaited(b.client)
      BY <2>1
    <2>3. Len(blocks) = Len(b.client.slots)
      BY <1>1, <1>4
    <2>4. Heard(b.client, xs \ inv, blocks, client)
      BY <2>2, <2>3, <1>1, <1>2, <1>4, DoneHeard DEF client
    <2> QED BY <2>4, <1>1 DEF Heard
  <1>11. /\ e \in Bridge /\ e.bad = FALSE /\ e.blocks = blocks /\ e.client = client
         /\ e.text = b.text /\ e.thinking = b.thinking /\ e.visible = b.visible
         /\ e.reason = b.reason /\ e.stopped = b.stopped /\ e.error = b.error
         /\ e.provisional = p /\ e.active = Open(b) \ xs
    <2>1. b.active \ xs \in SUBSET Nat
      BY <1>2 DEF Bridge
    <2> QED BY <2>1, <1>2, <1>7, <1>9, <1>10 DEF Bridge
  <1>12. p = (b.provisional \/ \E i \in xs : Invalid(b.blocks[i]))
    BY <1>6 DEF p
  <1>13. Open(e) = Open(b) \ xs
    <2>1. \A i \in 1..n : blocks[i].open <=> b.blocks[i].open /\ i \notin xs
      BY <1>3
    <2> QED BY <2>1, <1>1, <1>4, <1>11 DEF Open
  <1>14. ASSUME NEW i \in 1..n
         PROVE  /\ client.slots[i].kind = blocks[i].kind
                /\ client.slots[i].done =>
                    /\ ~blocks[i].open /\ ~Invalid(blocks[i])
                    /\ client.slots[i].input = blocks[i].args
                /\ blocks[i].open \/ client.slots[i].done \/ (p /\ Invalid(blocks[i]))
    <2>1. /\ blocks[i].kind = b.blocks[i].kind /\ blocks[i].args = b.blocks[i].args
          /\ blocks[i].open <=> b.blocks[i].open /\ i \notin xs
          /\ Invalid(blocks[i]) <=> Invalid(b.blocks[i])
      BY <1>3, <1>5
    <2>2. CASE i \in xs \ inv
      <3>1. /\ client.slots[i].kind = b.client.slots[i].kind
            /\ client.slots[i].done /\ client.slots[i].input = blocks[i].args
        BY <2>2, <1>10
      <3>2. ~Invalid(b.blocks[i])
        BY <2>2, <1>6
      <3> QED BY <3>1, <3>2, <2>1, <2>2, <1>17
    <2>3. CASE i \notin xs \ inv
      <3>1. client.slots[i] = b.client.slots[i]
        BY <2>3, <1>10
      <3>2. CASE i \in inv
        <4>1. i \in xs /\ b.blocks[i].open /\ Invalid(b.blocks[i]) /\ p
          BY <3>2, <1>1, <1>6 DEF p
        <4> QED BY <4>1, <3>1, <2>1, <1>17
      <3>3. CASE i \notin inv
        <4>1. i \notin xs
          BY <3>3, <2>3
        <4>2. b.provisional => p
          BY DEF p
        <4> QED BY <4>1, <4>2, <3>1, <2>1, <1>17
      <3> QED BY <3>2, <3>3
    <2> QED BY <2>2, <2>3
  <1>15. Aligned(e)
    BY <1>4, <1>10, <1>11, <1>13, <1>14 DEF Aligned
  <1>16. Stopped(b, xs, e)
    <2>1. DOMAIN e.blocks = DOMAIN b.blocks
      BY <1>1, <1>4, <1>11
    <2>2. \A i \in DOMAIN b.blocks :
            /\ e.blocks[i].kind = b.blocks[i].kind /\ e.blocks[i].args = b.blocks[i].args
            /\ e.blocks[i].open <=> b.blocks[i].open /\ i \notin xs
      BY <1>1, <1>3, <1>11
    <2> QED BY <2>1, <2>2, <1>11, <1>12, <1>13, <1>15 DEF Stopped
  <1> QED BY <1>16 DEF e

\* A block that is added is the last, and open.
Started(b, sort, c) ==
    /\ Aligned(c)
    /\ Len(c.blocks) = Len(b.blocks) + 1
    /\ \A i \in DOMAIN b.blocks : c.blocks[i] = b.blocks[i]
    /\ c.blocks[Len(b.blocks) + 1].kind = sort
    /\ c.blocks[Len(b.blocks) + 1].open
    /\ c.blocks[Len(b.blocks) + 1].args = <<>>
    /\ Open(c) = Open(b) \cup {Len(b.blocks) + 1}
    /\ c.text = b.text /\ c.thinking = b.thinking
    /\ c.provisional = b.provisional

LEMMA AppendBasics ==
    ASSUME NEW S, NEW s \in Seq(S), NEW e \in S
    PROVE  /\ Append(s, e) \in Seq(S) /\ Len(Append(s, e)) = Len(s) + 1
           /\ DOMAIN Append(s, e) = 1..(Len(s) + 1)
           /\ \A i \in 1..Len(s) : Append(s, e)[i] = s[i]
           /\ Append(s, e)[Len(s) + 1] = e
  OBVIOUS

LEMMA BlockStarted ==
    ASSUME NEW b, Aligned(b), NEW sort \in AnyKind
    PROVE  Started(b, sort, StartBlock(b, sort))
  <1> DEFINE n == Len(b.blocks)
             block == [kind |-> sort, open |-> TRUE, args |-> <<>>]
             slot == [kind |-> sort, done |-> FALSE, input |-> <<>>]
             blocks == Append(b.blocks, block)
             slots == Append(b.client.slots, slot)
             h == Hears(b.client, TRUE)
             client == HearsAdded(b.client, sort)
             c == StartBlock(b, sort)
  <1> HIDE DEF n, block, slot, blocks, slots, h, client, c
  <1>1. /\ b.blocks \in Seq(BridgeBlock) /\ b.client \in BridgeClient
        /\ n \in Nat /\ Len(b.client.slots) = n
        /\ DOMAIN b.blocks = 1..n /\ DOMAIN b.client.slots = 1..n
        /\ \A i \in 1..n : i \in Open(b) <=> b.blocks[i].open
        /\ Open(b) \subseteq 1..n
    BY AlignedBasics DEF n
  <1>2. /\ b \in Bridge /\ b.bad = FALSE /\ b.active = Open(b)
        /\ ~b.client.bad /\ b.client.created /\ b.client.ended = ""
    BY DEF Aligned, Bridge
  <1>3. \A i \in 1..n :
            /\ b.client.slots[i].kind = b.blocks[i].kind
            /\ b.client.slots[i].done =>
                /\ ~b.blocks[i].open /\ ~Invalid(b.blocks[i])
                /\ b.client.slots[i].input = b.blocks[i].args
            /\ b.blocks[i].open \/ b.client.slots[i].done
                \/ (b.provisional /\ Invalid(b.blocks[i]))
    BY <1>1 DEF Aligned
  <1>4. /\ block \in BridgeBlock /\ block.kind = sort /\ block.open /\ block.args = <<>>
        /\ slot \in Slot /\ slot.kind = sort /\ ~slot.done
    BY DEF block, slot, BridgeBlock, Slot
  <1>5. /\ blocks \in Seq(BridgeBlock) /\ Len(blocks) = n + 1
        /\ DOMAIN blocks = 1..(n + 1)
        /\ \A i \in 1..n : blocks[i] = b.blocks[i]
        /\ blocks[n + 1] = block
    BY <1>1, <1>4, AppendBasics DEF blocks, n
  <1>6. b.client.slots \in Seq(Slot)
    BY <1>1 DEF BridgeClient
  <1>7. /\ slots \in Seq(Slot) /\ Len(slots) = n + 1
        /\ \A i \in 1..n : slots[i] = b.client.slots[i]
        /\ slots[n + 1] = slot
    BY <1>1, <1>4, <1>6, AppendBasics DEF slots
  <1>8. /\ client \in BridgeClient /\ ~client.bad /\ client.created /\ client.ended = ""
        /\ client.slots = slots
    <2>1. /\ h \in BridgeClient /\ ~h.bad /\ h.created /\ h.ended = ""
      BY <1>1, <1>2 DEF Hears, BridgeClient, h
    <2>2. client = [h EXCEPT !.slots = slots]
      BY DEF client, HearsAdded, h, slots, slot
    <2> QED BY <2>1, <2>2, <1>7 DEF BridgeClient
  <1>9. /\ c \in Bridge /\ c.bad = FALSE /\ c.blocks = blocks /\ c.client = client
        /\ c.text = b.text /\ c.thinking = b.thinking
        /\ c.provisional = b.provisional /\ c.active = Open(b) \cup {n + 1}
    <2>1. Open(b) \cup {n + 1} \in SUBSET Nat
      BY <1>1
    <2>2. c = [b EXCEPT !.blocks = blocks, !.active = Open(b) \cup {n + 1},
                        !.client = client]
      BY <1>2 DEF c, StartBlock, blocks, block, n, client
    <2> QED BY <2>1, <2>2, <1>2, <1>5, <1>8 DEF Bridge
  <1>10. Open(c) = Open(b) \cup {n + 1}
    <2>1. \A i \in 1..n : blocks[i].open <=> i \in Open(b)
      BY <1>1, <1>5
    <2>2. blocks[n + 1].open
      BY <1>4, <1>5
    <2>3. Open(c) = {i \in 1..(n + 1) : blocks[i].open}
      BY <1>5, <1>9 DEF Open
    <2> QED BY <2>1, <2>2, <2>3, <1>1
  <1>11. ASSUME NEW i \in 1..(n + 1)
         PROVE  /\ slots[i].kind = blocks[i].kind
                /\ slots[i].done =>
                    /\ ~blocks[i].open /\ ~Invalid(blocks[i])
                    /\ slots[i].input = blocks[i].args
                /\ blocks[i].open \/ slots[i].done \/ (b.provisional /\ Invalid(blocks[i]))
    <2>1. CASE i = n + 1
      BY <2>1, <1>4, <1>5, <1>7
    <2>2. CASE i # n + 1
      <3>1. i \in 1..n
        BY <2>2, <1>1
      <3>2. slots[i] = b.client.slots[i] /\ blocks[i] = b.blocks[i]
        BY <3>1, <1>5, <1>7
      <3> QED BY <3>1, <3>2, <1>3
    <2> QED BY <2>1, <2>2
  <1>12. Aligned(c)
    BY <1>5, <1>7, <1>8, <1>9, <1>10, <1>11 DEF Aligned
  <1> QED BY <1>1, <1>4, <1>5, <1>9, <1>10, <1>12 DEF Started, c, n

\* A delta of an open block.
LEMMA TextHeard ==
    ASSUME NEW b, Aligned(b), NEW i \in Open(b)
    PROVE  TextDelta(b, i) = b
  <1>1. /\ b \in Bridge /\ b.bad = FALSE /\ b.client \in BridgeClient
        /\ b.client.bad = FALSE /\ b.client.created = TRUE /\ b.client.ended = ""
    BY DEF Aligned, Bridge, BridgeClient
  <1>2. i \in Awaited(b.client)
    <2>1. i \in DOMAIN b.client.slots /\ b.blocks[i].open /\ i \in DOMAIN b.blocks
      BY AlignedBasics
    <2>2. b.client.slots[i].done => ~b.blocks[i].open
      BY <2>1 DEF Aligned
    <2> QED BY <2>1, <2>2 DEF Awaited
  <1>3. HearsDelta(b.client, i) = b.client
    <2>1. HearsDelta(b.client, i) = [b.client EXCEPT !.bad = FALSE]
      BY <1>1, <1>2 DEF HearsDelta, Hears
    <2> QED BY <2>1, <1>1 DEF BridgeClient
  <1>4. (b.bad \/ i \notin Open(b)) = b.bad
    BY <1>1
  <1>5. TextDelta(b, i) = [b EXCEPT !.bad = b.bad, !.client = b.client]
    BY <1>3, <1>4 DEF TextDelta
  <1>6. [b EXCEPT !.bad = b.bad, !.client = b.client] = b
    BY <1>1 DEF Bridge
  <1> QED BY <1>5, <1>6, Zenon

\* More of the arguments of a block.
Given(b, i, args, c) ==
    /\ Aligned(c)
    /\ DOMAIN c.blocks = DOMAIN b.blocks
    /\ \A k \in DOMAIN b.blocks :
        /\ c.blocks[k].kind = b.blocks[k].kind
        /\ c.blocks[k].open <=> b.blocks[k].open
        /\ k # i => c.blocks[k].args = b.blocks[k].args
    /\ c.blocks[i].args = b.blocks[i].args \o args
    /\ Open(c) = Open(b)
    /\ c.text = b.text /\ c.thinking = b.thinking
    /\ c.provisional = b.provisional

LEMMA ArgumentsGiven ==
    ASSUME NEW b, Aligned(b), NEW i \in Open(b), NEW args \in Seq(Nat)
    PROVE  Given(b, i, args, ToolDelta(b, i, args))
  <1> DEFINE n == Len(b.blocks)
             block == [b.blocks[i] EXCEPT !.args = b.blocks[i].args \o args]
             blocks == [b.blocks EXCEPT ![i] = block]
             c == ToolDelta(b, i, args)
  <1> HIDE DEF n, block, blocks, c
  <1>1. /\ b.blocks \in Seq(BridgeBlock) /\ n \in Nat /\ DOMAIN b.blocks = 1..n
        /\ \A k \in 1..n : b.blocks[k] \in BridgeBlock
        /\ \A k \in 1..n : k \in Open(b) <=> b.blocks[k].open
        /\ i \in 1..n
    BY AlignedBasics DEF n
  <1>2. /\ b \in Bridge /\ b.bad = FALSE /\ b.active = Open(b)
        /\ ~b.client.bad /\ b.client.created /\ b.client.ended = ""
        /\ Len(b.client.slots) = n
    BY DEF Aligned, Bridge, n
  <1>3. \A k \in 1..n :
            /\ b.client.slots[k].kind = b.blocks[k].kind
            /\ b.client.slots[k].done =>
                /\ ~b.blocks[k].open /\ ~Invalid(b.blocks[k])
                /\ b.client.slots[k].input = b.blocks[k].args
            /\ b.blocks[k].open \/ b.client.slots[k].done
                \/ (b.provisional /\ Invalid(b.blocks[k]))
    BY <1>1 DEF Aligned
  <1>4. /\ block \in BridgeBlock /\ block.kind = b.blocks[i].kind
        /\ block.open /\ block.args = b.blocks[i].args \o args
    <2>1. b.blocks[i] \in BridgeBlock /\ b.blocks[i].open
      BY <1>1
    <2>2. b.blocks[i].args \in Seq(Nat)
      BY <2>1 DEF BridgeBlock
    <2>3. b.blocks[i].args \o args \in Seq(Nat)
      BY <2>2
    <2> QED BY <2>1, <2>3 DEF block, BridgeBlock
  <1>5. /\ blocks \in Seq(BridgeBlock) /\ Len(blocks) = n /\ DOMAIN blocks = 1..n
        /\ \A k \in 1..n : k # i => blocks[k] = b.blocks[k]
        /\ blocks[i] = block
    BY <1>1, <1>4 DEF blocks, n
  <1>6. /\ c \in Bridge /\ c.bad = FALSE /\ c.blocks = blocks /\ c.client = b.client
        /\ c.text = b.text /\ c.thinking = b.thinking
        /\ c.provisional = b.provisional /\ c.active = Open(b)
    <2>1. c = [b EXCEPT !.bad = FALSE, !.blocks = blocks]
      BY <1>2 DEF c, ToolDelta, blocks, block, Bridge
    <2> QED BY <2>1, <1>2, <1>5 DEF Bridge
  <1>7. ASSUME NEW k \in 1..n
        PROVE  blocks[k].kind = b.blocks[k].kind /\ (blocks[k].open <=> b.blocks[k].open)
    <2>1. CASE k = i
      BY <2>1, <1>1, <1>4, <1>5
    <2>2. CASE k # i
      BY <2>2, <1>5
    <2> QED BY <2>1, <2>2
  <1>8. Open(c) = Open(b)
    <2>1. Open(c) = {k \in 1..n : blocks[k].open}
      BY <1>5, <1>6 DEF Open
    <2>2. Open(b) = {k \in 1..n : b.blocks[k].open}
      BY <1>1 DEF Open
    <2> QED BY <2>1, <2>2, <1>7
  <1>9. ASSUME NEW k \in 1..n
        PROVE  /\ b.client.slots[k].kind = blocks[k].kind
               /\ b.client.slots[k].done =>
                    /\ ~blocks[k].open /\ ~Invalid(blocks[k])
                    /\ b.client.slots[k].input = blocks[k].args
               /\ blocks[k].open \/ b.client.slots[k].done
                    \/ (b.provisional /\ Invalid(blocks[k]))
    <2>1. CASE k = i
      <3>1. b.blocks[i].open /\ blocks[i].open
        BY <1>1, <1>4, <1>5
      <3> QED BY <3>1, <2>1, <1>3, <1>7
    <2>2. CASE k # i
      BY <2>2, <1>3, <1>5
    <2> QED BY <2>1, <2>2
  <1>10. Aligned(c)
    <2>1. /\ c \in Bridge /\ ~c.bad /\ ~c.client.bad /\ c.client.created
          /\ c.client.ended = "" /\ c.active = Open(c)
      BY <1>2, <1>6, <1>8
    <2>2. Len(c.client.slots) = Len(c.blocks) /\ DOMAIN c.blocks = 1..n
      BY <1>2, <1>5, <1>6
    <2>3. ASSUME NEW k \in DOMAIN c.blocks
          PROVE  /\ c.client.slots[k].kind = c.blocks[k].kind
                 /\ c.client.slots[k].done =>
                      /\ ~c.blocks[k].open /\ ~Invalid(c.blocks[k])
                      /\ c.client.slots[k].input = c.blocks[k].args
                 /\ c.blocks[k].open \/ c.client.slots[k].done
                      \/ (c.provisional /\ Invalid(c.blocks[k]))
      <3>1. /\ k \in 1..n /\ c.blocks = blocks /\ c.client = b.client
            /\ c.provisional = b.provisional
        BY <2>2, <1>6
      <3> QED BY <3>1, <1>9
    <2> QED BY <2>1, <2>2, <2>3 DEF Aligned
  <1>11. /\ \A k \in 1..n : k # i => blocks[k].args = b.blocks[k].args
         /\ blocks[i].args = b.blocks[i].args \o args
    BY <1>4, <1>5
  <1> QED BY <1>1, <1>5, <1>6, <1>7, <1>8, <1>10, <1>11 DEF Given, c

\* What the pointers to the text and the thinking, and the rest, are is nothing to it.
Alike(b, c) ==
    /\ c \in Bridge
    /\ c.bad = b.bad /\ c.client = b.client /\ c.blocks = b.blocks
    /\ c.active = b.active /\ c.provisional = b.provisional

LEMMA AlikeOpen == ASSUME NEW b, NEW c, Alike(b, c) PROVE Open(c) = Open(b)
  BY DEF Alike, Open

LEMMA AlikeAligned ==
    ASSUME NEW b, NEW c, Alike(b, c), Aligned(b)
    PROVE  Aligned(c)
  <1>1. Open(c) = Open(b)
    BY AlikeOpen
  <1>2. /\ c \in Bridge
        /\ c.bad = b.bad /\ c.client = b.client /\ c.blocks = b.blocks
        /\ c.active = b.active /\ c.provisional = b.provisional
    BY DEF Alike
  <1>3. ~b.bad /\ ~b.client.bad /\ b.client.created /\ b.client.ended = ""
        /\ Len(b.client.slots) = Len(b.blocks) /\ b.active = Open(b)
    BY DEF Aligned
  <1>4. \A i \in DOMAIN b.blocks :
        /\ b.client.slots[i].kind = b.blocks[i].kind
        /\ b.client.slots[i].done =>
            /\ ~b.blocks[i].open /\ ~Invalid(b.blocks[i])
            /\ b.client.slots[i].input = b.blocks[i].args
        /\ b.blocks[i].open \/ b.client.slots[i].done
            \/ (b.provisional /\ Invalid(b.blocks[i]))
    BY DEF Aligned
  <1>5. ~c.bad /\ ~c.client.bad /\ c.client.created /\ c.client.ended = ""
        /\ Len(c.client.slots) = Len(c.blocks) /\ c.active = Open(c)
    BY <1>1, <1>2, <1>3
  <1>6. \A i \in DOMAIN c.blocks :
        /\ c.client.slots[i].kind = c.blocks[i].kind
        /\ c.client.slots[i].done =>
            /\ ~c.blocks[i].open /\ ~Invalid(c.blocks[i])
            /\ c.client.slots[i].input = c.blocks[i].args
        /\ c.blocks[i].open \/ c.client.slots[i].done
            \/ (c.provisional /\ Invalid(c.blocks[i]))
    BY <1>2, <1>4
  <1> QED BY <1>2, <1>5, <1>6 DEF Aligned

LEMMA Pointers ==
    ASSUME NEW b \in Bridge, NEW k \in Nat
    PROVE  /\ Alike(b, [b EXCEPT !.thinking = k])
           /\ [b EXCEPT !.thinking = k].thinking = k /\ [b EXCEPT !.thinking = k].text = b.text
           /\ Alike(b, [b EXCEPT !.text = k])
           /\ [b EXCEPT !.text = k].text = k /\ [b EXCEPT !.text = k].thinking = b.thinking
  BY DEF Alike, Bridge

LEMMA Seen ==
    ASSUME NEW b \in Bridge
    PROVE  /\ Alike(b, [b EXCEPT !.visible = TRUE])
           /\ [b EXCEPT !.visible = TRUE].text = b.text
           /\ [b EXCEPT !.visible = TRUE].thinking = b.thinking
           /\ Alike(b, [b EXCEPT !.error = TRUE])
  BY DEF Alike, Bridge

\* With nothing active there is nothing to complete, and nothing to stop.
LEMMA NothingToComplete ==
    ASSUME NEW b \in Bridge
    PROVE  CompleteBlocks(b, {}) = b
  <1>1. {i \in {} : Invalid(b.blocks[i])} = {} /\ {} \ {} = {} /\ b.active \ {} = b.active
    OBVIOUS
  <1>2. InvalidCalls(b, {}) = b
    <2>1. b.provisional \/ {} # {} <=> b.provisional
      OBVIOUS
    <2>2. (b.provisional \/ {} # {}) = b.provisional
      BY DEF Bridge
    <2> QED BY <2>2 DEF InvalidCalls, Bridge
  <1>3. HearsDone(b.client, {}, b.blocks) = b.client
    BY DEF HearsDone
  <1>4. CompleteBlocks(b, {}) = [b EXCEPT !.active = b.active, !.client = b.client]
    BY <1>1, <1>2, <1>3 DEF CompleteBlocks
  <1> QED BY <1>4 DEF Bridge

LEMMA NothingToStop ==
    ASSUME NEW b \in Bridge
    PROVE  StopBlocks(b, {}) = b
  <1> DEFINE blocks == [i \in DOMAIN b.blocks |->
                            IF i \in {} THEN [b.blocks[i] EXCEPT !.open = FALSE]
                            ELSE b.blocks[i]]
             bad == b.bad \/ ~({} \subseteq Open(b))
             c == [b EXCEPT !.bad = bad, !.blocks = blocks]
  <1> HIDE DEF blocks, bad, c
  <1>1. b.blocks \in Seq(BridgeBlock)
    BY DEF Bridge
  <1>2. blocks = b.blocks
    <2>1. \A i \in DOMAIN b.blocks : i \notin {}
      OBVIOUS
    <2>2. blocks = [i \in DOMAIN b.blocks |-> b.blocks[i]]
      BY <2>1, Zenon DEF blocks
    <2>3. b.blocks = [i \in DOMAIN b.blocks |-> b.blocks[i]]
      BY <1>1
    <2> QED BY <2>2, <2>3
  <1>3. bad = b.bad
    BY DEF bad, Bridge
  <1>4. c = b
    BY <1>2, <1>3 DEF c, Bridge
  <1>5. {} \cap b.active = {}
    OBVIOUS
  <1>6. StopBlocks(b, {}) = CompleteBlocks(c, {})
    BY <1>5 DEF StopBlocks, c, bad, blocks
  <1> QED BY <1>4, <1>6, NothingToComplete

\* Beside the calls: c is b, but for blocks that are no calls.
Well(b) == Aligned(b) /\ Contents(b)
Beside(b, c) ==
    /\ Well(c)
    /\ Len(b.blocks) <= Len(c.blocks)
    /\ \A i \in DOMAIN b.blocks :
        /\ c.blocks[i].kind = b.blocks[i].kind
        /\ b.blocks[i].kind \in Calls =>
            /\ c.blocks[i].args = b.blocks[i].args
            /\ c.blocks[i].open <=> b.blocks[i].open
    /\ \A i \in DOMAIN c.blocks : i \notin DOMAIN b.blocks => c.blocks[i].kind \notin Calls
    /\ c.provisional = b.provisional

LEMMA Itself == ASSUME NEW b, Well(b) PROVE Beside(b, b)
  <1>1. Len(b.blocks) \in Nat
    BY AlignedBasics DEF Well
  <1> QED BY <1>1 DEF Beside

LEMMA BesideBasics ==
    ASSUME NEW b, NEW c, Well(b), Beside(b, c)
    PROVE  /\ Well(c)
           /\ DOMAIN b.blocks = 1..Len(b.blocks) /\ DOMAIN c.blocks = 1..Len(c.blocks)
           /\ Len(b.blocks) \in Nat /\ Len(c.blocks) \in Nat
           /\ DOMAIN b.blocks \subseteq DOMAIN c.blocks
  <1>1. Well(c) /\ Len(b.blocks) <= Len(c.blocks)
    BY DEF Beside
  <1>2. /\ DOMAIN b.blocks = 1..Len(b.blocks) /\ DOMAIN c.blocks = 1..Len(c.blocks)
        /\ Len(b.blocks) \in Nat /\ Len(c.blocks) \in Nat
    BY <1>1, AlignedBasics DEF Well
  <1> QED BY <1>1, <1>2

LEMMA Through ==
    ASSUME NEW b, NEW c, NEW d, Well(b), Beside(b, c), Beside(c, d)
    PROVE  Beside(b, d)
  <1>1. /\ Well(c) /\ Well(d)
        /\ DOMAIN b.blocks \subseteq DOMAIN c.blocks
        /\ DOMAIN c.blocks \subseteq DOMAIN d.blocks
        /\ Len(b.blocks) \in Nat /\ Len(c.blocks) \in Nat /\ Len(d.blocks) \in Nat
    BY BesideBasics
  <1>2. Len(b.blocks) <= Len(d.blocks)
    BY <1>1 DEF Beside
  <1>3. ASSUME NEW i \in DOMAIN b.blocks
        PROVE  /\ d.blocks[i].kind = b.blocks[i].kind
               /\ b.blocks[i].kind \in Calls =>
                    /\ d.blocks[i].args = b.blocks[i].args
                    /\ d.blocks[i].open <=> b.blocks[i].open
    <2>1. /\ c.blocks[i].kind = b.blocks[i].kind
          /\ b.blocks[i].kind \in Calls =>
                /\ c.blocks[i].args = b.blocks[i].args
                /\ c.blocks[i].open <=> b.blocks[i].open
      BY DEF Beside
    <2>2. i \in DOMAIN c.blocks
      BY <1>1
    <2>3. /\ d.blocks[i].kind = c.blocks[i].kind
          /\ c.blocks[i].kind \in Calls =>
                /\ d.blocks[i].args = c.blocks[i].args
                /\ d.blocks[i].open <=> c.blocks[i].open
      BY <2>2 DEF Beside
    <2> QED BY <2>1, <2>3
  <1>4. ASSUME NEW i \in DOMAIN d.blocks, i \notin DOMAIN b.blocks
        PROVE  d.blocks[i].kind \notin Calls
    <2>1. CASE i \in DOMAIN c.blocks
      BY <2>1, <1>4 DEF Beside
    <2>2. CASE i \notin DOMAIN c.blocks
      BY <2>2 DEF Beside
    <2> QED BY <2>1, <2>2
  <1>5. d.provisional = b.provisional
    BY DEF Beside
  <1> QED BY <1>1, <1>2, <1>3, <1>4, <1>5 DEF Beside

\* A call that is linked stays so.
Link(x, b) ==
    IF x.block = 0 THEN x.sent = 0 /\ ~x.done
    ELSE /\ x.block \in DOMAIN b.blocks
         /\ b.blocks[x.block].kind = x.kind
         /\ b.blocks[x.block].open <=> ~x.done
         /\ b.blocks[x.block].args = Arrived(x)
         /\ x.done => x.sent # 1
         /\ x.sent = 0 => x.done

LEMMA StaysLinked ==
    ASSUME NEW b, NEW c, NEW xs, Well(b), Beside(b, c), Linked(xs, b)
    PROVE  Linked(xs, c)
  <1>1. DOMAIN b.blocks \subseteq DOMAIN c.blocks
    BY BesideBasics
  <1>2. ASSUME NEW i \in DOMAIN xs, IsCall(xs, i) PROVE Link(xs[i], c)
    <2>1. Link(xs[i], b)
      BY <1>2 DEF Linked, Link
    <2>2. CASE xs[i].block = 0
      BY <2>1, <2>2 DEF Link
    <2>3. CASE xs[i].block # 0
      <3>1. /\ xs[i].block \in DOMAIN b.blocks
            /\ b.blocks[xs[i].block].kind = xs[i].kind
            /\ b.blocks[xs[i].block].open <=> ~xs[i].done
            /\ b.blocks[xs[i].block].args = Arrived(xs[i])
            /\ xs[i].done => xs[i].sent # 1
            /\ xs[i].sent = 0 => xs[i].done
        BY <2>1, <2>3 DEF Link
      <3>2. xs[i].kind \in Calls
        BY <1>2 DEF IsCall
      <3>3. /\ c.blocks[xs[i].block].kind = xs[i].kind
            /\ c.blocks[xs[i].block].args = b.blocks[xs[i].block].args
            /\ c.blocks[xs[i].block].open <=> b.blocks[xs[i].block].open
        BY <3>1, <3>2 DEF Beside
      <3> QED BY <3>1, <3>3, <2>3, <1>1 DEF Link
    <2> QED BY <2>2, <2>3
  <1>3. \A i, j \in DOMAIN xs :
        IsCall(xs, i) /\ IsCall(xs, j) /\ xs[i].block = xs[j].block /\ xs[i].block # 0
            => i = j
    BY DEF Linked
  <1>4. ASSUME NEW k \in DOMAIN c.blocks, c.blocks[k].kind \in Calls
        PROVE  \E i \in DOMAIN xs : IsCall(xs, i) /\ xs[i].block = k
    <2>1. k \in DOMAIN b.blocks
      BY <1>4 DEF Beside
    <2>2. b.blocks[k].kind \in Calls
      BY <2>1, <1>4 DEF Beside
    <2> QED BY <2>1, <2>2 DEF Linked
  <1> QED BY <1>2, <1>3, <1>4 DEF Linked, Link

\* A block of text, or of thinking, is stopped.
LEMMA ContentStopped ==
    ASSUME NEW b, Well(b), NEW k \in Open(b), b.blocks[k].kind \notin Calls, NEW c,
           Alike(StopBlock(b, k), c),
           c.text = IF k = b.text THEN 0 ELSE b.text,
           c.thinking = IF k = b.thinking THEN 0 ELSE b.thinking
    PROVE  Beside(b, c)
  <1> DEFINE s == StopBlock(b, k)
  <1> HIDE DEF s
  <1>1. Stopped(b, {k}, s)
    BY BlocksStopped DEF s, StopBlock, Well
  <1>2. /\ c.blocks = s.blocks /\ c.provisional = s.provisional
        /\ Aligned(c) /\ Open(c) = Open(b) \ {k}
    BY <1>1, AlikeAligned, AlikeOpen DEF Alike, Stopped, s
  <1>3. /\ DOMAIN c.blocks = DOMAIN b.blocks
        /\ \A i \in DOMAIN b.blocks :
            /\ c.blocks[i].kind = b.blocks[i].kind /\ c.blocks[i].args = b.blocks[i].args
            /\ c.blocks[i].open <=> b.blocks[i].open /\ i # k
        /\ c.provisional = (b.provisional \/ Invalid(b.blocks[k]))
    BY <1>1, <1>2 DEF Stopped
  <1>4. /\ Len(c.blocks) = Len(b.blocks) /\ Len(b.blocks) \in Nat
        /\ Open(b) \subseteq DOMAIN b.blocks
    <2>1. /\ DOMAIN b.blocks = 1..Len(b.blocks) /\ DOMAIN c.blocks = 1..Len(c.blocks)
          /\ Len(b.blocks) \in Nat /\ Len(c.blocks) \in Nat
          /\ Open(b) \subseteq 1..Len(b.blocks)
      BY <1>2, AlignedBasics DEF Well
    <2> QED BY <2>1, <1>3
  <1>5. c.provisional = b.provisional
    <2>1. ~Invalid(b.blocks[k])
      BY DEF Invalid, Calls
    <2>2. b.provisional \in BOOLEAN
      BY DEF Well, Aligned, Bridge
    <2> QED BY <2>1, <2>2, <1>3
  <1>6. Contents(c)
    <2>1. c.text # 0 => c.text \in Open(c) /\ c.blocks[c.text].kind = "message"
      BY <1>2, <1>3, <1>4 DEF Well, Contents
    <2>2. c.thinking # 0 => c.thinking \in Open(c) /\ c.blocks[c.thinking].kind = "reasoning"
      BY <1>2, <1>3, <1>4 DEF Well, Contents
    <2>3. \A i \in Open(c) : c.blocks[i].kind \in Calls \/ i \in {c.text, c.thinking}
      BY <1>2, <1>3, <1>4 DEF Well, Contents
    <2> QED BY <2>1, <2>2, <2>3 DEF Contents
  <1>7. \A i \in DOMAIN b.blocks :
        /\ c.blocks[i].kind = b.blocks[i].kind
        /\ b.blocks[i].kind \in Calls =>
            /\ c.blocks[i].args = b.blocks[i].args
            /\ c.blocks[i].open <=> b.blocks[i].open
    BY <1>3
  <1> QED BY <1>2, <1>3, <1>4, <1>5, <1>6, <1>7 DEF Beside, Well

\* A block of text, or of thinking, is started where there is none.
LEMMA ContentStarted ==
    ASSUME NEW b, Well(b), NEW sort \in {"message", "reasoning"}, NEW c,
           Alike(StartBlock(b, sort), c),
           IF sort = "message" THEN b.text = 0 ELSE b.thinking = 0,
           c.text = IF sort = "message" THEN Len(b.blocks) + 1 ELSE b.text,
           c.thinking = IF sort = "message" THEN b.thinking ELSE Len(b.blocks) + 1
    PROVE  Beside(b, c) /\ c.text = IF sort = "message" THEN Len(b.blocks) + 1 ELSE b.text
  <1> DEFINE s == StartBlock(b, sort)
             n == Len(b.blocks)
  <1> HIDE DEF s, n
  <1>1. Started(b, sort, s)
    BY BlockStarted DEF s, Well, AnyKind
  <1>2. /\ c.blocks = s.blocks /\ c.provisional = s.provisional
        /\ Aligned(c) /\ Open(c) = Open(b) \cup {n + 1}
    BY <1>1, AlikeAligned, AlikeOpen DEF Alike, Started, s, n
  <1>3. /\ Len(c.blocks) = n + 1
        /\ \A i \in DOMAIN b.blocks : c.blocks[i] = b.blocks[i]
        /\ c.blocks[n + 1].kind = sort
        /\ c.provisional = b.provisional
    BY <1>1, <1>2 DEF Started, n
  <1>4. /\ DOMAIN b.blocks = 1..n /\ DOMAIN c.blocks = 1..(n + 1) /\ n \in Nat
        /\ Open(b) \subseteq 1..n
    BY <1>2, <1>3, AlignedBasics DEF Well, n
  <1>5. /\ b.text # 0 => b.text \in Open(b) /\ b.blocks[b.text].kind = "message"
        /\ b.thinking # 0 => b.thinking \in Open(b) /\ b.blocks[b.thinking].kind = "reasoning"
        /\ \A i \in Open(b) : b.blocks[i].kind \in Calls \/ i \in {b.text, b.thinking}
    BY DEF Well, Contents
  <1>6. Contents(c)
    <2>1. CASE sort = "message"
      <3>1. c.text = n + 1 /\ c.thinking = b.thinking /\ b.text = 0
        BY <2>1 DEF n
      <3> QED BY <3>1, <2>1, <1>2, <1>3, <1>4, <1>5 DEF Contents
    <2>2. CASE sort = "reasoning"
      <3>1. c.thinking = n + 1 /\ c.text = b.text /\ b.thinking = 0
        BY <2>2 DEF n
      <3> QED BY <3>1, <2>2, <1>2, <1>3, <1>4, <1>5 DEF Contents
    <2> QED BY <2>1, <2>2
  <1>7. \A i \in DOMAIN c.blocks : i \notin DOMAIN b.blocks => c.blocks[i].kind \notin Calls
    <2>1. \A i \in DOMAIN c.blocks : i \notin DOMAIN b.blocks => i = n + 1
      BY <1>4
    <2> QED BY <2>1, <1>3 DEF Calls
  <1> QED BY <1>2, <1>3, <1>4, <1>6, <1>7 DEF Beside, Well, n

\* The closing of content.
LEMMA ThinkingClosed ==
    ASSUME NEW b, Well(b)
    PROVE  /\ Beside(b, CloseThinking(b))
           /\ CloseThinking(b).thinking = 0 /\ CloseThinking(b).text = b.text
  <1> DEFINE s == StopBlock(b, b.thinking)
             c == CloseThinking(b)
  <1> HIDE DEF s, c
  <1>1. CASE b.thinking = 0
    <2>1. c = b
      BY <1>1 DEF c, CloseThinking
    <2> QED BY <2>1, <1>1, Itself DEF c
  <1>2. CASE b.thinking # 0
    <2>1. b.thinking \in Open(b) /\ b.blocks[b.thinking].kind = "reasoning"
          /\ (b.text # 0 => b.blocks[b.text].kind = "message")
      BY <1>2 DEF Well, Contents
    <2>2. Stopped(b, {b.thinking}, s)
      BY <2>1, BlocksStopped DEF s, StopBlock, Well
    <2>3. s \in Bridge /\ s.text = b.text
      BY <2>2 DEF Stopped, Aligned
    <2>4. c = [s EXCEPT !.thinking = 0]
      BY <1>2 DEF c, CloseThinking, s
    <2>5. Alike(s, c) /\ c.thinking = 0 /\ c.text = b.text
      BY <2>3, <2>4, Pointers
    <2>6. b.thinking # b.text
      BY <2>1, <1>2
    <2>7. b.blocks[b.thinking].kind \notin Calls
      BY <2>1 DEF Calls
    <2>8. Beside(b, c)
      BY <2>1, <2>5, <2>6, <2>7, ContentStopped DEF s
    <2> QED BY <2>5, <2>8 DEF c
  <1> QED BY <1>1, <1>2

LEMMA TextClosed ==
    ASSUME NEW b, Well(b)
    PROVE  /\ Beside(b, CloseText(b))
           /\ CloseText(b).text = 0 /\ CloseText(b).thinking = b.thinking
  <1> DEFINE s == StopBlock(b, b.text)
             c == CloseText(b)
  <1> HIDE DEF s, c
  <1>1. CASE b.text = 0
    <2>1. c = b
      BY <1>1 DEF c, CloseText
    <2> QED BY <2>1, <1>1, Itself DEF c
  <1>2. CASE b.text # 0
    <2>1. b.text \in Open(b) /\ b.blocks[b.text].kind = "message"
          /\ (b.thinking # 0 => b.blocks[b.thinking].kind = "reasoning")
      BY <1>2 DEF Well, Contents
    <2>2. Stopped(b, {b.text}, s)
      BY <2>1, BlocksStopped DEF s, StopBlock, Well
    <2>3. s \in Bridge /\ s.thinking = b.thinking
      BY <2>2 DEF Stopped, Aligned
    <2>4. c = [s EXCEPT !.text = 0]
      BY <1>2 DEF c, CloseText, s
    <2>5. Alike(s, c) /\ c.text = 0 /\ c.thinking = b.thinking
      BY <2>3, <2>4, Pointers
    <2>6. b.thinking # b.text
      BY <2>1, <1>2
    <2>7. b.blocks[b.text].kind \notin Calls
      BY <2>1 DEF Calls
    <2>8. Beside(b, c)
      BY <2>1, <2>5, <2>6, <2>7, ContentStopped DEF s
    <2> QED BY <2>5, <2>8 DEF c
  <1> QED BY <1>1, <1>2

LEMMA ContentClosed ==
    ASSUME NEW b, Well(b)
    PROVE  /\ Beside(b, CloseContent(b)) /\ Well(CloseContent(b))
           /\ CloseContent(b).thinking = 0 /\ CloseContent(b).text = 0
  <1> DEFINE c == CloseThinking(b)
             d == CloseText(c)
  <1> HIDE DEF c, d
  <1>1. Beside(b, c) /\ c.thinking = 0
    BY ThinkingClosed DEF c
  <1>2. Well(c)
    BY <1>1, BesideBasics
  <1>3. Beside(c, d) /\ d.text = 0 /\ d.thinking = 0
    BY <1>1, <1>2, TextClosed DEF d
  <1>4. Beside(b, d)
    BY <1>1, <1>3, Through
  <1>5. CloseContent(b) = d
    BY DEF CloseContent, c, d
  <1> QED BY <1>3, <1>4, <1>5, BesideBasics

\* What is emitted as thinking, or as text.
LEMMA ThinkingEmitted ==
    ASSUME NEW b, Well(b)
    PROVE  Beside(b, EmitThinking(b))
  <1> DEFINE c == CloseText(b)
             s == StartBlock(c, "reasoning")
             d == EnsureThinking(b)
  <1> HIDE DEF c, s, d
  <1>1. Beside(b, c) /\ Well(c)
    BY TextClosed, BesideBasics DEF c
  <1>2. Beside(b, d) /\ d.thinking # 0
    <2>1. CASE c.thinking # 0
      <3>1. d = c
        BY <2>1 DEF d, EnsureThinking, c
      <3> QED BY <3>1, <2>1, <1>1
    <2>2. CASE c.thinking = 0
      <3>1. Started(c, "reasoning", s)
        BY <1>1, BlockStarted DEF s, Well, AnyKind
      <3>2. /\ s \in Bridge /\ s.text = c.text
            /\ Len(c.blocks) + 1 \in Nat /\ Len(c.blocks) + 1 # 0
        <4>1. Len(c.blocks) \in Nat
          BY <1>1, AlignedBasics DEF Well
        <4>2. s \in Bridge /\ s.text = c.text
          BY <3>1 DEF Started, Aligned
        <4> QED BY <4>1, <4>2
      <3>3. d = [s EXCEPT !.thinking = Len(c.blocks) + 1]
        BY <2>2 DEF d, EnsureThinking, c, s
      <3>4. Alike(s, d) /\ d.thinking = Len(c.blocks) + 1 /\ d.text = c.text
        BY <3>2, <3>3, Pointers
      <3>5. Beside(c, d)
        BY <3>4, <2>2, <1>1, ContentStarted DEF s
      <3> QED BY <3>2, <3>4, <3>5, <1>1, Through
    <2> QED BY <2>1, <2>2
  <1>3. Well(d)
    BY <1>2, BesideBasics
  <1>4. d.thinking \in Open(d)
    BY <1>2, <1>3 DEF Well, Contents
  <1>5. TextDelta(d, d.thinking) = d
    BY <1>3, <1>4, TextHeard DEF Well
  <1> QED BY <1>2, <1>5 DEF EmitThinking, d

LEMMA TextEmitted ==
    ASSUME NEW b, Well(b)
    PROVE  Beside(b, EmitText(b))
  <1> DEFINE c == CloseThinking(b)
             s == StartBlock(c, "message")
             d == EnsureText(b)
             e == [d EXCEPT !.visible = TRUE]
  <1> HIDE DEF c, s, d, e
  <1>1. Beside(b, c) /\ Well(c)
    BY ThinkingClosed, BesideBasics DEF c
  <1>2. Beside(b, d) /\ d.text # 0
    <2>1. CASE c.text # 0
      <3>1. d = c
        BY <2>1 DEF d, EnsureText, c
      <3> QED BY <3>1, <2>1, <1>1
    <2>2. CASE c.text = 0
      <3>1. Started(c, "message", s)
        BY <1>1, BlockStarted DEF s, Well, AnyKind
      <3>2. /\ s \in Bridge /\ s.thinking = c.thinking
            /\ Len(c.blocks) + 1 \in Nat /\ Len(c.blocks) + 1 # 0
        <4>1. Len(c.blocks) \in Nat
          BY <1>1, AlignedBasics DEF Well
        <4>2. s \in Bridge /\ s.thinking = c.thinking
          BY <3>1 DEF Started, Aligned
        <4> QED BY <4>1, <4>2
      <3>3. d = [s EXCEPT !.text = Len(c.blocks) + 1]
        BY <2>2 DEF d, EnsureText, c, s
      <3>4. Alike(s, d) /\ d.text = Len(c.blocks) + 1 /\ d.thinking = c.thinking
        BY <3>2, <3>3, Pointers
      <3>5. Beside(c, d)
        BY <3>4, <2>2, <1>1, ContentStarted DEF s
      <3> QED BY <3>2, <3>4, <3>5, <1>1, Through
    <2> QED BY <2>1, <2>2
  <1>3. Well(d)
    BY <1>2, BesideBasics
  <1>4. d.text \in Open(d)
    BY <1>2, <1>3 DEF Well, Contents
  <1>5. TextDelta(d, d.text) = d
    BY <1>3, <1>4, TextHeard DEF Well
  <1>6. Alike(d, e) /\ e.text = d.text /\ e.thinking = d.thinking
    BY <1>3, Seen DEF e, Well, Aligned
  <1>7. Well(e)
    <2>1. Aligned(e) /\ Open(e) = Open(d) /\ e.blocks = d.blocks
      BY <1>3, <1>6, AlikeAligned, AlikeOpen DEF Well, Alike
    <2>2. Contents(e)
      BY <2>1, <1>3, <1>6 DEF Well, Contents
    <2> QED BY <2>1, <2>2 DEF Well
  <1>8. Beside(b, e)
    <2>1. e.blocks = d.blocks /\ e.provisional = d.provisional
      BY <1>6 DEF Alike
    <2> QED BY <2>1, <1>2, <1>7 DEF Beside
  <1>9. EmitText(b) = e
    BY <1>5 DEF EmitText, d, e
  <1> QED BY <1>8, <1>9

LEMMA MadeVisible == ASSUME NEW b, Well(b) PROVE Beside(b, Visible(b))
  BY TextEmitted, Itself DEF Visible

\* Reasoning with encrypted content is a block that is stopped at once.
LEMMA IsSealed == ASSUME NEW b, Well(b) PROVE Beside(b, Sealed(b))
  <1> DEFINE c == CloseContent(b)
             d == StartBlock(c, "reasoning")
             k == Len(d.blocks)
             e == StopBlock(d, k)
  <1> HIDE DEF c, d, k, e
  <1>1. Beside(b, c) /\ Well(c) /\ c.thinking = 0 /\ c.text = 0
    BY ContentClosed DEF c
  <1>2. Started(c, "reasoning", d)
    BY <1>1, BlockStarted DEF d, Well, AnyKind
  <1>3. /\ Aligned(d) /\ k = Len(c.blocks) + 1 /\ k \in Open(d) /\ Len(c.blocks) \in Nat
        /\ \A i \in DOMAIN c.blocks : d.blocks[i] = c.blocks[i]
        /\ d.blocks[k].kind = "reasoning" /\ Open(d) = Open(c) \cup {k}
        /\ d.text = 0 /\ d.thinking = 0 /\ d.provisional = c.provisional
        /\ DOMAIN d.blocks = 1..k /\ DOMAIN c.blocks = 1..(k - 1)
        /\ Open(c) \subseteq 1..(k - 1)
    <2>1. /\ Len(c.blocks) \in Nat /\ DOMAIN c.blocks = 1..Len(c.blocks)
          /\ Open(c) \subseteq 1..Len(c.blocks)
      BY <1>1, AlignedBasics DEF Well
    <2>2. Aligned(d) /\ k = Len(c.blocks) + 1
      BY <1>2 DEF Started, k
    <2>3. DOMAIN d.blocks = 1..k
      BY <2>2, AlignedBasics DEF k
    <2>4. k \in Open(d)
      BY <1>2, <2>2 DEF Started
    <2> QED BY <2>1, <2>2, <2>3, <2>4, <1>1, <1>2 DEF Started
  <1>4. Stopped(d, {k}, e)
    BY <1>3, BlocksStopped DEF e, StopBlock
  <1>5. /\ Aligned(e) /\ DOMAIN e.blocks = 1..k /\ Open(e) = Open(c)
        /\ e.text = 0 /\ e.thinking = 0
        /\ \A i \in 1..k :
            /\ e.blocks[i].kind = d.blocks[i].kind /\ e.blocks[i].args = d.blocks[i].args
            /\ e.blocks[i].open <=> d.blocks[i].open /\ i # k
        /\ e.provisional = (d.provisional \/ Invalid(d.blocks[k]))
    <2>1. Open(e) = Open(c)
      BY <1>3, <1>4 DEF Stopped
    <2> QED BY <2>1, <1>3, <1>4 DEF Stopped
  <1>6. e.provisional = c.provisional
    <2>1. ~Invalid(d.blocks[k])
      BY <1>3 DEF Invalid
    <2>2. c.provisional \in BOOLEAN
      BY <1>1 DEF Well, Aligned, Bridge
    <2> QED BY <2>1, <2>2, <1>3, <1>5
  <1>7. ASSUME NEW i \in DOMAIN c.blocks
        PROVE  /\ e.blocks[i].kind = c.blocks[i].kind
               /\ e.blocks[i].args = c.blocks[i].args
               /\ e.blocks[i].open <=> c.blocks[i].open
    <2>1. i \in 1..k /\ i # k /\ d.blocks[i] = c.blocks[i]
      BY <1>3
    <2> QED BY <2>1, <1>5
  <1>8. Contents(e)
    <2>1. \A i \in Open(c) : c.blocks[i].kind \in Calls
      <3>1. Contents(c)
        BY <1>1 DEF Well
      <3>2. \A i \in Open(c) : i # 0
        BY <1>3
      <3> QED BY <3>1, <3>2, <1>1 DEF Contents
    <2>2. \A i \in Open(e) : e.blocks[i].kind \in Calls
      BY <2>1, <1>3, <1>5, <1>7
    <2> QED BY <2>2, <1>5 DEF Contents
  <1>9. \A i \in DOMAIN e.blocks : i \notin DOMAIN c.blocks => e.blocks[i].kind \notin Calls
    <2>1. \A i \in DOMAIN e.blocks : i \notin DOMAIN c.blocks => i = k
      BY <1>3, <1>5
    <2>2. e.blocks[k].kind = "reasoning"
      BY <1>3, <1>5
    <2> QED BY <2>1, <2>2 DEF Calls
  <1>10. Len(e.blocks) = k
    BY <1>5, <1>3, AlignedBasics
  <1>11. Beside(c, e)
    BY <1>3, <1>5, <1>6, <1>7, <1>8, <1>9, <1>10 DEF Beside, Well
  <1>12. Sealed(b) = e
    BY DEF Sealed, c, d, e, k
  <1> QED BY <1>1, <1>11, <1>12, Through

\* The call i, of the upstream's items xs, has its block at, and it is open.
Begun(xs, i, at, c) ==
    /\ Well(c) /\ at \in Open(c)
    /\ c.blocks[at].kind = xs[i].kind
    /\ c.blocks[at].args = IF xs[i].block = 0 THEN <<>> ELSE Arrived(xs[i])
    /\ \A j \in DOMAIN xs : IsCall(xs, j) /\ j # i => Link(xs[j], c) /\ xs[j].block # at
    /\ \A j, k \in DOMAIN xs :
        (IsCall(xs, j) /\ IsCall(xs, k) /\ j # i /\ k # i
         /\ xs[j].block = xs[k].block /\ xs[j].block # 0)
            => j = k
    /\ \A k \in DOMAIN c.blocks :
        c.blocks[k].kind \in Calls /\ k # at =>
            \E j \in DOMAIN xs : IsCall(xs, j) /\ j # i /\ xs[j].block = k

LEMMA LinkedIs ==
    ASSUME NEW b, NEW xs
    PROVE  Linked(xs, b) <=>
            /\ \A i \in DOMAIN xs : IsCall(xs, i) => Link(xs[i], b)
            /\ \A i, j \in DOMAIN xs :
                IsCall(xs, i) /\ IsCall(xs, j) /\ xs[i].block = xs[j].block /\ xs[i].block # 0
                    => i = j
            /\ \A k \in DOMAIN b.blocks :
                b.blocks[k].kind \in Calls =>
                    \E i \in DOMAIN xs : IsCall(xs, i) /\ xs[i].block = k
  BY DEF Linked, Link

LEMMA CallBegins ==
    ASSUME NEW b, Well(b), NEW xs \in Seq(Item), Linked(xs, b),
           NEW i \in DOMAIN xs, IsCall(xs, i), ~xs[i].done
    PROVE  /\ Begun(xs, i, CallBlock(b, xs[i]), StartCall(b, xs[i]))
           /\ StartCall(b, xs[i]).provisional = b.provisional
           /\ CallBlock(b, xs[i]) \in Nat /\ CallBlock(b, xs[i]) # 0
  <1> DEFINE c == CloseContent(b)
             at == CallBlock(b, xs[i])
             d == StartCall(b, xs[i])
             n == Len(c.blocks)
  <1> HIDE DEF c, at, d, n
  <1>1. Beside(b, c) /\ Well(c) /\ c.thinking = 0 /\ c.text = 0
    BY ContentClosed DEF c
  <1>2. Linked(xs, c)
    BY <1>1, StaysLinked
  <1>3. /\ \A j \in DOMAIN xs : IsCall(xs, j) => Link(xs[j], c)
        /\ \A j, k \in DOMAIN xs :
            IsCall(xs, j) /\ IsCall(xs, k) /\ xs[j].block = xs[k].block /\ xs[j].block # 0
                => j = k
        /\ \A k \in DOMAIN c.blocks :
            c.blocks[k].kind \in Calls => \E j \in DOMAIN xs : IsCall(xs, j) /\ xs[j].block = k
    BY <1>2, LinkedIs
  <1>4. xs[i] \in Item /\ xs[i].kind \in Calls /\ xs[i].kind \in AnyKind
    <2>1. xs[i] \in Item
      BY SequenceBasics
    <2> QED BY <2>1 DEF Item, IsCall, AnyKind
  <1>5. /\ n \in Nat /\ DOMAIN c.blocks = 1..n /\ Open(c) \subseteq 1..n
        /\ \A k \in 1..n : k \in Open(c) <=> c.blocks[k].open
    BY <1>1, AlignedBasics DEF Well, n
  <1>6. Link(xs[i], c)
    BY <1>3
  <1>7. c.provisional = b.provisional
    BY <1>1 DEF Beside
  <1>10. \A j, k \in DOMAIN xs :
            (IsCall(xs, j) /\ IsCall(xs, k) /\ j # i /\ k # i
             /\ xs[j].block = xs[k].block /\ xs[j].block # 0)
                => j = k
    BY <1>3
  <1>8. CASE xs[i].block # 0
    <2>1. at = xs[i].block /\ d = c
      BY <1>8 DEF at, d, c, CallBlock, StartCall
    <2>2. /\ at \in DOMAIN c.blocks /\ c.blocks[at].kind = xs[i].kind
          /\ c.blocks[at].open /\ c.blocks[at].args = Arrived(xs[i])
      BY <1>6, <1>8, <2>1 DEF Link
    <2>3. at \in Open(c) /\ at \in Nat
      BY <2>2, <1>5
    <2>4. \A j \in DOMAIN xs : IsCall(xs, j) /\ j # i => Link(xs[j], c) /\ xs[j].block # at
      BY <1>3, <1>8, <2>1
    <2>5. \A k \in DOMAIN c.blocks :
            c.blocks[k].kind \in Calls /\ k # at =>
                \E j \in DOMAIN xs : IsCall(xs, j) /\ j # i /\ xs[j].block = k
      BY <1>3, <2>1
    <2>7. c.blocks[at].args = IF xs[i].block = 0 THEN <<>> ELSE Arrived(xs[i])
      BY <1>8, <2>2
    <2>6. Begun(xs, i, at, c)
      BY <1>1, <1>10, <2>2, <2>3, <2>4, <2>5, <2>7 DEF Begun
    <2> QED BY <2>1, <2>3, <2>6, <1>7, <1>8 DEF at, d
  <1>9. CASE xs[i].block = 0
    <2>1. at = n + 1 /\ d = StartBlock(c, xs[i].kind)
      BY <1>9 DEF at, d, c, n, CallBlock, StartCall
    <2>2. Started(c, xs[i].kind, d)
      BY <2>1, <1>1, <1>4, BlockStarted DEF Well
    <2>3. /\ Aligned(d) /\ Len(d.blocks) = n + 1
          /\ \A k \in 1..n : d.blocks[k] = c.blocks[k]
          /\ d.blocks[at].kind = xs[i].kind
          /\ d.blocks[at].args = <<>>
          /\ Open(d) = Open(c) \cup {at}
          /\ d.text = 0 /\ d.thinking = 0
          /\ d.provisional = c.provisional
      BY <2>1, <2>2, <1>1, <1>5 DEF Started, n
    <2>4. DOMAIN d.blocks = 1..(n + 1)
      BY <2>3, AlignedBasics
    <2>5. Contents(d)
      <3>1. \A k \in Open(c) : c.blocks[k].kind \in Calls
        <4>1. \A k \in Open(c) : c.blocks[k].kind \in Calls \/ k \in {c.text, c.thinking}
          BY <1>1 DEF Well, Contents
        <4> QED BY <4>1, <1>1, <1>5
      <3>2. \A k \in Open(d) : d.blocks[k].kind \in Calls
        BY <3>1, <2>3, <1>4, <1>5
      <3> QED BY <3>2, <2>3 DEF Contents
    <2>6. ASSUME NEW j \in DOMAIN xs, IsCall(xs, j), j # i
          PROVE  Link(xs[j], d) /\ xs[j].block # at
      <3>1. Link(xs[j], c)
        BY <2>6, <1>3
      <3>2. CASE xs[j].block = 0
        BY <3>1, <3>2, <2>1, <1>5 DEF Link
      <3>3. CASE xs[j].block # 0
        <4>1. xs[j].block \in 1..n /\ xs[j].block \in 1..(n + 1) /\ xs[j].block # at
          BY <3>1, <3>3, <1>5, <2>1 DEF Link
        <4>2. d.blocks[xs[j].block] = c.blocks[xs[j].block]
          BY <4>1, <2>3
        <4> QED BY <4>1, <4>2, <3>1, <3>3, <2>4 DEF Link
      <3> QED BY <3>2, <3>3
    <2>7. ASSUME NEW k \in DOMAIN d.blocks, d.blocks[k].kind \in Calls, k # at
          PROVE  \E j \in DOMAIN xs : IsCall(xs, j) /\ j # i /\ xs[j].block = k
      <3>1. k \in 1..n /\ k # 0
        BY <2>7, <2>1, <2>4, <1>5
      <3>2. c.blocks[k].kind \in Calls
        BY <3>1, <2>3, <2>7
      <3> QED BY <3>1, <3>2, <1>3, <1>5, <1>9
    <2>8. d.blocks[at].args = IF xs[i].block = 0 THEN <<>> ELSE Arrived(xs[i])
      BY <1>9, <2>3
    <2>9. at \in Nat /\ at # 0
      BY <2>1, <1>5
    <2>10. Well(d) /\ at \in Open(d) /\ d.blocks[at].kind = xs[i].kind
      BY <2>3, <2>5 DEF Well
    <2>11. Begun(xs, i, at, d)
      BY <1>10, <2>6, <2>7, <2>8, <2>10 DEF Begun
    <2> QED BY <2>3, <2>9, <2>11, <1>7 DEF at, d
  <1> QED BY <1>8, <1>9

\* What becomes of the call, and of nothing else
Moved(c, at, y, d) ==
    /\ Well(d) /\ DOMAIN d.blocks = DOMAIN c.blocks
    /\ \A k \in DOMAIN c.blocks :
        /\ d.blocks[k].kind = c.blocks[k].kind
        /\ k # at => /\ d.blocks[k].args = c.blocks[k].args
                     /\ d.blocks[k].open <=> c.blocks[k].open
    /\ Link(y, d)

Relinked(xs, i, y, d) ==
    [xs EXCEPT ![i] = y] \in Seq(Item) /\ Linked([xs EXCEPT ![i] = y], d)

LEMMA CallLinked ==
    ASSUME NEW xs \in Seq(Item), NEW i \in DOMAIN xs, NEW at \in Nat, at # 0,
           NEW c, Begun(xs, i, at, c), NEW y \in Item, y.kind = xs[i].kind, y.block = at,
           NEW d, Moved(c, at, y, d), IsCall(xs, i)
    PROVE  Relinked(xs, i, y, d)
  <1> DEFINE ys == [xs EXCEPT ![i] = y]
  <1> HIDE DEF ys
  <1>1. /\ ys \in Seq(Item) /\ DOMAIN ys = DOMAIN xs /\ ys[i] = y
        /\ \A j \in DOMAIN xs : j # i => ys[j] = xs[j]
    BY DEF ys
  <1>2. \A j \in DOMAIN xs : IsCall(ys, j) <=> IsCall(xs, j)
    BY <1>1 DEF IsCall
  <1>3. ASSUME NEW j \in DOMAIN xs, IsCall(xs, j) PROVE Link(ys[j], d)
    <2>1. CASE j = i
      BY <2>1, <1>1 DEF Moved
    <2>2. CASE j # i
      <3>1. Link(xs[j], c) /\ xs[j].block # at /\ ys[j] = xs[j]
        BY <2>2, <1>1, <1>3 DEF Begun
      <3>2. xs[j].block \in DOMAIN c.blocks =>
                /\ d.blocks[xs[j].block].kind = c.blocks[xs[j].block].kind
                /\ d.blocks[xs[j].block].args = c.blocks[xs[j].block].args
                /\ d.blocks[xs[j].block].open <=> c.blocks[xs[j].block].open
        BY <3>1 DEF Moved
      <3>3. DOMAIN d.blocks = DOMAIN c.blocks
        BY DEF Moved
      <3> QED BY <3>1, <3>2, <3>3 DEF Link
    <2> QED BY <2>1, <2>2
  <1>4. ASSUME NEW j \in DOMAIN xs, NEW k \in DOMAIN xs, IsCall(xs, j), IsCall(xs, k),
               ys[j].block = ys[k].block, ys[j].block # 0
        PROVE  j = k
    <2>1. CASE j = i /\ k # i
      <3>1. xs[k].block # at /\ ys[k] = xs[k] /\ ys[j] = y
        BY <2>1, <1>1, <1>4 DEF Begun
      <3> QED BY <3>1, <1>4
    <2>2. CASE j # i /\ k = i
      <3>1. xs[j].block # at /\ ys[j] = xs[j] /\ ys[k] = y
        BY <2>2, <1>1, <1>4 DEF Begun
      <3> QED BY <3>1, <1>4
    <2>3. CASE j # i /\ k # i
      <3>1. ys[j] = xs[j] /\ ys[k] = xs[k]
        BY <2>3, <1>1
      <3> QED BY <3>1, <2>3, <1>4 DEF Begun
    <2> QED BY <2>1, <2>2, <2>3
  <1>5. ASSUME NEW k \in DOMAIN d.blocks, d.blocks[k].kind \in Calls
        PROVE  \E j \in DOMAIN xs : IsCall(xs, j) /\ ys[j].block = k
    <2>1. CASE k = at
      BY <2>1, <1>1
    <2>2. CASE k # at
      <3>1. k \in DOMAIN c.blocks /\ c.blocks[k].kind \in Calls
        BY <1>5 DEF Moved
      <3>2. PICK j \in DOMAIN xs : IsCall(xs, j) /\ j # i /\ xs[j].block = k
        BY <3>1, <2>2 DEF Begun
      <3> QED BY <3>2, <1>1
    <2> QED BY <2>1, <2>2
  <1>6. Linked(ys, d)
    BY <1>1, <1>2, <1>3, <1>4, <1>5, LinkedIs
  <1> QED BY <1>1, <1>6 DEF Relinked, ys

LEMMA GivenWell ==
    ASSUME NEW b, Well(b), NEW i, NEW args, NEW c, Given(b, i, args, c)
    PROVE  Well(c)
  <1>1. /\ Aligned(c) /\ Open(c) = Open(b)
        /\ c.text = b.text /\ c.thinking = b.thinking
        /\ \A k \in DOMAIN b.blocks : c.blocks[k].kind = b.blocks[k].kind
    BY DEF Given
  <1>2. Open(b) \subseteq DOMAIN b.blocks
    BY DEF Open
  <1>3. Contents(c)
    BY <1>1, <1>2 DEF Well, Contents
  <1> QED BY <1>1, <1>3 DEF Well

LEMMA CallStoppedWell ==
    ASSUME NEW b, Well(b), NEW i \in Open(b), b.blocks[i].kind \in Calls,
           NEW c, Stopped(b, {i}, c)
    PROVE  Well(c)
  <1>1. /\ Aligned(c) /\ Open(c) = Open(b) \ {i}
        /\ c.text = b.text /\ c.thinking = b.thinking
        /\ \A k \in DOMAIN b.blocks : c.blocks[k].kind = b.blocks[k].kind
    BY DEF Stopped
  <1>2. Open(b) \subseteq DOMAIN b.blocks
    BY DEF Open
  <1>3. i # b.text \/ b.text = 0
    BY DEF Well, Contents, Calls
  <1>4. i # b.thinking \/ b.thinking = 0
    BY DEF Well, Contents, Calls
  <1>5. Contents(c)
    BY <1>1, <1>2, <1>3, <1>4 DEF Well, Contents
  <1> QED BY <1>1, <1>5 DEF Well

\* What a call that is begun has of its arguments.
LEMMA BegunWith ==
    ASSUME NEW b, NEW xs \in Seq(Item), Linked(xs, b), NEW i \in DOMAIN xs,
           IsCall(xs, i), ~xs[i].done, NEW at, NEW c, Begun(xs, i, at, c)
    PROVE  /\ xs[i].sent \in 0..2
           /\ xs[i].sent = 0 => c.blocks[at].args = <<>>
           /\ xs[i].sent = 1 => c.blocks[at].args = <<1>>
           /\ xs[i].sent = 2 => c.blocks[at].args = Whole
  <1>1. Link(xs[i], b)
    BY LinkedIs
  <1>2. xs[i].block = 0 <=> xs[i].sent = 0
    BY <1>1 DEF Link
  <1>3. c.blocks[at].args = IF xs[i].block = 0 THEN <<>> ELSE Arrived(xs[i])
    BY DEF Begun
  <1>4. xs[i] \in Item
    BY SequenceBasics
  <1>5. xs[i].sent \in 0..2
    BY <1>4 DEF Item
  <1>6. CASE xs[i].sent = 0
    BY <1>2, <1>3, <1>5, <1>6
  <1>7. CASE xs[i].sent = 1
    <2>1. c.blocks[at].args = Arrived(xs[i])
      BY <1>2, <1>3, <1>7
    <2> QED BY <2>1, <1>7, <1>5 DEF Arrived
  <1>8. CASE xs[i].sent = 2
    <2>1. c.blocks[at].args = Arrived(xs[i])
      BY <1>2, <1>3, <1>8
    <2> QED BY <2>1, <1>8, <1>5 DEF Arrived
  <1> QED BY <1>5, <1>6, <1>7, <1>8

LEMMA ArgumentsTaken ==
    ASSUME NEW b, NEW xs \in Seq(Item), Reads(xs, b), NEW i \in DOMAIN xs,
           IsCall(xs, i), ~xs[i].done, xs[i].sent < 2,
           NEW y, y = [xs[i] EXCEPT !.sent = xs[i].sent + 1,
                                    !.block = CallBlock(b, xs[i])],
           NEW d, d = ToolDelta(StartCall(b, xs[i]), CallBlock(b, xs[i]),
                                <<xs[i].sent + 1>>)
    PROVE  [xs EXCEPT ![i] = y] \in Seq(Item) /\ Reads([xs EXCEPT ![i] = y], d)
  <1> DEFINE at == CallBlock(b, xs[i])
             c == StartCall(b, xs[i])
             args == <<xs[i].sent + 1>>
  <1> HIDE DEF at, c, args
  <1>1. Well(b) /\ Linked(xs, b) /\ ~b.provisional
    BY DEF Reads, Well
  <1>2. Begun(xs, i, at, c) /\ c.provisional = b.provisional /\ at \in Nat /\ at # 0
    BY <1>1, CallBegins DEF at, c
  <1>3. /\ xs[i] \in Item
        /\ xs[i].sent \in {0, 1}
        /\ xs[i].sent = 0 => c.blocks[at].args = <<>>
        /\ xs[i].sent = 1 => c.blocks[at].args = <<1>>
    <2>1. xs[i] \in Item
      BY SequenceBasics
    <2>2. xs[i].sent \in 0..2
      BY <2>1 DEF Item
    <2> QED BY <2>1, <2>2, <1>1, <1>2, BegunWith
  <1>4. Well(c) /\ at \in Open(c) /\ c.blocks[at].kind = xs[i].kind
    BY <1>2 DEF Begun
  <1>5. args \in Seq(Nat)
    BY <1>3 DEF args
  <1>6. Given(c, at, args, d)
    BY <1>4, <1>5, ArgumentsGiven DEF at, c, args, Well
  <1>7. Well(d)
    BY <1>4, <1>6, GivenWell
  <1>8. /\ y \in Item /\ y.kind = xs[i].kind /\ y.block = at /\ ~y.done
        /\ y.sent = xs[i].sent + 1
    <2>1. y = [xs[i] EXCEPT !.sent = xs[i].sent + 1, !.block = at]
      BY DEF at
    <2>2. xs[i].sent + 1 \in 0..2
      BY <1>3
    <2> QED BY <2>1, <2>2, <1>2, <1>3 DEF Item
  <1>9. c.blocks[at].args \o args = Arrived(y)
    <2>1. CASE xs[i].sent = 0
      <3>1. c.blocks[at].args = <<>> /\ args = <<1>> /\ y.sent = 1
        BY <2>1, <1>3, <1>8 DEF args
      <3> QED BY <3>1 DEF Arrived
    <2>2. CASE xs[i].sent = 1
      <3>1. c.blocks[at].args = <<1>> /\ args = <<2>> /\ y.sent = 2
        BY <2>2, <1>3, <1>8 DEF args
      <3>2. <<1>> \o <<2>> = <<1, 2>>
        <4>1. /\ <<1>> \o <<2>> \in Seq(Nat) /\ <<1, 2>> \in Seq(Nat)
              /\ Len(<<1>> \o <<2>>) = 2 /\ Len(<<1, 2>>) = 2
          OBVIOUS
        <4>2. (<<1>> \o <<2>>)[1] = 1 /\ (<<1>> \o <<2>>)[2] = 2
          OBVIOUS
        <4>3. \A k \in 1..2 : (<<1>> \o <<2>>)[k] = <<1, 2>>[k]
          BY <4>2
        <4> QED BY <4>1, <4>3, SeqEqual
      <3> QED BY <3>1, <3>2 DEF Arrived, Whole
    <2> QED BY <2>1, <2>2, <1>3
  <1>10. /\ DOMAIN d.blocks = DOMAIN c.blocks /\ at \in DOMAIN c.blocks
         /\ \A k \in DOMAIN c.blocks :
            /\ d.blocks[k].kind = c.blocks[k].kind
            /\ d.blocks[k].open <=> c.blocks[k].open
            /\ k # at => d.blocks[k].args = c.blocks[k].args
         /\ d.blocks[at].args = c.blocks[at].args \o args
         /\ d.provisional = c.provisional
    BY <1>4, <1>6 DEF Given, Open
  <1>11. c.blocks[at].open
    BY <1>4 DEF Open
  <1>12. Link(y, d)
    <2>1. d.blocks[at].kind = y.kind /\ d.blocks[at].open /\ d.blocks[at].args = Arrived(y)
      BY <1>4, <1>8, <1>9, <1>10, <1>11
    <2>2. y.sent # 0
      BY <1>3, <1>8
    <2> QED BY <2>1, <2>2, <1>2, <1>8, <1>10 DEF Link
  <1>13. Moved(c, at, y, d)
    BY <1>7, <1>10, <1>12 DEF Moved
  <1>14. Relinked(xs, i, y, d)
    BY <1>2, <1>8, <1>13, CallLinked
  <1> QED BY <1>1, <1>2, <1>7, <1>10, <1>14 DEF Relinked, Reads, Well

LEMMA CallIsDone ==
    ASSUME NEW b, NEW xs \in Seq(Item), Reads(xs, b), NEW i \in DOMAIN xs,
           IsCall(xs, i), ~xs[i].done, xs[i].sent # 1,
           NEW y, y = [xs[i] EXCEPT !.done = TRUE, !.block = CallBlock(b, xs[i])]
    PROVE  /\ [xs EXCEPT ![i] = y] \in Seq(Item)
           /\ Reads([xs EXCEPT ![i] = y], CallDone(b, xs[i]))
  <1> DEFINE at == CallBlock(b, xs[i])
             c == StartCall(b, xs[i])
             e == IF xs[i].sent = 0 THEN ToolDelta(c, at, Whole) ELSE c
             d == StopBlock(e, at)
  <1> HIDE DEF at, c, e, d
  <1>1. Well(b) /\ Linked(xs, b) /\ ~b.provisional
    BY DEF Reads, Well
  <1>2. Begun(xs, i, at, c) /\ c.provisional = b.provisional /\ at \in Nat /\ at # 0
    BY <1>1, CallBegins DEF at, c
  <1>3. /\ xs[i] \in Item
        /\ xs[i].sent \in {0, 2}
        /\ xs[i].sent = 0 => c.blocks[at].args = <<>>
        /\ xs[i].sent = 2 => c.blocks[at].args = Whole
    <2>1. xs[i] \in Item
      BY SequenceBasics
    <2>2. xs[i].sent \in 0..2
      BY <2>1 DEF Item
    <2> QED BY <2>1, <2>2, <1>1, <1>2, BegunWith
  <1>4. /\ Well(c) /\ at \in Open(c) /\ c.blocks[at].kind = xs[i].kind
        /\ xs[i].kind \in Calls
    BY <1>2 DEF Begun, IsCall
  <1>5. /\ Well(e) /\ Open(e) = Open(c) /\ DOMAIN e.blocks = DOMAIN c.blocks
        /\ \A k \in DOMAIN c.blocks :
            /\ e.blocks[k].kind = c.blocks[k].kind
            /\ e.blocks[k].open <=> c.blocks[k].open
            /\ k # at => e.blocks[k].args = c.blocks[k].args
        /\ e.blocks[at].args = Whole
        /\ e.provisional = c.provisional
    <2>1. CASE xs[i].sent = 0
      <3>1. e = ToolDelta(c, at, Whole) /\ Whole \in Seq(Nat)
        BY <2>1 DEF e, Whole
      <3>2. Given(c, at, Whole, e)
        BY <3>1, <1>4, ArgumentsGiven DEF Well
      <3>3. <<>> \o Whole = Whole
        BY DEF Whole
      <3>4. Well(e)
        BY <3>2, <1>4, GivenWell
      <3>5. e.blocks[at].args = Whole
        BY <3>2, <3>3, <2>1, <1>3 DEF Given
      <3> QED BY <3>2, <3>4, <3>5 DEF Given
    <2>2. CASE xs[i].sent = 2
      <3>1. e = c
        BY <2>2 DEF e
      <3> QED BY <3>1, <2>2, <1>3, <1>4
    <2> QED BY <2>1, <2>2, <1>3
  <1>6. at \in DOMAIN c.blocks /\ at \in Open(e) /\ e.blocks[at].kind = xs[i].kind
    BY <1>4, <1>5 DEF Open
  <1>7. Stopped(e, {at}, d)
    BY <1>5, <1>6, BlocksStopped DEF d, StopBlock, Well
  <1>8. Well(d)
    BY <1>4, <1>5, <1>6, <1>7, CallStoppedWell
  <1>9. y \in Item /\ y.kind = xs[i].kind /\ y.block = at /\ y.done /\ y.sent = xs[i].sent
    <2>1. y = [xs[i] EXCEPT !.done = TRUE, !.block = at]
      BY DEF at
    <2> QED BY <2>1, <1>2, <1>3 DEF Item
  <1>10. /\ DOMAIN d.blocks = DOMAIN c.blocks
         /\ \A k \in DOMAIN c.blocks :
            /\ d.blocks[k].kind = c.blocks[k].kind
            /\ d.blocks[k].args = e.blocks[k].args
            /\ d.blocks[k].open <=> c.blocks[k].open /\ k # at
    BY <1>5, <1>7 DEF Stopped
  <1>11. d.provisional = b.provisional
    <2>1. ~Invalid(e.blocks[at])
      BY <1>5 DEF Invalid
    <2>2. d.provisional = (e.provisional \/ \E k \in {at} : Invalid(e.blocks[k]))
      BY <1>7 DEF Stopped
    <2>3. e.provisional = FALSE
      <3>1. b.provisional = FALSE
        BY <1>1 DEF Well, Aligned, Bridge
      <3> QED BY <3>1, <1>2, <1>5
    <2> QED BY <2>1, <2>2, <2>3, <1>2, <1>5
  <1>12. Link(y, d)
    <2>1. Arrived(y) = Whole /\ y.sent # 1
      BY <1>3, <1>9 DEF Arrived
    <2>2. d.blocks[at].kind = y.kind /\ ~d.blocks[at].open /\ d.blocks[at].args = Whole
      BY <1>4, <1>5, <1>6, <1>9, <1>10
    <2> QED BY <2>1, <2>2, <1>2, <1>6, <1>9, <1>10 DEF Link
  <1>13. Moved(c, at, y, d)
    BY <1>5, <1>8, <1>10, <1>12 DEF Moved
  <1>14. Relinked(xs, i, y, d)
    BY <1>2, <1>9, <1>13, CallLinked
  <1>15. CallDone(b, xs[i]) = d
    BY DEF CallDone, d, e, c, at
  <1> QED BY <1>1, <1>8, <1>11, <1>14, <1>15 DEF Relinked, Reads, Well

\* All that is open at the end is stopped.
Shut(xs, d) ==
    /\ Aligned(d) /\ Open(d) = {}
    /\ TellsCalls(d.client, TRUE)
    /\ (\A i \in DOMAIN xs : xs[i].done) =>
        ~d.provisional /\ TellsCalls(d.client, FALSE) /\ EachCallIn(xs, d.client)

LEMMA AllShut ==
    ASSUME NEW b, NEW xs \in Seq(Item), Reads(xs, b), NEW c, Beside(b, c),
           NEW d, Stopped(c, Open(c), d)
    PROVE  Shut(xs, d)
  <1> DEFINE n == Len(c.blocks)
             all == \A i \in DOMAIN xs : xs[i].done
  <1> HIDE DEF n, all
  <1>1. Well(b) /\ Linked(xs, b) /\ ~b.provisional
    BY DEF Reads, Well
  <1>2. Well(c) /\ Linked(xs, c) /\ ~c.provisional
    <2>1. Well(c) /\ c.provisional = b.provisional
      BY DEF Beside
    <2> QED BY <2>1, <1>1, StaysLinked
  <1>3. /\ Aligned(d) /\ DOMAIN d.blocks = DOMAIN c.blocks
        /\ \A i \in DOMAIN c.blocks :
            d.blocks[i].kind = c.blocks[i].kind /\ d.blocks[i].args = c.blocks[i].args
        /\ Open(d) = {}
        /\ d.provisional = (c.provisional \/ \E i \in Open(c) : Invalid(c.blocks[i]))
    <2>1. Open(c) \ Open(c) = {}
      OBVIOUS
    <2> QED BY <2>1 DEF Stopped
  <1>4. /\ n \in Nat /\ DOMAIN c.blocks = 1..n /\ DOMAIN d.blocks = 1..n
        /\ DOMAIN d.client.slots = 1..n /\ Open(c) \subseteq 1..n
        /\ \A i \in 1..n : i \in Open(c) <=> c.blocks[i].open
    <2>1. /\ n \in Nat /\ DOMAIN c.blocks = 1..n /\ Open(c) \subseteq 1..n
          /\ \A i \in 1..n : i \in Open(c) <=> c.blocks[i].open
      BY <1>2, AlignedBasics DEF n, Well
    <2>2. DOMAIN d.blocks = 1..Len(d.blocks) /\ DOMAIN d.client.slots = 1..Len(d.blocks)
      BY <1>3, AlignedBasics
    <2> QED BY <2>1, <2>2, <1>3
  <1>5. /\ \A i \in DOMAIN xs : IsCall(xs, i) => Link(xs[i], c)
        /\ \A i, j \in DOMAIN xs :
            IsCall(xs, i) /\ IsCall(xs, j) /\ xs[i].block = xs[j].block /\ xs[i].block # 0
                => i = j
        /\ \A k \in DOMAIN c.blocks :
            c.blocks[k].kind \in Calls => \E i \in DOMAIN xs : IsCall(xs, i) /\ xs[i].block = k
    BY <1>2, LinkedIs
  <1>6. ASSUME NEW k \in 1..n, c.blocks[k].kind \in Calls
        PROVE  \E i \in DOMAIN xs :
                /\ IsCall(xs, i) /\ xs[i].block = k /\ c.blocks[k].args = Arrived(xs[i])
                /\ c.blocks[k].open <=> ~xs[i].done
                /\ xs[i].done => xs[i].sent # 1
    <2>1. PICK i \in DOMAIN xs : IsCall(xs, i) /\ xs[i].block = k
      BY <1>4, <1>5, <1>6
    <2>2. Link(xs[i], c)
      BY <2>1, <1>5
    <2>3. k # 0
      BY <1>4
    <2> QED BY <2>1, <2>2, <2>3 DEF Link
  <1>7. \A k \in 1..n :
        /\ d.client.slots[k].kind = c.blocks[k].kind
        /\ d.client.slots[k].done =>
            d.client.slots[k].input = c.blocks[k].args /\ ~Invalid(c.blocks[k])
    <2>1. ASSUME NEW k \in 1..n
          PROVE  /\ d.client.slots[k].kind = c.blocks[k].kind
                 /\ d.client.slots[k].done =>
                    d.client.slots[k].input = c.blocks[k].args /\ ~Invalid(c.blocks[k])
      <3>1. /\ d.client.slots[k].kind = d.blocks[k].kind
            /\ d.client.slots[k].done =>
                /\ ~d.blocks[k].open /\ ~Invalid(d.blocks[k])
                /\ d.client.slots[k].input = d.blocks[k].args
        BY <1>3, <1>4 DEF Aligned
      <3>2. d.blocks[k].kind = c.blocks[k].kind /\ d.blocks[k].args = c.blocks[k].args
        BY <1>3, <1>4
      <3> QED BY <3>1, <3>2 DEF Invalid
    <2> QED BY <2>1
  <1>8. ASSUME NEW cut \in BOOLEAN, cut \/ all
        PROVE  TellsCalls(d.client, cut)
    <2>1. ASSUME NEW k \in 1..n, d.client.slots[k].done, d.client.slots[k].kind \in Calls
          PROVE  d.client.slots[k].input = Whole
                    \/ (d.client.slots[k].kind = "custom" /\ cut)
      <3>1. /\ c.blocks[k].kind \in Calls /\ d.client.slots[k].kind = c.blocks[k].kind
            /\ d.client.slots[k].input = c.blocks[k].args /\ ~Invalid(c.blocks[k])
        BY <1>7, <2>1
      <3>2. PICK i \in DOMAIN xs :
                /\ c.blocks[k].args = Arrived(xs[i])
                /\ xs[i].done => xs[i].sent # 1
        BY <1>6, <3>1
      <3>3. CASE c.blocks[k].kind = "function"
        <4>1. Arrived(xs[i]) # <<>>
          BY DEF Arrived, Whole
        <4> QED BY <4>1, <3>1, <3>2, <3>3 DEF Invalid
      <3>4. CASE c.blocks[k].kind = "custom"
        <4>1. all => c.blocks[k].args = Whole
          BY <3>2 DEF all, Arrived
        <4> QED BY <4>1, <1>8, <3>1, <3>4
      <3> QED BY <3>1, <3>3, <3>4 DEF Calls
    <2> QED BY <2>1, <1>4 DEF TellsCalls
  <1>9. all => ~d.provisional
    <2> SUFFICES ASSUME all PROVE ~d.provisional
      OBVIOUS
    <2>1. ASSUME NEW i \in Open(c) PROVE ~Invalid(c.blocks[i])
      <3>1. i \in 1..n /\ c.blocks[i].open
        BY <1>4
      <3>2. c.blocks[i].kind \notin Calls
        BY <3>1, <1>6 DEF all
      <3> QED BY <3>2 DEF Invalid, Calls
    <2> QED BY <2>1, <1>2, <1>3
  <1>10. all => EachCallIn(xs, d.client)
    <2> SUFFICES ASSUME all PROVE EachCallIn(xs, d.client)
      OBVIOUS
    <2>1. ASSUME NEW i \in DOMAIN xs, xs[i].kind \in Calls
          PROVE  /\ xs[i].block \in 1..n /\ xs[i].block # 0
                 /\ d.client.slots[xs[i].block].kind = xs[i].kind
      <3>1. IsCall(xs, i) /\ Link(xs[i], c) /\ xs[i].done
        BY <2>1, <1>5 DEF IsCall, all
      <3>2. xs[i].block \in 1..n /\ xs[i].block # 0 /\ c.blocks[xs[i].block].kind = xs[i].kind
        BY <3>1, <1>4 DEF Link
      <3> QED BY <3>2, <1>7
    <2>2. ASSUME NEW i \in DOMAIN xs, xs[i].kind \in Calls,
                 NEW j \in DOMAIN xs, xs[j].kind \in Calls, xs[i].block = xs[j].block
          PROVE  i = j
      <3>1. IsCall(xs, i) /\ IsCall(xs, j) /\ xs[i].block # 0
        BY <2>1, <2>2 DEF IsCall
      <3> QED BY <3>1, <2>2, <1>5
    <2>3. ASSUME NEW k \in 1..n, d.client.slots[k].kind \in Calls
          PROVE  \E i \in DOMAIN xs : xs[i].kind \in Calls /\ xs[i].block = k
      <3>1. c.blocks[k].kind \in Calls
        BY <2>3, <1>7
      <3> QED BY <3>1, <1>6 DEF IsCall
    <2> QED BY <2>1, <2>2, <2>3, <1>4 DEF EachCallIn
  <1> QED BY <1>3, <1>8, <1>9, <1>10 DEF Shut, all

LEMMA EndHeard ==
    ASSUME NEW c \in BridgeClient, ~c.bad, c.created, c.ended = "", NEW how \in Endings
    PROVE  /\ HearsEnd(c, how) \in BridgeClient
           /\ ~HearsEnd(c, how).bad /\ HearsEnd(c, how).ended = how
           /\ HearsEnd(c, how).slots = c.slots
  <1> DEFINE h == Hears(c, TRUE)
  <1> HIDE DEF h
  <1>1. h \in BridgeClient /\ ~h.bad /\ h.slots = c.slots
    BY DEF Hears, BridgeClient, h
  <1>2. HearsEnd(c, how) = [h EXCEPT !.ended = how]
    BY DEF HearsEnd, h
  <1> QED BY <1>1, <1>2 DEF BridgeClient

\* An end of the client's stream, and nothing else.
EndsAs(b, how, c) ==
    /\ c \in Bridge /\ c.bad = b.bad /\ c.blocks = b.blocks /\ Open(c) = Open(b)
    /\ ~c.client.bad /\ c.client.slots = b.client.slots /\ c.client.ended = how

LEMMA Ends ==
    ASSUME NEW b \in Bridge, ~b.client.bad, b.client.created, b.client.ended = "",
           NEW how \in Endings,
           NEW c, c = [b EXCEPT !.client = HearsEnd(b.client, how)]
    PROVE  EndsAs(b, how, c)
  <1> DEFINE client == HearsEnd(b.client, how)
  <1> HIDE DEF client
  <1>1. b.client \in BridgeClient
    BY DEF Bridge
  <1>2. /\ client \in BridgeClient /\ ~client.bad /\ client.ended = how
        /\ client.slots = b.client.slots
    BY <1>1, EndHeard DEF client
  <1>3. c = [b EXCEPT !.client = client]
    BY DEF client
  <1>4. c \in Bridge /\ c.bad = b.bad /\ c.blocks = b.blocks /\ c.client = client
    BY <1>2, <1>3 DEF Bridge
  <1>5. Open(c) = Open(b)
    BY <1>4 DEF Open
  <1> QED BY <1>2, <1>4, <1>5 DEF EndsAs

\* The terminal event says what became of the upstream.
LEMMA TerminalTold ==
    ASSUME NEW xs, NEW b, Shut(xs, b), NEW how \in {"completed", "incomplete"},
           how = "completed" => \A i \in DOMAIN xs : xs[i].done,
           NEW reason, reason = IF how = "incomplete" THEN "max_tokens" ELSE "end_turn"
    PROVE  Tells(xs, Terminal(b, reason), how)
  <1> DEFINE r == IF HasCall(b) THEN "tool_use" ELSE reason
             c == [b EXCEPT !.reason = r, !.stopped = TRUE]
             e == Terminal(b, reason)
             ends == IF r = "max_tokens" THEN "incomplete" ELSE "completed"
  <1> HIDE DEF r, c, e, ends
  <1>1. /\ b \in Bridge /\ b.bad = FALSE /\ b.active = {} /\ Open(b) = {}
        /\ ~b.client.bad /\ b.client.created /\ b.client.ended = ""
    BY DEF Shut, Aligned, Bridge
  <1>2. r \in {"tool_use", "max_tokens", "end_turn"}
    BY DEF r
  <1>3. /\ c \in Bridge /\ c.bad = FALSE /\ c.active = {} /\ c.client = b.client
        /\ c.blocks = b.blocks /\ c.provisional = b.provisional /\ c.reason = r
    BY <1>1, <1>2 DEF c, Bridge
  <1>4. Flush(c) = c
    BY <1>3, NothingToComplete DEF Flush
  <1>5. Open(c) = {}
    BY <1>1, <1>3 DEF Open
  <1>6. e = FinishResponse(c)
    BY DEF e, Terminal, c, r
  <1>7. how = "completed" =>
            ~b.provisional /\ TellsCalls(b.client, FALSE) /\ EachCallIn(xs, b.client)
    BY DEF Shut
  <1>8. CASE b.provisional
    <2>1. how = "incomplete"
      BY <1>7, <1>8
    <2>2. e = [c EXCEPT !.client = HearsEnd(c.client, "failed")]
      BY <1>3, <1>4, <1>6, <1>8 DEF FinishResponse, FailResponse
    <2>3. EndsAs(c, "failed", e)
      BY <2>2, <1>1, <1>3, Ends DEF Endings
    <2>4. TellsCalls(e.client, TRUE)
      <3>1. TellsCalls(b.client, TRUE) /\ e.client.slots = b.client.slots
        BY <2>3, <1>3 DEF Shut, EndsAs
      <3> QED BY <3>1 DEF TellsCalls
    <2>5. /\ e \in Bridge /\ ~e.bad /\ ~e.client.bad /\ Open(e) = {}
          /\ e.client.ended = "failed"
      BY <2>3, <1>3, <1>5 DEF EndsAs
    <2>6. (how = "incomplete") = TRUE
      BY <2>1
    <2>7. Tells(xs, e, how)
      BY <2>1, <2>4, <2>5, <2>6 DEF Tells
    <2> QED BY <2>7 DEF e
  <1>9. CASE ~b.provisional
    <2>1. e = [c EXCEPT !.client = HearsEnd(c.client, ends)]
      BY <1>3, <1>4, <1>6, <1>9 DEF FinishResponse, ends
    <2>2. ends \in {"completed", "incomplete"}
      BY DEF ends
    <2>3. EndsAs(c, ends, e)
      BY <2>1, <2>2, <1>1, <1>3, Ends DEF Endings
    <2>4. /\ e \in Bridge /\ ~e.bad /\ ~e.client.bad /\ Open(e) = {}
          /\ e.client.ended = ends /\ e.client.slots = b.client.slots /\ e.blocks = b.blocks
      BY <2>3, <1>3, <1>5 DEF EndsAs
    <2>5. HasCall(e) <=> HasCall(b)
      BY <2>4 DEF HasCall
    <2>6. \A i \in DOMAIN e.client.slots : e.client.slots[i].done
      <3>1. ASSUME NEW i \in DOMAIN b.client.slots PROVE b.client.slots[i].done
        <4>1. i \in DOMAIN b.blocks
          BY AlignedBasics DEF Shut
        <4>2. b.blocks[i].open \/ b.client.slots[i].done
                \/ (b.provisional /\ Invalid(b.blocks[i]))
          BY <4>1 DEF Shut, Aligned
        <4>3. ~b.blocks[i].open
          BY <4>1, <1>1 DEF Open
        <4> QED BY <4>2, <4>3, <1>9
      <3> QED BY <3>1, <2>4
    <2>7. CASE how = "completed"
      <3>1. TellsCalls(e.client, FALSE) /\ EachCallIn(xs, e.client)
        BY <1>7, <2>4, <2>7 DEF TellsCalls, EachCallIn
      <3>2. ends = "completed"
        BY <2>7 DEF ends, r
      <3>3. (how = "incomplete") = FALSE
        BY <2>7
      <3>4. Tells(xs, e, how)
        BY <2>4, <2>6, <2>7, <3>1, <3>2, <3>3 DEF Tells
      <3> QED BY <3>4 DEF e
    <2>8. CASE how = "incomplete"
      <3>1. TellsCalls(e.client, TRUE)
        <4>1. TellsCalls(b.client, TRUE)
          BY DEF Shut
        <4> QED BY <4>1, <2>4 DEF TellsCalls
      <3>2. ends = "completed" => HasCall(e)
        BY <2>5, <2>8 DEF ends, r
      <3>3. (how = "incomplete") = TRUE
        BY <2>8
      <3>4. Tells(xs, e, how)
        BY <2>2, <2>4, <2>6, <2>8, <3>1, <3>2, <3>3 DEF Tells
      <3> QED BY <3>4 DEF e
    <2> QED BY <2>7, <2>8
  <1> QED BY <1>8, <1>9

LEMMA UpstreamFinished ==
    ASSUME NEW b, NEW xs \in Seq(Item), Reads(xs, b),
           NEW how \in {"completed", "incomplete"},
           how = "completed" => \A i \in DOMAIN xs : xs[i].done
    PROVE  Tells(xs, Terminal(CloseAll(Visible(b)),
                              IF how = "incomplete" THEN "max_tokens" ELSE "end_turn"), how)
  <1> DEFINE v == Visible(b)
             c == CloseContent(v)
             d == CloseAll(v)
  <1> HIDE DEF v, c, d
  <1>1. Well(b)
    BY DEF Reads, Well
  <1>2. Beside(b, v) /\ Well(v)
    BY <1>1, MadeVisible, BesideBasics DEF v
  <1>3. Beside(v, c) /\ Well(c)
    BY <1>2, ContentClosed DEF c
  <1>4. Beside(b, c)
    BY <1>1, <1>2, <1>3, Through
  <1>5. Stopped(c, Open(c), d)
    <2>1. d = StopBlocks(c, Open(c))
      BY DEF d, c, CloseAll
    <2> QED BY <2>1, <1>3, BlocksStopped DEF Well
  <1>6. Shut(xs, d)
    BY <1>4, <1>5, AllShut
  <1> QED BY <1>6, TerminalTold DEF d, v

\* The failure is raised before the upstream has ended.
LEMMA FailureTold ==
    ASSUME NEW b, NEW xs \in Seq(Item), Reads(xs, b), NEW e,
           e = [FailExecution(CloseUnclosed(b)) EXCEPT !.error = TRUE]
    PROVE  ~e.bad /\ ~e.client.bad /\ e.client.ended = "failed" /\ TellsCalls(e.client, TRUE)
  <1> DEFINE c == CloseUnclosed(b)
             d == FailExecution(c)
  <1> HIDE DEF c, d
  <1>1. Well(b)
    BY DEF Reads, Well
  <1>2. Stopped(b, Open(b), c)
    BY <1>1, BlocksStopped DEF c, CloseUnclosed, Well
  <1>3. Shut(xs, c)
    BY <1>1, <1>2, AllShut, Itself
  <1>4. /\ c \in Bridge /\ c.bad = FALSE /\ c.active = {}
        /\ ~c.client.bad /\ c.client.created /\ c.client.ended = ""
        /\ TellsCalls(c.client, TRUE)
    BY <1>3 DEF Shut, Aligned, Bridge
  <1>5. Flush(c) = c
    BY <1>4, NothingToComplete DEF Flush
  <1>6. d = [c EXCEPT !.client = HearsEnd(c.client, "failed")]
    BY <1>4, <1>5 DEF d, FailExecution, FailResponse
  <1>7. EndsAs(c, "failed", d)
    BY <1>4, <1>6, Ends DEF Endings
  <1>8. d \in Bridge /\ ~d.bad /\ ~d.client.bad /\ d.client.ended = "failed"
        /\ d.client.slots = c.client.slots
    BY <1>4, <1>7 DEF EndsAs
  <1>9. e = [d EXCEPT !.error = TRUE]
    BY DEF d, c
  <1>10. e.bad = d.bad /\ e.client = d.client
    BY <1>8, <1>9, Seen DEF Alike
  <1>11. TellsCalls(d.client, TRUE)
    BY <1>4, <1>8 DEF TellsCalls
  <1> QED BY <1>8, <1>10, <1>11

\* And after it: the client has its end already.
LEMMA FailureAfter ==
    ASSUME NEW xs, NEW b, NEW how \in {"completed", "incomplete"}, Tells(xs, b, how), NEW e,
           e = [FailExecution(CloseUnclosed(b)) EXCEPT !.error = TRUE]
    PROVE  Tells(xs, e, how)
  <1>1. b \in Bridge /\ Open(b) = {} /\ b.client.ended # ""
    BY DEF Tells
  <1>2. CloseUnclosed(b) = b
    BY <1>1, NothingToStop DEF CloseUnclosed
  <1>3. e = [b EXCEPT !.error = TRUE]
    BY <1>1, <1>2 DEF FailExecution
  <1>4. e \in Bridge /\ e.bad = b.bad /\ e.client = b.client /\ e.blocks = b.blocks
    BY <1>1, <1>3, Seen DEF Alike
  <1>5. Open(e) = Open(b) /\ (HasCall(e) <=> HasCall(b))
    BY <1>4 DEF Open, HasCall
  <1> QED BY <1>4, <1>5 DEF Tells

LEMMA BesideReads ==
    ASSUME NEW xs, NEW b, NEW c, Reads(xs, b), Beside(b, c)
    PROVE  Reads(xs, c)
  <1>1. Well(b) /\ Linked(xs, b) /\ ~b.provisional
    BY DEF Reads, Well
  <1>2. Well(c) /\ c.provisional = b.provisional
    BY DEF Beside
  <1>3. Linked(xs, c)
    BY <1>1, StaysLinked
  <1> QED BY <1>1, <1>2, <1>3 DEF Reads, Well

\* The bridge reads one item that is changed, or added.
ReadsWith(xs, i, y, b) ==
    [xs EXCEPT ![i] = y] \in Seq(Item) /\ Reads([xs EXCEPT ![i] = y], b)

LEMMA OtherItem ==
    ASSUME NEW xs \in Seq(Item), NEW b, Reads(xs, b), NEW i \in DOMAIN xs, ~IsCall(xs, i),
           NEW y \in Item, y.kind = xs[i].kind
    PROVE  ReadsWith(xs, i, y, b)
  <1> DEFINE ys == [xs EXCEPT ![i] = y]
  <1> HIDE DEF ys
  <1>1. /\ ys \in Seq(Item) /\ DOMAIN ys = DOMAIN xs /\ ys[i] = y
        /\ \A j \in DOMAIN xs : j # i => ys[j] = xs[j]
    BY DEF ys
  <1>2. \A j \in DOMAIN xs : /\ IsCall(ys, j) <=> IsCall(xs, j)
                             /\ IsCall(xs, j) => ys[j] = xs[j]
    BY <1>1 DEF IsCall
  <1>3. Linked(ys, b)
    <2>1. /\ \A j \in DOMAIN xs : IsCall(xs, j) => Link(xs[j], b)
          /\ \A j, k \in DOMAIN xs :
                IsCall(xs, j) /\ IsCall(xs, k) /\ xs[j].block = xs[k].block /\ xs[j].block # 0
                    => j = k
          /\ \A k \in DOMAIN b.blocks :
                b.blocks[k].kind \in Calls => \E j \in DOMAIN xs : IsCall(xs, j) /\ xs[j].block = k
      BY LinkedIs DEF Reads
    <2>2. \A j \in DOMAIN ys : IsCall(ys, j) => Link(ys[j], b)
      BY <2>1, <1>1, <1>2
    <2>3. \A j, k \in DOMAIN ys :
            IsCall(ys, j) /\ IsCall(ys, k) /\ ys[j].block = ys[k].block /\ ys[j].block # 0
                => j = k
      BY <2>1, <1>1, <1>2
    <2>4. \A k \in DOMAIN b.blocks :
            b.blocks[k].kind \in Calls => \E j \in DOMAIN ys : IsCall(ys, j) /\ ys[j].block = k
      BY <2>1, <1>1, <1>2
    <2> QED BY <2>2, <2>3, <2>4, LinkedIs
  <1> QED BY <1>1, <1>3 DEF ReadsWith, Reads, ys

LEMMA ItemsDone ==
    ASSUME NEW b, NEW x, NEW c \in DoneItems(b, x)
    PROVE  IF x.kind \in Calls THEN c = CallDone(b, x) ELSE c \in {b, Sealed(b)}
  <1>1. CASE x.kind \in Calls
    <2>1. DoneItems(b, x) = {CallDone(b, x)}
      BY <1>1 DEF DoneItems, Calls
    <2> QED BY <2>1, <1>1
  <1>2. CASE x.kind \notin Calls /\ x.kind = "reasoning"
    <2>1. DoneItems(b, x) = {b, Sealed(b)}
      BY <1>2 DEF DoneItems
    <2> QED BY <2>1, <1>2
  <1>3. CASE x.kind \notin Calls /\ x.kind # "reasoning"
    <2>1. DoneItems(b, x) = {b}
      BY <1>3 DEF DoneItems
    <2> QED BY <2>1, <1>3
  <1> QED BY <1>1, <1>2, <1>3

LEMMA ItemIsDone ==
    ASSUME NEW xs \in Seq(Item), NEW b, Reads(xs, b), NEW i \in DOMAIN xs, ~xs[i].done,
           xs[i].kind \in Calls => xs[i].sent # 1,
           NEW y \in Item, y.kind = xs[i].kind,
           xs[i].kind \in Calls =>
                y = [xs[i] EXCEPT !.done = TRUE, !.block = CallBlock(b, xs[i])],
           NEW c \in DoneItems(b, xs[i])
    PROVE  ReadsWith(xs, i, y, c)
  <1>1. CASE xs[i].kind \in Calls
    <2>1. IsCall(xs, i) /\ c = CallDone(b, xs[i])
      BY <1>1, ItemsDone DEF IsCall
    <2>2. y = [xs[i] EXCEPT !.done = TRUE, !.block = CallBlock(b, xs[i])]
      BY <1>1
    <2> QED BY <2>1, <2>2, <1>1, CallIsDone DEF ReadsWith
  <1>2. CASE xs[i].kind \notin Calls
    <2>1. c = b \/ c = Sealed(b)
      BY <1>2, ItemsDone
    <2>2. Reads(xs, c)
      <3>1. Well(b)
        BY DEF Reads, Well
      <3> QED BY <3>1, <2>1, IsSealed, BesideReads
    <2>4. ~IsCall(xs, i)
      BY <1>2 DEF IsCall
    <2> QED BY <2>2, <2>4, OtherItem
  <1> QED BY <1>1, <1>2

LEMMA ItemComes ==
    ASSUME NEW xs \in Seq(Item), NEW b, Reads(xs, b), NEW sort \in ItemKinds
    PROVE  /\ Append(xs, NewItem(sort)) \in Seq(Item)
           /\ Reads(Append(xs, NewItem(sort)), b)
  <1> DEFINE n == Len(xs)
             x == NewItem(sort)
             ys == Append(xs, x)
  <1> HIDE DEF n, x, ys
  <1>1. /\ x \in Item /\ x.block = 0 /\ x.sent = 0 /\ ~x.done
    BY DEF x, NewItem, Item
  <1>2. /\ ys \in Seq(Item) /\ n \in Nat /\ DOMAIN xs = 1..n /\ DOMAIN ys = 1..(n + 1)
        /\ \A j \in 1..n : ys[j] = xs[j]
        /\ ys[n + 1] = x
    BY <1>1, AppendBasics DEF ys, n
  <1>3. Linked(ys, b)
    <2>1. /\ \A j \in 1..n : IsCall(xs, j) => Link(xs[j], b)
          /\ \A j, k \in 1..n :
                IsCall(xs, j) /\ IsCall(xs, k) /\ xs[j].block = xs[k].block /\ xs[j].block # 0
                    => j = k
          /\ \A k \in DOMAIN b.blocks :
                b.blocks[k].kind \in Calls => \E j \in 1..n : IsCall(xs, j) /\ xs[j].block = k
      BY <1>2, LinkedIs DEF Reads
    <2>2. \A j \in 1..n : IsCall(ys, j) <=> IsCall(xs, j)
      BY <1>2 DEF IsCall
    <2>3. \A j \in 1..(n + 1) : j \in 1..n \/ j = n + 1
      BY <1>2
    <2>4. Link(ys[n + 1], b) /\ ys[n + 1].block = 0
      BY <1>1, <1>2 DEF Link
    <2>5. \A j \in DOMAIN ys : IsCall(ys, j) => Link(ys[j], b)
      BY <2>1, <2>2, <2>3, <2>4, <1>2
    <2>6. \A j, k \in DOMAIN ys :
            IsCall(ys, j) /\ IsCall(ys, k) /\ ys[j].block = ys[k].block /\ ys[j].block # 0
                => j = k
      BY <2>1, <2>2, <2>3, <2>4, <1>2
    <2>7. \A k \in DOMAIN b.blocks :
            b.blocks[k].kind \in Calls => \E j \in DOMAIN ys : IsCall(ys, j) /\ ys[j].block = k
      <3>1. \A j \in 1..n : j \in DOMAIN ys
        BY <1>2
      <3> QED BY <2>1, <2>2, <3>1, <1>2
    <2> QED BY <2>5, <2>6, <2>7, LinkedIs
  <1> QED BY <1>2, <1>3 DEF Reads, ys, x

\* A new stream
LEMMA NewBridgeReads == Reads(<<>>, NewBridge)
  <1> DEFINE b == NewBridge
             client == [Untold EXCEPT !.created = TRUE]
  <1> HIDE DEF b, client
  <1>1. /\ Untold \in BridgeClient /\ Untold.bad = FALSE /\ Untold.ended = ""
        /\ Untold.slots = <<>>
    <2>1. <<>> \in Seq(Slot)
      OBVIOUS
    <2> QED BY <2>1 DEF Untold, BridgeClient
  <1>2. /\ client \in BridgeClient /\ ~client.bad /\ client.created /\ client.ended = ""
        /\ client.slots = <<>>
    BY <1>1 DEF client, BridgeClient
  <1>3. b = [blocks |-> <<>>, text |-> 0, thinking |-> 0, visible |-> FALSE, active |-> {},
             reason |-> "", provisional |-> FALSE, stopped |-> FALSE, error |-> FALSE,
             bad |-> FALSE, client |-> client]
    BY DEF b, NewBridge, client
  <1>4. /\ b \in Bridge /\ ~b.bad /\ b.client = client /\ b.blocks = <<>> /\ b.text = 0
        /\ b.thinking = 0 /\ b.active = {} /\ ~b.provisional
    <2>1. <<>> \in Seq(BridgeBlock) /\ {} \in SUBSET Nat
      OBVIOUS
    <2> QED BY <2>1, <1>2, <1>3 DEF Bridge
  <1>5. DOMAIN b.blocks = {} /\ Open(b) = {} /\ Len(client.slots) = Len(b.blocks)
    <2>1. DOMAIN b.blocks = {}
      BY <1>4
    <2> QED BY <2>1, <1>2, <1>4 DEF Open
  <1>6. Aligned(b)
    BY <1>2, <1>4, <1>5 DEF Aligned
  <1>7. Contents(b)
    BY <1>4, <1>5 DEF Contents
  <1>8. Linked(<<>>, b)
    BY <1>5 DEF Linked
  <1> QED BY <1>4, <1>6, <1>7, <1>8 DEF Reads, b

\* What the steps have in common: the bridge reads on.
ReadsOn ==
    /\ items' \in Seq(Item) /\ Reads(items', bridge')
    /\ phase' \in {"opening", "reading"} /\ upstream' = "" /\ committed' \in BOOLEAN

LEMMA ReadsOnKeeps == ReadsOn => BridgeInv'
  BY DEF ReadsOn, BridgeInv

LEMMA PushIs == ASSUME NEW b, Push(b), committed \in BOOLEAN
                PROVE  bridge' = b /\ committed' \in BOOLEAN
  BY DEF Push

LEMMA FeedingReads ==
    ASSUME BridgeInv, Feeding
    PROVE  /\ items \in Seq(Item) /\ Reads(items, bridge) /\ Well(bridge)
           /\ phase = "reading" /\ upstream = "" /\ committed \in BOOLEAN
  BY DEF BridgeInv, Feeding, Reads, Well

LEMMA ItemAddedKeeps == ASSUME BridgeInv, ItemAdded PROVE BridgeInv'
  <1>1. PICK sort \in ItemKinds : items' = Append(items, NewItem(sort))
    BY DEF ItemAdded
  <1>2. /\ items \in Seq(Item) /\ Reads(items, bridge)
        /\ phase = "reading" /\ upstream = "" /\ committed \in BOOLEAN
    BY FeedingReads DEF ItemAdded
  <1>3. UNCHANGED <<phase, upstream, bridge, committed>>
    BY DEF ItemAdded, SameAttempt
  <1>4. items' \in Seq(Item) /\ Reads(items', bridge)
    BY <1>1, <1>2, ItemComes
  <1> QED BY <1>2, <1>3, <1>4, ReadsOnKeeps DEF ReadsOn

LEMMA DeltaArrivesKeeps == ASSUME BridgeInv, DeltaArrives PROVE BridgeInv'
  <1>1. /\ items \in Seq(Item) /\ Reads(items, bridge) /\ Well(bridge)
        /\ phase = "reading" /\ upstream = "" /\ committed \in BOOLEAN
    BY FeedingReads DEF DeltaArrives
  <1>2. UNCHANGED <<phase, upstream>>
    BY DEF DeltaArrives, SameAttempt
  <1>3. PICK i \in DOMAIN items : ~items[i].done /\ (TextArrives(i) \/ ArgumentsArrive(i))
    BY DEF DeltaArrives
  <1>4. CASE TextArrives(i)
    <2>1. Push(EmitThinking(bridge)) \/ Push(EmitText(bridge))
      BY <1>4 DEF TextArrives
    <2>2. (bridge' = EmitThinking(bridge) \/ bridge' = EmitText(bridge))
          /\ committed' \in BOOLEAN
      BY <2>1, <1>1, PushIs
    <2>3. Beside(bridge, bridge')
      BY <2>2, <1>1, ThinkingEmitted, TextEmitted
    <2>4. items' = items /\ Reads(items, bridge')
      BY <2>3, <1>1, <1>4, BesideReads DEF TextArrives
    <2> QED BY <2>2, <2>4, <1>1, <1>2, ReadsOnKeeps DEF ReadsOn
  <1>5. CASE ArgumentsArrive(i)
    <2> DEFINE at == CallBlock(bridge, items[i])
               y == [items[i] EXCEPT !.sent = items[i].sent + 1, !.block = at]
               d == ToolDelta(StartCall(bridge, items[i]), at, <<items[i].sent + 1>>)
    <2>1. /\ IsCall(items, i) /\ items[i].sent < 2 /\ Push(d)
          /\ items' = [items EXCEPT ![i].sent = items[i].sent + 1, ![i].block = at]
      BY <1>5 DEF ArgumentsArrive, IsCall
    <2>2. items' = [items EXCEPT ![i] = y]
      BY <2>1
    <2>3. bridge' = d /\ committed' \in BOOLEAN
      BY <2>1, <1>1, PushIs
    <2>4. [items EXCEPT ![i] = y] \in Seq(Item) /\ Reads([items EXCEPT ![i] = y], d)
      BY <2>1, <1>1, <1>3, ArgumentsTaken
    <2> HIDE DEF y, d
    <2> QED BY <2>2, <2>3, <2>4, <1>1, <1>2, ReadsOnKeeps DEF ReadsOn
  <1> QED BY <1>3, <1>4, <1>5

LEMMA ItemDoneKeeps == ASSUME BridgeInv, ItemDone PROVE BridgeInv'
  <1>1. /\ items \in Seq(Item) /\ Reads(items, bridge)
        /\ phase = "reading" /\ upstream = "" /\ committed \in BOOLEAN
    BY FeedingReads DEF ItemDone
  <1>2. UNCHANGED <<phase, upstream>>
    BY DEF ItemDone, SameAttempt
  <1>3. PICK i \in DOMAIN items :
        /\ ~items[i].done /\ (items[i].kind \in Calls => items[i].sent # 1)
        /\ items' = [items EXCEPT ![i].done = TRUE,
                                  ![i].block = IF items[i].kind \in Calls
                                               THEN CallBlock(bridge, items[i]) ELSE 0]
        /\ \E b \in DoneItems(bridge, items[i]) : Push(b)
    BY DEF ItemDone
  <1>4. PICK b \in DoneItems(bridge, items[i]) : Push(b)
    BY <1>3
  <1>5. bridge' = b /\ committed' \in BOOLEAN
    BY <1>1, <1>4, PushIs
  <1> DEFINE at == IF items[i].kind \in Calls THEN CallBlock(bridge, items[i]) ELSE 0
             y == [items[i] EXCEPT !.done = TRUE, !.block = at]
  <1> HIDE DEF at, y
  <1>6. items' = [items EXCEPT ![i] = y]
    BY <1>3 DEF y, at
  <1>7. y \in Item /\ y.kind = items[i].kind
    <2>1. items[i] \in Item
      BY <1>1, SequenceBasics
    <2>2. at \in Nat
      <3>1. CASE items[i].kind \in Calls
        <4>1. IsCall(items, i) /\ Well(bridge) /\ Linked(items, bridge)
          BY <3>1, <1>1 DEF IsCall, Reads, Well
        <4>2. CallBlock(bridge, items[i]) \in Nat
          BY <4>1, <1>1, <1>3, CallBegins
        <4> QED BY <4>2, <3>1 DEF at
      <3>2. CASE items[i].kind \notin Calls
        BY <3>2 DEF at
      <3> QED BY <3>1, <3>2
    <2> QED BY <2>1, <2>2 DEF y, Item
  <1>8. items[i].kind \in Calls =>
            y = [items[i] EXCEPT !.done = TRUE, !.block = CallBlock(bridge, items[i])]
    BY DEF y, at
  <1>9. ReadsWith(items, i, y, b)
    BY <1>1, <1>3, <1>7, <1>8, ItemIsDone
  <1>10. items' \in Seq(Item) /\ Reads(items', bridge')
    BY <1>5, <1>6, <1>9 DEF ReadsWith
  <1> QED BY <1>1, <1>2, <1>5, <1>10, ReadsOnKeeps DEF ReadsOn

\* An item that comes and is done at once is one that comes, and is done.
LEMMA ItemReadAtOnce ==
    ASSUME NEW before \in Seq(Item), NEW b, Reads(before, b), NEW sort \in ItemKinds,
           NEW at, at = IF sort \in Calls THEN CallBlock(b, NewItem(sort)) ELSE 0,
           NEW c \in DoneItems(b, NewItem(sort))
    PROVE  LET ys == Append(before, [NewItem(sort) EXCEPT !.done = TRUE, !.block = at])
           IN  ys \in Seq(Item) /\ Reads(ys, c)
  <1> DEFINE x == NewItem(sort)
             n == Len(before)
             xs == Append(before, x)
             y == [x EXCEPT !.done = TRUE, !.block = at]
  <1> HIDE DEF x, n, xs, y
  <1>1. /\ x \in Item /\ x.kind = sort /\ x.sent = 0 /\ ~x.done
    BY DEF x, NewItem, Item
  <1>2. xs \in Seq(Item) /\ Reads(xs, b)
    BY ItemComes DEF xs, x
  <1>3. /\ n \in Nat /\ Len(xs) = n + 1 /\ DOMAIN xs = 1..(n + 1) /\ xs[n + 1] = x
        /\ \A k \in 1..n : xs[k] = before[k]
    BY <1>1, AppendBasics DEF xs, n
  <1>4. n + 1 \in DOMAIN xs
    BY <1>3
  <1>5. at \in Nat /\ (sort \in Calls => at = CallBlock(b, xs[n + 1]))
    <2>1. CASE sort \in Calls
      <3>1. IsCall(xs, n + 1) /\ Well(b) /\ Linked(xs, b) /\ ~xs[n + 1].done
        BY <2>1, <1>1, <1>2, <1>3, <1>4 DEF IsCall, Reads, Well
      <3>2. CallBlock(b, xs[n + 1]) \in Nat
        BY <3>1, <1>2, <1>4, CallBegins
      <3> QED BY <3>2, <2>1, <1>3 DEF x
    <2>2. CASE sort \notin Calls
      BY <2>2
    <2> QED BY <2>1, <2>2
  <1>6. y \in Item /\ y.kind = sort
    BY <1>1, <1>5 DEF y, Item
  <1>7. xs[n + 1].kind \in Calls =>
            y = [xs[n + 1] EXCEPT !.done = TRUE, !.block = CallBlock(b, xs[n + 1])]
    BY <1>1, <1>3, <1>5 DEF y
  <1>8. c \in DoneItems(b, xs[n + 1])
    BY <1>3 DEF x
  <1>9. ReadsWith(xs, n + 1, y, c)
    <2>1. /\ ~xs[n + 1].done /\ xs[n + 1].sent # 1 /\ y.kind = xs[n + 1].kind
      BY <1>1, <1>3, <1>6
    <2> QED BY <2>1, <1>2, <1>4, <1>6, <1>7, <1>8, ItemIsDone
  <1>10. [xs EXCEPT ![n + 1] = y] = Append(before, y)
    <2>1. /\ Append(before, y) \in Seq(Item) /\ Len(Append(before, y)) = n + 1
          /\ \A k \in 1..n : Append(before, y)[k] = before[k]
          /\ Append(before, y)[n + 1] = y
      BY <1>6, AppendBasics DEF n
    <2>2. /\ [xs EXCEPT ![n + 1] = y] \in Seq(Item)
          /\ Len([xs EXCEPT ![n + 1] = y]) = n + 1
          /\ \A k \in 1..n : [xs EXCEPT ![n + 1] = y][k] = before[k]
          /\ [xs EXCEPT ![n + 1] = y][n + 1] = y
      BY <1>2, <1>3, <1>6
    <2>3. \A k \in 1..(n + 1) : k = n + 1 \/ k \in 1..n
      BY <1>3
    <2>4. \A k \in 1..(n + 1) : [xs EXCEPT ![n + 1] = y][k] = Append(before, y)[k]
      BY <2>1, <2>2, <2>3
    <2> QED BY <2>1, <2>2, <2>4, SeqEqual
  <1>11. Append(before, y) \in Seq(Item) /\ Reads(Append(before, y), c)
    BY <1>9, <1>10 DEF ReadsWith
  <1> QED BY <1>11 DEF y, x

LEMMA ItemAtOnceKeeps == ASSUME BridgeInv, ItemAtOnce PROVE BridgeInv'
  <1>1. /\ items \in Seq(Item) /\ Reads(items, bridge)
        /\ phase = "reading" /\ upstream = "" /\ committed \in BOOLEAN
    BY FeedingReads DEF ItemAtOnce
  <1>2. UNCHANGED <<phase, upstream>>
    BY DEF ItemAtOnce, SameAttempt
  <1>3. PICK sort \in ItemKinds :
        /\ items' = Append(items, [NewItem(sort) EXCEPT
                        !.done = TRUE,
                        !.block = IF sort \in Calls THEN CallBlock(bridge, NewItem(sort))
                                  ELSE 0])
        /\ \E b \in DoneItems(bridge, NewItem(sort)) : Push(b)
    BY DEF ItemAtOnce
  <1>4. PICK b \in DoneItems(bridge, NewItem(sort)) : Push(b)
    BY <1>3
  <1>5. bridge' = b /\ committed' \in BOOLEAN
    BY <1>1, <1>4, PushIs
  <1> DEFINE at == IF sort \in Calls THEN CallBlock(bridge, NewItem(sort)) ELSE 0
             ys == Append(items, [NewItem(sort) EXCEPT !.done = TRUE, !.block = at])
  <1>6. ys \in Seq(Item) /\ Reads(ys, b)
    BY <1>1, <1>4, ItemReadAtOnce
  <1>7. items' = ys
    BY <1>3
  <1> HIDE DEF ys
  <1> QED BY <1>1, <1>2, <1>5, <1>6, <1>7, ReadsOnKeeps DEF ReadsOn

\* The client is told the end that the upstream had.
LEMMA ToldKeeps ==
    ASSUME items' \in Seq(Item), Tells(items', bridge', upstream'),
           upstream' \in {"completed", "incomplete"}, committed' \in BOOLEAN,
           phase' \in {"reading", "failed"} \/ (phase' = "done" /\ committed')
    PROVE  BridgeInv'
  BY DEF BridgeInv

LEMMA FinishUpstreamKeeps == ASSUME BridgeInv, FinishUpstream PROVE BridgeInv'
  <1>1. /\ items \in Seq(Item) /\ Reads(items, bridge)
        /\ phase = "reading" /\ upstream = "" /\ committed \in BOOLEAN
    BY FeedingReads DEF FinishUpstream
  <1>2. items' = items /\ phase' = phase
    BY DEF FinishUpstream, SameAttempt
  <1>3. PICK how \in {"completed", "incomplete"} :
        /\ how = "completed" => \A i \in DOMAIN items : items[i].done
        /\ upstream' = how
        /\ Push(Terminal(CloseAll(Visible(bridge)),
                         IF how = "incomplete" THEN "max_tokens" ELSE "end_turn"))
    BY DEF FinishUpstream
  <1> DEFINE b == Terminal(CloseAll(Visible(bridge)),
                           IF how = "incomplete" THEN "max_tokens" ELSE "end_turn")
  <1>4. Tells(items, b, how)
    BY <1>1, <1>3, UpstreamFinished
  <1>5. bridge' = b /\ committed' \in BOOLEAN
    BY <1>1, <1>3, PushIs
  <1> HIDE DEF b
  <1>6. Tells(items', bridge', upstream')
    BY <1>2, <1>3, <1>4, <1>5
  <1> QED BY <1>1, <1>2, <1>3, <1>5, <1>6, ToldKeeps

LEMMA ConnectKeeps == ASSUME BridgeInv, Connect PROVE BridgeInv'
  <1>1. /\ phase = "opening" /\ phase' = "reading"
        /\ UNCHANGED <<items, upstream, bridge, committed>>
    BY DEF Connect
  <1>2. /\ items \in Seq(Item) /\ Reads(items, bridge) /\ upstream = "" /\ committed \in BOOLEAN
    BY <1>1 DEF BridgeInv
  <1>3. items' \in Seq(Item) /\ Reads(items', bridge')
    BY <1>1, <1>2
  <1> QED BY <1>1, <1>2, <1>3, ReadsOnKeeps DEF ReadsOn

LEMMA FailedKeeps ==
    ASSUME phase' = "failed", upstream' = "", items' \in Seq(Item), committed' \in BOOLEAN,
           ~bridge'.bad,
           committed' => /\ ~bridge'.client.bad /\ bridge'.client.ended = "failed"
                         /\ TellsCalls(bridge'.client, TRUE)
    PROVE  BridgeInv'
  BY DEF BridgeInv

\* A failure is told as one, or the client has its end already.
LEMMA RaiseKeeps ==
    ASSUME BridgeInv, phase \in {"opening", "reading"}, Raise
    PROVE  BridgeInv'
  <1> DEFINE e == [FailExecution(CloseUnclosed(bridge)) EXCEPT !.error = TRUE]
  <1> HIDE DEF e
  <1>1. /\ phase' = "failed" /\ bridge' = IF ~committed THEN bridge ELSE e
        /\ UNCHANGED <<items, upstream, committed>>
    BY DEF Raise, e
  <1>2. items \in Seq(Item) /\ committed \in BOOLEAN
        /\ upstream \in {"", "completed", "incomplete"}
    BY DEF BridgeInv
  <1>3. CASE upstream = ""
    <2>1. Reads(items, bridge)
      BY <1>3 DEF BridgeInv
    <2>2. ~bridge.bad
      BY <2>1 DEF Reads, Aligned
    <2>3. ~e.bad /\ ~e.client.bad /\ e.client.ended = "failed" /\ TellsCalls(e.client, TRUE)
      BY <2>1, <1>2, FailureTold DEF e
    <2>4. ~bridge'.bad
      BY <2>2, <2>3, <1>1
    <2>5. committed => /\ ~bridge'.client.bad /\ bridge'.client.ended = "failed"
                       /\ TellsCalls(bridge'.client, TRUE)
      BY <2>3, <1>1
    <2>6. upstream' = "" /\ items' \in Seq(Item) /\ committed' = committed
      BY <1>1, <1>2, <1>3
    <2>7. phase' = "failed" /\ committed' \in BOOLEAN
      BY <1>1, <1>2
    <2>8. committed' => /\ ~bridge'.client.bad /\ bridge'.client.ended = "failed"
                        /\ TellsCalls(bridge'.client, TRUE)
      BY <2>5, <2>6, Zenon
    <2> QED BY <2>4, <2>6, <2>7, <2>8, FailedKeeps
  <1>4. CASE upstream # ""
    <2>1. Tells(items, bridge, upstream) /\ upstream \in {"completed", "incomplete"}
      BY <1>2, <1>4 DEF BridgeInv
    <2>2. Tells(items, e, upstream)
      BY <2>1, FailureAfter DEF e
    <2>3. Tells(items, bridge', upstream)
      BY <2>1, <2>2, <1>1
    <2>4. Tells(items', bridge', upstream')
      BY <2>3, <1>1
    <2> QED BY <2>1, <2>4, <1>1, <1>2, ToldKeeps
  <1> QED BY <1>3, <1>4

LEMMA RetryOrKeeps ==
    ASSUME BridgeInv, phase \in {"opening", "reading"}, NEW retryable, NEW left,
           RetryOr(retryable, left)
    PROVE  BridgeInv'
  <1>1. CASE Raise
    BY <1>1, RaiseKeeps
  <1>2. CASE NewAttempt /\ UNCHANGED committed
    <2>1. /\ phase' = "opening" /\ items' = <<>> /\ upstream' = "" /\ bridge' = NewBridge
          /\ committed' \in BOOLEAN
      BY <1>2 DEF NewAttempt, BridgeInv
    <2>2. Reads(items', bridge') /\ items' \in Seq(Item)
      <3>1. <<>> \in Seq(Item)
        OBVIOUS
      <3> QED BY <3>1, <2>1, NewBridgeReads
    <2> QED BY <2>1, <2>2, ReadsOnKeeps DEF ReadsOn
  <1> QED BY <1>1, <1>2 DEF RetryOr

LEMMA StreamEndsKeeps == ASSUME BridgeInv, StreamEnds \/ Left PROVE BridgeInv'
  <1>1. /\ phase = "reading" /\ phase' = "done" /\ committed' = TRUE
        /\ UNCHANGED <<items, upstream, bridge>>
    <2>1. CASE StreamEnds
      BY <2>1 DEF StreamEnds
    <2>2. CASE Left
      BY <2>2 DEF Left, BridgeInv
    <2> QED BY <2>1, <2>2
  <1>2. upstream # ""
    <2>1. CASE StreamEnds
      BY <2>1 DEF StreamEnds
    <2>2. CASE Left /\ upstream = ""
      <3>1. Reads(items, bridge)
        BY <2>2, <1>1 DEF BridgeInv
      <3>2. bridge.client.ended = ""
        BY <3>1 DEF Reads, Aligned
      <3> QED BY <3>2, <2>2 DEF Left
    <2> QED BY <2>1, <2>2
  <1>3. /\ items \in Seq(Item) /\ Tells(items, bridge, upstream)
        /\ upstream \in {"completed", "incomplete"}
    BY <1>2 DEF BridgeInv
  <1>4. items' \in Seq(Item) /\ Tells(items', bridge', upstream')
        /\ upstream' \in {"completed", "incomplete"}
    BY <1>1, <1>3
  <1> QED BY <1>1, <1>4, ToldKeeps

LEMMA BridgeBegins == BridgeInit => BridgeInv
  <1> SUFFICES ASSUME BridgeInit PROVE BridgeInv
    OBVIOUS
  <1>1. <<>> \in Seq(Item)
    OBVIOUS
  <1>2. Reads(items, bridge)
    BY NewBridgeReads DEF BridgeInit
  <1> QED BY <1>1, <1>2 DEF BridgeInit, BridgeInv

LEMMA BridgeStepKeeps == BridgeInv /\ [BridgeNext]_bridgeVars => BridgeInv'
  <1> SUFFICES ASSUME BridgeInv, [BridgeNext]_bridgeVars PROVE BridgeInv'
    OBVIOUS
  <1>1. CASE UNCHANGED bridgeVars
    BY <1>1 DEF BridgeInv, bridgeVars
  <1>2. CASE ItemAdded
    BY <1>2, ItemAddedKeeps
  <1>3. CASE DeltaArrives
    BY <1>3, DeltaArrivesKeeps
  <1>4. CASE ItemDone
    BY <1>4, ItemDoneKeeps
  <1>5. CASE ItemAtOnce
    BY <1>5, ItemAtOnceKeeps
  <1>6. CASE FinishUpstream
    BY <1>6, FinishUpstreamKeeps
  <1>7. CASE Connect
    BY <1>7, ConnectKeeps
  <1>8. CASE OpenFails
    <2>1. PICK retryable \in BOOLEAN : RetryOr(retryable, attempts')
      BY <1>8 DEF OpenFails
    <2> QED BY <2>1, <1>8, RetryOrKeeps DEF OpenFails
  <1>9. CASE Unauthorized
    BY <1>9, RetryOrKeeps DEF Unauthorized
  <1>10. CASE StreamFails
    <2>1. PICK retryable \in BOOLEAN : RetryOr(retryable, attempts)
      BY <1>10 DEF StreamFails
    <2> QED BY <2>1, <1>10, RetryOrKeeps DEF StreamFails
  <1>11. CASE StreamEnds \/ Left
    BY <1>11, StreamEndsKeeps
  <1>12. CASE Over
    BY <1>1, <1>12 DEF Over
  <1> QED BY <1>1, <1>2, <1>3, <1>4, <1>5, <1>6, <1>7, <1>8, <1>9, <1>10, <1>11, <1>12
          DEF BridgeNext

\* What the bridge keeps is what a Responses client is owed.
LEMMA BridgeKeeps == BridgeInv => ResponsesKept
  <1> SUFFICES ASSUME BridgeInv PROVE ResponsesKept
    OBVIOUS
  <1> DEFINE c == Client
             cut == phase = "failed" \/ upstream = "incomplete"
  <1> HIDE DEF c, cut
  <1>1. /\ phase \in {"opening", "reading", "done", "failed"}
        /\ upstream \in {"", "completed", "incomplete"} /\ committed \in BOOLEAN
        /\ items \in Seq(Item)
    BY DEF BridgeInv
  <1>2. ASSUME ~bridge.bad, ~c.bad,
               \A i \in DOMAIN c.slots : c.slots[i].done /\ c.slots[i].kind \in Calls =>
                    c.slots[i].input = Whole \/ (c.slots[i].kind = "custom" /\ cut),
               phase = "done" => c.ended # "",
               phase = "failed" /\ committed /\ upstream = "" => c.ended = "failed",
               c.ended = "completed" =>
                    /\ upstream = "completed" \/ (upstream = "incomplete" /\ HasCall(bridge))
                    /\ \A i \in DOMAIN c.slots : c.slots[i].done,
               c.ended # "" /\ upstream = "completed" =>
                    c.ended = "completed" /\ EachCallGiven(c),
               c.ended = "incomplete" => upstream = "incomplete"
        PROVE  ResponsesKept
    BY <1>2 DEF ResponsesKept, c, cut
  <1>3. ~committed => /\ c.slots = <<>> /\ ~c.bad /\ c.ended = "" /\ DOMAIN c.slots = {}
    BY DEF c, Client, Untold
  <1>4. committed => c = bridge.client
    BY DEF c, Client
  <1>5. CASE phase \in {"opening", "reading"} /\ upstream = ""
    <2>1. Reads(items, bridge)
      BY <1>5 DEF BridgeInv
    <2>2. /\ ~bridge.bad /\ ~bridge.client.bad /\ bridge.client.ended = ""
          /\ Aligned(bridge) /\ Linked(items, bridge)
      BY <2>1 DEF Reads, Aligned
    <2>3. ASSUME NEW i \in DOMAIN bridge.client.slots, bridge.client.slots[i].done,
                 bridge.client.slots[i].kind \in Calls
          PROVE  bridge.client.slots[i].input = Whole
      <3>1. i \in DOMAIN bridge.blocks /\ i # 0
        <4>1. i \in 1..Len(bridge.blocks) /\ DOMAIN bridge.blocks = 1..Len(bridge.blocks)
          BY <2>2, <2>3, AlignedBasics
        <4> QED BY <4>1
      <3>2. /\ bridge.client.slots[i].kind = bridge.blocks[i].kind
            /\ ~bridge.blocks[i].open
            /\ bridge.client.slots[i].input = bridge.blocks[i].args
        BY <3>1, <2>2, <2>3 DEF Aligned
      <3>3. PICK j \in DOMAIN items : IsCall(items, j) /\ items[j].block = i
        BY <3>1, <3>2, <2>2, <2>3, LinkedIs
      <3>4. Link(items[j], bridge)
        BY <3>3, <2>2, LinkedIs
      <3>5. items[j].done /\ items[j].sent # 1 /\ bridge.blocks[i].args = Arrived(items[j])
        BY <3>1, <3>2, <3>3, <3>4 DEF Link
      <3> QED BY <3>2, <3>5 DEF Arrived
    <2>4. ~c.bad /\ c.ended = ""
      BY <2>2, <1>1, <1>3, <1>4
    <2>5. \A i \in DOMAIN c.slots : c.slots[i].done /\ c.slots[i].kind \in Calls =>
                    c.slots[i].input = Whole
      BY <2>3, <1>1, <1>3, <1>4
    <2> QED BY <2>2, <2>4, <2>5, <1>2, <1>5
  <1>6. CASE upstream # ""
    <2>1. Tells(items, bridge, upstream)
      BY <1>6 DEF BridgeInv
    <2>2. /\ ~bridge.bad /\ ~bridge.client.bad /\ bridge.client.ended # ""
          /\ TellsCalls(bridge.client, upstream = "incomplete")
          /\ bridge.client.ended = "completed" =>
                /\ upstream = "completed" \/ (upstream = "incomplete" /\ HasCall(bridge))
                /\ \A i \in DOMAIN bridge.client.slots : bridge.client.slots[i].done
          /\ upstream = "completed" =>
                bridge.client.ended = "completed" /\ EachCallIn(items, bridge.client)
          /\ bridge.client.ended = "incomplete" => upstream = "incomplete"
      BY <2>1 DEF Tells
    <2>3. EachCallIn(items, bridge.client) => EachCallGiven(bridge.client)
      BY DEF EachCallIn, EachCallGiven
    <2>4. CASE committed
      <3>1. c = bridge.client
        BY <2>4, <1>4
      <3>2. \A i \in DOMAIN c.slots : c.slots[i].done /\ c.slots[i].kind \in Calls =>
                c.slots[i].input = Whole \/ (c.slots[i].kind = "custom" /\ cut)
        BY <2>2, <3>1 DEF TellsCalls, cut
      <3> QED BY <2>2, <2>3, <3>1, <3>2, <1>2, <1>6
    <2>5. CASE ~committed
      <3>1. phase # "done"
        BY <2>5 DEF BridgeInv
      <3> QED BY <3>1, <2>2, <2>5, <1>2, <1>3, <1>6
    <2> QED BY <2>4, <2>5
  <1>7. CASE phase = "failed" /\ upstream = ""
    <2>1. /\ ~bridge.bad
          /\ committed => /\ ~bridge.client.bad /\ bridge.client.ended = "failed"
                          /\ TellsCalls(bridge.client, TRUE)
      BY <1>7 DEF BridgeInv
    <2>2. CASE committed
      <3>1. c = bridge.client /\ ~c.bad /\ c.ended = "failed"
        BY <2>1, <2>2, <1>4
      <3>2. \A i \in DOMAIN c.slots : c.slots[i].done /\ c.slots[i].kind \in Calls =>
                c.slots[i].input = Whole \/ (c.slots[i].kind = "custom" /\ cut)
        BY <2>1, <2>2, <3>1, <1>7 DEF TellsCalls, cut
      <3> QED BY <2>1, <3>1, <3>2, <1>2, <1>7
    <2>3. CASE ~committed
      BY <2>1, <2>3, <1>2, <1>3, <1>7
    <2> QED BY <2>2, <2>3
  <1>8. phase = "done" => upstream # ""
    BY DEF BridgeInv
  <1> QED BY <1>1, <1>5, <1>6, <1>7, <1>8

\* The inductive invariant: assembler and ledger agree, each call of the upstream has a
\* block of its own with what has arrived of it, and the client's end is the upstream's.
THEOREM BridgeIsSound == BridgeSpec => []BridgeInv
  BY BridgeBegins, BridgeStepKeeps, PTL DEF BridgeSpec

\* What a Responses client is sent, for any number of items, kinds, attempts and blocks:
\* no call it is told is done has less than its arguments, and its end is the upstream's.
THEOREM ResponsesHold == BridgeSpec => []ResponsesKept
  BY BridgeIsSound, BridgeKeeps, PTL
=============================================================================
