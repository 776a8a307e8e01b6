--------------------------- MODULE ProviderManager ---------------------------
(***************************************************************************)
(* ProviderRuntimeManager: the generations of provider clients behind the  *)
(* gateway, the leases that hold them, hot replacement, model discovery    *)
(* and shutdown.                                                           *)
(*                                                                         *)
(* Requests take and release leases.  Admin operations (replace, refresh,  *)
(* connect) queue for _replace_lock.  Each generation has at most one      *)
(* background discovery task.  Cleanup of a generation runs in a task of   *)
(* its own, shielded from whoever asked for it.  Closer is the caller of   *)
(* close(); _close_lock makes several callers take turns, so one is        *)
(* enough.  asyncio runs one task at a time: a stretch between two awaits  *)
(* is one action.  An await that may return without suspending always      *)
(* suspends here, which only adds interleavings.                           *)
(*                                                                         *)
(* The model list cache, its publication and the settings are left out.    *)
(* Bounds: MaxGenerations caps publications, MaxFailures failed commits.   *)
(***************************************************************************)
EXTENDS Integers, FiniteSets

CONSTANTS
    Requests,       \* holders of a ProviderGenerationLease
    Ops,            \* callers of the admin operations
    Closer,         \* the caller of close()
    Refresher,      \* names a background discovery task as a user
    None,           \* nobody
    MaxGenerations, \* bound on generation ids
    MaxFailures     \* bound on candidates whose commit fails

ASSUME FiniteAssumption == IsFiniteSet(Requests) /\ IsFiniteSet(Ops)
ASSUME NamesAssumption ==
    /\ Closer \notin Ops /\ None \notin Ops \union {Closer}
    /\ Requests \intersect Ops = {}
    /\ Refresher \notin Requests \union Ops
ASSUME BoundsAssumption == MaxGenerations \in Nat \ {0} /\ MaxFailures \in Nat

Gens == 1..MaxGenerations
Candidates == 1..MaxFailures
Processes == Ops \union {Closer}

VARIABLES
    current,     \* id of _current; _next_generation_id is current + 1
    leases,      \* active_leases of each generation; drained: leases = 0
    retired,     \* generations marked retired; _retired is retired \ cleaned
    cleaned,     \* generations marked closed
    owned,       \* generations whose cleanup_task is set
    pending,     \* cleanup tasks created and not started, per generation
    running,     \* cleanup tasks started, per generation
    lease,       \* generation each request holds a lease on; 0: none
    refreshTask, \* generation of the task in _refresh_task; 0: None
    task,        \* background discovery task of each generation
    unpublished, \* _unpublished
    failures,    \* candidates whose commit failed
    discarded,   \* those of them that were cleaned up
    lock,        \* holder of _replace_lock
    pc,          \* where each operation, and close(), is suspended
    kind,        \* what each operation is
    target,      \* generation an operation uses or waits for; 0: none
    todo,        \* unpublished candidates still to retry
    batch,       \* generations close() has undertaken to clean
    flop,        \* a cleanup close() waited for failed
    serving,     \* startup is over
    closing,     \* _closing
    closed       \* _closed

genVars == <<current, retired, serving, closing>>
cleanupVars == <<cleaned, owned, pending, running>>
refreshVars == <<refreshTask, task>>
candidateVars == <<unpublished, failures, discarded>>
closeVars == <<batch, flop, closed>>
opVars == <<lock, pc, kind, target, todo>>
vars == <<genVars, cleanupVars, refreshVars, candidateVars, closeVars, opVars,
          leases, lease>>

PCs == {"idle", "queued", "cancelling", "purging", "discarding", "settling",
        "discovering", "draining", "joining"}
Kinds == {"replace", "refresh", "connect"}
TaskStates == {"none", "created", "running", "cancelled", "ended"}

Init ==
    /\ current = 1
    /\ leases = [g \in Gens |-> 0]
    /\ retired = {}
    /\ cleaned = {}
    /\ owned = {}
    /\ pending = [g \in Gens |-> 0]
    /\ running = [g \in Gens |-> 0]
    /\ lease = [r \in Requests |-> 0]
    /\ refreshTask = 0
    /\ task = [g \in Gens |-> "none"]
    /\ unpublished = {}
    /\ failures = 0
    /\ discarded = {}
    /\ lock = None
    /\ pc = [p \in Processes |-> "idle"]
    /\ kind = [o \in Ops |-> "refresh"]
    /\ target = [o \in Ops |-> 0]
    /\ todo = [p \in Processes |-> {}]
    /\ batch = {}
    /\ flop = FALSE
    /\ serving = FALSE
    /\ closing = FALSE
    /\ closed = FALSE

-----------------------------------------------------------------------------
(* Cleanup of a generation. *)

\* _close_generation of each of gens, up to its await: a generation that is
\* neither closed, nor leased, nor being cleaned gets a cleanup task.
CloseGenerations(gens) ==
    LET fresh == {g \in gens : /\ g \notin cleaned
                               /\ leases'[g] = 0
                               /\ g \notin owned}
    IN  /\ owned' = owned \union fresh
        /\ pending' = [g \in Gens |->
                           IF g \in fresh THEN pending[g] + 1 ELSE pending[g]]
        /\ UNCHANGED <<cleaned, running>>

\* Mutant of ReleaseLease: the last release leaves the cleanup to close().
ReleaseOnly(g) ==
    /\ leases' = [leases EXCEPT ![g] = @ - 1]
    /\ UNCHANGED cleanupVars

\* _release of a lease on g.  The last one out cleans a retired generation;
\* while closing, close() does.  What the releaser awaits is shielded.
ReleaseLease(g) ==
    /\ leases' = [leases EXCEPT ![g] = @ - 1]
    /\ CloseGenerations(IF /\ leases'[g] = 0
                           /\ g \in retired
                           /\ ~closing
                        THEN {g} ELSE {})

CleanupBegins(g) ==
    /\ pending[g] > 0
    /\ pending' = [pending EXCEPT ![g] = @ - 1]
    /\ running' = [running EXCEPT ![g] = @ + 1]
    /\ UNCHANGED <<genVars, cleaned, owned, refreshVars, candidateVars,
                   closeVars, opVars, leases, lease>>

CleanupSucceeds(g) ==
    /\ running[g] > 0
    /\ running' = [running EXCEPT ![g] = @ - 1]
    /\ cleaned' = cleaned \union {g}
    /\ UNCHANGED <<genVars, pending, owned, refreshVars, candidateVars,
                   closeVars, opVars, leases, lease>>

\* The generation stays retired; only close() tries again.
CleanupFails(g) ==
    /\ running[g] > 0
    /\ running' = [running EXCEPT ![g] = @ - 1]
    /\ owned' = IF g \in cleaned THEN owned ELSE owned \ {g}
    /\ flop' = (flop \/ (pc[Closer] = "joining" /\ g \in batch))
    /\ UNCHANGED <<genVars, pending, cleaned, refreshVars, candidateVars,
                   batch, closed, opVars, leases, lease>>

CleanupLive(g) == pending[g] + running[g] > 0

-----------------------------------------------------------------------------
(* Leases of requests; warm_referenced_model_cache and test_provider take  *)
(* and release one in the same way.                                        *)

Acquire(r) ==
    /\ lease[r] = 0
    /\ ~closing /\ ~closed
    /\ lease' = [lease EXCEPT ![r] = current]
    /\ leases' = [leases EXCEPT ![current] = @ + 1]
    /\ UNCHANGED <<genVars, cleanupVars, refreshVars, candidateVars, closeVars,
                   opVars>>

Release(r) ==
    /\ lease[r] # 0
    /\ lease' = [lease EXCEPT ![r] = 0]
    /\ ReleaseLease(lease[r])
    /\ UNCHANGED <<genVars, refreshVars, candidateVars, closeVars, opVars>>

-----------------------------------------------------------------------------
(* Background discovery. *)

TaskLive(g) == task[g] \in {"created", "running", "cancelled"}

\* start_model_list_refresh, the end of ApplicationRuntime.start().
StartModelListRefresh ==
    /\ ~serving /\ ~closing
    /\ serving' = TRUE
    /\ refreshTask' = current
    /\ task' = [task EXCEPT ![current] = "created"]
    /\ UNCHANGED <<current, retired, closing, cleanupVars, candidateVars,
                   closeVars, opVars, leases, lease>>

\* _refresh_generation of the task, up to discovery; it does not look at
\* retired, only at closed.
RefreshBegins(g) ==
    /\ task[g] = "created"
    /\ IF g \in cleaned
         THEN /\ task' = [task EXCEPT ![g] = "ended"]
              /\ UNCHANGED leases
         ELSE /\ task' = [task EXCEPT ![g] = "running"]
              /\ leases' = [leases EXCEPT ![g] = @ + 1]
    /\ UNCHANGED <<genVars, cleanupVars, refreshTask, candidateVars, closeVars,
                   opVars, lease>>

\* Mutant of RefreshEnds: a cancelled discovery forgets its lease.
RefreshLeaks(g) ==
    /\ task[g] \in {"running", "cancelled"}
    /\ task' = [task EXCEPT ![g] = "ended"]
    /\ IF task[g] = "running" THEN ReleaseLease(g)
                              ELSE UNCHANGED <<leases, cleanupVars>>
    /\ UNCHANGED <<genVars, refreshTask, candidateVars, closeVars, opVars,
                   lease>>

\* Discovery completes, fails, or notices that it was cancelled.
RefreshEnds(g) ==
    /\ task[g] \in {"running", "cancelled"}
    /\ task' = [task EXCEPT ![g] = "ended"]
    /\ ReleaseLease(g)
    /\ UNCHANGED <<genVars, refreshTask, candidateVars, closeVars, opVars,
                   lease>>

\* _cancel_refresh up to its await.  A task cancelled before its first step
\* never runs; a running one still has to unwind.
CancelRefresh ==
    /\ refreshTask' = 0
    /\ task' = [g \in Gens |->
                    IF g # refreshTask THEN task[g]
                    ELSE CASE task[g] = "created" -> "ended"
                           [] task[g] = "running" -> "cancelled"
                           [] OTHER -> task[g]]

-----------------------------------------------------------------------------
(* Unpublished candidates. *)

Discards(c, ok) ==
    /\ unpublished' = IF ok THEN unpublished \ {c} ELSE unpublished \union {c}
    /\ discarded' = IF ok THEN discarded \union {c} ELSE discarded
    /\ UNCHANGED failures

\* One turn of _retry_unpublished_cleanup.
Purge(p, c, ok) ==
    /\ pc[p] = "purging"
    /\ c \in todo[p]
    /\ todo' = [todo EXCEPT ![p] = @ \ {c}]
    /\ Discards(c, ok)
    /\ flop' = (flop \/ (p = Closer /\ ~ok))
    /\ UNCHANGED <<genVars, cleanupVars, refreshVars, batch, closed, lock, pc,
                   kind, target, leases, lease>>

-----------------------------------------------------------------------------
(* Admin operations. *)

GoesTo(p, to) == pc' = [pc EXCEPT ![p] = to]
Returns(p) == GoesTo(p, "idle") /\ lock' = None

Call(o, k) ==
    /\ pc[o] = "idle"
    /\ serving
    /\ GoesTo(o, "queued")
    /\ kind' = [kind EXCEPT ![o] = k]
    /\ UNCHANGED <<genVars, cleanupVars, refreshVars, candidateVars, closeVars,
                   lock, target, todo, leases, lease>>

Refused(o) ==
    /\ pc[o] = "queued"
    /\ lock = None
    /\ closing \/ closed
    /\ GoesTo(o, "idle")
    /\ UNCHANGED <<genVars, cleanupVars, refreshVars, candidateVars, closeVars,
                   lock, kind, target, todo, leases, lease>>

\* Mutant of Granted: connected_provider_changed does without the lock.
ConnectUnlocked(o) ==
    /\ pc[o] = "queued"
    /\ lock = None
    /\ ~closing /\ ~closed
    /\ IF kind[o] = "connect"
         THEN /\ GoesTo(o, "discovering")
              /\ target' = [target EXCEPT ![o] = current]
              /\ UNCHANGED <<lock, refreshVars>>
         ELSE /\ GoesTo(o, "cancelling")
              /\ lock' = o
              /\ CancelRefresh
              /\ UNCHANGED target
    /\ UNCHANGED <<genVars, cleanupVars, candidateVars, closeVars, kind, todo,
                   leases, lease>>

\* Mutant of Granted: replace() leaves the running discovery alone.
ReplaceInHurry(o) ==
    /\ pc[o] = "queued" /\ kind[o] = "replace"
    /\ lock = None
    /\ ~closing /\ ~closed
    /\ lock' = o
    /\ GoesTo(o, "purging")
    /\ todo' = [todo EXCEPT ![o] = unpublished]
    /\ UNCHANGED <<genVars, cleanupVars, refreshVars, candidateVars, closeVars,
                   kind, target, leases, lease>>

\* connected_provider_changed uses the current runtime without a lease and
\* leaves the background task alone; the others cancel that task first.
Granted(o) ==
    /\ pc[o] = "queued"
    /\ lock = None
    /\ ~closing /\ ~closed
    /\ lock' = o
    /\ IF kind[o] = "connect"
         THEN /\ GoesTo(o, "discovering")
              /\ target' = [target EXCEPT ![o] = current]
              /\ UNCHANGED refreshVars
         ELSE /\ GoesTo(o, "cancelling")
              /\ CancelRefresh
              /\ UNCHANGED target
    /\ UNCHANGED <<genVars, cleanupVars, candidateVars, closeVars, kind, todo,
                   leases, lease>>

\* The task that was cancelled belongs to the current generation, which no one
\* else can replace meanwhile.
ReplaceGoesOn(o) ==
    /\ pc[o] = "cancelling" /\ kind[o] = "replace"
    /\ ~TaskLive(current)
    /\ GoesTo(o, "purging")
    /\ todo' = [todo EXCEPT ![o] = unpublished]
    /\ UNCHANGED <<genVars, cleanupVars, refreshVars, candidateVars, closeVars,
                   lock, kind, target, leases, lease>>

RefreshGoesOn(o) ==
    /\ pc[o] = "cancelling" /\ kind[o] = "refresh"
    /\ ~TaskLive(current)
    /\ GoesTo(o, "discovering")
    /\ target' = [target EXCEPT ![o] = current]
    /\ leases' = [leases EXCEPT ![current] = @ + 1]
    /\ UNCHANGED <<genVars, cleanupVars, refreshVars, candidateVars, closeVars,
                   lock, kind, todo, lease>>

\* The end of refresh_model_list_cache or connected_provider_changed, by
\* completion, failure or cancellation.
Discovered(o) ==
    /\ pc[o] = "discovering"
    /\ Returns(o)
    /\ target' = [target EXCEPT ![o] = 0]
    /\ IF kind[o] = "refresh" THEN ReleaseLease(target[o])
                              ELSE UNCHANGED <<leases, cleanupVars>>
    /\ UNCHANGED <<genVars, refreshVars, candidateVars, closeVars, kind, todo,
                   lease>>

FactoryFails(o) ==
    /\ pc[o] = "purging" /\ todo[o] = {}
    /\ Returns(o)
    /\ UNCHANGED <<genVars, cleanupVars, refreshVars, candidateVars, closeVars,
                   kind, target, todo, leases, lease>>

CommitFails(o) ==
    /\ pc[o] = "purging" /\ todo[o] = {}
    /\ failures < MaxFailures
    /\ failures' = failures + 1
    /\ unpublished' = unpublished \union {failures'}
    /\ GoesTo(o, "discarding")
    /\ UNCHANGED <<genVars, cleanupVars, refreshVars, discarded, closeVars,
                   lock, kind, target, todo, leases, lease>>

\* _cleanup_unpublished of the candidate that was not committed, the last one.
Discard(o, ok) ==
    /\ pc[o] = "discarding"
    /\ Discards(failures, ok)
    /\ Returns(o)
    /\ UNCHANGED <<genVars, cleanupVars, refreshVars, closeVars, kind, target,
                   todo, leases, lease>>

\* The candidate is committed, published and given a discovery task, and the
\* previous generation retired, without suspending.
Publish(o) ==
    /\ pc[o] = "purging" /\ todo[o] = {}
    /\ current < MaxGenerations
    /\ current' = current + 1
    /\ retired' = retired \union {current}
    /\ refreshTask' = current'
    /\ task' = [task EXCEPT ![current'] = "created"]
    /\ UNCHANGED leases
    /\ IF leases[current] = 0
         THEN /\ CloseGenerations({current})
              /\ GoesTo(o, "settling") /\ UNCHANGED lock
              /\ target' = [target EXCEPT ![o] = current]
         ELSE /\ Returns(o)
              /\ UNCHANGED <<cleanupVars, target>>
    /\ UNCHANGED <<serving, closing, candidateVars, closeVars, kind, todo,
                   lease>>

\* replace() returns when the cleanup it asked for has ended, either way.
Settled(o) ==
    /\ pc[o] = "settling"
    /\ ~CleanupLive(target[o])
    /\ Returns(o)
    /\ target' = [target EXCEPT ![o] = 0]
    /\ UNCHANGED <<genVars, cleanupVars, refreshVars, candidateVars, closeVars,
                   kind, todo, leases, lease>>

\* The caller of an operation, or of close(), is cancelled.  A candidate whose
\* cleanup is cut short stays unpublished.  Cancelled while it discovers, an
\* operation unwinds as in Discovered.
Cancel(p) ==
    /\ pc[p] \notin {"idle", "discovering"}
    /\ GoesTo(p, "idle")
    /\ lock' = IF lock = p THEN None ELSE lock
    /\ target' = [o \in Ops |-> IF o = p THEN 0 ELSE target[o]]
    /\ todo' = [todo EXCEPT ![p] = {}]
    /\ UNCHANGED <<genVars, cleanupVars, refreshVars, candidateVars, closeVars,
                   kind, leases, lease>>

-----------------------------------------------------------------------------
(* close(). *)

Close ==
    /\ pc[Closer] = "idle"
    /\ ~closed
    /\ GoesTo(Closer, "queued")
    /\ UNCHANGED <<genVars, cleanupVars, refreshVars, candidateVars, closeVars,
                   lock, kind, target, todo, leases, lease>>

\* Mutant of CloseGranted: the discovery task is left to end by itself.
CloseUncancelled ==
    /\ pc[Closer] = "queued"
    /\ lock = None
    /\ lock' = Closer
    /\ closing' = TRUE
    /\ GoesTo(Closer, "cancelling")
    /\ UNCHANGED <<current, retired, serving, cleanupVars, refreshVars,
                   candidateVars, closeVars, kind, target, todo, leases, lease>>

CloseGranted ==
    /\ pc[Closer] = "queued"
    /\ lock = None
    /\ lock' = Closer
    /\ closing' = TRUE
    /\ CancelRefresh
    /\ GoesTo(Closer, "cancelling")
    /\ UNCHANGED <<current, retired, serving, cleanupVars, candidateVars,
                   closeVars, kind, target, todo, leases, lease>>

CloseRetires ==
    /\ pc[Closer] = "cancelling"
    /\ ~TaskLive(current)
    /\ retired' = retired \union {current}
    /\ batch' = retired' \ cleaned
    /\ lock' = None
    /\ GoesTo(Closer, "draining")
    /\ UNCHANGED <<current, serving, closing, cleanupVars, refreshVars,
                   candidateVars, flop, closed, kind, target, todo, leases,
                   lease>>

CloseDrained ==
    /\ pc[Closer] = "draining"
    /\ \A g \in batch : leases[g] = 0
    /\ UNCHANGED leases
    /\ CloseGenerations(batch)
    /\ flop' = FALSE
    /\ GoesTo(Closer, "joining")
    /\ UNCHANGED <<genVars, refreshVars, candidateVars, batch, closed, lock,
                   kind, target, todo, lease>>

CloseJoined ==
    /\ pc[Closer] = "joining"
    /\ \A g \in batch : ~CleanupLive(g)
    /\ GoesTo(Closer, "purging")
    /\ todo' = [todo EXCEPT ![Closer] = unpublished]
    /\ UNCHANGED <<genVars, cleanupVars, refreshVars, candidateVars, closeVars,
                   lock, kind, target, leases, lease>>

\* Mutant of CloseEnds: close() is done although a cleanup failed.
CloseEndsAnyway ==
    /\ pc[Closer] = "purging" /\ todo[Closer] = {}
    /\ closed' = TRUE
    /\ GoesTo(Closer, "idle")
    /\ UNCHANGED <<genVars, cleanupVars, refreshVars, candidateVars, batch,
                   flop, lock, kind, target, todo, leases, lease>>

\* A failure is raised to the caller, who may call close() again.
CloseEnds ==
    /\ pc[Closer] = "purging" /\ todo[Closer] = {}
    /\ closed' = ~flop
    /\ GoesTo(Closer, "idle")
    /\ UNCHANGED <<genVars, cleanupVars, refreshVars, candidateVars, batch,
                   flop, lock, kind, target, todo, leases, lease>>

-----------------------------------------------------------------------------

Terminated ==
    /\ closed
    /\ \A p \in Processes : pc[p] = "idle"
    /\ UNCHANGED vars

OpStep(o) ==
    \/ \E k \in Kinds : Call(o, k)
    \/ Refused(o) \/ Granted(o)
    \/ ReplaceGoesOn(o) \/ RefreshGoesOn(o) \/ Discovered(o)
    \/ FactoryFails(o) \/ CommitFails(o) \/ Publish(o) \/ Settled(o)
    \/ \E ok \in BOOLEAN : Discard(o, ok)

GenStep(g) ==
    \/ CleanupBegins(g) \/ CleanupSucceeds(g) \/ CleanupFails(g)
    \/ RefreshBegins(g) \/ RefreshEnds(g)

CloseStep ==
    \/ Close \/ CloseGranted \/ CloseRetires \/ CloseDrained \/ CloseJoined
    \/ CloseEnds

Next ==
    \/ \E r \in Requests : Acquire(r) \/ Release(r)
    \/ \E o \in Ops : OpStep(o)
    \/ \E g \in Gens : GenStep(g)
    \/ \E p \in Processes, c \in Candidates, ok \in BOOLEAN : Purge(p, c, ok)
    \/ \E p \in Processes : Cancel(p)
    \/ StartModelListRefresh
    \/ CloseStep
    \/ Terminated

Spec == Init /\ [][Next]_vars

\* Whoever holds a lease or unwinds gets to finish: responses end (the server
\* cancels those that last too long before it shuts down), discovery and
\* cleanup call providers with timeouts.  The lock is FIFO, hence strong
\* fairness.  Nobody has to call, acquire, cancel or shut down.
Fairness ==
    /\ \A r \in Requests : WF_vars(Release(r))
    /\ \A g \in Gens :
           /\ WF_vars(CleanupBegins(g))
           /\ WF_vars(CleanupSucceeds(g) \/ CleanupFails(g))
           /\ WF_vars(RefreshBegins(g))
           /\ WF_vars(RefreshEnds(g))
    /\ \A o \in Ops :
           /\ SF_vars(Granted(o) \/ Refused(o))
           /\ WF_vars(ReplaceGoesOn(o) \/ RefreshGoesOn(o))
           /\ WF_vars(Discovered(o))
           /\ WF_vars(FactoryFails(o) \/ CommitFails(o) \/ Publish(o))
           /\ WF_vars(\E ok \in BOOLEAN : Discard(o, ok))
           /\ WF_vars(Settled(o))
    /\ \A p \in Processes :
           WF_vars(\E c \in Candidates, ok \in BOOLEAN : Purge(p, c, ok))
    /\ SF_vars(CloseGranted)
    /\ WF_vars(CloseRetires \/ CloseDrained \/ CloseJoined \/ CloseEnds)

FairSpec == Spec /\ Fairness

-----------------------------------------------------------------------------

\* Every variable has its type; the reference counts are never negative.
TypeOK ==
    /\ current \in Gens
    /\ leases \in [Gens -> Nat]
    /\ retired \subseteq Gens /\ cleaned \subseteq Gens /\ owned \subseteq Gens
    /\ pending \in [Gens -> Nat] /\ running \in [Gens -> Nat]
    /\ lease \in [Requests -> Gens \union {0}]
    /\ refreshTask \in Gens \union {0}
    /\ task \in [Gens -> TaskStates]
    /\ unpublished \subseteq Candidates /\ discarded \subseteq Candidates
    /\ failures \in Candidates \union {0}
    /\ lock \in Processes \union {None}
    /\ pc \in [Processes -> PCs]
    /\ kind \in [Ops -> Kinds]
    /\ target \in [Ops -> Gens \union {0}]
    /\ todo \in [Processes -> SUBSET Candidates]
    /\ batch \subseteq Gens
    /\ flop \in BOOLEAN /\ serving \in BOOLEAN
    /\ closing \in BOOLEAN /\ closed \in BOOLEAN

Leased(g) == {r \in Requests : lease[r] = g}
Discovering(g) == {o \in Ops : pc[o] = "discovering" /\ target[o] = g}
Refreshing(g) == {o \in Discovering(g) : kind[o] = "refresh"}
Background(g) == task[g] \in {"running", "cancelled"}

\* A generation's reference count is the number of requests and discoveries
\* that hold a lease on it: every release is paired with one acquisition,
\* however operations fail or are cancelled (active_leases).
LeasesCounted ==
    \A g \in Gens :
        leases[g] = Cardinality(Leased(g)) + Cardinality(Refreshing(g))
                    + (IF Background(g) THEN 1 ELSE 0)

\* No two cleanups of a generation overlap, and none is asked for once it is
\* closed, whoever asks: the last release, replace(), close(), or a second
\* close() after a cancelled one (cleanup_task).
SingleCleanup ==
    \A g \in Gens : /\ pending[g] + running[g] <= 1
                    /\ g \in cleaned => ~CleanupLive(g)

\* A discovery that may still write to the shared model list cache looks at
\* the current generation, and an explicit refresh never races a background
\* one, although operations are cancelled half-way (_cancel_refresh).
DiscoveryIsCurrent ==
    /\ \A g \in Gens : task[g] \in {"created", "running"} => g = current
    /\ \A o \in Ops : pc[o] = "discovering" =>
           /\ target[o] = current
           /\ kind[o] = "refresh" => ~TaskLive(current)

\* When close() has returned normally nothing is left: every generation ever
\* published and every candidate ever built is cleaned up, no lease is held
\* and no discovery lives (ARCHITECTURE.md, "the manager does not become
\* terminal until every owned runtime closes").
CloseIsComplete ==
    closed => /\ cleaned = 1..current
              /\ unpublished = {} /\ discarded = 1..failures
              /\ \A g \in Gens : leases[g] = 0 /\ ~TaskLive(g)

\* Once closing, nothing new starts: no generation is published, no lease is
\* taken by a request or by a discovery task created earlier.
NothingStartsWhileClosing ==
    [][closing => /\ current' = current
                  /\ \A g \in Gens : leases'[g] <= leases[g]]_vars

Status(g) ==
    IF g > current THEN "unborn"
    ELSE IF g \in cleaned THEN "cleaned"
    ELSE IF running[g] > 0 THEN "cleaning"
    ELSE IF g \in retired THEN "retired"
    ELSE "current"

UsersOf(g) == Leased(g) \union Discovering(g)
              \union (IF Background(g) THEN {Refresher} ELSE {})

G == INSTANCE Generations
     WITH Users <- Requests \union Ops \union {Refresher},
          status <- [g \in Gens |-> Status(g)],
          users <- [g \in Gens |-> UsersOf(g)],
          sealed <- closing

\* The counters, locks and tasks implement Generations: a generation's clients
\* are cleaned up only while nobody uses them, be it under a lease or, in
\* connected_provider_changed, under _replace_lock alone.
ImplementsGenerations == G!Spec

\* A retired generation that is still leased is cleaned up in the end, by its
\* last release or, if the manager shuts down first, by close().
RetiredAreCleaned ==
    \A g \in Gens :
        (g \in retired /\ leases[g] > 0) ~> (CleanupLive(g) \/ closing)

\* Every call of an admin operation and of close() returns, although close()
\* and the operations wait for each other, for tasks and for leases.
CallsReturn == \A p \in Processes : pc[p] # "idle" ~> pc[p] = "idle"
=============================================================================
