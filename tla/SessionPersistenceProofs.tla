----------------------- MODULE SessionPersistenceProofs -----------------------
(***************************************************************************)
(* What holds of SessionPersistence for every number of changes, failures  *)
(* and crashes.  The heart of the inductive invariant is Ordered: a write  *)
(* whose generation is current carries the newest snapshot of all threads, *)
(* so the generation check under the writer lock lets no older one pass.   *)
(***************************************************************************)
EXTENDS SessionPersistence, TLAPS

Claimed == {"snap", "write", "replace"}     \* the thread owns a generation
Loaded == {"write", "replace"}              \* ... and the snapshot to write
Changing == pc[Main] \in {"saving", "clearing"}

Current(t) == pc[t] \in Loaded /\ pending[t].generation = generation

\* Main's own places, timers not created yet, and the store's lock while the
\* state is new but the generation is not.
Placed ==
    /\ pc[Main] # "armed"
    /\ \A t \in Timers : pc[t] \notin {"saving", "clearing"}
    /\ \A t \in Timers : generation < t => pc[t] = "idle"
    /\ Changing => storeHeld /\ generation < version

\* Versions only come from the store.
Bounded ==
    /\ file <= memory
    /\ \A t \in Threads : pc[t] \in Loaded => pending[t].snapshot <= memory

\* A generation is claimed before it is passed; only Main passes it.
Claims ==
    /\ \A t \in Threads : pc[t] \in Claimed => pending[t].generation <= generation
    /\ pc[Main] \in Claimed => pending[Main].generation = generation

\* A current write carries the newest snapshot.
Ordered ==
    \A t \in Threads : Current(t) =>
        /\ file <= pending[t].snapshot
        /\ \A u \in Threads : pc[u] \in Loaded => pending[u].snapshot <= pending[t].snapshot
        /\ ~Changing => pending[t].snapshot = memory

\* What passed the check may still be written.
Writing == \A t \in Threads : pc[t] = "replace" => file <= pending[t].snapshot

\* What Main has written is the state.
Written == pc[Main] \in {"mark", "clean"} => file = memory

IInv ==
    /\ TypeOK
    /\ Placed
    /\ Bounded
    /\ Claims
    /\ Ordered
    /\ Writing
    /\ Written
    /\ PromisesKept

-----------------------------------------------------------------------------

LEMMA ThreadsAreNumbers ==
    /\ Main \in Threads /\ Main \notin Timers
    /\ Nobody \notin Threads
    /\ \A t \in Threads : t \in Nat
    /\ Timers \subseteq Threads
BY BoundsAssumption DEF Main, Threads, Timers, Nobody

LEMMA InitHolds == Init => IInv
<1> SUFFICES ASSUME Init PROVE IInv
    OBVIOUS
<1>1. TypeOK
    <2>1. pending \in [Threads -> [generation : 0..MaxVersions, snapshot : 0..MaxVersions]]
        BY BoundsAssumption DEF Init, NoWrite
    <2>2. pc \in [Threads -> Places] /\ \A t \in Threads : writer = t <=> pc[t] = "replace"
        BY ThreadsAreNumbers DEF Init, Places
    <2>3. saveTimer \in Threads /\ writer \in Threads \cup {Nobody}
        BY ThreadsAreNumbers DEF Init
    <2>4. dirty \in BOOLEAN /\ storeHeld \in BOOLEAN /\ failed \in BOOLEAN
        BY DEF Init
    <2>5. /\ version \in 0..MaxVersions /\ memory \in 0..version /\ file \in 0..version
          /\ generation \in 0..version /\ promised \in 0..version
          /\ failures \in 0..MaxFailures /\ crashes \in 0..MaxCrashes
        BY BoundsAssumption DEF Init
    <2> QED BY <2>1, <2>2, <2>3, <2>4, <2>5 DEF TypeOK
<1>2. Placed /\ Bounded /\ Claims /\ Ordered /\ Writing /\ Written /\ PromisesKept
    BY ThreadsAreNumbers
       DEF Init, Placed, Bounded, Claims, Ordered, Writing, Written, PromisesKept,
           Current, Changing, Loaded, Claimed
<1> QED BY <1>1, <1>2 DEF IInv

LEMMA SaveStep ==
    ASSUME IInv, Save
    PROVE  IInv'
<1> USE ThreadsAreNumbers, BoundsAssumption
<1>1. TypeOK'
    BY DEF IInv, TypeOK, Places, Save, Change, Goto, schedule, disk, history
<1>2. Placed'
    BY DEF IInv, Placed, TypeOK, Save, Change, Goto, schedule
<1>3. Bounded'
    BY DEF IInv, Bounded, TypeOK, Loaded, Save, Change, Goto, disk
<1>4. Claims'
    BY DEF IInv, Claims, Claimed, Save, Change, Goto, schedule
<1>5. Ordered'
    BY DEF IInv, Ordered, TypeOK, Current, Changing, Loaded, Save, Change, Goto, schedule,
       disk
<1>6. Writing'
    BY DEF IInv, Writing, Save, Change, Goto, disk
<1>7. Written'
    BY DEF Written, Save, Change, Goto
<1>8. PromisesKept'
    BY DEF IInv, PromisesKept, Save, Change, disk, history
<1> QED BY <1>1, <1>2, <1>3, <1>4, <1>5, <1>6, <1>7, <1>8 DEF IInv

LEMMA ScheduleStep ==
    ASSUME IInv, Schedule
    PROVE  IInv'
<1> USE ThreadsAreNumbers, BoundsAssumption
<1>a. /\ generation + 1 \in Timers /\ generation + 1 \in 1..version
      /\ generation + 1 # Main /\ generation \in Nat
    BY DEF IInv, TypeOK, Placed, Changing, Timers, Main, Schedule
<1>b. /\ pc' \in [Threads -> Places]
      /\ \A t \in Threads :
           pc'[t] = IF t = generation + 1 THEN "armed" ELSE IF t = Main THEN "idle"
                    ELSE IF t = saveTimer /\ pc[t] = "armed" THEN "idle" ELSE pc[t]
    BY <1>a DEF IInv, TypeOK, Places, Schedule, Disarmed
<1>1. TypeOK'
    <2>1. dirty' \in BOOLEAN /\ storeHeld' \in BOOLEAN /\ failed' \in BOOLEAN
        BY <1>a, <1>b DEF IInv, TypeOK, Schedule, Disarmed, disk
    <2>2. /\ version' \in 0..MaxVersions /\ memory' \in 0..version' /\ file' \in 0..version'
          /\ generation' \in 0..version' /\ promised' \in 0..version'
          /\ failures' \in 0..MaxFailures /\ crashes' \in 0..MaxCrashes
        BY <1>a, <1>b DEF IInv, TypeOK, Bounded, Loaded, Schedule, Disarmed, disk
    <2>3. /\ saveTimer' \in Threads /\ writer' \in Threads \cup {Nobody}
          /\ pc' \in [Threads -> Places]
          /\ \A u \in Threads : writer' = u <=> pc'[u] = "replace"
        BY <1>a, <1>b DEF IInv, TypeOK, Placed, Places, Timers, Schedule, Disarmed, disk
    <2>4. pending' \in [Threads -> [generation : 0..MaxVersions, snapshot : 0..MaxVersions]]
        BY <1>a, <1>b DEF IInv, TypeOK, Schedule, Disarmed, disk
    <2> QED BY <2>1, <2>2, <2>3, <2>4 DEF TypeOK
<1>2. Placed'
    BY <1>a, <1>b DEF IInv, Placed, Changing, Schedule
<1>3. Bounded'
    BY <1>a, <1>b DEF IInv, Bounded, Loaded, Schedule, disk
<1>4. Claims'
    BY <1>a, <1>b DEF IInv, Claims, TypeOK, Claimed, Schedule
<1>5. Ordered'
    BY <1>a, <1>b DEF IInv, Ordered, Claims, Current, Loaded, Claimed, Schedule
<1>6. Writing'
    BY <1>a, <1>b DEF IInv, Writing, Schedule, disk
<1>7. Written'
    BY <1>a, <1>b DEF Written
<1>8. PromisesKept'
    BY <1>a, <1>b DEF IInv, PromisesKept, Schedule, disk
<1> QED BY <1>1, <1>2, <1>3, <1>4, <1>5, <1>6, <1>7, <1>8 DEF IInv

LEMMA ClearStep ==
    ASSUME IInv, Clear
    PROVE  IInv'
<1> USE ThreadsAreNumbers, BoundsAssumption
<1>1. TypeOK'
    BY DEF IInv, TypeOK, Places, Clear, Change, Goto, schedule, disk, history
<1>2. Placed'
    BY DEF IInv, Placed, TypeOK, Clear, Change, Goto, schedule
<1>3. Bounded'
    BY DEF IInv, Bounded, TypeOK, Loaded, Clear, Change, Goto, disk
<1>4. Claims'
    BY DEF IInv, Claims, Claimed, Clear, Change, Goto, schedule
<1>5. Ordered'
    BY DEF IInv, Ordered, TypeOK, Current, Changing, Loaded, Clear, Change, Goto, schedule,
       disk
<1>6. Writing'
    BY DEF IInv, Writing, Clear, Change, Goto, disk
<1>7. Written'
    BY DEF Written, Clear, Change, Goto
<1>8. PromisesKept'
    BY DEF IInv, PromisesKept, Clear, Change, disk, history
<1> QED BY <1>1, <1>2, <1>3, <1>4, <1>5, <1>6, <1>7, <1>8 DEF IInv

LEMMA InvalidateStep ==
    ASSUME IInv, Invalidate
    PROVE  IInv'
<1> USE ThreadsAreNumbers, BoundsAssumption
<1>a. /\ generation + 1 \in Timers /\ generation + 1 \in 1..version
      /\ generation + 1 # Main /\ generation \in Nat
    BY DEF IInv, TypeOK, Placed, Changing, Timers, Main, Invalidate
<1>b. /\ pc' \in [Threads -> Places]
      /\ \A t \in Threads :
           pc'[t] = IF t = Main THEN "write"
                    ELSE IF t = saveTimer /\ pc[t] = "armed" THEN "idle" ELSE pc[t]
    BY <1>a DEF IInv, TypeOK, Places, Invalidate, Disarmed
<1>1. TypeOK'
    <2>1. dirty' \in BOOLEAN /\ storeHeld' \in BOOLEAN /\ failed' \in BOOLEAN
        BY <1>a, <1>b DEF IInv, TypeOK, Invalidate, Disarmed, store, disk
    <2>2. /\ version' \in 0..MaxVersions /\ memory' \in 0..version' /\ file' \in 0..version'
          /\ generation' \in 0..version' /\ promised' \in 0..version'
          /\ failures' \in 0..MaxFailures /\ crashes' \in 0..MaxCrashes
        BY <1>a, <1>b DEF IInv, TypeOK, Bounded, Loaded, Invalidate, Disarmed, store, disk
    <2>3. /\ saveTimer' \in Threads /\ writer' \in Threads \cup {Nobody}
          /\ pc' \in [Threads -> Places]
          /\ \A u \in Threads : writer' = u <=> pc'[u] = "replace"
        BY <1>a, <1>b DEF IInv, TypeOK, Invalidate, disk
    <2>4. pending' \in [Threads -> [generation : 0..MaxVersions, snapshot : 0..MaxVersions]]
        BY <1>a, <1>b DEF IInv, TypeOK, Invalidate, Disarmed, store, disk
    <2> QED BY <2>1, <2>2, <2>3, <2>4 DEF TypeOK
<1>2. Placed'
    BY <1>a, <1>b DEF IInv, Placed, Changing, Invalidate
<1>3. Bounded'
    BY <1>a, <1>b DEF IInv, Bounded, TypeOK, Loaded, Invalidate, store, disk
<1>4. Claims'
    BY <1>a, <1>b DEF IInv, Claims, TypeOK, Claimed, Invalidate
<1>5. Ordered'
    BY <1>a, <1>b DEF IInv, Ordered, Bounded, Claims, TypeOK, Current, Loaded, Claimed,
       Invalidate, store, disk
<1>6. Writing'
    BY <1>a, <1>b DEF IInv, Writing, Invalidate, disk
<1>7. Written'
    BY <1>a, <1>b DEF Written
<1>8. PromisesKept'
    BY <1>a, <1>b DEF IInv, PromisesKept, Invalidate, disk
<1> QED BY <1>1, <1>2, <1>3, <1>4, <1>5, <1>6, <1>7, <1>8 DEF IInv

LEMMA FlushStep ==
    ASSUME IInv, Flush
    PROVE  IInv'
<1> USE ThreadsAreNumbers, BoundsAssumption
<1>1. TypeOK'
    BY DEF IInv, TypeOK, Places, Flush, Goto, schedule, disk, history
<1>2. Placed'
    BY DEF IInv, Placed, Changing, Flush, Goto, schedule
<1>3. Bounded'
    BY DEF IInv, Bounded, Loaded, Flush, Goto, disk
<1>4. Claims'
    BY DEF IInv, Claims, Claimed, Flush, Goto, schedule
<1>5. Ordered'
    BY DEF IInv, Ordered, Current, Changing, Loaded, Flush, Goto, schedule, disk
<1>6. Writing'
    BY DEF IInv, Writing, Flush, Goto, disk
<1>7. Written'
    BY DEF Written, Flush, Goto
<1>8. PromisesKept'
    BY DEF IInv, PromisesKept, Flush, disk, history
<1> QED BY <1>1, <1>2, <1>3, <1>4, <1>5, <1>6, <1>7, <1>8 DEF IInv

LEMMA FireStep ==
    ASSUME IInv, NEW t \in Timers, Fire(t)
    PROVE  IInv'
<1> USE ThreadsAreNumbers, BoundsAssumption
<1>1. TypeOK'
    BY DEF IInv, TypeOK, Places, Fire, Goto, store, schedule, disk, history
<1>2. Placed'
    BY DEF IInv, Placed, Changing, Fire, Goto, store, schedule
<1>3. Bounded'
    BY DEF IInv, Bounded, Loaded, Fire, Goto, store, disk
<1>4. Claims'
    BY DEF IInv, Claims, Claimed, Fire, Goto, schedule
<1>5. Ordered'
    BY DEF IInv, Ordered, Current, Changing, Loaded, Fire, Goto, store, schedule, disk
<1>6. Writing'
    BY DEF IInv, Writing, Fire, Goto, disk
<1>7. Written'
    BY DEF IInv, Written, Fire, Goto, store, disk
<1>8. PromisesKept'
    BY DEF IInv, PromisesKept, Fire, disk, history
<1> QED BY <1>1, <1>2, <1>3, <1>4, <1>5, <1>6, <1>7, <1>8 DEF IInv

LEMMA GiveUpStep ==
    ASSUME IInv, NEW t \in Threads, GiveUp(t)
    PROVE  IInv'
<1> USE ThreadsAreNumbers, BoundsAssumption
<1>1. TypeOK'
    BY DEF IInv, TypeOK, Places, GiveUp, Goto, store, schedule, disk, history
<1>2. Placed'
    BY DEF IInv, Placed, Changing, GiveUp, Goto, store, schedule
<1>3. Bounded'
    BY DEF IInv, Bounded, Loaded, GiveUp, Goto, store, disk
<1>4. Claims'
    BY DEF IInv, Claims, Claimed, GiveUp, Goto, schedule
<1>5. Ordered'
    BY DEF IInv, Ordered, Current, Changing, Loaded, GiveUp, Goto, store, schedule, disk
<1>6. Writing'
    BY DEF IInv, Writing, GiveUp, Goto, disk
<1>7. Written'
    BY DEF IInv, Written, GiveUp, Goto, store, disk
<1>8. PromisesKept'
    BY DEF IInv, PromisesKept, GiveUp, disk, history
<1> QED BY <1>1, <1>2, <1>3, <1>4, <1>5, <1>6, <1>7, <1>8 DEF IInv

LEMMA ClaimStep ==
    ASSUME IInv, NEW t \in Threads, Claim(t)
    PROVE  IInv'
<1> USE ThreadsAreNumbers, BoundsAssumption
<1>1. TypeOK'
    BY DEF IInv, TypeOK, Places, Claim, Disarmed, store, disk, history
<1>2. Placed'
    BY DEF IInv, Placed, Changing, Claim, Disarmed, store
<1>3. Bounded'
    BY DEF IInv, Bounded, Loaded, Claim, Disarmed, store, disk
<1>4. Claims'
    BY DEF IInv, Claims, TypeOK, Claimed, Claim, Disarmed
<1>5. Ordered'
    BY DEF IInv, Ordered, Current, Changing, Loaded, Claim, Disarmed, store, disk
<1>6. Writing'
    BY DEF IInv, Writing, Claim, Disarmed, disk
<1>7. Written'
    BY DEF IInv, Written, Claim, Disarmed, store, disk
<1>8. PromisesKept'
    BY DEF IInv, PromisesKept, Claim, disk, history
<1> QED BY <1>1, <1>2, <1>3, <1>4, <1>5, <1>6, <1>7, <1>8 DEF IInv

LEMMA SnapshotStep ==
    ASSUME IInv, NEW t \in Threads, Snapshot(t)
    PROVE  IInv'
<1> USE ThreadsAreNumbers, BoundsAssumption
<1>1. TypeOK'
    BY DEF IInv, TypeOK, Places, Snapshot, Goto, store, schedule, disk, history
<1>2. Placed'
    BY DEF IInv, Placed, Changing, Snapshot, MayLockStore, Goto, schedule
<1>3. Bounded'
    BY DEF IInv, Bounded, TypeOK, Snapshot, Goto, store, disk
<1>4. Claims'
    BY DEF IInv, Claims, Claimed, Snapshot, Goto, schedule
<1>5. Ordered'
    BY DEF IInv, Ordered, Bounded, TypeOK, Placed, Current, Changing, Snapshot,
       MayLockStore, Goto, store, schedule, disk
<1>6. Writing'
    BY DEF IInv, Writing, Snapshot, Goto, disk
<1>7. Written'
    BY DEF IInv, Written, Snapshot, Goto, store, disk
<1>8. PromisesKept'
    BY DEF IInv, PromisesKept, Snapshot, disk, history
<1> QED BY <1>1, <1>2, <1>3, <1>4, <1>5, <1>6, <1>7, <1>8 DEF IInv

LEMMA RejectStep ==
    ASSUME IInv, NEW t \in Threads, Reject(t)
    PROVE  IInv'
<1> USE ThreadsAreNumbers, BoundsAssumption
<1>1. TypeOK'
    BY DEF IInv, TypeOK, Places, Reject, Return, Goto, schedule, disk
<1>2. Placed'
    BY DEF IInv, Placed, Changing, Reject, Return, Goto, schedule
<1>3. Bounded'
    BY DEF IInv, Bounded, Loaded, Reject, Return, Goto, disk
<1>4. Claims'
    BY DEF IInv, Claims, Claimed, Reject, Return, Goto, schedule
<1>5. Ordered'
    BY DEF IInv, Ordered, Current, Changing, Loaded, Reject, Return, Goto, schedule, disk
<1>6. Writing'
    BY DEF IInv, Writing, TypeOK, Reject, Return, Goto
<1>7. Written'
    BY DEF IInv, Written, Reject, Return, Goto, disk
<1>8. PromisesKept'
    BY DEF IInv, PromisesKept, Claims, Claimed, Reject, Return, disk
<1> QED BY <1>1, <1>2, <1>3, <1>4, <1>5, <1>6, <1>7, <1>8 DEF IInv

LEMMA StartWriteStep ==
    ASSUME IInv, NEW t \in Threads, StartWrite(t)
    PROVE  IInv'
<1> USE ThreadsAreNumbers, BoundsAssumption
<1>1. TypeOK'
    BY DEF IInv, TypeOK, Places, StartWrite, Goto, store, schedule, history
<1>2. Placed'
    BY DEF IInv, Placed, Changing, StartWrite, Goto, store, schedule
<1>3. Bounded'
    BY DEF IInv, Bounded, Loaded, StartWrite, Goto, store
<1>4. Claims'
    BY DEF IInv, Claims, TypeOK, StartWrite, Goto, schedule
<1>5. Ordered'
    BY DEF IInv, Ordered, Current, Changing, Loaded, StartWrite, Goto, store, schedule
<1>6. Writing'
    BY DEF IInv, Writing, Ordered, Current, Loaded, StartWrite, Goto
<1>7. Written'
    BY DEF IInv, Written, StartWrite, Goto, store
<1>8. PromisesKept'
    BY DEF IInv, PromisesKept, StartWrite, history
<1> QED BY <1>1, <1>2, <1>3, <1>4, <1>5, <1>6, <1>7, <1>8 DEF IInv

LEMMA ReplaceStep ==
    ASSUME IInv, NEW t \in Threads, Replace(t)
    PROVE  IInv'
<1> USE ThreadsAreNumbers, BoundsAssumption
<1>1. TypeOK'
    <2>1. dirty' \in BOOLEAN /\ storeHeld' \in BOOLEAN /\ failed' \in BOOLEAN
        BY DEF IInv, TypeOK, Replace, Goto, store, schedule
    <2>2. /\ version' \in 0..MaxVersions /\ memory' \in 0..version' /\ file' \in 0..version'
          /\ generation' \in 0..version' /\ promised' \in 0..version'
          /\ failures' \in 0..MaxFailures /\ crashes' \in 0..MaxCrashes
        BY DEF IInv, TypeOK, Bounded, Loaded, Replace, Goto, store, schedule
    <2>3. /\ saveTimer' \in Threads /\ writer' \in Threads \cup {Nobody}
          /\ pc' \in [Threads -> Places]
          /\ \A u \in Threads : writer' = u <=> pc'[u] = "replace"
        BY DEF IInv, TypeOK, Placed, Places, Timers, Replace, Goto, store, schedule
    <2>4. pending' \in [Threads -> [generation : 0..MaxVersions, snapshot : 0..MaxVersions]]
        BY DEF IInv, TypeOK, Replace, Goto, store, schedule
    <2> QED BY <2>1, <2>2, <2>3, <2>4 DEF TypeOK
<1>2. Placed'
    BY DEF IInv, Placed, Changing, Replace, Goto, store, schedule
<1>3. Bounded'
    BY DEF IInv, Bounded, Loaded, Replace, Goto, store
<1>4. Claims'
    BY DEF IInv, Claims, Claimed, Replace, Goto, schedule
<1>5. Ordered'
    BY DEF IInv, Ordered, Current, Changing, Loaded, Replace, Goto, store, schedule
<1>6. Writing'
    BY DEF IInv, Writing, TypeOK, Replace, Goto
<1>7. Written'
    BY DEF IInv, Written, Ordered, Claims, Writing, Bounded, TypeOK, Current, Changing,
       Loaded, Claimed, Replace, Goto, store
<1>8. PromisesKept'
    BY DEF IInv, PromisesKept, Writing, TypeOK, Replace
<1> QED BY <1>1, <1>2, <1>3, <1>4, <1>5, <1>6, <1>7, <1>8 DEF IInv

LEMMA FailStep ==
    ASSUME IInv, NEW t \in Threads, Fail(t)
    PROVE  IInv'
<1> USE ThreadsAreNumbers, BoundsAssumption
<1>1. TypeOK'
    BY DEF IInv, TypeOK, Places, Fail, Goto, store, schedule
<1>2. Placed'
    BY DEF IInv, Placed, Changing, Fail, Goto, store, schedule
<1>3. Bounded'
    BY DEF IInv, Bounded, Loaded, Fail, Goto, store
<1>4. Claims'
    BY DEF IInv, Claims, Claimed, Fail, Goto, schedule
<1>5. Ordered'
    BY DEF IInv, Ordered, Current, Changing, Loaded, Fail, Goto, store, schedule
<1>6. Writing'
    BY DEF IInv, Writing, Fail, Goto
<1>7. Written'
    BY DEF IInv, Written, Fail, Goto, store
<1>8. PromisesKept'
    BY DEF IInv, PromisesKept, Fail
<1> QED BY <1>1, <1>2, <1>3, <1>4, <1>5, <1>6, <1>7, <1>8 DEF IInv

LEMMA SpoilStep ==
    ASSUME IInv, NEW t \in Threads, Spoil(t)
    PROVE  IInv'
<1> USE ThreadsAreNumbers, BoundsAssumption
<1>1. TypeOK'
    BY DEF IInv, TypeOK, Places, Spoil, Return, Goto, schedule, disk
<1>2. Placed'
    BY DEF IInv, Placed, Changing, Spoil, Return, Goto, schedule
<1>3. Bounded'
    BY DEF IInv, Bounded, Loaded, Spoil, Return, Goto, disk
<1>4. Claims'
    BY DEF IInv, Claims, Claimed, Spoil, Return, Goto, schedule
<1>5. Ordered'
    BY DEF IInv, Ordered, Current, Changing, Loaded, Spoil, Return, Goto, schedule, disk
<1>6. Writing'
    BY DEF IInv, Writing, Spoil, Return, Goto, disk
<1>7. Written'
    BY DEF IInv, Written, Spoil, Return, Goto, disk
<1>8. PromisesKept'
    BY DEF IInv, PromisesKept, Spoil, Return, disk
<1> QED BY <1>1, <1>2, <1>3, <1>4, <1>5, <1>6, <1>7, <1>8 DEF IInv

LEMMA LeaveDirtyStep ==
    ASSUME IInv, NEW t \in Threads, LeaveDirty(t)
    PROVE  IInv'
<1> USE ThreadsAreNumbers, BoundsAssumption
<1>1. TypeOK'
    BY DEF IInv, TypeOK, Places, LeaveDirty, Return, Goto, schedule, disk
<1>2. Placed'
    BY DEF IInv, Placed, Changing, LeaveDirty, Return, Goto, schedule
<1>3. Bounded'
    BY DEF IInv, Bounded, Loaded, LeaveDirty, Return, Goto, disk
<1>4. Claims'
    BY DEF IInv, Claims, Claimed, LeaveDirty, Return, Goto, schedule
<1>5. Ordered'
    BY DEF IInv, Ordered, Current, Changing, Loaded, LeaveDirty, Return, Goto, schedule,
       disk
<1>6. Writing'
    BY DEF IInv, Writing, LeaveDirty, Return, Goto, disk
<1>7. Written'
    BY DEF IInv, Written, LeaveDirty, Return, Goto, disk
<1>8. PromisesKept'
    BY DEF IInv, PromisesKept, Written, TypeOK, LeaveDirty, Return, disk
<1> QED BY <1>1, <1>2, <1>3, <1>4, <1>5, <1>6, <1>7, <1>8 DEF IInv

LEMMA DecideCleanStep ==
    ASSUME IInv, NEW t \in Threads, DecideClean(t)
    PROVE  IInv'
<1> USE ThreadsAreNumbers, BoundsAssumption
<1>1. TypeOK'
    BY DEF IInv, TypeOK, Places, DecideClean, Goto, store, schedule, disk, history
<1>2. Placed'
    BY DEF IInv, Placed, Changing, DecideClean, Goto, store, schedule
<1>3. Bounded'
    BY DEF IInv, Bounded, Loaded, DecideClean, Goto, store, disk
<1>4. Claims'
    BY DEF IInv, Claims, Claimed, DecideClean, Goto, schedule
<1>5. Ordered'
    BY DEF IInv, Ordered, Current, Changing, Loaded, DecideClean, Goto, store, schedule,
       disk
<1>6. Writing'
    BY DEF IInv, Writing, DecideClean, Goto, disk
<1>7. Written'
    BY DEF IInv, Written, DecideClean, Goto, store, disk
<1>8. PromisesKept'
    BY DEF IInv, PromisesKept, DecideClean, disk, history
<1> QED BY <1>1, <1>2, <1>3, <1>4, <1>5, <1>6, <1>7, <1>8 DEF IInv

LEMMA MarkCleanStep ==
    ASSUME IInv, NEW t \in Threads, MarkClean(t)
    PROVE  IInv'
<1> USE ThreadsAreNumbers, BoundsAssumption
<1>1. TypeOK'
    BY DEF IInv, TypeOK, Places, MarkClean, Return, Goto, schedule, disk
<1>2. Placed'
    BY DEF IInv, Placed, Changing, MarkClean, Return, Goto, schedule
<1>3. Bounded'
    BY DEF IInv, Bounded, Loaded, MarkClean, Return, Goto, disk
<1>4. Claims'
    BY DEF IInv, Claims, Claimed, MarkClean, Return, Goto, schedule
<1>5. Ordered'
    BY DEF IInv, Ordered, Current, Changing, Loaded, MarkClean, Return, Goto, schedule, disk
<1>6. Writing'
    BY DEF IInv, Writing, MarkClean, Return, Goto, disk
<1>7. Written'
    BY DEF IInv, Written, MarkClean, Return, Goto, disk
<1>8. PromisesKept'
    BY DEF IInv, PromisesKept, Written, TypeOK, MarkClean, Return, disk
<1> QED BY <1>1, <1>2, <1>3, <1>4, <1>5, <1>6, <1>7, <1>8 DEF IInv

LEMMA CrashStep ==
    ASSUME IInv, Crash
    PROVE  IInv'
<1> USE ThreadsAreNumbers, BoundsAssumption
<1>a. /\ pc' \in [Threads -> Places]
      /\ pending' \in [Threads -> [generation : 0..MaxVersions, snapshot : 0..MaxVersions]]
    BY DEF Crash, NoWrite, Places
<1>1. TypeOK'
    <2>1. dirty' \in BOOLEAN /\ storeHeld' \in BOOLEAN /\ failed' \in BOOLEAN
        BY <1>a DEF IInv, TypeOK, Crash, NoWrite
    <2>2. /\ version' \in 0..MaxVersions /\ memory' \in 0..version' /\ file' \in 0..version'
          /\ generation' \in 0..version' /\ promised' \in 0..version'
          /\ failures' \in 0..MaxFailures /\ crashes' \in 0..MaxCrashes
        BY <1>a DEF IInv, TypeOK, Bounded, Loaded, Crash, NoWrite
    <2>3. /\ saveTimer' \in Threads /\ writer' \in Threads \cup {Nobody}
          /\ pc' \in [Threads -> Places]
          /\ \A u \in Threads : writer' = u <=> pc'[u] = "replace"
        BY <1>a DEF IInv, TypeOK, Placed, Places, Timers, Crash, NoWrite
    <2>4. pending' \in [Threads -> [generation : 0..MaxVersions, snapshot : 0..MaxVersions]]
        BY <1>a DEF IInv, TypeOK, Crash, NoWrite
    <2> QED BY <2>1, <2>2, <2>3, <2>4 DEF TypeOK
<1>2. Placed'
    BY <1>a DEF Placed, Changing, Crash
<1>3. Bounded'
    BY <1>a DEF IInv, Bounded, TypeOK, Loaded, Crash
<1>4. Claims'
    BY <1>a DEF Claims, Claimed, Crash
<1>5. Ordered'
    BY <1>a DEF Ordered, Current, Loaded, Crash
<1>6. Writing'
    BY <1>a DEF Writing, Crash
<1>7. Written'
    BY <1>a DEF Written, Crash
<1>8. PromisesKept'
    BY <1>a DEF IInv, PromisesKept, Crash
<1> QED BY <1>1, <1>2, <1>3, <1>4, <1>5, <1>6, <1>7, <1>8 DEF IInv

LEMMA StutterStep == IInv /\ UNCHANGED vars => IInv'
BY DEF vars, store, schedule, disk, history, IInv, TypeOK, Placed, Bounded, Claims,
       Ordered, Writing, Written, PromisesKept, Current, Changing

\* Every step keeps the invariant.
THEOREM Inductive == IInv /\ [Next]_vars => IInv'
<1> SUFFICES ASSUME IInv, [Next]_vars PROVE IInv'
    OBVIOUS
<1>1. CASE Save BY <1>1, SaveStep
<1>2. CASE Schedule BY <1>2, ScheduleStep
<1>3. CASE Clear BY <1>3, ClearStep
<1>4. CASE Invalidate BY <1>4, InvalidateStep
<1>5. CASE Flush BY <1>5, FlushStep
<1>6. CASE \E t \in Timers : Fire(t) BY <1>6, FireStep
<1>7. ASSUME NEW t \in Threads, Advance(t) PROVE IInv'
    BY <1>7, GiveUpStep, ClaimStep, SnapshotStep, RejectStep, StartWriteStep, ReplaceStep,
       SpoilStep, LeaveDirtyStep, DecideCleanStep, MarkCleanStep DEF Advance
<1>8. ASSUME NEW t \in Threads, Fail(t) PROVE IInv'
    BY <1>8, FailStep
<1>9. CASE Crash BY <1>9, CrashStep
<1>10. CASE UNCHANGED vars BY <1>10, StutterStep
<1> QED BY <1>1, <1>2, <1>3, <1>4, <1>5, <1>6, <1>7, <1>8, <1>9, <1>10 DEF Next

\* The inductive invariant holds in every behaviour.
THEOREM Invariance == Spec => []IInv
BY InitHolds, Inductive, PTL DEF Spec

\* The types, and the discipline of the writer lock: it is owned by exactly
\* the thread inside _write_file.
THEOREM TypeCorrectness == Spec => []TypeOK
<1>1. IInv => TypeOK BY DEF IInv
<1> QED BY <1>1, Invariance, PTL

\* What a flush or a clear reported as saved is on disk for ever, whatever
\* timers, failures and crashes follow.
THEOREM SavedStaysSaved == Spec => []PromisesKept
<1>1. IInv => PromisesKept BY DEF IInv
<1> QED BY <1>1, Invariance, PTL

\* No step of any thread takes sessions.json back to an older state.
THEOREM FileMovesForward == Spec => NoRegress
<1>1. ASSUME IInv, [Next]_vars PROVE [file <= file']_vars
    <2>1. ASSUME NEW t \in Threads, Replace(t) PROVE file <= file'
        BY <2>1, <1>1 DEF Replace, IInv, Writing
    <2>2. file \in Nat BY <1>1 DEF IInv, TypeOK
    <2>3. CASE UNCHANGED vars BY <2>3 DEF vars, disk
    <2>4. ASSUME NEW t \in Threads, Advance(t) \/ Fail(t) PROVE file <= file'
        <3>1. CASE Replace(t) BY <3>1, <2>1
        <3>2. GiveUp(t) \/ Claim(t) \/ Snapshot(t) \/ Reject(t) => UNCHANGED disk
            BY DEF GiveUp, Claim, Snapshot, Reject
        <3>3. LeaveDirty(t) \/ DecideClean(t) \/ MarkClean(t) \/ Spoil(t) => UNCHANGED disk
            BY DEF LeaveDirty, DecideClean, MarkClean, Spoil
        <3>4. StartWrite(t) \/ Fail(t) => UNCHANGED file
            BY DEF StartWrite, Fail
        <3>5. UNCHANGED disk => UNCHANGED file
            BY DEF disk
        <3>6. CASE UNCHANGED file BY <3>6, <2>2
        <3> QED BY <2>4, <3>1, <3>2, <3>3, <3>4, <3>5, <3>6 DEF Advance
    <2>5. CASE Next /\ ~(\E t \in Threads : Advance(t) \/ Fail(t))
        BY <2>2, <2>5
           DEF Next, Save, Clear, Change, Schedule, Invalidate, Flush, Fire, Crash, disk
    <2> QED BY <1>1, <2>3, <2>4, <2>5
<1> QED BY <1>1, Invariance, PTL DEF Spec, NoRegress

=============================================================================
