------------------------- MODULE SessionPersistence -------------------------
(***************************************************************************)
(* The session store of the messaging runtime and its debounced JSON       *)
(* writer (messaging/session/store.py, messaging/session/persistence.py).  *)
(*                                                                         *)
(* One thread, Main, is the event loop: it changes the store's state,      *)
(* flushes it and clears a chat.  Every save it schedules owns a           *)
(* threading.Timer, named here by the save generation it was created for;  *)
(* a timer that fires runs on a thread of its own and may run while the    *)
(* event loop goes on.  Each change of the state is given a version, so    *)
(* that the property "older than" is the order of numbers: `memory' is the *)
(* version the store holds, `file' the version sessions.json holds.        *)
(*                                                                         *)
(* A critical section of _timer_lock is one step.  The store's own lock is *)
(* held over several steps only by Main (`storeHeld'); _writer_lock is     *)
(* held by the thread that replaces the file (`writer').                   *)
(***************************************************************************)
EXTENDS Naturals

CONSTANTS
    MaxVersions,    \* bound: changes of the state explored
    MaxFailures,    \* bound: writes that raise OSError
    MaxCrashes      \* bound: times the process dies

ASSUME BoundsAssumption ==
    /\ MaxVersions \in Nat
    /\ MaxFailures \in Nat
    /\ MaxCrashes \in Nat

Main == 0                       \* the event loop's thread; also: no timer
Timers == 1..MaxVersions        \* the timer created for each save generation
Threads == {Main} \cup Timers
Nobody == MaxVersions + 1       \* no thread holds the writer lock

VARIABLES
    version,        \* the last version given to a change (history)
    memory,         \* SessionStore's state
    file,           \* sessions.json
    dirty,          \* SessionStore._dirty
    storeHeld,      \* Main is inside `with self._lock' of SessionStore
    generation,     \* _save_generation
    saveTimer,      \* _save_timer: the timer's generation, or Main for None
    writer,         \* the owner of _writer_lock, or Nobody
    pc,             \* where each thread is
    pending,        \* the _PendingWrite of each thread
    promised,       \* the version the last successful flush or clear reported
    failed,         \* the latest write failed and nothing was tried since
    failures,       \* writes failed so far
    crashes         \* times the process died so far

store == <<version, memory, dirty, storeHeld>>
schedule == <<generation, saveTimer>>
disk == <<file, writer>>
history == <<promised, failed, failures, crashes>>
vars == <<store, schedule, disk, pc, pending, history>>

NoWrite == [generation |-> 0, snapshot |-> 0]

Init ==
    /\ version = 0 /\ memory = 0 /\ file = 0
    /\ dirty = FALSE /\ storeHeld = FALSE
    /\ generation = 0 /\ saveTimer = Main /\ writer = Nobody
    /\ pc = [t \in Threads |-> "idle"]
    /\ pending = [t \in Threads |-> NoWrite]
    /\ promised = 0 /\ failed = FALSE /\ failures = 0 /\ crashes = 0

Goto(t, place) == pc' = [pc EXCEPT ![t] = place]

(* Timer.cancel() stops a timer that still counts down, not one that has fired. *)
Disarmed ==
    [t \in Threads |-> IF t = saveTimer /\ pc[t] = "armed" THEN "idle" ELSE pc[t]]

(* The store's lock is reentrant for Main and never held by a timer over a step. *)
MayLockStore(t) == t = Main \/ ~storeHeld

-----------------------------------------------------------------------------
(* The event loop changes the state. *)

(* save_tree_snapshot, record_message_id, ...: the new state is installed   *)
(* and marked dirty with the store's lock held.                             *)
Change(next) ==
    /\ pc[Main] = "idle"
    /\ version < MaxVersions
    /\ version' = version + 1
    /\ memory' = version + 1
    /\ dirty' = TRUE
    /\ storeHeld' = TRUE
    /\ Goto(Main, next)
    /\ UNCHANGED <<schedule, disk, pending, history>>

Save == Change("saving")

(* Mutant: schedule_save that keeps a timer which already counts down. *)
ScheduleKeepsTimer ==
    /\ pc[Main] = "saving"
    /\ generation' = generation + 1
    /\ IF saveTimer = Main
       THEN /\ saveTimer' = generation + 1
            /\ pc' = [pc EXCEPT ![Main] = "idle", ![generation + 1] = "armed"]
       ELSE /\ Goto(Main, "idle")
            /\ UNCHANGED saveTimer
    /\ storeHeld' = FALSE
    /\ failed' = FALSE
    /\ UNCHANGED <<version, memory, dirty, disk, pending, promised, failures, crashes>>

(* schedule_save: the previous timer is cancelled and one for the next      *)
(* generation started; then the store's lock is released.                   *)
Schedule ==
    /\ pc[Main] = "saving"
    /\ generation' = generation + 1
    /\ saveTimer' = generation + 1
    /\ pc' = [Disarmed EXCEPT ![Main] = "idle", ![generation + 1] = "armed"]
    /\ storeHeld' = FALSE
    /\ failed' = FALSE
    /\ UNCHANGED <<version, memory, dirty, disk, pending, promised, failures, crashes>>

(* clear_scope: the chat is removed from the state ...                      *)
Clear == Change("clearing")

(* Mutant: write_data that does not invalidate older snapshots. *)
ClearKeepsGeneration ==
    /\ pc[Main] = "clearing"
    /\ saveTimer' = Main
    /\ pending' = [pending EXCEPT
                     ![Main] = [generation |-> generation, snapshot |-> memory]]
    /\ pc' = [Disarmed EXCEPT ![Main] = "write"]
    /\ failed' = FALSE
    /\ UNCHANGED <<store, generation, disk, promised, failures, crashes>>

(* ... and write_data invalidates every older snapshot before it writes its *)
(* own, with the store's lock held to the end.                              *)
Invalidate ==
    /\ pc[Main] = "clearing"
    /\ generation' = generation + 1
    /\ saveTimer' = Main
    /\ pending' = [pending EXCEPT
                     ![Main] = [generation |-> generation + 1, snapshot |-> memory]]
    /\ pc' = [Disarmed EXCEPT ![Main] = "write"]
    /\ failed' = FALSE
    /\ UNCHANGED <<store, disk, promised, failures, crashes>>

(* flush: the store is marked dirty, then the pending timer is taken over. *)
Flush ==
    /\ pc[Main] = "idle"
    /\ dirty' = TRUE
    /\ Goto(Main, "claim")
    /\ UNCHANGED <<version, memory, storeHeld, schedule, disk, pending, history>>

-----------------------------------------------------------------------------
(* A timer fires, and any thread writes what it claimed. *)

Fire(t) ==
    /\ pc[t] = "armed"
    /\ Goto(t, "claim")
    /\ UNCHANGED <<store, schedule, disk, pending, history>>

(* _claim_timer: a timer that is no longer the newest one gives up. *)
Superseded(t) == t # Main /\ (t # generation \/ saveTimer = Main)

GiveUp(t) ==
    /\ pc[t] = "claim"
    /\ Superseded(t)
    /\ Goto(t, "idle")
    /\ UNCHANGED <<store, schedule, disk, pending, history>>

Claim(t) ==
    /\ pc[t] = "claim"
    /\ ~Superseded(t)
    /\ saveTimer' = Main
    /\ pending' = [pending EXCEPT ![t].generation = generation]
    /\ pc' = [Disarmed EXCEPT ![t] = "snap"]
    /\ UNCHANGED <<store, generation, disk, history>>

(* _snapshot_for_persistence, under the store's lock. *)
Snapshot(t) ==
    /\ pc[t] = "snap"
    /\ MayLockStore(t)
    /\ pending' = [pending EXCEPT ![t].snapshot = memory]
    /\ Goto(t, "write")
    /\ UNCHANGED <<store, schedule, disk, history>>

(* The end of an operation.  Main leaves `with self._lock' if it was in it; *)
(* a flush or a clear that did not raise has reported the state as saved.   *)
Return(t, ok) ==
    /\ Goto(t, "idle")
    /\ storeHeld' = IF t = Main THEN FALSE ELSE storeHeld
    /\ promised' = IF t = Main /\ ok THEN memory ELSE promised

(* _write_if_current: with the writer lock, refuse a superseded snapshot. *)
Reject(t) ==
    /\ pc[t] = "write"
    /\ writer = Nobody
    /\ pending[t].generation # generation
    /\ Return(t, TRUE)
    /\ UNCHANGED <<version, memory, dirty, schedule, disk, pending, failed, failures, crashes>>

(* Mutant: _write_if_current without its generation check. *)
WriteUnchecked(t) ==
    /\ pc[t] = "write"
    /\ writer = Nobody
    /\ writer' = t
    /\ Goto(t, "replace")
    /\ UNCHANGED <<store, schedule, file, pending, history>>

StartWrite(t) ==
    /\ pc[t] = "write"
    /\ writer = Nobody
    /\ pending[t].generation = generation
    /\ writer' = t
    /\ Goto(t, "replace")
    /\ UNCHANGED <<store, schedule, file, pending, history>>

(* _write_file: the temporary file is written and os.replace is atomic. *)
Replace(t) ==
    /\ pc[t] = "replace"
    /\ file' = pending[t].snapshot
    /\ writer' = Nobody
    /\ Goto(t, "mark")
    /\ failed' = FALSE
    /\ UNCHANGED <<store, schedule, pending, promised, failures, crashes>>

(* A write that raises leaves the target as it was. *)
Fail(t) ==
    /\ pc[t] = "replace"
    /\ failures < MaxFailures
    /\ failures' = failures + 1
    /\ failed' = TRUE
    /\ writer' = Nobody
    /\ Goto(t, "spoil")
    /\ UNCHANGED <<store, schedule, file, pending, promised, crashes>>

(* on_dirty(True), after which a timer logs the error and Main raises it. *)
Spoil(t) ==
    /\ pc[t] = "spoil"
    /\ MayLockStore(t)
    /\ dirty' = TRUE
    /\ Return(t, FALSE)
    /\ UNCHANGED <<version, memory, schedule, disk, pending, failed, failures, crashes>>

(* _mark_clean_if_current: the decision is taken under _timer_lock ... *)
StillCurrent(t) == saveTimer = Main /\ pending[t].generation = generation

LeaveDirty(t) ==
    /\ pc[t] = "mark"
    /\ ~StillCurrent(t)
    /\ Return(t, TRUE)
    /\ UNCHANGED <<version, memory, dirty, schedule, disk, pending, failed, failures, crashes>>

DecideClean(t) ==
    /\ pc[t] = "mark"
    /\ StillCurrent(t)
    /\ Goto(t, "clean")
    /\ UNCHANGED <<store, schedule, disk, pending, history>>

(* ... and on_dirty(False) follows after that lock is released. *)
MarkClean(t) ==
    /\ pc[t] = "clean"
    /\ MayLockStore(t)
    /\ dirty' = FALSE
    /\ Return(t, TRUE)
    /\ UNCHANGED <<version, memory, schedule, disk, pending, failed, failures, crashes>>

-----------------------------------------------------------------------------
(* The process dies with its (daemon) timer threads and starts again: the   *)
(* store loads what the file holds.  A clean exit is a crash after a flush. *)
Crash ==
    /\ crashes < MaxCrashes
    /\ crashes' = crashes + 1
    /\ memory' = file
    /\ dirty' = FALSE /\ storeHeld' = FALSE
    /\ generation' = 0 /\ saveTimer' = Main /\ writer' = Nobody
    /\ pc' = [t \in Threads |-> "idle"]
    /\ pending' = [t \in Threads |-> NoWrite]
    /\ failed' = FALSE
    /\ UNCHANGED <<version, file, promised, failures>>

Advance(t) ==
    \/ GiveUp(t) \/ Claim(t) \/ Snapshot(t)
    \/ Reject(t) \/ StartWrite(t) \/ Replace(t)
    \/ LeaveDirty(t) \/ DecideClean(t) \/ MarkClean(t) \/ Spoil(t)

Next ==
    \/ Save \/ Schedule \/ Clear \/ Invalidate \/ Flush
    \/ \E t \in Timers : Fire(t)
    \/ \E t \in Threads : Advance(t) \/ Fail(t)
    \/ Crash

(* Every thread that may run does, and an armed timer expires; nothing is   *)
(* assumed of callers, of failures or of crashes.                           *)
Fairness ==
    /\ WF_vars(Schedule) /\ WF_vars(Invalidate)
    /\ \A t \in Timers : WF_vars(Fire(t))
    /\ \A t \in Threads : WF_vars(Advance(t))

Spec == Init /\ [][Next]_vars
FairSpec == Spec /\ Fairness

-----------------------------------------------------------------------------
(* Properties *)

Places == {"idle", "saving", "clearing", "armed", "claim", "snap", "write",
           "replace", "mark", "clean", "spoil"}

(* The types of the variables, with the discipline of the two locks: the    *)
(* writer lock is owned by exactly the thread inside _write_file, and only  *)
(* the event loop is ever found inside the store's lock.                    *)
TypeOK ==
    /\ version \in 0..MaxVersions /\ memory \in 0..version /\ file \in 0..version
    /\ dirty \in BOOLEAN /\ storeHeld \in BOOLEAN /\ failed \in BOOLEAN
    /\ generation \in 0..version
    /\ saveTimer \in Threads
    /\ writer \in Threads \cup {Nobody}
    /\ pc \in [Threads -> Places]
    /\ pending \in [Threads -> [generation : 0..MaxVersions, snapshot : 0..MaxVersions]]
    /\ promised \in 0..version
    /\ failures \in 0..MaxFailures /\ crashes \in 0..MaxCrashes
    /\ \A t \in Threads : writer = t <=> pc[t] = "replace"

(* What a flush or a clear reported as saved is never lost again: not to a   *)
(* timer thread that still carries an older snapshot, not to a failing write *)
(* and not to a crash.  A cleared chat, in particular, does not come back.   *)
PromisesKept == promised <= file

(* sessions.json never goes back to an older state, whatever threads race   *)
(* to replace it ("prevents an older timer snapshot from landing after a     *)
(* newer flush or clear", ARCHITECTURE.md).                                  *)
NoRegress == [][file <= file']_vars

(* A change of the state reaches the disk without anybody asking for it,     *)
(* unless the process dies or the last write of it failed: no schedule of    *)
(* timers, flushes and clears cancels the last save without replacing it.    *)
SavesLand == (memory # file) ~> (memory = file \/ failed)

=============================================================================
