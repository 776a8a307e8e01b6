--------------------------- MODULE ManagedSessions ---------------------------
(***************************************************************************)
(* The pool of managed Claude Code processes: the manager's maps of        *)
(* sessions by temporary and by real id (cli/managed/manager.py), a        *)
(* session's process and its two locks (cli/managed/session.py), and the   *)
(* registry of process ids that is killed when the program exits           *)
(* (cli/process_registry.py). A runner is one run of                       *)
(* messaging/node_runner.py for one prompt: it gets a session, runs it,    *)
(* registers the id the process reports and at the end removes the session.*)
(* The runs of one conversation tree follow one another.                   *)
(*                                                                         *)
(* A session object is named by the runner that created it, and so are a   *)
(* temporary id made up for it ("pending_...") and the process it starts,  *)
(* in its own session or in one that it found.                             *)
(***************************************************************************)
EXTENDS ManagedRuns, Naturals, FiniteSets

CONSTANTS Trees, MaxCancels, MaxRefusals

VARIABLES
    tree,       \* the conversation of each runner
    recorded,   \* the session ids the nodes of a conversation have recorded
    step,       \* where each runner is, and where stop_all is
    using,      \* the session object a runner got
    temp,       \* temp_session_id of a runner
    captured,   \* captured_session_id of a runner
    reported,   \* the id a runner has registered
    sessions,   \* _sessions: by real id
    pendings,   \* _pending_sessions: by temporary id
    tempToReal, realToTemp,
    closing,    \* _closing_sessions
    lock,       \* _lock of the manager: who holds it
    lifecycle,  \* _lifecycle_lock of each session
    closed,     \* _closed of each session
    current,    \* process of each session: whose
    process,    \* of each runner: "none", "alive", "exited"
    pids,       \* the runners whose process id is in the registry
    todo,       \* sessions stop_all has still to stop
    swept,      \* sessions that a stop_all which succeeded has stopped
    abandoned,  \* runs cancelled while they waited to remove their session
    cancels, refusals

managedVars == <<tree, recorded, step, using, temp, captured, reported, sessions,
          pendings, tempToReal, realToTemp, closing, lock, lifecycle, closed, current,
          process, pids, todo, swept, abandoned, cancels, refusals>>

maps == <<sessions, pendings, tempToReal, realToTemp>>
runner == <<tree, using, temp, captured, reported>>
object == <<lifecycle, closed, current, process, pids>>
past == <<swept, abandoned>>

Keys == Runners \cup Ids
Running(r) == step[r] \notin {"new", "ended"}
Known == {sessions[i] : i \in Ids} \cup {pendings[k] : k \in Keys}
Alive(s) == current[s] # None /\ process[current[s]] = "alive"
Go(c, s) == step' = [step EXCEPT ![c] = s]

(* _session_for_id *)
SessionFor(k) ==
    LET real == IF tempToReal[k] = None THEN k ELSE tempToReal[k]
    IN  IF real \in Ids /\ sessions[real] # None THEN sessions[real]
        ELSE pendings[real]

(* _forget_session *)
Forget(s) ==
    /\ pendings' = [k \in Keys |-> IF pendings[k] = s THEN None ELSE pendings[k]]
    /\ sessions' = [i \in Ids |-> IF sessions[i] = s THEN None ELSE sessions[i]]
    /\ realToTemp' = [i \in Ids |-> IF sessions[i] = s THEN None ELSE realToTemp[i]]
    /\ tempToReal' = [k \in Keys |->
          IF \E i \in Ids : sessions[i] = s /\ realToTemp[i] = k THEN None
          ELSE tempToReal[k]]
    /\ closing' = closing \ {s}

(* The tree starts a run. *)
Begin(r, t) ==
    /\ step[r] = "new"
    /\ \A q \in Runners : tree[q] = t => ~Running(q)
    /\ tree' = [tree EXCEPT ![r] = t]
    /\ Go(r, "getting")
    /\ UNCHANGED <<recorded, using, temp, captured, reported, maps, closing, lock, object,
                   todo, past, cancels, refusals>>

(***************************************************************************)
(* get_or_create_session, with the id that the parent's node has recorded, *)
(* if it has: a session known by it is used again unless it is closing;    *)
(* otherwise there is a new one, pending under that id.                    *)
(***************************************************************************)
Find(r, parent) ==
    LET found == IF parent = None THEN None ELSE SessionFor(parent)
        id == IF parent = None THEN r ELSE parent
    IN  \/ /\ found # None /\ found \in closing
           /\ Go(r, "leaving")
           /\ UNCHANGED <<using, temp, captured, pendings>>
        \/ /\ found # None /\ found \notin closing
           /\ using' = [using EXCEPT ![r] = found]
           /\ captured' = [captured EXCEPT ![r] =
                 IF tempToReal[parent] = None THEN parent ELSE tempToReal[parent]]
           /\ Go(r, "starting")
           /\ UNCHANGED <<temp, pendings>>
        \/ /\ found = None
           /\ temp' = [temp EXCEPT ![r] = id]
           /\ pendings' = [pendings EXCEPT ![id] = r]
           /\ using' = [using EXCEPT ![r] = r]
           /\ Go(r, "starting")
           /\ UNCHANGED captured

GetOrCreate(r) ==
    /\ step[r] = "getting" /\ lock = None
    /\ \E parent \in recorded[tree[r]] \cup {None} : Find(r, parent)
    /\ UNCHANGED <<tree, recorded, reported, sessions, tempToReal, realToTemp, closing, lock,
                   object, todo, past, cancels, refusals>>

(***************************************************************************)
(* start_task: one at a time in a session (_cli_lock); a session that was  *)
(* stopped meanwhile starts no process.                                    *)
(***************************************************************************)
InTask(q) == step[q] \in {"spawning", "running", "recording", "quitting", "killing",
                         "killed"}

Spawn(r) ==
    LET s == using[r] IN
    /\ step[r] = "starting" /\ lifecycle[s] = None
    /\ \A q \in Runners : using[q] = s => ~InTask(q)
    /\ \/ /\ closed[s]
          /\ Go(r, "leaving")
          /\ UNCHANGED lifecycle
       \/ /\ ~closed[s]
          /\ lifecycle' = [lifecycle EXCEPT ![s] = r]
          /\ Go(r, "spawning")
    /\ UNCHANGED <<runner, recorded, maps, closing, lock, closed, current, process,
                   pids, todo, past, cancels, refusals>>

Spawned(r) ==
    LET s == using[r] IN
    /\ step[r] = "spawning"
    /\ lifecycle' = [lifecycle EXCEPT ![s] = None]
    /\ \/ /\ process' = [process EXCEPT ![r] = "alive"]
          /\ current' = [current EXCEPT ![s] = r]
          /\ pids' = pids \cup {r}
          /\ Go(r, "running")
          /\ UNCHANGED refusals
       \/ /\ refusals < MaxRefusals
          /\ refusals' = refusals + 1
          /\ Go(r, "leaving")
          /\ UNCHANGED <<process, current, pids>>
    /\ UNCHANGED <<runner, recorded, maps, closing, lock, closed, todo, past,
                   cancels>>

ProcessExits(r) ==
    /\ process[r] = "alive"
    /\ process' = [process EXCEPT ![r] = "exited"]
    /\ UNCHANGED <<runner, recorded, step, maps, closing, lock, lifecycle, closed,
                   current, pids, todo, past, cancels, refusals>>

(***************************************************************************)
(* register_real_session_id: refused for a session that is gone or closing *)
(* and for an id another session owns; the run then fails. The id that was *)
(* registered is recorded at the node next, for replies to resume.         *)
(***************************************************************************)
Register(r, i) ==
    LET s == pendings[temp[r]]
        owner == SessionFor(i)
    IN  /\ step[r] = "running" /\ temp[r] # None /\ lock = None
        /\ \/ /\ s = None \/ s \in closing \/ owner \notin {None, s}
              /\ Go(r, "quitting")
              /\ UNCHANGED <<maps, reported>>
           \/ /\ s # None /\ s \notin closing /\ owner \in {None, s}
              /\ pendings' = [pendings EXCEPT ![temp[r]] = None]
              /\ sessions' = [sessions EXCEPT ![i] = s]
              /\ tempToReal' = [tempToReal EXCEPT ![temp[r]] = i]
              /\ realToTemp' = [realToTemp EXCEPT ![i] = temp[r]]
              /\ reported' = [reported EXCEPT ![r] = i]
              /\ Go(r, "recording")
        /\ UNCHANGED <<tree, using, temp, captured, recorded, closing, lock, object, todo,
                       past, cancels, refusals>>

Record(r) ==
    /\ step[r] = "recording"
    /\ recorded' = [recorded EXCEPT ![tree[r]] = @ \cup {reported[r]}]
    /\ captured' = [captured EXCEPT ![r] = reported[r]]
    /\ temp' = [temp EXCEPT ![r] = None]
    /\ Go(r, "running")
    /\ UNCHANGED <<tree, using, reported, maps, closing, lock, object, todo, past,
                   cancels, refusals>>

\* Mutant of TaskEnds: the end of the output is not noticed.
TaskReadsOn(r) ==
    /\ step[r] = "running" /\ process[r] = "exited"
    /\ UNCHANGED <<runner, recorded, step, maps, closing, lock, lifecycle, closed,
                   current, process, pids, todo, past, cancels, refusals>>

(* The output ends: the process is waited for and its id leaves the registry. *)
TaskEnds(r) ==
    /\ step[r] = "running" /\ process[r] = "exited"
    /\ pids' = pids \ {r}
    /\ Go(r, "leaving")
    /\ UNCHANGED <<runner, recorded, maps, closing, lock, lifecycle, closed, current,
                   process, todo, past, cancels, refusals>>

(* The run fails, or is cancelled, outside of the generator, which is then *)
(* closed and leaves the process be.                                       *)
Quit(r) ==
    /\ step[r] = "quitting"
    /\ pids' = IF process[r] = "exited" THEN pids \ {r} ELSE pids
    /\ Go(r, "leaving")
    /\ UNCHANGED <<runner, recorded, maps, closing, lock, lifecycle, closed, current,
                   process, todo, past, cancels, refusals>>

-----------------------------------------------------------------------------
(***************************************************************************)
(* stop() of a session by c: by its runner, cancelled while it reads the   *)
(* output ("killing"), by remove_session ("removing") or by stop_all. The  *)
(* session closes at once; a live process is killed and waited for, under  *)
(* the lifecycle lock; its id is given up when its end is confirmed.       *)
(***************************************************************************)
StopNow(c, s) ==
    /\ lifecycle[s] = None
    /\ closed' = [closed EXCEPT ![s] = TRUE]
    /\ ~Alive(s)
    /\ pids' = pids \ {current[s]}
    /\ UNCHANGED <<lifecycle, current, process>>

StopWaits(c, s) ==
    /\ lifecycle[s] = None
    /\ closed' = [closed EXCEPT ![s] = TRUE]
    /\ Alive(s)
    /\ lifecycle' = [lifecycle EXCEPT ![s] = c]
    /\ UNCHANGED <<current, process, pids>>

\* Mutant of StopConfirmed: a kill that was sent counts as an exit.
StopUnconfirmed(c, s) ==
    /\ lifecycle[s] = c
    /\ pids' = pids \ {current[s]}
    /\ lifecycle' = [lifecycle EXCEPT ![s] = None]
    /\ UNCHANGED <<closed, current, process>>

StopConfirmed(c, s) ==
    /\ lifecycle[s] = c /\ ~Alive(s)
    /\ pids' = pids \ {current[s]}
    /\ lifecycle' = [lifecycle EXCEPT ![s] = None]
    /\ UNCHANGED <<closed, current, process>>

StopFails(c, s) ==
    /\ lifecycle[s] = c /\ refusals < MaxRefusals
    /\ refusals' = refusals + 1
    /\ lifecycle' = [lifecycle EXCEPT ![s] = None]
    /\ UNCHANGED <<closed, current, process, pids>>

(* The runner, cancelled while it read the output, kills its session's process. *)
Kill(r) ==
    LET s == using[r] IN
    /\ \/ step[r] = "killing" /\ StopNow(r, s) /\ Go(r, "quitting") /\ UNCHANGED refusals
       \/ step[r] = "killing" /\ StopWaits(r, s) /\ Go(r, "killed") /\ UNCHANGED refusals
       \/ step[r] = "killed" /\ StopConfirmed(r, s) /\ Go(r, "quitting")
          /\ UNCHANGED refusals
       \/ step[r] = "killed" /\ StopFails(r, s) /\ Go(r, "quitting")
    /\ UNCHANGED <<runner, recorded, maps, closing, lock, todo, past, cancels>>

(* remove_session: holds the manager's lock until the session has stopped. *)
HandleOf(r) == IF captured[r] # None THEN captured[r] ELSE temp[r]
Target(r) == IF HandleOf(r) = None THEN None ELSE SessionFor(HandleOf(r))

Remove(r) ==
    /\ step[r] = "leaving" /\ lock = None
    /\ \/ /\ Target(r) = None
          /\ Go(r, "ended")
          /\ UNCHANGED <<closing, lock>>
       \/ /\ Target(r) # None
          /\ closing' = closing \cup {Target(r)}
          /\ lock' = r
          /\ Go(r, "removing")
    /\ UNCHANGED <<runner, recorded, maps, object, todo, past, cancels, refusals>>

Removed(r) ==
    LET s == Target(r) IN
    /\ \/ step[r] = "removing" /\ StopNow(r, s)
       \/ step[r] = "stopping" /\ StopConfirmed(r, s)
    /\ Forget(s)
    /\ lock' = None
    /\ Go(r, "ended")
    /\ UNCHANGED <<runner, recorded, todo, past, cancels, refusals>>

RemoveWaits(r) ==
    /\ step[r] = "removing" /\ StopWaits(r, Target(r)) /\ Go(r, "stopping")
    /\ UNCHANGED <<runner, recorded, maps, closing, lock, todo, past, cancels,
                   refusals>>

(* stop() says no: the session stays, closing, for a later stop_all. *)
NotRemoved(r) ==
    /\ step[r] = "stopping" /\ StopFails(r, Target(r)) /\ Go(r, "ended")
    /\ lock' = None
    /\ UNCHANGED <<runner, recorded, maps, closing, todo, past, cancels>>

(***************************************************************************)
(* The runner is cancelled at an await. A process that was being spawned   *)
(* is reaped by the event loop; the process is killed if the runner was    *)
(* reading its output and left to the removal if it was at work on what it *)
(* had read; a removal that is cut short leaves the session as it is.      *)
(***************************************************************************)
CancelledBefore(r) ==
    /\ \/ step[r] \in {"getting", "starting", "quitting"} /\ Go(r, "leaving")
       \/ step[r] = "recording" /\ Go(r, "quitting")
       \/ step[r] = "running" /\ (Go(r, "killing") \/ Go(r, "quitting"))
    /\ UNCHANGED <<lock, lifecycle, abandoned>>

CancelledInSpawn(r) ==
    /\ step[r] = "spawning"
    /\ Go(r, "leaving")
    /\ lifecycle' = [lifecycle EXCEPT ![using[r]] = None]
    /\ UNCHANGED <<lock, abandoned>>

CancelledAtLock(r) ==
    /\ step[r] = "leaving" /\ lock # None
    /\ Go(r, "ended")
    /\ abandoned' = abandoned \cup {r}
    /\ UNCHANGED <<lock, lifecycle>>

CancelledInStop(r) ==
    /\ step[r] \in {"removing", "stopping"}
    /\ Go(r, "ended")
    /\ lock' = None
    /\ lifecycle' = IF step[r] = "removing" THEN lifecycle
                    ELSE [lifecycle EXCEPT ![Target(r)] = None]
    /\ UNCHANGED abandoned

Cancel(r) ==
    /\ cancels < MaxCancels
    /\ cancels' = cancels + 1
    /\ \/ CancelledBefore(r) \/ CancelledInSpawn(r)
       \/ CancelledAtLock(r) \/ CancelledInStop(r)
    /\ UNCHANGED <<runner, recorded, maps, closing, closed, current, process, pids, todo,
                   swept, refusals>>

(* stop_all: every session that is known or closing, one after the other. *)
StopAllBegins ==
    /\ step[Sweeper] = "idle" /\ lock = None
    /\ lock' = Sweeper
    /\ todo' = (Known \ {None}) \cup closing
    /\ closing' = closing \cup todo'
    /\ Go(Sweeper, "sweeping")
    /\ UNCHANGED <<runner, recorded, maps, object, past, cancels, refusals>>

StopOne(s) ==
    /\ s \in todo
    /\ \/ step[Sweeper] = "sweeping" /\ StopNow(Sweeper, s)
       \/ step[Sweeper] = "stopping" /\ StopConfirmed(Sweeper, s)
    /\ Forget(s)
    /\ todo' = todo \ {s}
    /\ swept' = swept \cup {s}
    /\ Go(Sweeper, "sweeping")
    /\ UNCHANGED <<runner, recorded, lock, abandoned, cancels, refusals>>

StopOneWaits(s) ==
    /\ s \in todo /\ step[Sweeper] = "sweeping" /\ StopWaits(Sweeper, s)
    /\ Go(Sweeper, "stopping")
    /\ UNCHANGED <<runner, recorded, maps, closing, lock, todo, past, cancels,
                   refusals>>

StopOneFails(s) ==
    /\ s \in todo /\ step[Sweeper] = "stopping" /\ StopFails(Sweeper, s)
    /\ todo' = todo \ {s}
    /\ Go(Sweeper, "sweeping")
    /\ UNCHANGED <<runner, recorded, maps, closing, lock, past, cancels>>

StopAllEnds ==
    /\ step[Sweeper] = "sweeping" /\ todo = {}
    /\ lock' = None
    /\ Go(Sweeper, "done")
    /\ UNCHANGED <<runner, recorded, maps, closing, object, todo, past, cancels,
                   refusals>>

AtRest ==
    /\ \A r \in Runners : step[r] = "ended"
    /\ UNCHANGED managedVars
-----------------------------------------------------------------------------
ManagedInit ==
    /\ tree = [r \in Runners |-> None]
    /\ recorded = [t \in Trees |-> {}]
    /\ step = [c \in Runners \cup {Sweeper} |-> IF c = Sweeper THEN "idle" ELSE "new"]
    /\ using = [r \in Runners |-> None]
    /\ temp = [r \in Runners |-> None]
    /\ captured = [r \in Runners |-> None]
    /\ reported = [r \in Runners |-> None]
    /\ sessions = [i \in Ids |-> None]
    /\ pendings = [k \in Keys |-> None]
    /\ tempToReal = [k \in Keys |-> None]
    /\ realToTemp = [i \in Ids |-> None]
    /\ closing = {}
    /\ lock = None
    /\ lifecycle = [s \in Runners |-> None]
    /\ closed = [s \in Runners |-> FALSE]
    /\ current = [s \in Runners |-> None]
    /\ process = [r \in Runners |-> "none"]
    /\ pids = {}
    /\ todo = {}
    /\ swept = {}
    /\ abandoned = {}
    /\ cancels = 0
    /\ refusals = 0

Run(r) ==
    \/ GetOrCreate(r) \/ Spawn(r) \/ Spawned(r) \/ Record(r) \/ TaskEnds(r) \/ Quit(r)
    \/ Kill(r) \/ Remove(r) \/ Removed(r) \/ RemoveWaits(r) \/ NotRemoved(r)

Sweep ==
    \/ StopAllBegins \/ StopAllEnds
    \/ \E s \in Runners : StopOne(s) \/ StopOneWaits(s) \/ StopOneFails(s)

ManagedNext ==
    \/ \E r \in Runners, t \in Trees : Begin(r, t)
    \/ \E r \in Runners : Run(r) \/ Cancel(r) \/ ProcessExits(r)
    \/ \E r \in Runners, i \in Ids : Register(r, i)
    \/ Sweep
    \/ AtRest

(* Runners and stop_all go on; a process ends, by itself or killed. *)
ManagedFairness ==
    /\ \A r \in Runners : WF_managedVars(Run(r)) /\ WF_managedVars(ProcessExits(r))
    /\ WF_managedVars(Sweep /\ step[Sweeper] # "idle")

ManagedSpec == ManagedInit /\ [][ManagedNext]_managedVars /\ ManagedFairness
-----------------------------------------------------------------------------
(* The registry and the manager have every process that may be alive. *)
Reachable ==
    \A r \in Runners : process[r] = "alive" =>
        /\ r \in pids
        /\ current[using[r]] = r => using[r] \in Known

(* What a stop_all has stopped stays stopped. *)
Stopped == \A s \in swept : ~Alive(s)

(* A run that has ended has removed the session it made, or leaves it for *)
(* stop_all, unless it was cancelled while it waited to remove it.        *)
RemovedAtEnd ==
    \A s \in Known : s # None /\ step[s] = "ended" => s \in closing \cup abandoned

(* Every session is known by one id, and the maps of ids are inverse. *)
KnownOnce ==
    /\ \A s \in Runners :
          Cardinality({i \in Ids : sessions[i] = s}) +
          Cardinality({k \in Keys : pendings[k] = s}) <= 1
    /\ \A i \in Ids : (sessions[i] # None) = (realToTemp[i] # None)
    /\ \A k \in Keys, i \in Ids : (tempToReal[k] = i) = (realToTemp[i] = k)

(***************************************************************************)
(* A session's process has exited before the session starts another,       *)
(* unless a removal was cut short before it began, or processes of two     *)
(* conversations reported the same session id.                             *)
(***************************************************************************)
Distinct ==
    \A q, r \in Runners :
        reported[q] # None /\ reported[q] = reported[r] => tree[q] = tree[r]

NotReplaced ==
    Distinct /\ abandoned = {} =>
        \A r \in Runners : process[r] = "alive" => current[using[r]] = r

(***************************************************************************)
(* No process is left behind: it is in the registry of ids, and its        *)
(* session is one that stop_all stops, until it has exited.                *)
(***************************************************************************)
NoProcessLost ==
    Reachable /\ Stopped /\ RemovedAtEnd /\ KnownOnce /\ NotReplaced

(* Every run ends, whatever stops its session while it starts or ends. *)
RunsEnd == \A r \in Runners : step[r] # "new" ~> step[r] = "ended"
=============================================================================
