---------------------------- MODULE AppLifecycle ----------------------------
(***************************************************************************)
(* The life of the server: the supervisor that runs one uvicorn server     *)
(* after another (cli/commands.py), the ASGI lifespan (runtime/asgi.py),   *)
(* the application that owns every resource and closes them in order       *)
(* (runtime/application.py), and the ingress of the chat platform          *)
(* (messaging/platforms/discord.py, telegram.py).                          *)
(*                                                                         *)
(* The configuration on disk and in a server is its number of changes.     *)
(* `turn` is one chat message: "handling" in the platform's handler, then  *)
(* "working" in the workflow, using delivery, transcriber and providers.   *)
(***************************************************************************)
EXTENDS Naturals

CONSTANTS MaxChanges, MaxFailures, MaxRuns, None

VARIABLES
    pc,         \* the supervisor's thread
    scheduled, running, stop,   \* _run_scheduled, _running, _stop_requested
    restarts,   \* _restart_generation
    seen,       \* the generation read before the settings were loaded
    server,     \* "none", "set", or "exiting" (should_exit)
    disk,       \* changes of the configuration written to disk
    loaded,     \* changes the current settings have
    wanted,     \* changes on disk when a restart was last accepted
    due,        \* a change has been saved whose restart is still to be asked
    app,        \* the application: see Start and Close
    step,       \* the resource the teardown has come to
    after,      \* what follows the teardown of messaging
    resource,   \* of each resource: "none", "open", "stopping", "closed"
    turn,       \* "none", "handling", "working"
    orphans,    \* applications replaced without having been closed
    failures, runs

supervisor == <<pc, scheduled, running, stop, restarts, seen, server, disk, loaded,
                wanted, due, runs>>
application == <<app, step, after, resource, turn, orphans>>
vars == <<supervisor, application, failures>>

Resources ==
    <<"ingress", "workflow", "delivery", "transcriber", "providers", "accounts">>
Position(r) == CHOOSE i \in 1..6 : Resources[i] = r
Is(r, how) == resource[r] = how
Set(r, how) == resource' = [resource EXCEPT ![r] = how]
Goto(l) == pc' = l
-----------------------------------------------------------------------------
(* schedule_run, request_restart and request_stop, each under the lock. *)
ScheduleRun ==
    /\ ~stop /\ ~scheduled /\ ~running /\ runs < MaxRuns
    /\ scheduled' = TRUE
    /\ runs' = runs + 1
    /\ UNCHANGED <<pc, running, stop, restarts, seen, server, disk, loaded, wanted,
                   due, application, failures>>

RequestRestart ==
    /\ due
    /\ due' = FALSE
    /\ IF stop \/ ~(scheduled \/ running)
       THEN UNCHANGED <<restarts, server, wanted>>
       ELSE /\ restarts' = restarts + 1
            /\ server' = IF running /\ ~scheduled /\ server = "set" THEN "exiting"
                                                                    ELSE server
            /\ wanted' = disk
    /\ UNCHANGED <<pc, scheduled, running, stop, seen, disk, loaded, runs,
                   application, failures>>

RequestStop ==
    /\ ~stop
    /\ stop' = TRUE
    /\ scheduled' = FALSE
    /\ server' = IF server = "set" THEN "exiting" ELSE server
    /\ UNCHANGED <<pc, running, restarts, seen, disk, loaded, wanted, due, runs,
                   application, failures>>

(* uvicorn ends by a signal. *)
Signalled ==
    /\ server = "set" /\ pc = "serving"
    /\ server' = "exiting"
    /\ UNCHANGED <<pc, scheduled, running, stop, restarts, seen, disk, loaded,
                   wanted, due, runs, application, failures>>

(***************************************************************************)
(* apply_admin_config: a change of a field that needs a restart is saved   *)
(* and its restart asked for afterwards; any other is taken up at once.    *)
(***************************************************************************)
Apply(pending) ==
    /\ app = "started" /\ pc = "serving" /\ disk < MaxChanges /\ ~due
    /\ disk' = disk + 1
    /\ \/ pending /\ due' = TRUE /\ UNCHANGED loaded
       \/ ~pending /\ loaded' = disk + 1 /\ UNCHANGED due
    /\ UNCHANGED <<pc, scheduled, running, stop, restarts, seen, server, wanted,
                   runs, application, failures>>
-----------------------------------------------------------------------------
(* run: the supervisor's loop. *)
Run ==
    /\ pc = "idle" /\ (scheduled \/ stop) /\ ~running
    /\ scheduled' = FALSE
    /\ \/ stop /\ Goto("returned") /\ UNCHANGED running
       \/ ~stop /\ Goto("looping") /\ running' = TRUE
    /\ UNCHANGED <<stop, restarts, seen, server, disk, loaded, wanted, due, runs,
                   application, failures>>

ReadGeneration ==
    /\ pc = "looping"
    /\ \/ stop /\ Goto("returning") /\ UNCHANGED seen
       \/ ~stop /\ Goto("loading") /\ seen' = restarts
    /\ UNCHANGED <<scheduled, running, stop, restarts, server, disk, loaded, wanted,
                   due, runs, application, failures>>

LoadSettings ==
    /\ pc = "loading"
    /\ loaded' = disk
    /\ Goto("loaded")
    /\ UNCHANGED <<scheduled, running, stop, restarts, seen, server, disk, wanted,
                   due, runs, application, failures>>

\* Mutant of IsLate: a request that came while no server was set is forgotten.
IsLateNever == FALSE

(* A stop or a restart was asked for after the generation was read. *)
IsLate == stop \/ restarts # seen

(* _run_once: the application is built; a server that is late exits at once. *)
Build ==
    /\ pc = "loaded"
    /\ server' = IF IsLate THEN "exiting" ELSE "set"
    /\ Goto("serving")
    /\ app' = "built"
    /\ resource' = [r \in DOMAIN resource |->
                      IF Position(r) >= 4 THEN "open" ELSE "none"]
    /\ step' = 1
    /\ orphans' = IF app \in {"none", "closed"} THEN orphans ELSE orphans + 1
    /\ UNCHANGED <<scheduled, running, stop, restarts, seen, disk, loaded, wanted,
                   due, runs, after, turn, failures>>

RestartsAgain == restarts # seen /\ ~stop /\ app = "closed"

(***************************************************************************)
(* The server has returned: with the lifespan shut down, or, told to exit  *)
(* before it had started, possibly without.                                *)
(***************************************************************************)
RunOnceEnds ==
    /\ pc = "serving" /\ server = "exiting"
    /\ app \in {"closed", "incomplete"}
    /\ server' = "none"
    /\ Goto(IF RestartsAgain THEN "looping" ELSE "returning")
    /\ UNCHANGED <<scheduled, running, stop, restarts, seen, disk, loaded, wanted,
                   due, runs, application, failures>>

(***************************************************************************)
(* The finally of run: the event loop is gone, and with it what was left   *)
(* of the application; child processes are killed.                         *)
(***************************************************************************)
RunReturns ==
    /\ pc = "returning"
    /\ running' = FALSE
    /\ server' = "none"
    /\ Goto(IF stop THEN "returned" ELSE "idle")
    /\ app' = "none" /\ turn' = "none"
    /\ resource' = [r \in DOMAIN resource |-> "none"]
    /\ UNCHANGED <<scheduled, stop, restarts, seen, disk, loaded, wanted, due, runs,
                   step, after, orphans, failures>>
-----------------------------------------------------------------------------
(* lifespan.startup: models are warmed, then messaging is started. *)
Start ==
    /\ pc = "serving" /\ app = "built"
    /\ \/ /\ app' = "starting"
          /\ UNCHANGED <<server, step, after, failures>>
       \/ /\ failures < MaxFailures
          /\ failures' = failures + 1
          /\ app' = "closing" /\ after' = "failed" /\ step' = 1
          /\ server' = "exiting"
    /\ UNCHANGED <<pc, scheduled, running, stop, restarts, seen, disk, loaded, wanted,
                   due, runs, resource, turn, orphans>>

(***************************************************************************)
(* _start_messaging_workflow: the platform starts to deliver before the    *)
(* statuses are repaired and the notice is published; its failure, then or *)
(* when it connects, takes messaging down again.                           *)
(***************************************************************************)
StartMessaging ==
    /\ app = "starting" /\ Is("delivery", "none")
    /\ resource' = [resource EXCEPT !["delivery"] = "open", !["workflow"] = "open",
                                    !["ingress"] = "open"]
    /\ UNCHANGED <<supervisor, app, step, after, turn, orphans, failures>>

MessagingFails ==
    /\ app = "starting" /\ failures < MaxFailures
    /\ failures' = failures + 1
    /\ app' = "closing" /\ after' = "started" /\ step' = 1
    /\ UNCHANGED <<supervisor, resource, turn, orphans>>

Started ==
    /\ app = "starting"
    /\ app' = "started"
    /\ UNCHANGED <<supervisor, step, after, resource, turn, orphans, failures>>

(* lifespan.shutdown, or startup cancelled by it. *)
Close ==
    /\ app \in {"starting", "started"} /\ server = "exiting"
    /\ app' = "closing" /\ after' = "closed" /\ step' = 1
    /\ UNCHANGED <<supervisor, resource, turn, orphans, failures>>

(* The server was told to exit before it had started: no shutdown event. *)
NoShutdown ==
    /\ app = "started" /\ server = "exiting"
    /\ app' = "incomplete"
    /\ UNCHANGED <<supervisor, step, after, resource, turn, orphans, failures>>

\* Mutant of QuiesceDone: ingress is stopped without draining its handlers.
QuiesceUndrained == TRUE

QuiesceDone == turn # "handling"

(***************************************************************************)
(* _close_owned_resources: one resource after another. Ingress is stopped  *)
(* first and its handlers drained, then the workflow cancels its turns and *)
(* waits for them; a step that fails ends the teardown where it is.        *)
(***************************************************************************)
TeardownStep ==
    LET r == Resources[step] IN
    /\ app = "closing" /\ step <= (IF after = "started" THEN 3 ELSE 6)
    /\ \/ /\ resource[r] \in {"none", "closed"}
          /\ step' = step + 1
          /\ UNCHANGED <<resource, turn>>
       \/ /\ Is(r, "open")
          /\ Set(r, "stopping")
          /\ UNCHANGED <<step, turn>>
       \/ /\ Is(r, "stopping")
          /\ r = "ingress" => QuiesceDone
          /\ turn' = IF r = "workflow" /\ turn = "working" THEN "none" ELSE turn
          /\ Set(r, "closed")
          /\ step' = step + 1
    /\ UNCHANGED <<supervisor, app, after, orphans, failures>>

TeardownFails ==
    /\ app = "closing" /\ step <= 6 /\ Is(Resources[step], "stopping")
    /\ failures < MaxFailures
    /\ failures' = failures + 1
    /\ app' = "incomplete"
    /\ server' = IF after = "started" THEN "exiting" ELSE server
    /\ UNCHANGED <<pc, scheduled, running, stop, restarts, seen, disk, loaded, wanted,
                   due, runs, step, after, resource, turn, orphans>>

(* Messaging is gone and the server goes on without it, or all is closed. *)
TeardownEnds ==
    /\ app = "closing" /\ step > (IF after = "started" THEN 3 ELSE 6)
    /\ app' = IF after = "started" THEN "started" ELSE "closed"
    /\ UNCHANGED <<supervisor, step, after, resource, turn, orphans, failures>>

(* A message arrives, becomes a turn of the workflow, and ends. *)
Receive ==
    /\ Is("ingress", "open") /\ turn = "none"
    /\ turn' = "handling"
    /\ UNCHANGED <<supervisor, app, step, after, resource, orphans, failures>>

Handled ==
    /\ turn = "handling"
    /\ turn' \in {"none", "working"}
    /\ UNCHANGED <<supervisor, app, step, after, resource, orphans, failures>>

TurnEnds ==
    /\ turn = "working"
    /\ turn' = "none"
    /\ UNCHANGED <<supervisor, app, step, after, resource, orphans, failures>>

AtRest == pc \in {"idle", "returned"} /\ UNCHANGED vars
-----------------------------------------------------------------------------
Init ==
    /\ pc = "idle"
    /\ scheduled = FALSE /\ running = FALSE /\ stop = FALSE
    /\ restarts = 0 /\ seen = 0
    /\ server = "none"
    /\ disk = 0 /\ loaded = 0 /\ wanted = 0
    /\ due = FALSE
    /\ app = "none"
    /\ step = 1
    /\ after = "closed"
    /\ resource = [r \in {Resources[i] : i \in 1..6} |-> "none"]
    /\ turn = "none"
    /\ orphans = 0
    /\ failures = 0
    /\ runs = 0

Supervise ==
    Run \/ ReadGeneration \/ LoadSettings \/ Build \/ RunOnceEnds \/ RunReturns
Teardown == TeardownStep \/ TeardownEnds
Turn == Handled \/ TurnEnds

Next ==
    \/ ScheduleRun \/ RequestRestart \/ RequestStop \/ Signalled
    \/ \E pending \in BOOLEAN : Apply(pending)
    \/ Supervise
    \/ Start \/ StartMessaging \/ MessagingFails \/ Started \/ Close \/ NoShutdown
    \/ Teardown \/ TeardownFails
    \/ Receive \/ Turn
    \/ AtRest

(***************************************************************************)
(* The supervisor's thread, the lifespan and a teardown go on, messages    *)
(* are handled to their end, and a restart that is due is asked for.       *)
(***************************************************************************)
Fairness ==
    /\ WF_vars(Supervise) /\ WF_vars(Start \/ Started) /\ WF_vars(Close)
    /\ WF_vars(Teardown) /\ WF_vars(Turn) /\ WF_vars(RequestRestart)

Spec == Init /\ [][Next]_vars /\ Fairness
-----------------------------------------------------------------------------
(***************************************************************************)
(* While a message can arrive or a turn is worked on, nothing that it      *)
(* needs has begun to close: not the workflow while it is being handled,   *)
(* nor delivery, transcriber, providers and accounts until it is over; and *)
(* an application is only replaced by the next when it has closed all.     *)
(***************************************************************************)
TeardownInOrder ==
    /\ Is("ingress", "open") \/ turn = "handling" => Is("workflow", "open")
    /\ Is("ingress", "open") \/ turn # "none" =>
          \A i \in 3..6 : Is(Resources[i], "open")
    /\ orphans = 0
    /\ app = "closed" => \A i \in 1..6 : resource[Resources[i]] \in {"none", "closed"}

(***************************************************************************)
(* A restart that was accepted takes effect, unless the supervisor's run   *)
(* ends; and a supervisor that was told to stop returns.                   *)
(***************************************************************************)
RequestsServed ==
    /\ \A n \in 1..MaxChanges :
          wanted >= n ~> loaded >= n \/ pc \in {"idle", "returned"}
    /\ stop ~> pc = "returned"
=============================================================================
