------------------------------ MODULE Delivery ------------------------------
(***************************************************************************)
(* Outbound delivery to a chat platform: the messenger's outbox            *)
(* (messaging/platforms/outbox.py), the limiter's queue and worker         *)
(* (messaging/limiter.py) and the platform's own retries                   *)
(* (messaging/platforms/telegram_io.py, discord_io.py).                    *)
(*                                                                         *)
(* Calls are numbered in the order they are made. Every edit is of the     *)
(* same message, so edits share one place in the queue; a send has a place *)
(* of its own. A call awaits its answer ("await"), hands the limiter a     *)
(* background task ("background"), or hands the outbox a coroutine that    *)
(* does so ("task"), as messaging/node_runner.py does. The event loop runs *)
(* what is ready in the order it became so: `ready` is that order, 0       *)
(* standing in it for the worker; timers and the network wait their turn.  *)
(* MaxTries is 3 for Telegram, and 1 for Discord, which never retries.     *)
(***************************************************************************)
EXTENDS NoValue, Naturals, Sequences, FiniteSets

CONSTANTS MaxCalls, MaxTries, MaxFaults

ASSUME CallsAssumption ==
    /\ MaxCalls \in Nat
    /\ None \notin [op : 1..MaxCalls, futures : SUBSET (1..MaxCalls)]

VARIABLES
    outcome,    \* of each call: see Issue, the tasks and Ended
    kind,       \* "edit" or "send"
    route,      \* how the caller gave it
    attempt,    \* times its background task has been turned away, 0..2
    entered,    \* the number of the last enqueueing of each call
    ready,      \* tasks created and not yet started, and 0: the woken worker
    queueList,  \* _queue_list: the keys waiting
    queueMap,   \* _queue_map: for each key the operation and its futures
    worker,     \* where the worker is
    active,     \* the operation it took, and its futures
    tries,      \* calls of the platform made for it
    flood,      \* _paused_until lies ahead
    platform,   \* "open", "outbox closed", "settling", "reaping", "closed"
    shown,      \* number of the enqueueing whose text the message shows
    gone,       \* the platform said that the message is not there to edit
    clock,      \* enqueueings so far
    faults      \* failures of the platform so far

deliveryVars ==
    <<outcome, kind, route, attempt, entered, ready, queueList, queueMap, worker,
      active, tries, flood, platform, shown, gone, clock, faults>>

Calls == 1..MaxCalls
Issued == {c \in Calls : outcome[c] # "unissued"}
Ended == {"done", "failed", "cancelled", "refused"}

(* outbox.py: every edit of a message has the same key, a send its own. *)
Key(c) == IF kind[c] = "edit" THEN 0 ELSE c
Keys == 0..MaxCalls

Settle(calls, how) ==
    outcome' = [c \in Calls |->
                 IF c \in calls /\ outcome[c] = "waiting" THEN how ELSE outcome[c]]

\* Mutant of Compacted: the operation queued first is kept.
CompactedKeepsFirst(k, c) ==
    [op |-> IF queueMap[k] = None THEN c ELSE queueMap[k].op,
     futures |-> IF queueMap[k] = None THEN {c} ELSE queueMap[k].futures \cup {c}]

\* Mutant of Compacted: the callers of the replaced operation are forgotten.
CompactedForgets(k, c) == [op |-> c, futures |-> {c}]

(* The operation queued for a key is replaced; its callers are kept. *)
Compacted(k, c) ==
    [op |-> c,
     futures |-> IF queueMap[k] = None THEN {c} ELSE queueMap[k].futures \cup {c}]

(***************************************************************************)
(* enqueue: the call joins the operation already queued for its key, which *)
(* it replaces, or goes to the end of the queue and wakes the worker.      *)
(* `rest` is what the loop still has to run.                               *)
(***************************************************************************)
Enqueue(c, k, rest) ==
    /\ ready' = IF worker = "idle" THEN Append(rest, 0) ELSE rest
    /\ worker' = IF worker = "idle" THEN "woken" ELSE worker
    /\ clock' = clock + 1
    /\ entered' = [entered EXCEPT ![c] = clock + 1]
    /\ queueMap' = [queueMap EXCEPT ![k] = Compacted(k, c)]
    /\ queueList' = IF queueMap[k] = None THEN Append(queueList, k) ELSE queueList

Refused == platform \in {"settling", "reaping", "closed"}

(***************************************************************************)
(* queue_send_message, queue_edit_message: the outbox must be open. An     *)
(* awaited call is in the queue when this step ends.                       *)
(***************************************************************************)
Issue(c, k, r) ==
    /\ outcome[c] = "unissued"
    /\ \A d \in Calls : d < c => d \in Issued
    /\ kind' = [kind EXCEPT ![c] = k]
    /\ route' = [route EXCEPT ![c] = r]
    /\ \/ /\ platform # "open"
          /\ outcome' = [outcome EXCEPT ![c] = "refused"]
          /\ UNCHANGED <<ready, queueList, queueMap, worker, clock, entered>>
       \/ /\ platform = "open" /\ r = "await"
          /\ outcome' = [outcome EXCEPT ![c] = "waiting"]
          /\ Enqueue(c, IF k = "edit" THEN 0 ELSE c, ready)
       \/ /\ platform = "open" /\ r # "await"
          /\ outcome' = [outcome EXCEPT ![c] = IF r = "task" THEN "hopping"
                                                           ELSE "ready"]
          /\ ready' = Append(ready, c)
          /\ UNCHANGED <<queueList, queueMap, worker, clock, entered>>
    /\ UNCHANGED <<attempt, active, tries, flood, platform, shown, gone, faults>>

(* The outbox's coroutine runs: it hands its call to fire_and_forget. *)
RunOutboxTask ==
    /\ ready # <<>> /\ Head(ready) # 0 /\ outcome[Head(ready)] = "hopping"
    /\ LET c == Head(ready) IN
         \/ /\ platform = "open"
            /\ outcome' = [outcome EXCEPT ![c] = "ready"]
            /\ ready' = Append(Tail(ready), c)
         \/ /\ platform # "open"
            /\ outcome' = [outcome EXCEPT ![c] = "refused"]
            /\ ready' = Tail(ready)
    /\ UNCHANGED <<kind, route, attempt, entered, queueList, queueMap, worker, active,
                   tries, flood, platform, shown, gone, clock, faults>>

(***************************************************************************)
(* _wrapped: the limiter's background task starts, or wakes from its       *)
(* backoff, and enqueues its own operation; a limiter that has closed      *)
(* turns it away for good.                                                 *)
(***************************************************************************)
TaskEnqueues(c, rest) ==
    /\ \/ /\ ~Refused
          /\ outcome' = [outcome EXCEPT ![c] = "waiting"]
          /\ Enqueue(c, Key(c), rest)
       \/ /\ Refused
          /\ outcome' = [outcome EXCEPT ![c] = "failed"]
          /\ ready' = rest
          /\ UNCHANGED <<queueList, queueMap, worker, clock, entered>>
    /\ UNCHANGED <<kind, route, attempt, active, tries, flood, platform, shown, gone, faults>>

StartBackground ==
    /\ ready # <<>> /\ Head(ready) # 0 /\ outcome[Head(ready)] = "ready"
    /\ TaskEnqueues(Head(ready), Tail(ready))

Retry(c) ==
    /\ outcome[c] = "backoff" /\ ready = <<>>
    /\ TaskEnqueues(c, <<>>)

(* A task that was cancelled, or a worker that has ended, is not run any more. *)
Skip ==
    /\ ready # <<>>
    /\ IF Head(ready) = 0 THEN worker = "ended" ELSE outcome[Head(ready)] = "cancelled"
    /\ ready' = Tail(ready)
    /\ UNCHANGED <<outcome, kind, route, attempt, entered, queueList, queueMap, worker,
                   active, tries, flood, platform, shown, gone, clock, faults>>

(* The caller of an awaited call is cancelled; the operation stays queued. *)
CallerCancelled(c) ==
    /\ outcome[c] = "waiting" /\ route[c] = "await" /\ faults < MaxFaults
    /\ outcome' = [outcome EXCEPT ![c] = "cancelled"]
    /\ faults' = faults + 1
    /\ UNCHANGED <<kind, route, attempt, entered, ready, queueList, queueMap, worker,
                   active, tries, flood, platform, shown, gone, clock>>

(***************************************************************************)
(* _worker, woken or done with its last operation, takes the first key;    *)
(* then a flood wait and the rate limit pass.                              *)
(***************************************************************************)
Take ==
    /\ queueList # <<>> /\ ~Refused
    /\ \/ worker = "woken" /\ ready # <<>> /\ Head(ready) = 0 /\ ready' = Tail(ready)
       \/ worker = "looping" /\ UNCHANGED ready
    /\ active' = queueMap[Head(queueList)]
    /\ queueMap' = [queueMap EXCEPT ![Head(queueList)] = None]
    /\ queueList' = Tail(queueList)
    /\ worker' = "waiting"
    /\ tries' = 0
    /\ UNCHANGED <<outcome, kind, route, attempt, entered, flood, platform, shown, gone,
                   clock, faults>>

Admitted ==
    /\ worker = "waiting" /\ ~Refused /\ ready = <<>>
    /\ worker' = "calling"
    /\ flood' = FALSE
    /\ UNCHANGED <<outcome, kind, route, attempt, entered, ready, queueList, queueMap,
                   active, tries, platform, shown, gone, clock, faults>>

(* The platform carries the operation out. *)
Show ==
    IF kind[active.op] = "edit"
    THEN shown' = entered[active.op] ELSE UNCHANGED shown

Finish ==
    /\ worker' = IF queueList = <<>> THEN "idle" ELSE "looping"
    /\ active' = None
    /\ tries' = 0

Calling == worker = "calling" /\ ready = <<>>

Succeeds ==
    /\ Calling
    /\ Show
    /\ Settle(active.futures, "done")
    /\ Finish
    /\ UNCHANGED <<kind, route, attempt, entered, ready, queueList, queueMap, flood,
                   platform, gone, clock, faults>>

(* A known error of an edit is suppressed: the callers are told it is done. *)
Suppressed ==
    /\ Calling /\ kind[active.op] = "edit" /\ faults < MaxFaults
    /\ gone' = TRUE
    /\ faults' = faults + 1
    /\ Settle(active.futures, "done")
    /\ Finish
    /\ UNCHANGED <<kind, route, attempt, entered, ready, queueList, queueMap, flood,
                   platform, shown, clock>>

(***************************************************************************)
(* An error of the connection, which the operation may have survived. The  *)
(* messenger tries again; its last try raises, and then each background    *)
(* task waits to enqueue its own operation once more, twice at most.       *)
(***************************************************************************)
ConnectionError ==
    /\ Calling /\ faults < MaxFaults
    /\ faults' = faults + 1
    /\ (Show \/ UNCHANGED shown)
    /\ \/ /\ tries + 1 < MaxTries
          /\ tries' = tries + 1
          /\ UNCHANGED <<outcome, attempt, worker, active>>
       \/ /\ tries + 1 = MaxTries
          /\ outcome' = [c \in Calls |->
                IF c \notin active.futures \/ outcome[c] # "waiting" THEN outcome[c]
                ELSE IF route[c] # "await" /\ attempt[c] < 2 THEN "backoff"
                ELSE "failed"]
          /\ attempt' = [c \in Calls |->
                IF outcome'[c] = "backoff" /\ outcome[c] = "waiting"
                THEN attempt[c] + 1 ELSE attempt[c]]
          /\ Finish
    /\ UNCHANGED <<kind, route, entered, ready, queueList, queueMap, flood, platform,
                   gone, clock>>

(* Any other error goes to the callers; a flood error also holds the worker. *)
OtherError ==
    /\ Calling /\ faults < MaxFaults
    /\ faults' = faults + 1
    /\ \E how \in {"failed", "cancelled"} : Settle(active.futures, how)
    /\ flood' \in BOOLEAN
    /\ Finish
    /\ UNCHANGED <<kind, route, attempt, entered, ready, queueList, queueMap, platform,
                   shown, gone, clock>>

(***************************************************************************)
(* close of the platform: the outbox refuses new calls, cancels its tasks  *)
(* and waits for them; then shutdown cancels what is queued and what is    *)
(* active, ends the worker (its call may still have been carried out), and *)
(* at last the background tasks.                                           *)
(***************************************************************************)
CloseOutbox ==
    /\ platform = "open"
    /\ platform' = "outbox closed"
    /\ outcome' = [c \in Calls |-> IF outcome[c] = "hopping" THEN "cancelled"
                                                           ELSE outcome[c]]
    /\ UNCHANGED <<kind, route, attempt, entered, ready, queueList, queueMap, worker,
                   active, tries, flood, shown, gone, clock, faults>>

ShutDown ==
    /\ platform = "outbox closed"
    /\ \A i \in DOMAIN ready : ready[i] # 0 => outcome[ready[i]] # "cancelled"
    /\ platform' = "settling"
    /\ Settle((UNION {queueMap[k].futures : k \in {j \in Keys : queueMap[j] # None}})
                \cup (IF active = None THEN {} ELSE active.futures), "cancelled")
    /\ queueList' = <<>>
    /\ queueMap' = [k \in Keys |-> None]
    /\ UNCHANGED <<kind, route, attempt, entered, ready, worker, active, tries,
                   flood, shown, gone, clock, faults>>

WorkerEnds ==
    /\ platform = "settling"
    /\ IF worker = "calling" THEN Show \/ UNCHANGED shown
                             ELSE UNCHANGED shown
    /\ worker' = "ended" /\ active' = None /\ tries' = 0
    /\ platform' = "reaping"
    /\ UNCHANGED <<outcome, kind, route, attempt, entered, ready, queueList, queueMap,
                   flood, gone, clock, faults>>

Reap ==
    /\ platform = "reaping"
    /\ platform' = "closed"
    /\ outcome' = [c \in Calls |->
                    IF outcome[c] \in {"ready", "backoff"} THEN "cancelled"
                                                          ELSE outcome[c]]
    /\ ready' = <<>>
    /\ UNCHANGED <<kind, route, attempt, entered, queueList, queueMap, worker, active,
                   tries, flood, shown, gone, clock, faults>>

(* All calls have ended, or the platform is never closed. *)
AllAnswered ==
    /\ Issued = Calls /\ \A c \in Calls : outcome[c] \in Ended
    /\ UNCHANGED deliveryVars
-----------------------------------------------------------------------------
DeliveryInit ==
    /\ outcome = [c \in Calls |-> "unissued"]
    /\ kind = [c \in Calls |-> "edit"]
    /\ route = [c \in Calls |-> "await"]
    /\ attempt = [c \in Calls |-> 0]
    /\ entered = [c \in Calls |-> 0]
    /\ ready = <<>>
    /\ queueList = <<>>
    /\ queueMap = [k \in Keys |-> None]
    /\ worker = "idle"
    /\ active = None
    /\ tries = 0
    /\ flood = FALSE
    /\ platform = "open"
    /\ shown = 0
    /\ gone = FALSE
    /\ clock = 0
    /\ faults = 0

Worker ==
    Take \/ Admitted \/ Succeeds \/ Suppressed \/ ConnectionError \/ OtherError

Close == CloseOutbox \/ ShutDown \/ WorkerEnds \/ Reap

DeliveryNext ==
    \/ \E c \in Calls, k \in {"edit", "send"}, r \in {"await", "background", "task"} :
          Issue(c, k, r)
    \/ RunOutboxTask
    \/ StartBackground
    \/ Skip
    \/ \E c \in Calls : Retry(c) \/ CallerCancelled(c)
    \/ Worker
    \/ Close
    \/ AllAnswered

(***************************************************************************)
(* Tasks that are ready run, sleeps end, and a call of the platform        *)
(* answers or fails; close, once begun, goes on. Nobody has to call it.    *)
(***************************************************************************)
DeliveryFairness ==
    /\ WF_deliveryVars(RunOutboxTask)
    /\ WF_deliveryVars(StartBackground)
    /\ WF_deliveryVars(Skip)
    /\ WF_deliveryVars(Worker)
    /\ WF_deliveryVars(ShutDown \/ WorkerEnds \/ Reap)
    /\ \A c \in Calls : WF_deliveryVars(Retry(c))

DeliverySpec == DeliveryInit /\ [][DeliveryNext]_deliveryVars /\ DeliveryFairness
-----------------------------------------------------------------------------
(***************************************************************************)
(* A caller told that its edit is done finds on the message that edit or   *)
(* one that entered the queue after it, whatever was compacted, failed or  *)
(* retried in between, unless the platform said the message is gone; and a *)
(* closed platform has neither worker, nor queue, nor a call unanswered.   *)
(***************************************************************************)
AnswersAreCurrent ==
    /\ \A c \in Calls :
          outcome[c] = "done" /\ kind[c] = "edit" /\ ~gone => shown >= entered[c]
    /\ platform = "closed" =>
          /\ worker = "ended" /\ queueList = <<>>
          /\ \A c \in Issued : outcome[c] \in Ended

(***************************************************************************)
(* Every call of the outbox is answered in the end: done, failed, refused  *)
(* or cancelled, also when the platform is closed while it is queued, taken*)
(* by the worker, being carried out, or waiting for its next attempt.      *)
(***************************************************************************)
CallersAnswered ==
    \A c \in Calls : outcome[c] # "unissued" ~> outcome[c] \in Ended
=============================================================================
