------------------------------ MODULE Admission ------------------------------
(***************************************************************************)
(* ProviderAdmissionController and the two adapters that drive it: the     *)
(* chat-completions run() and the Codex _run_stream().                     *)
(*                                                                         *)
(* A session is one logical execution with one attempt budget.  All the    *)
(* sessions share a recovery episode, guarded by one condition variable,   *)
(* and one concurrency semaphore.  asyncio runs one task at a time, and    *)
(* the condition's lock is only held over code that does not suspend, so   *)
(* every stretch between two awaits is one action.                         *)
(*                                                                         *)
(* Time is abstracted: ready_at is the flag due, terminal_until is fate    *)
(* (open: None; cooling: in the future; cooled: in the past).  The sliding *)
(* window only delays a session in pc "rate" and is not represented.       *)
(***************************************************************************)
EXTENDS NoValue, Integers, FiniteSets

CONSTANTS
    Sessions,        \* logical executions, one ProviderRetrySession each
    MaxAttempts,     \* upstream attempts one session may start
    MaxConcurrency,  \* value of the semaphore
    Adapter          \* "chat" or "codex": the run loop around open_attempt

ASSUME SessionsAssumption == IsFiniteSet(Sessions) /\ None \notin Sessions
ASSUME AttemptsAssumption == MaxAttempts \in Nat \ {0}
ASSUME ConcurrencyAssumption == MaxConcurrency \in Nat \ {0}
ASSUME AdapterAssumption == Adapter \in {"chat", "codex"}

VARIABLES
    pc,        \* where each session is suspended
    stage,     \* "main", or "recovery" while run() awaits _recovery_events
    tries,     \* _attempts_started
    doomed,    \* _terminal_error is set
    refreshed, \* authentication_recovered (codex)
    permit,    \* generation of the probe permit or claim held; 0: a normal one
    episode,   \* the shared _RecoveryEpisode; gen = 0: there is none
    nextGen,   \* _next_generation
    open,      \* ProviderAttempts whose aclose has not run
    free,      \* value of the semaphore
    abandons   \* sessions whose shielded _attempt_abandoned has yet to run

vars == <<pc, stage, tries, doomed, refreshed, permit, episode, nextGen,
          open, free, abandons>>

Stages == {"main", "recovery"}

\* "gate" continues without suspending; "woken" was notified and may still be
\* cancelled.  "retrying" and "leaving" close the stream of a resolved attempt
\* and then go round the loop, or out of it; "cancelled" closes the stream of
\* an unresolved one.
PCs == {"idle", "access", "gate", "parked", "woken", "backoff", "rate", "slot",
        "opening", "opened", "streaming", "retrying", "leaving", "cancelled",
        "abandoning", "done"}

Episodes == [gen : Nat, leader : Sessions \union {None}, due : BOOLEAN,
             waiters : SUBSET Sessions, probing : BOOLEAN,
             fate : {"open", "cooling", "cooled"}]

NoEpisode == [gen |-> 0, leader |-> None, due |-> FALSE, waiters |-> {},
              probing |-> FALSE, fate |-> "open"]

NewEpisode(leader, due) ==
    [gen |-> nextGen, leader |-> leader, due |-> due, waiters |-> {},
     probing |-> FALSE, fate |-> "open"]

Init ==
    /\ pc = [s \in Sessions |-> "idle"]
    /\ stage = [s \in Sessions |-> "main"]
    /\ tries = [s \in Sessions |-> 0]
    /\ doomed = [s \in Sessions |-> FALSE]
    /\ refreshed = {}
    /\ permit = [s \in Sessions |-> 0]
    /\ episode = NoEpisode
    /\ nextGen = 1
    /\ open = {}
    /\ free = MaxConcurrency
    /\ abandons = {}

-----------------------------------------------------------------------------
CanAttempt(s) == tries[s] < MaxAttempts

\* Mutant of Matching: any answer is taken for the probe's.
MatchingAnyAnswer(s) == episode.gen # 0

\* The episode whose current probe is s's attempt, if there is one.
Matching(s) ==
    /\ permit[s] # 0
    /\ episode.gen = permit[s]
    /\ episode.leader = s
    /\ episode.probing

PermitIsCurrent(s) ==
    IF permit[s] = 0 THEN episode.gen = 0
                     ELSE Matching(s) /\ episode.fate = "open"

\* Mutant of Woken: a missing notify_all.
WokenNobody(f) == f

\* notify_all: everyone waiting on the condition becomes runnable.
Woken(f) == [t \in Sessions |-> IF f[t] = "parked" THEN "woken" ELSE f[t]]

Moved(s, to) == [pc EXCEPT ![s] = to]

\* Leaving the loop: a recovery falls back to the finally of the interrupted
\* stream, whose attempt is still open; a main loop ends the execution.
ExitTo(s) == IF stage[s] = "recovery" THEN "leaving" ELSE "done"
Main(s) == [stage EXCEPT ![s] = "main"]

\* Apply e to the episode if s holds its probe; then notify everyone.
Settle(s, e, to) ==
    /\ episode' = IF Matching(s) THEN e ELSE episode
    /\ pc' = IF Matching(s) THEN Woken(Moved(s, to)) ELSE Moved(s, to)

Unled == [episode EXCEPT !.leader = None, !.probing = FALSE, !.due = TRUE]

-----------------------------------------------------------------------------
\* _wait_for_gate

AtGate(s) == pc[s] \in {"gate", "woken"}
Facing(s, fate) == AtGate(s) /\ ~doomed[s] /\ episode.gen # 0 /\ episode.fate = fate

GateDoomed(s) ==
    /\ AtGate(s) /\ doomed[s]
    /\ pc' = Moved(s, ExitTo(s)) /\ stage' = Main(s)
    /\ UNCHANGED <<tries, doomed, refreshed, permit, episode, nextGen, open, free, abandons>>

GateOpen(s) ==
    /\ AtGate(s) /\ ~doomed[s] /\ episode.gen = 0
    /\ permit' = [permit EXCEPT ![s] = 0]
    /\ pc' = Moved(s, "rate")
    /\ UNCHANGED <<stage, tries, doomed, refreshed, episode, nextGen, open, free, abandons>>

GateCooling(s) ==
    /\ Facing(s, "cooling")
    /\ pc' = Moved(s, ExitTo(s)) /\ stage' = Main(s)
    /\ UNCHANGED <<tries, doomed, refreshed, permit, episode, nextGen, open, free, abandons>>

GateReprobe(s) ==
    /\ Facing(s, "cooled")
    /\ episode' = [NewEpisode(s, TRUE) EXCEPT !.probing = TRUE]
    /\ nextGen' = nextGen + 1
    /\ permit' = [permit EXCEPT ![s] = nextGen]
    /\ pc' = Moved(s, "rate")
    /\ UNCHANGED <<stage, tries, doomed, refreshed, open, free, abandons>>

\* Mutant of GateLead: leadership is taken from a leader that is probing.
GateUsurp(s) ==
    /\ Facing(s, "open")
    /\ episode' = [episode EXCEPT !.leader = s, !.probing = episode.due]
    /\ permit' = [permit EXCEPT ![s] = episode.gen]
    /\ pc' = Moved(s, IF episode.due THEN "rate" ELSE "backoff")
    /\ UNCHANGED <<stage, tries, doomed, refreshed, nextGen, open, free, abandons>>

GateLead(s) ==
    /\ Facing(s, "open")
    /\ episode.leader \in {None, s} /\ ~episode.probing
    /\ episode' = [episode EXCEPT
                      !.leader = s,
                      !.waiters = IF episode.leader = None THEN @ \ {s} ELSE @,
                      !.probing = episode.due]
    /\ permit' = [permit EXCEPT ![s] = episode.gen]
    /\ pc' = Moved(s, IF episode.due THEN "rate" ELSE "backoff")
    /\ UNCHANGED <<stage, tries, doomed, refreshed, nextGen, open, free, abandons>>

GatePark(s) ==
    /\ Facing(s, "open")
    /\ episode.leader \notin {None, s} \/ episode.probing
    /\ episode' = [episode EXCEPT !.waiters = @ \union ({s} \ {episode.leader})]
    /\ pc' = Moved(s, "parked")
    /\ UNCHANGED <<stage, tries, doomed, refreshed, permit, nextGen, open, free, abandons>>

\* The leader's sleep until ready_at is over.
BackoffDone(s) ==
    /\ pc[s] = "backoff"
    /\ episode.gen = permit[s] => episode.due
    /\ LET owned == /\ episode.gen = permit[s] /\ episode.fate = "open"
                    /\ episode.leader = s /\ ~episode.probing
       IN /\ episode' = [episode EXCEPT !.probing = @ \/ owned]
          /\ pc' = Moved(s, IF owned THEN "rate" ELSE "gate")
    /\ UNCHANGED <<stage, tries, doomed, refreshed, permit, nextGen, open, free, abandons>>

\* The clock passes ready_at, or terminal_until.
ClockReady ==
    /\ episode.gen # 0 /\ ~episode.due
    /\ episode' = [episode EXCEPT !.due = TRUE]
    /\ UNCHANGED <<pc, stage, tries, doomed, refreshed, permit, nextGen, open, free, abandons>>

CoolDown ==
    /\ episode.fate = "cooling"
    /\ episode' = [episode EXCEPT !.fate = "cooled"]
    /\ UNCHANGED <<pc, stage, tries, doomed, refreshed, permit, nextGen, open, free, abandons>>

-----------------------------------------------------------------------------
\* open_attempt, after the gate

AdmitStale(s) ==
    /\ Settle(s, Unled, "gate")
    /\ UNCHANGED <<stage, tries, doomed, refreshed, permit, nextGen, open, free, abandons>>

AdmitAttempt(s) ==
    /\ tries' = [tries EXCEPT ![s] = @ + 1]
    /\ open' = open \union {<<s, stage[s]>>}
    /\ free' = free - 1
    /\ pc' = Moved(s, "opening")
    /\ UNCHANGED <<stage, doomed, refreshed, permit, episode, nextGen, abandons>>

SlotAtOnce == free > 0 /\ \A t \in Sessions : pc[t] # "slot"

RateRefused(s) == pc[s] = "rate" /\ ~PermitIsCurrent(s) /\ AdmitStale(s)
RateAdmits(s) == pc[s] = "rate" /\ PermitIsCurrent(s) /\ SlotAtOnce /\ AdmitAttempt(s)

RateThenQueue(s) ==
    /\ pc[s] = "rate" /\ PermitIsCurrent(s) /\ ~SlotAtOnce
    /\ pc' = Moved(s, "slot")
    /\ UNCHANGED <<stage, tries, doomed, refreshed, permit, episode, nextGen, open, free, abandons>>

\* The semaphore hands s a slot; the permit is checked again before it is used.
SlotAdmits(s) == pc[s] = "slot" /\ free > 0 /\ PermitIsCurrent(s) /\ AdmitAttempt(s)
\* Mutant of SlotStale: the slot of a stale permit is not given back.
SlotStaleLeaks(s) ==
    /\ pc[s] = "slot" /\ free > 0 /\ ~PermitIsCurrent(s)
    /\ free' = free - 1
    /\ Settle(s, Unled, "gate")
    /\ UNCHANGED <<stage, tries, doomed, refreshed, permit, nextGen, open, abandons>>

SlotStale(s) == pc[s] = "slot" /\ free > 0 /\ ~PermitIsCurrent(s) /\ AdmitStale(s)

-----------------------------------------------------------------------------
\* Outcomes of an admitted attempt, before upstream acceptance

Pending(s) == pc[s] \in {"opening", "opened"}
RetryOrLeave(s) == IF CanAttempt(s) THEN "retrying" ELSE "leaving"

StreamOpened(s) ==
    /\ pc[s] = "opening"
    /\ pc' = Moved(s, "opened")
    /\ UNCHANGED <<stage, tries, doomed, refreshed, permit, episode, nextGen, open, free, abandons>>

\* _attempt_succeeded, on the first chunk
FirstChunk(s) ==
    /\ pc[s] = "opened"
    /\ Settle(s, NoEpisode, "streaming")
    /\ UNCHANGED <<stage, tries, doomed, refreshed, permit, nextGen, open, free, abandons>>

\* _attempt_corrected: chat edits the request while attempts remain, codex
\* refreshes its credentials once, whatever remains.
Corrected(s) ==
    /\ pc[s] = "opening"
    /\ IF Adapter = "chat" THEN CanAttempt(s) ELSE s \notin refreshed
    /\ refreshed' = IF Adapter = "codex" THEN refreshed \union {s} ELSE refreshed
    /\ Settle(s, [episode EXCEPT !.probing = FALSE, !.due = TRUE], "retrying")
    /\ UNCHANGED <<stage, tries, doomed, permit, nextGen, open, free, abandons>>

\* _attempt_rejected.  A recovery consults the raw error after a refused
\* request, and may go round again where the provider's own reading is final.
Rejected(s) ==
    /\ Pending(s)
    /\ \E to \in {"leaving"} \union
            (IF pc[s] = "opening" /\ stage[s] = "recovery" THEN {RetryOrLeave(s)} ELSE {}) :
            Settle(s, NoEpisode, to)
    /\ UNCHANGED <<stage, tries, doomed, refreshed, permit, nextGen, open, free, abandons>>

\* _attempt_failed
FailOpensEpisode(s) ==
    /\ Pending(s) /\ CanAttempt(s) /\ episode.gen = 0
    /\ episode' = NewEpisode(s, FALSE) /\ nextGen' = nextGen + 1
    /\ pc' = Woken(Moved(s, "retrying"))
    /\ UNCHANGED <<stage, tries, doomed, refreshed, permit, open, free, abandons>>

FailKeepsLead(s) ==
    /\ Pending(s) /\ CanAttempt(s) /\ Matching(s)
    /\ episode' = [episode EXCEPT !.probing = FALSE, !.due = FALSE]
    /\ pc' = Woken(Moved(s, "retrying"))
    /\ UNCHANGED <<stage, tries, doomed, refreshed, permit, nextGen, open, free, abandons>>

FailJoins(s) ==
    /\ Pending(s) /\ CanAttempt(s) /\ episode.gen # 0 /\ ~Matching(s)
    /\ IF episode.fate = "open"
       THEN /\ episode' = [episode EXCEPT !.waiters = @ \union {s}]
            /\ UNCHANGED doomed
       ELSE /\ doomed' = [doomed EXCEPT ![s] = TRUE]
            /\ UNCHANGED episode
    /\ pc' = Woken(Moved(s, "retrying"))
    /\ UNCHANGED <<stage, tries, refreshed, permit, nextGen, open, free, abandons>>

FailExhausts(s) ==
    /\ Pending(s) /\ ~CanAttempt(s) /\ (episode.gen = 0 \/ Matching(s))
    /\ LET e == IF episode.gen = 0 THEN NewEpisode(None, TRUE) ELSE episode
       IN /\ episode' = [e EXCEPT !.leader = None, !.probing = FALSE,
                                  !.fate = "cooling", !.waiters = {}]
          /\ doomed' = [t \in Sessions |-> doomed[t] \/ t \in e.waiters]
    /\ nextGen' = IF episode.gen = 0 THEN nextGen + 1 ELSE nextGen
    /\ pc' = Woken(Moved(s, "leaving"))
    /\ UNCHANGED <<stage, tries, refreshed, permit, open, free, abandons>>

FailAlone(s) ==
    /\ Pending(s) /\ ~CanAttempt(s) /\ episode.gen # 0 /\ ~Matching(s)
    /\ pc' = Moved(s, "leaving")
    /\ UNCHANGED <<stage, tries, doomed, refreshed, permit, episode, nextGen, open, free, abandons>>

-----------------------------------------------------------------------------
\* An accepted stream: the controller hears nothing more of it.

StreamEnds(s) ==
    /\ pc[s] = "streaming"
    /\ pc' = Moved(s, "leaving")
    /\ UNCHANGED <<stage, tries, doomed, refreshed, permit, episode, nextGen, open, free, abandons>>

\* EARLY_RETRY before anything was committed, or the next continuation of a
\* recovery that is not yet complete.
StreamRetries(s) ==
    /\ pc[s] = "streaming" /\ CanAttempt(s)
    /\ pc' = Moved(s, "retrying")
    /\ UNCHANGED <<stage, tries, doomed, refreshed, permit, episode, nextGen, open, free, abandons>>

\* MIDSTREAM_RECOVERY: run() awaits a new attempt before its finally closes
\* the interrupted one.
StreamRecovers(s) ==
    /\ pc[s] = "streaming" /\ Adapter = "chat" /\ stage[s] = "main" /\ CanAttempt(s)
    /\ stage' = [stage EXCEPT ![s] = "recovery"]
    /\ pc' = Moved(s, "gate")
    /\ UNCHANGED <<tries, doomed, refreshed, permit, episode, nextGen, open, free, abandons>>

\* The finally clauses: close the stream, then aclose the attempt.
Release(s) ==
    /\ open' = open \ {<<s, stage[s]>>}
    /\ free' = free + 1

CloseAndLoop(s) ==
    /\ pc[s] = "retrying" /\ CanAttempt(s)
    /\ Release(s)
    /\ pc' = Moved(s, IF Adapter = "codex" THEN "access" ELSE "gate")
    /\ UNCHANGED <<stage, tries, doomed, refreshed, permit, episode, nextGen, abandons>>

CloseAndLeave(s) ==
    /\ pc[s] = "leaving" \/ (pc[s] = "retrying" /\ ~CanAttempt(s))
    /\ Release(s)
    /\ pc' = Moved(s, ExitTo(s)) /\ stage' = Main(s)
    /\ UNCHANGED <<tries, doomed, refreshed, permit, episode, nextGen, abandons>>

\* codex: response.aclose() raises or is cancelled, and attempt.aclose(),
\* the next statement of the finally, never runs.
CloseRaises(s) ==
    /\ Adapter = "codex" /\ pc[s] \in {"retrying", "leaving", "cancelled"}
    /\ pc' = Moved(s, "done")
    /\ UNCHANGED <<stage, tries, doomed, refreshed, permit, episode, nextGen, open, free, abandons>>

CloseUnresolved(s) ==
    /\ pc[s] = "cancelled"
    /\ abandons' = abandons \union {s}
    /\ pc' = Moved(s, "abandoning")
    /\ UNCHANGED <<stage, tries, doomed, refreshed, permit, episode, nextGen, open, free>>

\* The shielded task runs, whatever became of the session that started it.
ShieldedAbandon(s) ==
    /\ s \in abandons
    /\ abandons' = abandons \ {s}
    /\ Settle(s, Unled, pc[s])
    /\ UNCHANGED <<stage, tries, doomed, refreshed, permit, nextGen, open, free>>

\* aclose returns, or its wait on the shielded task is cancelled in turn.
AbandonOver(s) ==
    /\ pc[s] = "abandoning"
    /\ Release(s)
    /\ pc' = Moved(s, ExitTo(s)) /\ stage' = Main(s)
    /\ UNCHANGED <<tries, doomed, refreshed, permit, episode, nextGen, abandons>>

-----------------------------------------------------------------------------
\* The caller, and its cancellation at each suspension point

Start(s) ==
    /\ pc[s] = "idle"
    /\ pc' = Moved(s, IF Adapter = "codex" THEN "access" ELSE "gate")
    /\ UNCHANGED <<stage, tries, doomed, refreshed, permit, episode, nextGen, open, free, abandons>>

\* codex: credentials are read (and refreshed) before every open_attempt.
Access(s) ==
    /\ pc[s] = "access"
    /\ \E to \in {"gate", "done"} : pc' = Moved(s, to)
    /\ UNCHANGED <<stage, tries, doomed, refreshed, permit, episode, nextGen, open, free, abandons>>

\* Mutant of CancelWait: the cancelled waiter stays in the episode.
CancelWaitStays(s) ==
    /\ pc[s] \in {"parked", "woken"}
    /\ pc' = Moved(s, ExitTo(s)) /\ stage' = Main(s)
    /\ UNCHANGED <<tries, doomed, refreshed, permit, episode, nextGen, open, free, abandons>>

\* asyncio.Condition hands the notification it may have consumed to one other.
CancelWait(s) ==
    /\ pc[s] \in {"parked", "woken"}
    /\ episode' = [episode EXCEPT !.waiters = @ \ {s}]
    /\ LET others == {t \in Sessions \ {s} : pc[t] = "parked"}
       IN IF others = {} THEN pc' = Moved(s, ExitTo(s))
          ELSE \E t \in others : pc' = [Moved(s, ExitTo(s)) EXCEPT ![t] = "woken"]
    /\ stage' = Main(s)
    /\ UNCHANGED <<tries, doomed, refreshed, permit, nextGen, open, free, abandons>>

\* _abandon_waiting_leader
CancelBackoff(s) ==
    /\ pc[s] = "backoff"
    /\ IF /\ episode.gen = permit[s] /\ episode.leader = s /\ ~episode.probing
       THEN /\ episode' = [episode EXCEPT !.leader = None]
            /\ pc' = Woken(Moved(s, ExitTo(s)))
       ELSE /\ pc' = Moved(s, ExitTo(s))
            /\ UNCHANGED episode
    /\ stage' = Main(s)
    /\ UNCHANGED <<tries, doomed, refreshed, permit, nextGen, open, free, abandons>>

CancelAdmission(s) ==
    /\ pc[s] \in {"rate", "slot"}
    /\ Settle(s, Unled, ExitTo(s))
    /\ stage' = Main(s)
    /\ UNCHANGED <<tries, doomed, refreshed, permit, nextGen, open, free, abandons>>

CancelUpstream(s) ==
    /\ Pending(s)
    /\ pc' = Moved(s, "cancelled")
    /\ UNCHANGED <<stage, tries, doomed, refreshed, permit, episode, nextGen, open, free, abandons>>

Cancel(s) == CancelWait(s) \/ CancelBackoff(s) \/ CancelAdmission(s) \/ CancelUpstream(s)

-----------------------------------------------------------------------------
Gate(s) ==
    \/ GateDoomed(s) \/ GateOpen(s) \/ GateCooling(s)
    \/ GateReprobe(s) \/ GateLead(s) \/ GatePark(s)
Admits(s) == RateRefused(s) \/ RateAdmits(s) \/ RateThenQueue(s)
Granted(s) == SlotAdmits(s) \/ SlotStale(s)
Failed(s) ==
    \/ FailOpensEpisode(s) \/ FailKeepsLead(s) \/ FailJoins(s)
    \/ FailExhausts(s) \/ FailAlone(s)
Respond(s) == StreamOpened(s) \/ FirstChunk(s) \/ Corrected(s) \/ Rejected(s) \/ Failed(s)
Stream(s) == StreamEnds(s) \/ StreamRetries(s) \/ StreamRecovers(s)
Closes(s) == CloseAndLoop(s) \/ CloseAndLeave(s) \/ CloseUnresolved(s) \/ AbandonOver(s)

\* Every session is over: the process idles.
Terminated == (\A s \in Sessions : pc[s] = "done") /\ abandons = {} /\ UNCHANGED vars

Next ==
    \/ \E s \in Sessions :
          \/ Start(s) \/ Access(s) \/ Gate(s) \/ BackoffDone(s) \/ Admits(s) \/ Granted(s)
          \/ Respond(s) \/ Stream(s) \/ Closes(s) \/ CloseRaises(s)
          \/ ShieldedAbandon(s) \/ Cancel(s)
    \/ ClockReady \/ CoolDown
    \/ Terminated

Spec == Init /\ [][Next]_vars

\* The event loop runs every runnable task, sleeps end, upstream answers or
\* times out, and the semaphore is first-in first-out.  Nobody need ever call
\* Start or cancel.
Fairness ==
    /\ \A s \in Sessions :
          /\ WF_vars(Gate(s)) /\ WF_vars(BackoffDone(s)) /\ WF_vars(Admits(s))
          /\ SF_vars(Granted(s))
          /\ WF_vars(Respond(s)) /\ WF_vars(Stream(s)) /\ WF_vars(Closes(s))
          /\ WF_vars(ShieldedAbandon(s))
    /\ WF_vars(ClockReady) /\ WF_vars(CoolDown)

FairSpec == Spec /\ Fairness

-----------------------------------------------------------------------------
TypeOK ==
    /\ pc \in [Sessions -> PCs]
    /\ stage \in [Sessions -> Stages]
    /\ tries \in [Sessions -> 0..MaxAttempts]
    /\ doomed \in [Sessions -> BOOLEAN]
    /\ refreshed \subseteq Sessions
    /\ permit \in [Sessions -> Nat]
    /\ episode \in Episodes
    /\ nextGen \in Nat \ {0}
    /\ open \subseteq Sessions \X Stages
    /\ free \in 0..MaxConcurrency
    /\ abandons \subseteq Sessions

\* The bulkhead's accounting: every slot is either free or held by exactly one
\* open attempt, across retries, cancellations and double cancellations.
SlotsConserved == free + Cardinality(open) = MaxConcurrency

\* Where a session holds a slot for the attempt of its current stage.
Holding == {"opening", "opened", "streaming", "retrying", "leaving", "cancelled", "abandoning"}

\* A slot is held by the sessions that are at an upstream attempt, and nobody
\* else: none leaks when an execution ends (ProviderAttempt.aclose).
SlotsOwned ==
    \A s \in Sessions :
        /\ (<<s, stage[s]>> \in open) = (pc[s] \in Holding)
        /\ stage[s] = "recovery" => <<s, "main">> \in open
        /\ stage[s] = "main" => <<s, "recovery">> \notin open

\* At most one session is about to send, or has sent, a half-open probe: the
\* leader of the episode ("the leader alone sends half-open probes").
SoleProbe ==
    \A s \in Sessions :
        permit[s] # 0 /\ pc[s] \in {"rate", "slot", "opening", "opened", "cancelled"}
            => Matching(s) /\ episode.fate = "open"

\* Nobody waits on the condition variable unless somebody is left who will
\* notify it: a leader that is still executing, or its shielded abandonment.
NoStrandedWaiter ==
    \A s \in Sessions : pc[s] = "parked" =>
        /\ episode.gen # 0 /\ episode.fate = "open"
        /\ episode.leader # None
        /\ \/ pc[episode.leader] \notin {"idle", "parked", "leaving", "done"}
           \/ episode.leader \in abandons

\* An episode's waiters are executions that will look at it again, so that its
\* terminal error reaches every coalesced execution and no other.
WaitersReturn ==
    /\ \A s \in episode.waiters : pc[s] \in {"parked", "woken", "gate", "retrying"}
    /\ \A s \in Sessions : pc[s] = "parked" => s \in episode.waiters

\* The episode is settled by the answer to its leader's probe.
SettledByProbe ==
    episode.gen # 0 /\ episode.fate = "open"
        /\ (episode'.gen # episode.gen \/ episode'.fate # "open")
    => /\ episode.probing
       /\ episode.leader \in Sessions
       /\ Pending(episode.leader)
       /\ pc'[episode.leader] # pc[episode.leader]

\* A late answer to an attempt admitted before the episode, or under an older
\* one, neither ends nor exhausts it: only the answer to the current probe does.
StaleOutcomesHarmless == [][SettledByProbe]_vars

NoDoomedAttempt ==
    \A s \in Sessions : doomed[s] => doomed'[s] /\ tries'[s] = tries[s]

\* The terminal outcome of an episode stays with every execution coalesced in
\* it: it never sends another attempt, even if a later recovery succeeds.
DoomedStayDoomed == [][NoDoomedAttempt]_vars

\* What an episode makes of an answer binds exactly those it is about: a stale
\* answer settles nothing, and a shared terminal outcome is never undone.
OutcomesBind == StaleOutcomesHarmless /\ DoomedStayDoomed

\* Every slot is held by a stream that was interrupted and waits for one more:
\* run() recovers before it closes the main attempt, so that slots are held in
\* retry backoff, which ARCHITECTURE.md says never happens.
Starved ==
    /\ free = 0
    /\ \A a \in open : a[2] = "main" /\ stage[a[1]] = "recovery"

\* Every execution that starts ends, whatever the upstream answers and whoever
\* is cancelled, unless interrupted streams hold the whole bulkhead.
EveryExecutionEnds ==
    \A s \in Sessions : pc[s] # "idle" ~> (pc[s] = "done" \/ Starved)

\* ProviderAttempt.aclose: "Release attempt ownership and its concurrency slot
\* exactly once", so an execution that is over holds no slot.
EndedHoldsNoSlot ==
    \A s \in Sessions : pc[s] = "done" => \A g \in Stages : <<s, g>> \notin open
=============================================================================
