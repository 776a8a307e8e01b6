--------------------------- MODULE AdmissionProofs ---------------------------
(***************************************************************************)
(* What holds of Admission for every set of sessions, every budget and     *)
(* every bulkhead.  The inductive invariant is built in layers, each       *)
(* proved from the ones before it.                                         *)
(***************************************************************************)
EXTENDS Admission, FiniteSetTheorems, TLAPS

\* TypeOK without the bounds that need an argument of their own.
Typed ==
    /\ pc \in [Sessions -> PCs]
    /\ stage \in [Sessions -> Stages]
    /\ tries \in [Sessions -> Nat]
    /\ doomed \in [Sessions -> BOOLEAN]
    /\ refreshed \subseteq Sessions
    /\ permit \in [Sessions -> Nat]
    /\ episode \in Episodes
    /\ nextGen \in Nat \ {0}
    /\ open \subseteq Sessions \X Stages
    /\ free \in Int
    /\ abandons \subseteq Sessions

\* Whoever may still open an attempt has budget left for it.
Budgeted ==
    \A s \in Sessions :
        /\ tries[s] <= MaxAttempts
        /\ pc[s] \in {"idle", "access", "gate", "parked", "woken", "backoff", "rate", "slot"}
               => tries[s] < MaxAttempts
        /\ pc[s] = "retrying" /\ Adapter = "chat" => tries[s] < MaxAttempts

\* Slots and open attempts; a codex execution may end with its slot leaked.
SlotsHeld ==
    \A s \in Sessions : Adapter = "chat" \/ pc[s] # "done" =>
        /\ (<<s, stage[s]>> \in open) = (pc[s] \in Holding)
        /\ stage[s] = "recovery" => <<s, "main">> \in open
        /\ stage[s] = "main" => <<s, "recovery">> \notin open

\* The semaphore and the attempts that hold it.
SlotsCounted == free >= 0 /\ IsFiniteSet(open) /\ SlotsConserved

\* The shapes an episode takes.
EpisodeShape ==
    /\ episode.gen = 0 =>
           episode.leader = None /\ episode.waiters = {} /\ episode.fate = "open"
    /\ episode.leader = None => ~episode.probing
    /\ episode.fate # "open" => episode.leader = None /\ episode.waiters = {}

\* Where the shielded abandonments were started from.
Abandoning ==
    \A s \in abandons : pc[s] \in {"abandoning", "leaving", "done"}

\* A leader without a probe is on its way to send one; a leader with a probe
\* is sending it, or handing it back.
LeaderPlaced ==
    \A s \in Sessions : episode.leader = s =>
        /\ ~doomed[s]
        /\ s \notin episode.waiters
        /\ pc[s] = "backoff" => permit[s] = episode.gen
        /\ \/ /\ episode.probing
              /\ permit[s] = episode.gen
              /\ pc[s] \in {"rate", "slot", "opening", "opened", "cancelled"} \/ s \in abandons
           \/ /\ ~episode.probing
              /\ \/ pc[s] \in {"retrying", "gate", "backoff"}
                 \/ Adapter = "codex" /\ pc[s] = "access"
           \/ Adapter = "codex" /\ pc[s] \in {"leaving", "done"}

\* A waiter waits for another's probe.
WaitersPlaced ==
    /\ \A s \in episode.waiters :
           /\ ~doomed[s]
           /\ \/ pc[s] \in {"parked", "woken", "gate", "retrying"}
              \/ Adapter = "codex" /\ pc[s] \in {"access", "leaving", "done"}
    /\ \A s \in Sessions : pc[s] = "parked" =>
           /\ s \in episode.waiters
           /\ episode.leader # None /\ episode.leader # s
           /\ episode.gen # 0 /\ episode.fate = "open"

\* A doomed execution never comes near an attempt again.
DoomedPlaced ==
    \A s \in Sessions : doomed[s] =>
        pc[s] \in {"woken", "gate", "retrying", "access", "leaving", "done"}

Coordinated == EpisodeShape /\ Abandoning /\ LeaderPlaced /\ WaitersPlaced /\ DoomedPlaced /\ SoleProbe

IInv == Typed /\ Budgeted /\ SlotsHeld /\ SlotsCounted /\ Coordinated

-----------------------------------------------------------------------------
\* Every step of the controller and its adapters keeps the types.
LEMMA TypedStep == ASSUME Typed, [Next]_vars PROVE Typed'
<1> USE DEF Typed, PCs, Stages, Episodes
<1>1. ASSUME NEW s \in Sessions, Start(s) PROVE Typed'
  BY <1>1 DEF Start, Moved
<1>2. ASSUME NEW s \in Sessions, Access(s) PROVE Typed'
  BY <1>2 DEF Access, Moved
<1>3. ASSUME NEW s \in Sessions, GateDoomed(s) PROVE Typed'
  BY <1>3 DEF GateDoomed, AtGate, ExitTo, Main, Moved
<1>4. ASSUME NEW s \in Sessions, GateOpen(s) PROVE Typed'
  BY <1>4 DEF GateOpen, AtGate, Moved
<1>5. ASSUME NEW s \in Sessions, GateCooling(s) PROVE Typed'
  BY <1>5 DEF GateCooling, Facing, AtGate, ExitTo, Main, Moved
<1>6. ASSUME NEW s \in Sessions, GateReprobe(s) PROVE Typed'
  <2>1. episode' \in Episodes
    BY <1>6 DEF GateReprobe, Facing, AtGate, NewEpisode, NoEpisode, Moved
  <2>2. pc' \in [Sessions -> PCs]
    BY <1>6 DEF GateReprobe, Facing, AtGate, NewEpisode, NoEpisode, Moved
  <2>3. doomed' \in [Sessions -> BOOLEAN]
    BY <1>6 DEF GateReprobe, Facing, AtGate, NewEpisode, NoEpisode, Moved
  <2>4. nextGen' \in Nat \ {0}
    BY <1>6 DEF GateReprobe, Facing, AtGate, NewEpisode, NoEpisode, Moved
  <2> QED
    BY <1>6, <2>1, <2>2, <2>3, <2>4 DEF GateReprobe
<1>7. ASSUME NEW s \in Sessions, GateLead(s) PROVE Typed'
  BY <1>7 DEF GateLead, Facing, AtGate, Moved
<1>8. ASSUME NEW s \in Sessions, GatePark(s) PROVE Typed'
  BY <1>8 DEF GatePark, Facing, AtGate, Moved
<1>9. ASSUME NEW s \in Sessions, BackoffDone(s) PROVE Typed'
  BY <1>9 DEF BackoffDone, Moved
<1>10. ASSUME NEW s \in Sessions, RateRefused(s) PROVE Typed'
  BY <1>10 DEF RateRefused, AdmitStale, Settle, Unled, Woken, Moved
<1>11. ASSUME NEW s \in Sessions, RateAdmits(s) PROVE Typed'
  BY <1>11 DEF RateAdmits, AdmitAttempt, Moved
<1>12. ASSUME NEW s \in Sessions, RateThenQueue(s) PROVE Typed'
  BY <1>12 DEF RateThenQueue, Moved
<1>13. ASSUME NEW s \in Sessions, SlotAdmits(s) PROVE Typed'
  BY <1>13 DEF SlotAdmits, AdmitAttempt, Moved
<1>14. ASSUME NEW s \in Sessions, SlotStale(s) PROVE Typed'
  BY <1>14 DEF SlotStale, AdmitStale, Settle, Unled, Woken, Moved
<1>15. ASSUME NEW s \in Sessions, StreamOpened(s) PROVE Typed'
  BY <1>15 DEF StreamOpened, Moved
<1>16. ASSUME NEW s \in Sessions, FirstChunk(s) PROVE Typed'
  BY <1>16 DEF FirstChunk, Settle, NoEpisode, Woken, Moved
<1>17. ASSUME NEW s \in Sessions, Corrected(s) PROVE Typed'
  BY <1>17 DEF Corrected, Settle, Woken, Moved
<1>18. ASSUME NEW s \in Sessions, Rejected(s) PROVE Typed'
  BY <1>18 DEF Rejected, Settle, NoEpisode, Woken, Pending, RetryOrLeave, Moved
<1>19. ASSUME NEW s \in Sessions, FailOpensEpisode(s) PROVE Typed'
  BY <1>19 DEF FailOpensEpisode, Pending, NewEpisode, NoEpisode, Woken, Moved
<1>20. ASSUME NEW s \in Sessions, FailKeepsLead(s) PROVE Typed'
  BY <1>20 DEF FailKeepsLead, Pending, Woken, Moved
<1>21. ASSUME NEW s \in Sessions, FailJoins(s) PROVE Typed'
  <2>1. episode' \in Episodes
    BY <1>21 DEF FailJoins, Pending, Woken, Moved
  <2>2. pc' \in [Sessions -> PCs]
    BY <1>21 DEF FailJoins, Pending, Woken, Moved
  <2>3. doomed' \in [Sessions -> BOOLEAN]
    BY <1>21 DEF FailJoins, Pending, Woken, Moved
  <2>4. nextGen' \in Nat \ {0}
    BY <1>21 DEF FailJoins, Pending, Woken, Moved
  <2> QED
    BY <1>21, <2>1, <2>2, <2>3, <2>4 DEF FailJoins
<1>22. ASSUME NEW s \in Sessions, FailExhausts(s) PROVE Typed'
  <2>1. episode' \in Episodes
    BY <1>22 DEF FailExhausts, Pending, Woken, NewEpisode, NoEpisode, Moved
  <2>2. pc' \in [Sessions -> PCs]
    BY <1>22 DEF FailExhausts, Pending, Woken, NewEpisode, NoEpisode, Moved
  <2>3. doomed' \in [Sessions -> BOOLEAN]
    BY <1>22 DEF FailExhausts, Pending, Woken, NewEpisode, NoEpisode, Moved
  <2>4. nextGen' \in Nat \ {0}
    BY <1>22 DEF FailExhausts, Pending, Woken, NewEpisode, NoEpisode, Moved
  <2> QED
    BY <1>22, <2>1, <2>2, <2>3, <2>4 DEF FailExhausts
<1>23. ASSUME NEW s \in Sessions, FailAlone(s) PROVE Typed'
  BY <1>23 DEF FailAlone, Pending, Moved
<1>24. ASSUME NEW s \in Sessions, StreamEnds(s) PROVE Typed'
  BY <1>24 DEF StreamEnds, Moved
<1>25. ASSUME NEW s \in Sessions, StreamRetries(s) PROVE Typed'
  BY <1>25 DEF StreamRetries, Moved
<1>26. ASSUME NEW s \in Sessions, StreamRecovers(s) PROVE Typed'
  BY <1>26 DEF StreamRecovers, Moved
<1>27. ASSUME NEW s \in Sessions, CloseAndLoop(s) PROVE Typed'
  BY <1>27 DEF CloseAndLoop, Release, Moved
<1>28. ASSUME NEW s \in Sessions, CloseAndLeave(s) PROVE Typed'
  BY <1>28 DEF CloseAndLeave, Release, ExitTo, Main, Moved
<1>29. ASSUME NEW s \in Sessions, CloseUnresolved(s) PROVE Typed'
  BY <1>29 DEF CloseUnresolved, Moved
<1>30. ASSUME NEW s \in Sessions, AbandonOver(s) PROVE Typed'
  BY <1>30 DEF AbandonOver, Release, ExitTo, Main, Moved
<1>31. ASSUME NEW s \in Sessions, CloseRaises(s) PROVE Typed'
  BY <1>31 DEF CloseRaises, Moved
<1>32. ASSUME NEW s \in Sessions, ShieldedAbandon(s) PROVE Typed'
  BY <1>32 DEF ShieldedAbandon, Settle, Unled, Woken, Moved
<1>33. ASSUME NEW s \in Sessions, CancelWait(s) PROVE Typed'
  BY <1>33 DEF CancelWait, ExitTo, Main, Moved
<1>34. ASSUME NEW s \in Sessions, CancelBackoff(s) PROVE Typed'
  BY <1>34 DEF CancelBackoff, ExitTo, Main, Woken, Moved
<1>35. ASSUME NEW s \in Sessions, CancelAdmission(s) PROVE Typed'
  BY <1>35 DEF CancelAdmission, Settle, Unled, Woken, ExitTo, Main, Moved
<1>36. ASSUME NEW s \in Sessions, CancelUpstream(s) PROVE Typed'
  BY <1>36 DEF CancelUpstream, Pending, Moved
<1>37. ASSUME ClockReady PROVE Typed'
  BY <1>37 DEF ClockReady
<1>38. ASSUME CoolDown PROVE Typed'
  BY <1>38 DEF CoolDown
<1>39. ASSUME UNCHANGED vars PROVE Typed'
  BY <1>39 DEF vars
<1> QED
  BY <1>1, <1>2, <1>3, <1>4, <1>5, <1>6, <1>7, <1>8, <1>9, <1>10, <1>11, <1>12, <1>13,
     <1>14, <1>15, <1>16, <1>17, <1>18, <1>19, <1>20, <1>21, <1>22, <1>23, <1>24, <1>25,
     <1>26, <1>27, <1>28, <1>29, <1>30, <1>31, <1>32, <1>33, <1>34, <1>35, <1>36, <1>37,
     <1>38, <1>39
  DEF Next, Gate, Admits, Granted, Failed, Respond, Stream, Closes, Cancel, Terminated

-----------------------------------------------------------------------------
\* Every step keeps the budgets, and each session's attempts where they belong.
Placed == Budgeted /\ SlotsHeld

LEMMA PlacedStep ==
    ASSUME Typed, Typed', Placed, [Next]_vars PROVE Placed'
<1> USE AttemptsAssumption, AdapterAssumption
    DEF Typed, PCs, Stages, CanAttempt, Placed, Budgeted, SlotsHeld, Holding
<1>1. ASSUME NEW s \in Sessions, Start(s) PROVE Placed'
  BY <1>1 DEF Start, Moved
<1>2. ASSUME NEW s \in Sessions, Access(s) PROVE Placed'
  BY <1>2 DEF Access, Moved
<1>3. ASSUME NEW s \in Sessions, GateDoomed(s) PROVE Placed'
  BY <1>3 DEF GateDoomed, AtGate, ExitTo, Main, Moved
<1>4. ASSUME NEW s \in Sessions, GateOpen(s) PROVE Placed'
  BY <1>4 DEF GateOpen, AtGate, Moved
<1>5. ASSUME NEW s \in Sessions, GateCooling(s) PROVE Placed'
  BY <1>5 DEF GateCooling, Facing, AtGate, ExitTo, Main, Moved
<1>6. ASSUME NEW s \in Sessions, GateReprobe(s) PROVE Placed'
  BY <1>6 DEF GateReprobe, Facing, AtGate, NewEpisode, NoEpisode, Moved
<1>7. ASSUME NEW s \in Sessions, GateLead(s) PROVE Placed'
  BY <1>7 DEF GateLead, Facing, AtGate, Moved
<1>8. ASSUME NEW s \in Sessions, GatePark(s) PROVE Placed'
  BY <1>8 DEF GatePark, Facing, AtGate, Moved
<1>9. ASSUME NEW s \in Sessions, BackoffDone(s) PROVE Placed'
  BY <1>9 DEF BackoffDone, Moved
<1>10. ASSUME NEW s \in Sessions, RateRefused(s) PROVE Placed'
  BY <1>10 DEF RateRefused, AdmitStale, Settle, Unled, Woken, Moved
<1>11. ASSUME NEW s \in Sessions, RateAdmits(s) PROVE Placed'
  BY <1>11 DEF RateAdmits, AdmitAttempt, Moved
<1>12. ASSUME NEW s \in Sessions, RateThenQueue(s) PROVE Placed'
  BY <1>12 DEF RateThenQueue, Moved
<1>13. ASSUME NEW s \in Sessions, SlotAdmits(s) PROVE Placed'
  BY <1>13 DEF SlotAdmits, AdmitAttempt, Moved
<1>14. ASSUME NEW s \in Sessions, SlotStale(s) PROVE Placed'
  BY <1>14 DEF SlotStale, AdmitStale, Settle, Unled, Woken, Moved
<1>15. ASSUME NEW s \in Sessions, StreamOpened(s) PROVE Placed'
  BY <1>15 DEF StreamOpened, Moved
<1>16. ASSUME NEW s \in Sessions, FirstChunk(s) PROVE Placed'
  BY <1>16 DEF FirstChunk, Settle, NoEpisode, Woken, Moved
<1>17. ASSUME NEW s \in Sessions, Corrected(s) PROVE Placed'
  BY <1>17 DEF Corrected, Settle, Woken, Moved
<1>18. ASSUME NEW s \in Sessions, Rejected(s) PROVE Placed'
  BY <1>18 DEF Rejected, Settle, NoEpisode, Woken, Pending, RetryOrLeave, Moved
<1>19. ASSUME NEW s \in Sessions, FailOpensEpisode(s) PROVE Placed'
  BY <1>19 DEF FailOpensEpisode, Pending, NewEpisode, NoEpisode, Woken, Moved
<1>20. ASSUME NEW s \in Sessions, FailKeepsLead(s) PROVE Placed'
  BY <1>20 DEF FailKeepsLead, Pending, Woken, Moved
<1>21. ASSUME NEW s \in Sessions, FailJoins(s) PROVE Placed'
  BY <1>21 DEF FailJoins, Pending, Woken, Moved
<1>22. ASSUME NEW s \in Sessions, FailExhausts(s) PROVE Placed'
  BY <1>22 DEF FailExhausts, Pending, Woken, NewEpisode, NoEpisode, Moved
<1>23. ASSUME NEW s \in Sessions, FailAlone(s) PROVE Placed'
  BY <1>23 DEF FailAlone, Pending, Moved
<1>24. ASSUME NEW s \in Sessions, StreamEnds(s) PROVE Placed'
  BY <1>24 DEF StreamEnds, Moved
<1>25. ASSUME NEW s \in Sessions, StreamRetries(s) PROVE Placed'
  BY <1>25 DEF StreamRetries, Moved
<1>26. ASSUME NEW s \in Sessions, StreamRecovers(s) PROVE Placed'
  BY <1>26 DEF StreamRecovers, Moved
<1>27. ASSUME NEW s \in Sessions, CloseAndLoop(s) PROVE Placed'
  BY <1>27 DEF CloseAndLoop, Release, Moved
<1>28. ASSUME NEW s \in Sessions, CloseAndLeave(s) PROVE Placed'
  BY <1>28 DEF CloseAndLeave, Release, ExitTo, Main, Moved
<1>29. ASSUME NEW s \in Sessions, CloseUnresolved(s) PROVE Placed'
  BY <1>29 DEF CloseUnresolved, Moved
<1>30. ASSUME NEW s \in Sessions, AbandonOver(s) PROVE Placed'
  BY <1>30 DEF AbandonOver, Release, ExitTo, Main, Moved
<1>31. ASSUME NEW s \in Sessions, CloseRaises(s) PROVE Placed'
  BY <1>31 DEF CloseRaises, Moved
<1>32. ASSUME NEW s \in Sessions, ShieldedAbandon(s) PROVE Placed'
  BY <1>32 DEF ShieldedAbandon, Settle, Unled, Woken, Moved
<1>33. ASSUME NEW s \in Sessions, CancelWait(s) PROVE Placed'
  BY <1>33 DEF CancelWait, ExitTo, Main, Moved
<1>34. ASSUME NEW s \in Sessions, CancelBackoff(s) PROVE Placed'
  BY <1>34 DEF CancelBackoff, ExitTo, Main, Woken, Moved
<1>35. ASSUME NEW s \in Sessions, CancelAdmission(s) PROVE Placed'
  BY <1>35 DEF CancelAdmission, Settle, Unled, Woken, ExitTo, Main, Moved
<1>36. ASSUME NEW s \in Sessions, CancelUpstream(s) PROVE Placed'
  BY <1>36 DEF CancelUpstream, Pending, Moved
<1>37. ASSUME ClockReady PROVE Placed'
  BY <1>37 DEF ClockReady
<1>38. ASSUME CoolDown PROVE Placed'
  BY <1>38 DEF CoolDown
<1>39. ASSUME UNCHANGED vars PROVE Placed'
  BY <1>39 DEF vars
<1> QED
  BY <1>1, <1>2, <1>3, <1>4, <1>5, <1>6, <1>7, <1>8, <1>9, <1>10, <1>11, <1>12, <1>13,
     <1>14, <1>15, <1>16, <1>17, <1>18, <1>19, <1>20, <1>21, <1>22, <1>23, <1>24, <1>25,
     <1>26, <1>27, <1>28, <1>29, <1>30, <1>31, <1>32, <1>33, <1>34, <1>35, <1>36, <1>37,
     <1>38, <1>39
  DEF Next, Gate, Admits, Granted, Failed, Respond, Stream, Closes, Cancel, Terminated

-----------------------------------------------------------------------------
\* A step that touches the semaphore admits one attempt that was not open, or
\* releases one that was.
LEMMA SlotSteps ==
    ASSUME Typed, Placed, [Next]_vars
    PROVE  \/ UNCHANGED <<open, free>>
           \/ \E a \in (Sessions \X Stages) \ open :
                 free > 0 /\ open' = open \union {a} /\ free' = free - 1
           \/ \E a \in open : open' = open \ {a} /\ free' = free + 1
<1> USE DEF Typed, Stages, Placed, Budgeted, SlotsHeld, Holding
<1>1. ASSUME NEW s \in Sessions, RateAdmits(s) \/ SlotAdmits(s)
      PROVE  /\ <<s, stage[s]>> \in (Sessions \X Stages) \ open
             /\ free > 0 /\ open' = open \union {<<s, stage[s]>>} /\ free' = free - 1
  BY <1>1 DEF RateAdmits, SlotAdmits, SlotAtOnce, AdmitAttempt
<1>2. ASSUME NEW s \in Sessions, CloseAndLoop(s) \/ CloseAndLeave(s) \/ AbandonOver(s)
      PROVE  /\ <<s, stage[s]>> \in open
             /\ open' = open \ {<<s, stage[s]>>} /\ free' = free + 1
  BY <1>2 DEF CloseAndLoop, CloseAndLeave, AbandonOver, Release
<1>3. ASSUME NEW s \in Sessions,
             \/ Start(s) \/ Access(s) \/ Gate(s) \/ BackoffDone(s) \/ RateRefused(s)
             \/ RateThenQueue(s) \/ SlotStale(s) \/ Respond(s) \/ Stream(s)
             \/ CloseUnresolved(s) \/ CloseRaises(s) \/ ShieldedAbandon(s) \/ Cancel(s)
      PROVE  UNCHANGED <<open, free>>
  <2>1. CASE Start(s) \/ Access(s) \/ Gate(s) \/ BackoffDone(s)
    BY <2>1 DEF Start, Access, Gate, BackoffDone, GateDoomed, GateOpen, GateCooling,
         GateReprobe, GateLead, GatePark
  <2>2. CASE RateRefused(s) \/ RateThenQueue(s) \/ SlotStale(s)
    BY <2>2 DEF RateRefused, RateThenQueue, SlotStale, AdmitStale
  <2>3. CASE Respond(s)
    BY <2>3 DEF Respond, StreamOpened, FirstChunk, Corrected, Rejected, Failed,
         FailOpensEpisode, FailKeepsLead, FailJoins, FailExhausts, FailAlone
  <2>4. CASE Stream(s) \/ CloseUnresolved(s) \/ CloseRaises(s) \/ ShieldedAbandon(s)
    BY <2>4 DEF Stream, StreamEnds, StreamRetries, StreamRecovers, CloseUnresolved,
         CloseRaises, ShieldedAbandon
  <2>5. CASE Cancel(s)
    BY <2>5 DEF Cancel, CancelWait, CancelBackoff, CancelAdmission, CancelUpstream
  <2> QED
    BY <1>3, <2>1, <2>2, <2>3, <2>4, <2>5
<1>4. ASSUME ClockReady \/ CoolDown \/ UNCHANGED vars PROVE UNCHANGED <<open, free>>
  BY <1>4 DEF ClockReady, CoolDown, vars
<1>5. CASE \E s \in Sessions : RateAdmits(s) \/ SlotAdmits(s)
  BY <1>1, <1>5
<1>6. CASE \E s \in Sessions : CloseAndLoop(s) \/ CloseAndLeave(s) \/ AbandonOver(s)
  BY <1>2, <1>6
<1> QED
  BY <1>3, <1>4, <1>5, <1>6 DEF Next, Admits, Granted, Closes, Terminated

LEMMA CountedStep ==
    ASSUME Typed, Placed, SlotsCounted, [Next]_vars PROVE SlotsCounted'
<1> USE DEF SlotsCounted, SlotsConserved
<1>1. Cardinality(open) \in Nat
  BY FS_CardinalityType
<1>2. CASE UNCHANGED <<open, free>>
  BY <1>2
<1>3. ASSUME NEW a \in (Sessions \X Stages) \ open, free > 0,
             open' = open \union {a}, free' = free - 1
      PROVE  SlotsCounted'
  <2>1. IsFiniteSet(open') /\ Cardinality(open') = Cardinality(open) + 1
    BY <1>3, FS_AddElement
  <2> QED
    BY <1>1, <1>3, <2>1, ConcurrencyAssumption DEF Typed
<1>4. ASSUME NEW a \in open, open' = open \ {a}, free' = free + 1
      PROVE  SlotsCounted'
  <2>1. IsFiniteSet(open') /\ Cardinality(open') = Cardinality(open) - 1
    BY <1>4, FS_RemoveElement
  <2> QED
    BY <1>1, <1>4, <2>1, ConcurrencyAssumption DEF Typed
<1> QED
  BY <1>2, <1>3, <1>4, SlotSteps

-----------------------------------------------------------------------------
\* Every step keeps the episode, its leader, its waiters and its casualties
\* in their places.
LEMMA CoordinatedStep ==
    ASSUME Typed, Typed', Budgeted, Coordinated, [Next]_vars PROVE Coordinated'
<1> USE SessionsAssumption, AdapterAssumption
    DEF Typed, Episodes, PCs, Matching, PermitIsCurrent, CanAttempt, Budgeted, Coordinated,
        EpisodeShape, Abandoning, LeaderPlaced, WaitersPlaced, DoomedPlaced, SoleProbe
<1>1. ASSUME NEW s \in Sessions, Start(s) PROVE Coordinated'
  BY <1>1 DEF Start, Moved
<1>2. ASSUME NEW s \in Sessions, Access(s) PROVE Coordinated'
  BY <1>2 DEF Access, Moved
<1>3. ASSUME NEW s \in Sessions, GateDoomed(s) PROVE Coordinated'
  BY <1>3 DEF GateDoomed, AtGate, ExitTo, Main, Moved
<1>4. ASSUME NEW s \in Sessions, GateOpen(s) PROVE Coordinated'
  BY <1>4 DEF GateOpen, AtGate, Moved
<1>5. ASSUME NEW s \in Sessions, GateCooling(s) PROVE Coordinated'
  BY <1>5 DEF GateCooling, Facing, AtGate, ExitTo, Main, Moved
<1>6. ASSUME NEW s \in Sessions, GateReprobe(s) PROVE Coordinated'
  BY <1>6 DEF GateReprobe, Facing, AtGate, NewEpisode, NoEpisode, Moved
<1>7. ASSUME NEW s \in Sessions, GateLead(s) PROVE Coordinated'
  BY <1>7 DEF GateLead, Facing, AtGate, Moved
<1>8. ASSUME NEW s \in Sessions, GatePark(s) PROVE Coordinated'
  BY <1>8 DEF GatePark, Facing, AtGate, Moved
<1>9. ASSUME NEW s \in Sessions, BackoffDone(s) PROVE Coordinated'
  BY <1>9 DEF BackoffDone, Moved
<1>10. ASSUME NEW s \in Sessions, RateRefused(s) PROVE Coordinated'
  BY <1>10 DEF RateRefused, AdmitStale, Settle, Unled, Woken, Moved
<1>11. ASSUME NEW s \in Sessions, RateAdmits(s) PROVE Coordinated'
  BY <1>11 DEF RateAdmits, AdmitAttempt, Moved
<1>12. ASSUME NEW s \in Sessions, RateThenQueue(s) PROVE Coordinated'
  BY <1>12 DEF RateThenQueue, Moved
<1>13. ASSUME NEW s \in Sessions, SlotAdmits(s) PROVE Coordinated'
  BY <1>13 DEF SlotAdmits, AdmitAttempt, Moved
<1>14. ASSUME NEW s \in Sessions, SlotStale(s) PROVE Coordinated'
  BY <1>14 DEF SlotStale, AdmitStale, Settle, Unled, Woken, Moved
<1>15. ASSUME NEW s \in Sessions, StreamOpened(s) PROVE Coordinated'
  BY <1>15 DEF StreamOpened, Moved
<1>16. ASSUME NEW s \in Sessions, FirstChunk(s) PROVE Coordinated'
  BY <1>16 DEF FirstChunk, Settle, NoEpisode, Woken, Moved
<1>17. ASSUME NEW s \in Sessions, Corrected(s) PROVE Coordinated'
  BY <1>17 DEF Corrected, Settle, Woken, Moved
<1>18. ASSUME NEW s \in Sessions, Rejected(s) PROVE Coordinated'
  BY <1>18 DEF Rejected, Settle, NoEpisode, Woken, Pending, RetryOrLeave, Moved
<1>19. ASSUME NEW s \in Sessions, FailOpensEpisode(s) PROVE Coordinated'
  BY <1>19 DEF FailOpensEpisode, Pending, NewEpisode, NoEpisode, Woken, Moved
<1>20. ASSUME NEW s \in Sessions, FailKeepsLead(s) PROVE Coordinated'
  BY <1>20 DEF FailKeepsLead, Pending, Woken, Moved
<1>21. ASSUME NEW s \in Sessions, FailJoins(s) PROVE Coordinated'
  BY <1>21 DEF FailJoins, Pending, Woken, Moved
<1>22. ASSUME NEW s \in Sessions, FailExhausts(s) PROVE Coordinated'
  BY <1>22 DEF FailExhausts, Pending, Woken, NewEpisode, NoEpisode, Moved
<1>23. ASSUME NEW s \in Sessions, FailAlone(s) PROVE Coordinated'
  BY <1>23 DEF FailAlone, Pending, Moved
<1>24. ASSUME NEW s \in Sessions, StreamEnds(s) PROVE Coordinated'
  BY <1>24 DEF StreamEnds, Moved
<1>25. ASSUME NEW s \in Sessions, StreamRetries(s) PROVE Coordinated'
  BY <1>25 DEF StreamRetries, Moved
<1>26. ASSUME NEW s \in Sessions, StreamRecovers(s) PROVE Coordinated'
  BY <1>26 DEF StreamRecovers, Moved
<1>27. ASSUME NEW s \in Sessions, CloseAndLoop(s) PROVE Coordinated'
  BY <1>27 DEF CloseAndLoop, Release, Moved
<1>28. ASSUME NEW s \in Sessions, CloseAndLeave(s) PROVE Coordinated'
  BY <1>28 DEF CloseAndLeave, Release, ExitTo, Main, Moved
<1>29. ASSUME NEW s \in Sessions, CloseUnresolved(s) PROVE Coordinated'
  BY <1>29 DEF CloseUnresolved, Moved
<1>30. ASSUME NEW s \in Sessions, AbandonOver(s) PROVE Coordinated'
  BY <1>30 DEF AbandonOver, Release, ExitTo, Main, Moved
<1>31. ASSUME NEW s \in Sessions, CloseRaises(s) PROVE Coordinated'
  BY <1>31 DEF CloseRaises, Moved
<1>32. ASSUME NEW s \in Sessions, ShieldedAbandon(s) PROVE Coordinated'
  BY <1>32 DEF ShieldedAbandon, Settle, Unled, Woken, Moved
<1>33. ASSUME NEW s \in Sessions, CancelWait(s) PROVE Coordinated'
  BY <1>33 DEF CancelWait, ExitTo, Main, Moved
<1>34. ASSUME NEW s \in Sessions, CancelBackoff(s) PROVE Coordinated'
  BY <1>34 DEF CancelBackoff, ExitTo, Main, Woken, Moved
<1>35. ASSUME NEW s \in Sessions, CancelAdmission(s) PROVE Coordinated'
  BY <1>35 DEF CancelAdmission, Settle, Unled, Woken, ExitTo, Main, Moved
<1>36. ASSUME NEW s \in Sessions, CancelUpstream(s) PROVE Coordinated'
  BY <1>36 DEF CancelUpstream, Pending, Moved
<1>37. ASSUME ClockReady PROVE Coordinated'
  BY <1>37 DEF ClockReady
<1>38. ASSUME CoolDown PROVE Coordinated'
  BY <1>38 DEF CoolDown
<1>39. ASSUME UNCHANGED vars PROVE Coordinated'
  BY <1>39 DEF vars
<1> QED
  BY <1>1, <1>2, <1>3, <1>4, <1>5, <1>6, <1>7, <1>8, <1>9, <1>10, <1>11, <1>12, <1>13,
     <1>14, <1>15, <1>16, <1>17, <1>18, <1>19, <1>20, <1>21, <1>22, <1>23, <1>24, <1>25,
     <1>26, <1>27, <1>28, <1>29, <1>30, <1>31, <1>32, <1>33, <1>34, <1>35, <1>36, <1>37,
     <1>38, <1>39
  DEF Next, Gate, Admits, Granted, Failed, Respond, Stream, Closes, Cancel, Terminated

-----------------------------------------------------------------------------
LEMMA InitIInv == Init => IInv
<1> SUFFICES ASSUME Init PROVE IInv
  OBVIOUS
<1> USE DEF Init, NoEpisode
<1>1. Typed
  BY ConcurrencyAssumption DEF Typed, PCs, Stages, Episodes
<1>2. Budgeted /\ SlotsHeld
  BY AttemptsAssumption DEF Budgeted, SlotsHeld, Holding
<1>3. SlotsCounted
  BY ConcurrencyAssumption, FS_EmptySet DEF SlotsCounted, SlotsConserved
<1>4. Coordinated
  BY SessionsAssumption DEF Coordinated, EpisodeShape, Abandoning, LeaderPlaced,
     WaitersPlaced, DoomedPlaced, SoleProbe
<1> QED
  BY <1>1, <1>2, <1>3, <1>4 DEF IInv

\* The inductive invariant.
THEOREM Invariance == Spec => []IInv
<1>1. IInv /\ [Next]_vars => IInv'
  BY TypedStep, PlacedStep, CountedStep, CoordinatedStep DEF IInv, Placed
<1> QED
  BY InitIInv, <1>1, PTL DEF Spec

\* Every variable keeps its type, and the semaphore and the budgets their bounds.
THEOREM TypeCorrectness == Spec => []TypeOK
<1>1. IInv => TypeOK
  <2> SUFFICES ASSUME IInv PROVE TypeOK
    OBVIOUS
  <2>1. free \in 0..MaxConcurrency
    BY FS_CardinalityType, ConcurrencyAssumption DEF IInv, Typed, SlotsCounted, SlotsConserved
  <2>2. tries \in [Sessions -> 0..MaxAttempts]
    BY AttemptsAssumption DEF IInv, Typed, Budgeted
  <2> QED
    BY <2>1, <2>2 DEF IInv, Typed, TypeOK
<1> QED
  BY Invariance, <1>1, PTL

\* The bulkhead's accounting is exact under either adapter.
THEOREM SlotConservation == Spec => []SlotsConserved
<1>1. IInv => SlotsConserved
  BY DEF IInv, SlotsCounted
<1> QED
  BY Invariance, <1>1, PTL

\* With the chat adapter no slot outlives its attempt.
THEOREM SlotOwnership == ASSUME Adapter = "chat" PROVE Spec => []SlotsOwned
<1>1. IInv => SlotsOwned
  BY DEF IInv, SlotsHeld, SlotsOwned
<1> QED
  BY Invariance, <1>1, PTL

\* There is never a second half-open probe.
THEOREM ProbeExclusion == Spec => []SoleProbe
<1>1. IInv => SoleProbe
  BY DEF IInv, Coordinated
<1> QED
  BY Invariance, <1>1, PTL

\* With the chat adapter, a session that waits has a live leader to wait for.
THEOREM WaitersAreLed == ASSUME Adapter = "chat" PROVE Spec => []NoStrandedWaiter
<1>1. IInv => NoStrandedWaiter
  BY DEF IInv, Typed, Episodes, Coordinated, LeaderPlaced, WaitersPlaced, NoStrandedWaiter
<1> QED
  BY Invariance, <1>1, PTL

\* With the chat adapter, the executions an episode can doom are exactly ones
\* that will look at it again.
THEOREM WaitersComeBack == ASSUME Adapter = "chat" PROVE Spec => []WaitersReturn
<1>1. IInv => WaitersReturn
  BY DEF IInv, Coordinated, WaitersPlaced, WaitersReturn
<1> QED
  BY Invariance, <1>1, PTL

-----------------------------------------------------------------------------
LEMMA SettledStep ==
    ASSUME Typed, Coordinated, [Next]_vars PROVE SettledByProbe \/ UNCHANGED vars
<1> USE SessionsAssumption
    DEF Typed, Episodes, PCs, Matching, PermitIsCurrent, Coordinated, EpisodeShape,
        LeaderPlaced, SoleProbe, Pending, SettledByProbe
<1>1. ASSUME NEW s \in Sessions, Start(s) PROVE SettledByProbe
  BY <1>1 DEF Start, Moved
<1>2. ASSUME NEW s \in Sessions, Access(s) PROVE SettledByProbe
  BY <1>2 DEF Access, Moved
<1>3. ASSUME NEW s \in Sessions, GateDoomed(s) PROVE SettledByProbe
  BY <1>3 DEF GateDoomed, AtGate, ExitTo, Main, Moved
<1>4. ASSUME NEW s \in Sessions, GateOpen(s) PROVE SettledByProbe
  BY <1>4 DEF GateOpen, AtGate, Moved
<1>5. ASSUME NEW s \in Sessions, GateCooling(s) PROVE SettledByProbe
  BY <1>5 DEF GateCooling, Facing, AtGate, ExitTo, Main, Moved
<1>6. ASSUME NEW s \in Sessions, GateReprobe(s) PROVE SettledByProbe
  BY <1>6 DEF GateReprobe, Facing, AtGate, NewEpisode, NoEpisode, Moved
<1>7. ASSUME NEW s \in Sessions, GateLead(s) PROVE SettledByProbe
  BY <1>7 DEF GateLead, Facing, AtGate, Moved
<1>8. ASSUME NEW s \in Sessions, GatePark(s) PROVE SettledByProbe
  BY <1>8 DEF GatePark, Facing, AtGate, Moved
<1>9. ASSUME NEW s \in Sessions, BackoffDone(s) PROVE SettledByProbe
  BY <1>9 DEF BackoffDone, Moved
<1>10. ASSUME NEW s \in Sessions, RateRefused(s) PROVE SettledByProbe
  BY <1>10 DEF RateRefused, AdmitStale, Settle, Unled, Woken, Moved
<1>11. ASSUME NEW s \in Sessions, RateAdmits(s) PROVE SettledByProbe
  BY <1>11 DEF RateAdmits, AdmitAttempt, Moved
<1>12. ASSUME NEW s \in Sessions, RateThenQueue(s) PROVE SettledByProbe
  BY <1>12 DEF RateThenQueue, Moved
<1>13. ASSUME NEW s \in Sessions, SlotAdmits(s) PROVE SettledByProbe
  BY <1>13 DEF SlotAdmits, AdmitAttempt, Moved
<1>14. ASSUME NEW s \in Sessions, SlotStale(s) PROVE SettledByProbe
  BY <1>14 DEF SlotStale, AdmitStale, Settle, Unled, Woken, Moved
<1>15. ASSUME NEW s \in Sessions, StreamOpened(s) PROVE SettledByProbe
  BY <1>15 DEF StreamOpened, Moved
<1>16. ASSUME NEW s \in Sessions, FirstChunk(s) PROVE SettledByProbe
  BY <1>16 DEF FirstChunk, Settle, NoEpisode, Woken, Moved
<1>17. ASSUME NEW s \in Sessions, Corrected(s) PROVE SettledByProbe
  BY <1>17 DEF Corrected, Settle, Woken, Moved
<1>18. ASSUME NEW s \in Sessions, Rejected(s) PROVE SettledByProbe
  BY <1>18 DEF Rejected, Settle, NoEpisode, Woken, Pending, RetryOrLeave, Moved
<1>19. ASSUME NEW s \in Sessions, FailOpensEpisode(s) PROVE SettledByProbe
  BY <1>19 DEF FailOpensEpisode, Pending, NewEpisode, NoEpisode, Woken, Moved
<1>20. ASSUME NEW s \in Sessions, FailKeepsLead(s) PROVE SettledByProbe
  BY <1>20 DEF FailKeepsLead, Pending, Woken, Moved
<1>21. ASSUME NEW s \in Sessions, FailJoins(s) PROVE SettledByProbe
  BY <1>21 DEF FailJoins, Pending, Woken, Moved
<1>22. ASSUME NEW s \in Sessions, FailExhausts(s) PROVE SettledByProbe
  BY <1>22 DEF FailExhausts, Pending, Woken, NewEpisode, NoEpisode, Moved
<1>23. ASSUME NEW s \in Sessions, FailAlone(s) PROVE SettledByProbe
  BY <1>23 DEF FailAlone, Pending, Moved
<1>24. ASSUME NEW s \in Sessions, StreamEnds(s) PROVE SettledByProbe
  BY <1>24 DEF StreamEnds, Moved
<1>25. ASSUME NEW s \in Sessions, StreamRetries(s) PROVE SettledByProbe
  BY <1>25 DEF StreamRetries, Moved
<1>26. ASSUME NEW s \in Sessions, StreamRecovers(s) PROVE SettledByProbe
  BY <1>26 DEF StreamRecovers, Moved
<1>27. ASSUME NEW s \in Sessions, CloseAndLoop(s) PROVE SettledByProbe
  BY <1>27 DEF CloseAndLoop, Release, Moved
<1>28. ASSUME NEW s \in Sessions, CloseAndLeave(s) PROVE SettledByProbe
  BY <1>28 DEF CloseAndLeave, Release, ExitTo, Main, Moved
<1>29. ASSUME NEW s \in Sessions, CloseUnresolved(s) PROVE SettledByProbe
  BY <1>29 DEF CloseUnresolved, Moved
<1>30. ASSUME NEW s \in Sessions, AbandonOver(s) PROVE SettledByProbe
  BY <1>30 DEF AbandonOver, Release, ExitTo, Main, Moved
<1>31. ASSUME NEW s \in Sessions, CloseRaises(s) PROVE SettledByProbe
  BY <1>31 DEF CloseRaises, Moved
<1>32. ASSUME NEW s \in Sessions, ShieldedAbandon(s) PROVE SettledByProbe
  BY <1>32 DEF ShieldedAbandon, Settle, Unled, Woken, Moved
<1>33. ASSUME NEW s \in Sessions, CancelWait(s) PROVE SettledByProbe
  BY <1>33 DEF CancelWait, ExitTo, Main, Moved
<1>34. ASSUME NEW s \in Sessions, CancelBackoff(s) PROVE SettledByProbe
  BY <1>34 DEF CancelBackoff, ExitTo, Main, Woken, Moved
<1>35. ASSUME NEW s \in Sessions, CancelAdmission(s) PROVE SettledByProbe
  BY <1>35 DEF CancelAdmission, Settle, Unled, Woken, ExitTo, Main, Moved
<1>36. ASSUME NEW s \in Sessions, CancelUpstream(s) PROVE SettledByProbe
  BY <1>36 DEF CancelUpstream, Pending, Moved
<1>37. ASSUME ClockReady PROVE SettledByProbe
  BY <1>37 DEF ClockReady
<1>38. ASSUME CoolDown PROVE SettledByProbe
  BY <1>38 DEF CoolDown
<1>39. CASE UNCHANGED vars
  BY <1>39 DEF vars
<1> QED
  BY <1>1, <1>2, <1>3, <1>4, <1>5, <1>6, <1>7, <1>8, <1>9, <1>10, <1>11, <1>12, <1>13,
     <1>14, <1>15, <1>16, <1>17, <1>18, <1>19, <1>20, <1>21, <1>22, <1>23, <1>24, <1>25,
     <1>26, <1>27, <1>28, <1>29, <1>30, <1>31, <1>32, <1>33, <1>34, <1>35, <1>36, <1>37,
     <1>38, <1>39
  DEF Next, Gate, Admits, Granted, Failed, Respond, Stream, Closes, Cancel, Terminated

\* A stale answer settles nothing, under either adapter.
THEOREM StaleAnswers == Spec => StaleOutcomesHarmless
<1>1. IInv /\ [Next]_vars => [SettledByProbe]_vars
  BY SettledStep DEF IInv
<1> QED
  BY Invariance, <1>1, PTL DEF Spec, StaleOutcomesHarmless

LEMMA DoomedStep ==
    ASSUME Typed, Coordinated, [Next]_vars PROVE NoDoomedAttempt \/ UNCHANGED vars
<1> USE SessionsAssumption
    DEF Typed, PCs, Coordinated, DoomedPlaced, NoDoomedAttempt
<1>1. ASSUME NEW s \in Sessions, Start(s) PROVE NoDoomedAttempt
  BY <1>1 DEF Start, Moved
<1>2. ASSUME NEW s \in Sessions, Access(s) PROVE NoDoomedAttempt
  BY <1>2 DEF Access, Moved
<1>3. ASSUME NEW s \in Sessions, GateDoomed(s) PROVE NoDoomedAttempt
  BY <1>3 DEF GateDoomed, AtGate, ExitTo, Main, Moved
<1>4. ASSUME NEW s \in Sessions, GateOpen(s) PROVE NoDoomedAttempt
  BY <1>4 DEF GateOpen, AtGate, Moved
<1>5. ASSUME NEW s \in Sessions, GateCooling(s) PROVE NoDoomedAttempt
  BY <1>5 DEF GateCooling, Facing, AtGate, ExitTo, Main, Moved
<1>6. ASSUME NEW s \in Sessions, GateReprobe(s) PROVE NoDoomedAttempt
  BY <1>6 DEF GateReprobe, Facing, AtGate, NewEpisode, NoEpisode, Moved
<1>7. ASSUME NEW s \in Sessions, GateLead(s) PROVE NoDoomedAttempt
  BY <1>7 DEF GateLead, Facing, AtGate, Moved
<1>8. ASSUME NEW s \in Sessions, GatePark(s) PROVE NoDoomedAttempt
  BY <1>8 DEF GatePark, Facing, AtGate, Moved
<1>9. ASSUME NEW s \in Sessions, BackoffDone(s) PROVE NoDoomedAttempt
  BY <1>9 DEF BackoffDone, Moved
<1>10. ASSUME NEW s \in Sessions, RateRefused(s) PROVE NoDoomedAttempt
  BY <1>10 DEF RateRefused, AdmitStale, Settle, Unled, Woken, Moved
<1>11. ASSUME NEW s \in Sessions, RateAdmits(s) PROVE NoDoomedAttempt
  BY <1>11 DEF RateAdmits, AdmitAttempt, Moved
<1>12. ASSUME NEW s \in Sessions, RateThenQueue(s) PROVE NoDoomedAttempt
  BY <1>12 DEF RateThenQueue, Moved
<1>13. ASSUME NEW s \in Sessions, SlotAdmits(s) PROVE NoDoomedAttempt
  BY <1>13 DEF SlotAdmits, AdmitAttempt, Moved
<1>14. ASSUME NEW s \in Sessions, SlotStale(s) PROVE NoDoomedAttempt
  BY <1>14 DEF SlotStale, AdmitStale, Settle, Unled, Woken, Moved
<1>15. ASSUME NEW s \in Sessions, StreamOpened(s) PROVE NoDoomedAttempt
  BY <1>15 DEF StreamOpened, Moved
<1>16. ASSUME NEW s \in Sessions, FirstChunk(s) PROVE NoDoomedAttempt
  BY <1>16 DEF FirstChunk, Settle, NoEpisode, Woken, Moved
<1>17. ASSUME NEW s \in Sessions, Corrected(s) PROVE NoDoomedAttempt
  BY <1>17 DEF Corrected, Settle, Woken, Moved
<1>18. ASSUME NEW s \in Sessions, Rejected(s) PROVE NoDoomedAttempt
  BY <1>18 DEF Rejected, Settle, NoEpisode, Woken, Pending, RetryOrLeave, Moved
<1>19. ASSUME NEW s \in Sessions, FailOpensEpisode(s) PROVE NoDoomedAttempt
  BY <1>19 DEF FailOpensEpisode, Pending, NewEpisode, NoEpisode, Woken, Moved
<1>20. ASSUME NEW s \in Sessions, FailKeepsLead(s) PROVE NoDoomedAttempt
  BY <1>20 DEF FailKeepsLead, Pending, Woken, Moved
<1>21. ASSUME NEW s \in Sessions, FailJoins(s) PROVE NoDoomedAttempt
  BY <1>21 DEF FailJoins, Pending, Woken, Moved
<1>22. ASSUME NEW s \in Sessions, FailExhausts(s) PROVE NoDoomedAttempt
  BY <1>22 DEF FailExhausts, Pending, Woken, NewEpisode, NoEpisode, Moved
<1>23. ASSUME NEW s \in Sessions, FailAlone(s) PROVE NoDoomedAttempt
  BY <1>23 DEF FailAlone, Pending, Moved
<1>24. ASSUME NEW s \in Sessions, StreamEnds(s) PROVE NoDoomedAttempt
  BY <1>24 DEF StreamEnds, Moved
<1>25. ASSUME NEW s \in Sessions, StreamRetries(s) PROVE NoDoomedAttempt
  BY <1>25 DEF StreamRetries, Moved
<1>26. ASSUME NEW s \in Sessions, StreamRecovers(s) PROVE NoDoomedAttempt
  BY <1>26 DEF StreamRecovers, Moved
<1>27. ASSUME NEW s \in Sessions, CloseAndLoop(s) PROVE NoDoomedAttempt
  BY <1>27 DEF CloseAndLoop, Release, Moved
<1>28. ASSUME NEW s \in Sessions, CloseAndLeave(s) PROVE NoDoomedAttempt
  BY <1>28 DEF CloseAndLeave, Release, ExitTo, Main, Moved
<1>29. ASSUME NEW s \in Sessions, CloseUnresolved(s) PROVE NoDoomedAttempt
  BY <1>29 DEF CloseUnresolved, Moved
<1>30. ASSUME NEW s \in Sessions, AbandonOver(s) PROVE NoDoomedAttempt
  BY <1>30 DEF AbandonOver, Release, ExitTo, Main, Moved
<1>31. ASSUME NEW s \in Sessions, CloseRaises(s) PROVE NoDoomedAttempt
  BY <1>31 DEF CloseRaises, Moved
<1>32. ASSUME NEW s \in Sessions, ShieldedAbandon(s) PROVE NoDoomedAttempt
  BY <1>32 DEF ShieldedAbandon, Settle, Unled, Woken, Moved
<1>33. ASSUME NEW s \in Sessions, CancelWait(s) PROVE NoDoomedAttempt
  BY <1>33 DEF CancelWait, ExitTo, Main, Moved
<1>34. ASSUME NEW s \in Sessions, CancelBackoff(s) PROVE NoDoomedAttempt
  BY <1>34 DEF CancelBackoff, ExitTo, Main, Woken, Moved
<1>35. ASSUME NEW s \in Sessions, CancelAdmission(s) PROVE NoDoomedAttempt
  BY <1>35 DEF CancelAdmission, Settle, Unled, Woken, ExitTo, Main, Moved
<1>36. ASSUME NEW s \in Sessions, CancelUpstream(s) PROVE NoDoomedAttempt
  BY <1>36 DEF CancelUpstream, Pending, Moved
<1>37. ASSUME ClockReady PROVE NoDoomedAttempt
  BY <1>37 DEF ClockReady
<1>38. ASSUME CoolDown PROVE NoDoomedAttempt
  BY <1>38 DEF CoolDown
<1>39. CASE UNCHANGED vars
  BY <1>39 DEF vars
<1> QED
  BY <1>1, <1>2, <1>3, <1>4, <1>5, <1>6, <1>7, <1>8, <1>9, <1>10, <1>11, <1>12, <1>13,
     <1>14, <1>15, <1>16, <1>17, <1>18, <1>19, <1>20, <1>21, <1>22, <1>23, <1>24, <1>25,
     <1>26, <1>27, <1>28, <1>29, <1>30, <1>31, <1>32, <1>33, <1>34, <1>35, <1>36, <1>37,
     <1>38, <1>39
  DEF Next, Gate, Admits, Granted, Failed, Respond, Stream, Closes, Cancel, Terminated

\* An execution doomed by an episode sends nothing more, under either adapter.
THEOREM DoomIsFinal == Spec => DoomedStayDoomed
<1>1. IInv /\ [Next]_vars => [NoDoomedAttempt]_vars
  BY DoomedStep DEF IInv
<1> QED
  BY Invariance, <1>1, PTL DEF Spec, DoomedStayDoomed

\* Together: late answers settle nothing, and shared failures are never undone.
THEOREM OutcomesAreBinding == Spec => OutcomesBind
  BY StaleAnswers, DoomIsFinal, PTL DEF OutcomesBind
==============================================================================
