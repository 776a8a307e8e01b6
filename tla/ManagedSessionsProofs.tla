------------------------- MODULE ManagedSessionsProofs -------------------------
(***************************************************************************)
(* What holds of ManagedSessions for any number of runs, conversations and *)
(* cancellations, whatever ids the processes report: the manager, the      *)
(* registry of process ids and the sessions' locks keep hold of every      *)
(* process.                                                                *)
(***************************************************************************)
EXTENDS ManagedSessions, FiniteSetTheorems, TLAPS

Steps == {"new", "getting", "starting", "spawning", "running", "recording",
          "quitting", "killing", "killed", "leaving", "removing", "stopping",
          "ended"}
SweepSteps == {"idle", "sweeping", "stopping", "done"}

TypeOK ==
    /\ tree \in [Runners -> Trees \cup {None}]
    /\ recorded \in [Trees -> SUBSET Ids]
    /\ step \in [Runners \cup {Sweeper} -> Steps \cup SweepSteps]
    /\ \A r \in Runners : step[r] \in Steps
    /\ step[Sweeper] \in SweepSteps
    /\ using \in [Runners -> Runners \cup {None}]
    /\ temp \in [Runners -> Keys \cup {None}]
    /\ captured \in [Runners -> Ids \cup {None}]
    /\ reported \in [Runners -> Ids \cup {None}]
    /\ sessions \in [Ids -> Runners \cup {None}]
    /\ pendings \in [Keys -> Runners \cup {None}]
    /\ tempToReal \in [Keys -> Ids \cup {None}]
    /\ realToTemp \in [Ids -> Keys \cup {None}]
    /\ closing \subseteq Runners
    /\ lock \in Runners \cup {Sweeper, None}
    /\ lifecycle \in [Runners -> Runners \cup {Sweeper, None}]
    /\ closed \in [Runners -> BOOLEAN]
    /\ current \in [Runners -> Runners \cup {None}]
    /\ process \in [Runners -> {"none", "alive", "exited"}]
    /\ pids \subseteq Runners
    /\ todo \subseteq Runners
    /\ swept \subseteq Runners
    /\ abandoned \subseteq Runners
    /\ cancels \in Nat /\ refusals \in Nat

\* A run has a conversation once it began, a session once it found one, and
\* a process of its own once it has spawned one.
Placed ==
    \A r \in Runners :
        /\ step[r] # "new" => tree[r] \in Trees
        /\ step[r] = "new" => tree[r] = None
        /\ step[r] \in {"new", "getting"} =>
               using[r] = None /\ temp[r] = None /\ captured[r] = None
        /\ step[r] \in {"new", "getting", "starting", "spawning"} =>
               process[r] = "none" /\ reported[r] = None
        /\ step[r] \in {"starting", "spawning", "running", "recording", "killing",
                        "killed"} => using[r] # None
        /\ process[r] # "none" => using[r] # None
        /\ using[r] # None => using[using[r]] = using[r]
        /\ step[r] = "recording" => reported[r] # None /\ temp[r] # None
        /\ step[r] = "running" /\ temp[r] # None => reported[r] = None
        /\ temp[r] # None => using[r] = r /\ captured[r] = None
        /\ temp[r] = None /\ reported[r] # None => captured[r] = reported[r]

\* The runs of a conversation follow one another.
Successive ==
    \A q, r \in Runners :
        Running(q) /\ Running(r) /\ tree[q] = tree[r] => q = r

\* Each map of the manager is the inverse of another, and no id is in use
\* for two sessions.
Mapped ==
    /\ \A i \in Ids : sessions[i] # None <=> realToTemp[i] # None
    /\ \A k \in Keys, i \in Ids : tempToReal[k] = i <=> realToTemp[i] = k
    /\ \A k \in Keys : pendings[k] # None => tempToReal[k] = None
    /\ \A i \in Ids : pendings[i] # None => sessions[i] = None
    /\ \A i \in Ids : sessions[i] # None => tempToReal[i] \in {None, i}
    /\ \A i, j \in Ids : sessions[i] # None /\ sessions[i] = sessions[j] => i = j
    /\ \A k, l \in Keys : pendings[k] # None /\ pendings[k] = pendings[l] => k = l
    /\ \A i \in Ids, k \in Keys : sessions[i] # None => sessions[i] # pendings[k]

\* A session in the maps is one its creator made; the creator finds it, and so
\* does every other run that uses it.
Handled ==
    /\ \A s \in Known \ {None} : using[s] = s
    /\ \A r \in Runners : Running(r) /\ using[r] \in Known \ {None} =>
           /\ Target(r) = using[r]
           /\ step[r] = "recording" /\ using[r] = r /\ temp[r] # None =>
                  sessions[reported[r]] = r

\* A session that the maps have lost is closed, and its process has exited.
Lost ==
    \A r \in Runners : using[r] # None /\ using[r] \notin Known =>
        closed[using[r]] /\ ~Alive(using[r])

\* Who holds the manager's lock is where; a session being removed is closing.
Locked ==
    /\ \A r \in Runners : lock = r <=> step[r] \in {"removing", "stopping"}
    /\ lock = Sweeper <=> step[Sweeper] \in {"sweeping", "stopping"}
    /\ \A r \in Runners : step[r] \in {"removing", "stopping"} =>
           Target(r) # None /\ Target(r) \in closing

\* Who holds a session's lock is where; all but a spawning run have closed it.
Holds(r, s) ==
    \/ step[r] \in {"spawning", "killed"} /\ using[r] = s
    \/ step[r] = "stopping" /\ Target(r) = s

Owned ==
    /\ \A s, r \in Runners : lifecycle[s] = r <=> Holds(r, s)
    /\ \A s \in Runners : lifecycle[s] = Sweeper =>
           step[Sweeper] = "stopping" /\ s \in todo
    /\ \A s, u \in Runners : lifecycle[s] = Sweeper /\ lifecycle[u] = Sweeper => s = u
    /\ \A s \in Runners : lifecycle[s] # None =>
           closed[s] \/ step[lifecycle[s]] = "spawning"
    /\ \A r \in Runners : step[r] = "spawning" => ~closed[using[r]]

\* A session's process is that of a run that used it; the registry has it.
Spawning ==
    /\ \A s \in Runners : current[s] # None => using[current[s]] = s
    /\ \A r \in Runners : process[r] = "alive" => r \in pids
    /\ \A s \in swept : closed[s] /\ ~Alive(s)

\* A run that has ended has removed its session, or has asked for it.
Left ==
    \A r \in Runners : step[r] = "ended" /\ r \notin abandoned =>
        using[r] \notin Known \ (closing \cup {None})

\* While processes report ids of their own, a session stays in one conversation.
Kept ==
    /\ \A r \in Runners : IF temp[r] \in Ids THEN temp[r] \in recorded[tree[r]]
                                              ELSE temp[r] \in {r, None}
    /\ \A t \in Trees : \A i \in recorded[t] :
           \E r \in Runners : tree[r] = t /\ reported[r] = i
    /\ \A k \in Keys : pendings[k] # None =>
           IF k \in Ids THEN k \in recorded[tree[pendings[k]]] ELSE k = pendings[k]
    /\ \A i \in Ids : sessions[i] # None =>
           /\ IF realToTemp[i] \in Ids
              THEN realToTemp[i] \in recorded[tree[sessions[i]]]
              ELSE realToTemp[i] = sessions[i]
           /\ Distinct => \E r \in Runners :
                  tree[r] = tree[sessions[i]] /\ reported[r] = i
    /\ Distinct => \A r \in Runners : using[r] # None => tree[r] = tree[using[r]]

Exclusive ==
    Distinct /\ abandoned = {} =>
        \A q, r \in Runners :
            process[q] = "alive" /\ Running(r) /\ using[q] = using[r] /\ q # r =>
                closed[using[r]]

IInv ==
    /\ TypeOK /\ Placed /\ Successive /\ Mapped /\ Handled /\ Lost /\ Locked /\ Owned
    /\ Spawning /\ Left /\ Kept /\ Exclusive /\ NotReplaced

-----------------------------------------------------------------------------
(* What the maps say. *)

\* Runs, ids and None are apart.
LEMMA Apart ==
    /\ None \notin Runners /\ None \notin Ids /\ None \notin Keys
    /\ \A r \in Runners : r \in Keys /\ r \notin Ids /\ r # Sweeper
    /\ \A i \in Ids : i \in Keys
    /\ Sweeper # None
BY RunsAssumption DEF Keys

\* A session is known if and only if a map has it.
LEMMA KnownIs ==
    \A s : s \in Known <=>
        (\E i \in Ids : sessions[i] = s) \/ (\E k \in Keys : pendings[k] = s)
BY DEF Known

\* What an id stands for.
LEMMA Lookup ==
    ASSUME TypeOK, Mapped, NEW k \in Keys
    PROVE  /\ SessionFor(k) \in Runners \cup {None}
           /\ SessionFor(k) # None => SessionFor(k) \in Known
           /\ tempToReal[k] # None =>
                  SessionFor(k) = sessions[tempToReal[k]] /\ SessionFor(k) # None
           /\ tempToReal[k] = None /\ k \in Ids /\ sessions[k] # None =>
                  SessionFor(k) = sessions[k]
           /\ tempToReal[k] = None /\ ~(k \in Ids /\ sessions[k] # None) =>
                  SessionFor(k) = pendings[k]
<1>1. CASE tempToReal[k] # None
  <2>1. tempToReal[k] \in Ids /\ realToTemp[tempToReal[k]] = k
    BY <1>1 DEF TypeOK, Mapped
  <2>2. sessions[tempToReal[k]] # None
    BY <2>1, Apart DEF Mapped
  <2> QED BY <1>1, <2>1, <2>2, KnownIs DEF SessionFor, TypeOK
<1>2. CASE tempToReal[k] = None
  BY <1>2, KnownIs DEF SessionFor, TypeOK
<1> QED BY <1>1, <1>2

\* The id a session is registered by stands for it, and so does the id it is
\* pending under.
LEMMA Found ==
    ASSUME TypeOK, Mapped
    PROVE  /\ \A i \in Ids : sessions[i] # None => SessionFor(i) = sessions[i]
           /\ \A k \in Keys : pendings[k] # None => SessionFor(k) = pendings[k]
<1>1. ASSUME NEW i \in Ids, sessions[i] # None PROVE SessionFor(i) = sessions[i]
  BY <1>1, Apart DEF SessionFor, TypeOK, Mapped
<1>2. ASSUME NEW k \in Keys, pendings[k] # None PROVE SessionFor(k) = pendings[k]
  BY <1>2 DEF SessionFor, Mapped
<1> QED BY <1>1, <1>2

\* What a run would remove.
LEMMA TargetIs ==
    ASSUME TypeOK, Mapped, NEW r \in Runners
    PROVE  /\ Target(r) \in Runners \cup {None}
           /\ Target(r) # None => Target(r) \in Known
           /\ captured[r] # None => Target(r) = SessionFor(captured[r])
           /\ captured[r] = None /\ temp[r] # None => Target(r) = SessionFor(temp[r])
<1>1. captured[r] \in Keys \cup {None} /\ temp[r] \in Keys \cup {None}
  BY Apart DEF TypeOK
<1> QED BY <1>1, Lookup, Apart DEF Target, HandleOf

\* What an action that leaves the maps and the runs' own variables keeps.
Quiet == UNCHANGED <<runner, recorded, maps>>

LEMMA QuietKeeps ==
    ASSUME IInv, Quiet,
           \A r \in Runners : Running(r)' => Running(r),
           \A r \in Runners : step'[r] = "recording" => step[r] = "recording"
    PROVE  /\ Known' = Known
           /\ \A r \in Runners : Target(r)' = Target(r)
           /\ Mapped' /\ Handled' /\ Successive' /\ Kept' /\ Distinct' = Distinct
<1>1. Known' = Known
  BY DEF Quiet, maps, Known
<1>2. ASSUME NEW r \in Runners PROVE Target(r)' = Target(r)
  BY DEF Quiet, maps, runner, Target, HandleOf, SessionFor
<1>3. Mapped'
  BY DEF IInv, Mapped, Quiet, maps
<1>4. Successive'
  BY DEF IInv, Successive, Quiet, runner
<1>5. Distinct' = Distinct
  BY DEF Distinct, Quiet, runner
<1>6. Kept'
  <2> USE DEF Quiet, runner, maps
  <2>1. \A r \in Runners : IF temp'[r] \in Ids THEN temp'[r] \in recorded'[tree'[r]]
                                             ELSE temp'[r] \in {r, None}
    BY DEF IInv, Kept
  <2>2. \A t \in Trees : \A i \in recorded'[t] :
            \E r \in Runners : tree'[r] = t /\ reported'[r] = i
    BY DEF IInv, Kept
  <2>3. \A k \in Keys : pendings'[k] # None =>
            IF k \in Ids THEN k \in recorded'[tree'[pendings'[k]]] ELSE k = pendings'[k]
    BY DEF IInv, Kept
  <2>4. \A i \in Ids : sessions'[i] # None =>
            /\ IF realToTemp'[i] \in Ids
               THEN realToTemp'[i] \in recorded'[tree'[sessions'[i]]]
               ELSE realToTemp'[i] = sessions'[i]
            /\ Distinct' => \E r \in Runners :
                   tree'[r] = tree'[sessions'[i]] /\ reported'[r] = i
    BY <1>5 DEF IInv, Kept
  <2>5. Distinct' => \A r \in Runners : using'[r] # None => tree'[r] = tree'[using'[r]]
    BY <1>5 DEF IInv, Kept
  <2> QED BY <2>1, <2>2, <2>3, <2>4, <2>5 DEF Kept
<1>7. Handled'
  <2>1. \A s \in Known' \ {None} : using'[s] = s
    BY <1>1 DEF IInv, Handled, Quiet, runner
  <2>2. ASSUME NEW r \in Runners, Running(r)', using'[r] \in Known' \ {None}
        PROVE  /\ Target(r)' = using'[r]
               /\ step'[r] = "recording" /\ using'[r] = r /\ temp'[r] # None =>
                      sessions'[reported'[r]] = r
    BY <2>2, <1>1, <1>2 DEF IInv, Handled, Quiet, runner, maps
  <2> QED BY <2>1, <2>2 DEF Handled
<1> QED BY <1>1, <1>2, <1>3, <1>4, <1>5, <1>6, <1>7

-----------------------------------------------------------------------------
(* Actions that leave the maps alone. *)

\* With the maps as they were, closed sessions stay lost.
LEMMA LostKeeps ==
    ASSUME IInv, Known' = Known, using' = using,
           \A s \in Runners : closed[s] => closed'[s],
           \A s \in Runners : closed[s] /\ Alive(s)' => Alive(s)
    PROVE  Lost'
<1>1. ASSUME NEW r \in Runners, NEW s \in Runners, using[r] = s, s \notin Known
      PROVE  closed'[s] /\ ~Alive(s)'
  <2>1. closed[s] /\ ~Alive(s)
    BY <1>1, Apart DEF IInv, Lost
  <2> QED BY <2>1
<1>2. ASSUME NEW r \in Runners, using[r] # None, using[r] \notin Known
      PROVE  closed'[using[r]]
             /\ ~(current'[using[r]] # None /\ process'[current'[using[r]]] = "alive")
  BY <1>1, <1>2 DEF IInv, TypeOK, Alive
<1> QED BY <1>2 DEF Lost, Alive

\* While processes report ids of their own, two runs in the same session are
\* of one conversation, so that only one of them runs.
LEMMA OneUser ==
    ASSUME IInv, Distinct, NEW q \in Runners, NEW r \in Runners,
           using[q] # None, using[q] = using[r], Running(q), Running(r)
    PROVE  q = r
BY DEF IInv, Kept, Successive

LEMMA SpawnKeeps ==
    ASSUME IInv, NEW r \in Runners, Spawn(r) PROVE IInv'
<1> DEFINE s == using[r]
<1>1. /\ step[r] = "starting" /\ s \in Runners /\ lifecycle[s] = None
      /\ UNCHANGED <<runner, recorded, maps, closing, lock, closed, current, process,
                     pids, todo, past, cancels, refusals>>
      /\ \/ closed[s] /\ step' = [step EXCEPT ![r] = "leaving"] /\ lifecycle' = lifecycle
         \/ /\ ~closed[s] /\ step' = [step EXCEPT ![r] = "spawning"]
            /\ lifecycle' = [lifecycle EXCEPT ![s] = r]
  BY DEF Spawn, Go, IInv, TypeOK, Placed, past
<1> HIDE DEF s
<1>2. Quiet /\ (\A q \in Runners : Running(q)' => Running(q))
      /\ \A q \in Runners : step'[q] = "recording" => step[q] = "recording"
  BY <1>1 DEF Quiet, Running, IInv, TypeOK
<1>3. TypeOK'
  BY <1>1, Apart DEF IInv, TypeOK, runner, maps, past, Steps, SweepSteps
<1>4. Placed'
  BY <1>1 DEF IInv, TypeOK, Placed, runner
<1>5. Known' = Known /\ (\A q \in Runners : Target(q)' = Target(q))
      /\ Mapped' /\ Handled' /\ Successive' /\ Kept' /\ Distinct' = Distinct
  BY <1>2, QuietKeeps
<1>6. Lost'
  BY <1>1, <1>5, LostKeeps DEF runner, Alive
<1>7. Locked' /\ Owned'
  <2>1. Locked'
    BY <1>1, <1>5 DEF IInv, TypeOK, Locked
  <2>2. Owned'
    BY <1>1, <1>5, Apart DEF IInv, TypeOK, Owned, Holds, runner, s
  <2> QED BY <2>1, <2>2
<1>8. Spawning'
  BY <1>1 DEF IInv, Spawning, Alive, runner, past
<1>9. Left'
  BY <1>1, <1>5 DEF IInv, TypeOK, Left, runner, past
<1>10. Exclusive' /\ NotReplaced'
  BY <1>1, <1>2, <1>5 DEF IInv, Exclusive, NotReplaced, runner, past
<1> QED BY <1>3, <1>4, <1>5, <1>6, <1>7, <1>8, <1>9, <1>10 DEF IInv

LEMMA ProcessExitsKeeps ==
    ASSUME IInv, NEW r \in Runners, ProcessExits(r) PROVE IInv'
<1>1. /\ process[r] = "alive" /\ process' = [process EXCEPT ![r] = "exited"]
      /\ UNCHANGED <<runner, recorded, maps, step, closing, lock, lifecycle, closed,
                     current, pids, todo, past, cancels, refusals>>
  BY DEF ProcessExits, past
<1>2. Quiet /\ (\A q \in Runners : Running(q)' => Running(q))
      /\ \A q \in Runners : step'[q] = "recording" => step[q] = "recording"
  BY <1>1 DEF Quiet, Running
<1>3. TypeOK'
  BY <1>1 DEF IInv, TypeOK, runner, maps, past
<1>4. Placed'
  BY <1>1 DEF IInv, TypeOK, Placed, runner
<1>5. Known' = Known /\ (\A q \in Runners : Target(q)' = Target(q))
      /\ Mapped' /\ Handled' /\ Successive' /\ Kept' /\ Distinct' = Distinct
  BY <1>2, QuietKeeps
<1>6. \A s \in Runners : Alive(s)' => Alive(s)
  BY <1>1 DEF IInv, TypeOK, Alive
<1>7. Lost'
  BY <1>1, <1>5, <1>6, LostKeeps DEF runner
<1>8. Locked' /\ Owned'
  BY <1>1, <1>5 DEF IInv, Locked, Owned, Holds, runner
<1>9. Spawning'
  BY <1>1, <1>6 DEF IInv, TypeOK, Spawning, runner, past
<1>10. Left'
  BY <1>1, <1>5 DEF IInv, Left, runner, past
<1>11. Exclusive' /\ NotReplaced'
  BY <1>1, <1>2, <1>5 DEF IInv, TypeOK, Exclusive, NotReplaced, runner, past
<1> QED BY <1>3, <1>4, <1>5, <1>7, <1>8, <1>9, <1>10, <1>11 DEF IInv

LEMMA SpawnedKeeps ==
    ASSUME IInv, NEW r \in Runners, Spawned(r) PROVE IInv'
<1> DEFINE s == using[r]
<1>1. /\ step[r] = "spawning" /\ s \in Runners
      /\ lifecycle' = [lifecycle EXCEPT ![s] = None]
      /\ UNCHANGED <<runner, recorded, maps, closing, lock, closed, todo, past, cancels>>
      /\ \/ /\ process' = [process EXCEPT ![r] = "alive"]
            /\ current' = [current EXCEPT ![s] = r]
            /\ pids' = pids \cup {r}
            /\ step' = [step EXCEPT ![r] = "running"]
            /\ refusals' = refusals
         \/ /\ refusals' = refusals + 1
            /\ step' = [step EXCEPT ![r] = "leaving"]
            /\ UNCHANGED <<process, current, pids>>
  BY DEF Spawned, Go, IInv, TypeOK, Placed, past
<1>2. lifecycle[s] = r /\ ~closed[s] /\ process[r] = "none" /\ s \in Known
  BY <1>1, Apart DEF IInv, Owned, Holds, Placed, Lost
<1> HIDE DEF s
<1>3. Quiet /\ (\A q \in Runners : Running(q)' => Running(q))
      /\ \A q \in Runners : step'[q] = "recording" => step[q] = "recording"
  BY <1>1 DEF Quiet, Running, IInv, TypeOK
<1>4. TypeOK'
  <2>1. /\ step' \in [Runners \cup {Sweeper} -> Steps \cup SweepSteps]
        /\ \A q \in Runners : step'[q] \in Steps
        /\ step'[Sweeper] \in SweepSteps
    BY <1>1, Apart DEF IInv, TypeOK, Steps, SweepSteps
  <2>2. /\ process' \in [Runners -> {"none", "alive", "exited"}]
        /\ current' \in [Runners -> Runners \cup {None}]
        /\ pids' \subseteq Runners
    BY <1>1 DEF IInv, TypeOK
  <2>3. refusals' \in Nat /\ lifecycle' \in [Runners -> Runners \cup {Sweeper, None}]
    BY <1>1 DEF IInv, TypeOK
  <2> QED BY <1>1, <2>1, <2>2, <2>3 DEF IInv, TypeOK, runner, maps, past
<1>5. Placed'
  BY <1>1 DEF IInv, TypeOK, Placed, runner, s
<1>6. Known' = Known /\ (\A q \in Runners : Target(q)' = Target(q))
      /\ Mapped' /\ Handled' /\ Successive' /\ Kept' /\ Distinct' = Distinct
  BY <1>3, QuietKeeps
<1>7. \A u \in Runners : closed[u] /\ Alive(u)' => Alive(u)
  <2> SUFFICES ASSUME NEW u \in Runners, closed[u], Alive(u)' PROVE Alive(u)
    OBVIOUS
  <2>1. u # s
    BY <1>2
  <2>2. current'[u] = current[u] /\ current[u] # r
    BY <1>1, <2>1 DEF IInv, TypeOK, Spawning, s, Alive
  <2> QED BY <1>1, <2>1, <2>2 DEF IInv, TypeOK, Alive
<1>8. Lost'
  BY <1>1, <1>6, <1>7, LostKeeps DEF runner
<1>9. Locked' /\ Owned'
  <2>1. Locked'
    BY <1>1, <1>6 DEF IInv, TypeOK, Locked
  <2>2. Owned'
    BY <1>1, <1>2, <1>6, Apart DEF IInv, TypeOK, Owned, Holds, runner, s
  <2> QED BY <2>1, <2>2
<1>10. Spawning'
  <2>1. \A u \in Runners : current'[u] # None => using'[current'[u]] = u
    BY <1>1, Apart DEF IInv, TypeOK, Spawning, runner, s
  <2>2. \A q \in Runners : process'[q] = "alive" => q \in pids'
    BY <1>1 DEF IInv, TypeOK, Spawning
  <2>3. \A u \in swept' : closed'[u] /\ ~Alive(u)'
    BY <1>1, <1>7 DEF IInv, TypeOK, Spawning, past
  <2> QED BY <2>1, <2>2, <2>3 DEF Spawning
<1>11. Left'
  BY <1>1, <1>6 DEF IInv, TypeOK, Left, runner, past
<1>12. Exclusive'
  <2> SUFFICES ASSUME Distinct, abandoned = {}, NEW p \in Runners, NEW q \in Runners,
                      process'[p] = "alive", Running(q)', using[p] = using[q], p # q
               PROVE  closed[using[q]]
    BY <1>1, <1>6 DEF Exclusive, runner, past
  <2>1. Running(q)
    BY <1>3
  <2>2. CASE p = r
    <3>1. Running(r) /\ using[r] # None /\ using[r] = using[q]
      BY <1>1, <2>2, Apart DEF Running, s
    <3>2. r = q
      BY <2>1, <3>1, OneUser
    <3> QED BY <2>2, <3>2
  <2>3. CASE p # r
    BY <1>1, <2>1, <2>3 DEF IInv, TypeOK, Exclusive
  <2> QED BY <2>2, <2>3
<1>13. NotReplaced'
  <2> SUFFICES ASSUME Distinct, abandoned = {}, NEW q \in Runners, process'[q] = "alive"
               PROVE  current'[using[q]] = q
    BY <1>1, <1>6 DEF NotReplaced, runner, past
  <2>1. CASE q = r
    <3>1. process' = [process EXCEPT ![r] = "alive"] /\ current' = [current EXCEPT ![s] = r]
      BY <1>1, <1>2, <2>1
    <3> QED BY <1>1, <2>1, <3>1 DEF IInv, TypeOK, s
  <2>2. CASE q # r
    <3>1. process[q] = "alive" /\ current[using[q]] = q
      BY <1>1, <2>2 DEF IInv, TypeOK, NotReplaced
    <3>2. using[q] # s
      BY <1>1, <1>2, <2>2, <3>1 DEF IInv, Exclusive, Running, s
    <3>3. using[q] \in Runners
      BY <3>1 DEF IInv, TypeOK, Placed
    <3> QED BY <1>1, <3>1, <3>2, <3>3 DEF IInv, TypeOK
  <2> QED BY <2>1, <2>2
<1> QED BY <1>4, <1>5, <1>6, <1>8, <1>9, <1>10, <1>11, <1>12, <1>13 DEF IInv

\* The process of a run that ends or gives up its output.
LEMMA EndsKeep ==
    ASSUME IInv, NEW r \in Runners, TaskEnds(r) \/ Quit(r) PROVE IInv'
<1>1. /\ step[r] \in {"running", "quitting"}
      /\ step' = [step EXCEPT ![r] = "leaving"]
      /\ pids' \subseteq pids /\ \A q \in pids \ pids' : process[q] # "alive"
      /\ UNCHANGED <<runner, recorded, maps, closing, lock, lifecycle, closed, current,
                     process, todo, past, cancels, refusals>>
  BY DEF TaskEnds, Quit, Go, past
<1>2. Quiet /\ (\A q \in Runners : Running(q)' => Running(q))
      /\ \A q \in Runners : step'[q] = "recording" => step[q] = "recording"
  BY <1>1 DEF Quiet, Running, IInv, TypeOK
<1>3. TypeOK'
  BY <1>1, Apart DEF IInv, TypeOK, runner, maps, past, Steps, SweepSteps
<1>4. Placed'
  BY <1>1 DEF IInv, TypeOK, Placed, runner
<1>5. Known' = Known /\ (\A q \in Runners : Target(q)' = Target(q))
      /\ Mapped' /\ Handled' /\ Successive' /\ Kept' /\ Distinct' = Distinct
  BY <1>2, QuietKeeps
<1>6. Lost'
  BY <1>1, <1>5, LostKeeps DEF runner, Alive
<1>7. Locked' /\ Owned'
  <2>1. Locked'
    BY <1>1, <1>5 DEF IInv, TypeOK, Locked
  <2>2. Owned'
    BY <1>1, <1>5, Apart DEF IInv, TypeOK, Owned, Holds, runner
  <2> QED BY <2>1, <2>2
<1>8. Spawning'
  BY <1>1 DEF IInv, TypeOK, Spawning, Alive, runner, past
<1>9. Left'
  BY <1>1, <1>5 DEF IInv, TypeOK, Left, runner, past
<1>10. Exclusive' /\ NotReplaced'
  BY <1>1, <1>2, <1>5 DEF IInv, Exclusive, NotReplaced, runner, past
<1> QED BY <1>3, <1>4, <1>5, <1>6, <1>7, <1>8, <1>9, <1>10 DEF IInv

\* An action that spawns nothing and gives up only the ids of processes that
\* have exited.
Gentle ==
    /\ closed' \in [Runners -> BOOLEAN]
    /\ \A u \in Runners : closed[u] => closed'[u]
    /\ UNCHANGED <<current, process>>
    /\ pids' \subseteq pids /\ \A q \in pids \ pids' : process[q] # "alive"

\* What a stop of session s by c does, at each of its stages.
StopStage(c, s) ==
    StopNow(c, s) \/ StopWaits(c, s) \/ StopConfirmed(c, s) \/ StopFails(c, s)

StopEffect(c, s) ==
    /\ Gentle
    /\ \A u \in Runners \ {s} : closed'[u] = closed[u]
    /\ \A u \in Runners : Alive(u)' = Alive(u)
    /\ StopNow(c, s) =>
           lifecycle[s] = None /\ lifecycle' = lifecycle /\ closed'[s] /\ ~Alive(s)
    /\ StopWaits(c, s) =>
           /\ lifecycle[s] = None /\ lifecycle' = [lifecycle EXCEPT ![s] = c]
           /\ closed'[s]
    /\ StopConfirmed(c, s) \/ StopFails(c, s) =>
           /\ lifecycle[s] = c /\ lifecycle' = [lifecycle EXCEPT ![s] = None]
           /\ closed' = closed
    /\ StopConfirmed(c, s) => ~Alive(s)
    /\ StopFails(c, s) => refusals' = refusals + 1

LEMMA StopIs ==
    ASSUME TypeOK, NEW c, NEW s \in Runners, StopStage(c, s)
    PROVE  StopEffect(c, s)
<1>1. closed' \in [Runners -> BOOLEAN]
      /\ (\A u \in Runners : closed[u] => closed'[u])
      /\ \A u \in Runners \ {s} : closed'[u] = closed[u]
  BY DEF StopStage, StopNow, StopWaits, StopConfirmed, StopFails, TypeOK
<1>2. UNCHANGED <<current, process>>
      /\ pids' \subseteq pids /\ \A q \in pids \ pids' : process[q] # "alive"
  BY Apart DEF StopStage, StopNow, StopWaits, StopConfirmed, StopFails, TypeOK, Alive
<1>3. \A u \in Runners : Alive(u)' = Alive(u)
  BY <1>2 DEF Alive
<1>4. StopNow(c, s) =>
          lifecycle[s] = None /\ lifecycle' = lifecycle /\ closed'[s] /\ ~Alive(s)
  BY DEF StopNow, TypeOK
<1>5. StopWaits(c, s) =>
           /\ lifecycle[s] = None /\ lifecycle' = [lifecycle EXCEPT ![s] = c]
           /\ closed'[s]
  BY DEF StopWaits, TypeOK
<1>6. /\ StopConfirmed(c, s) \/ StopFails(c, s) =>
           /\ lifecycle[s] = c /\ lifecycle' = [lifecycle EXCEPT ![s] = None]
           /\ closed' = closed
      /\ StopConfirmed(c, s) => ~Alive(s)
      /\ StopFails(c, s) => refusals' = refusals + 1
  BY DEF StopConfirmed, StopFails
<1> QED BY <1>1, <1>2, <1>3, <1>4, <1>5, <1>6 DEF StopEffect, Gentle

\* What such an action keeps.
Others == Mapped /\ Handled /\ Successive /\ Kept /\ Lost /\ Spawning /\ Left
        /\ Exclusive /\ NotReplaced

LEMMA GentleKeeps ==
    ASSUME IInv, Quiet, Gentle,
           swept' = swept, abandoned \subseteq abandoned', closing \subseteq closing',
           \A r \in Runners : Running(r)' => Running(r),
           \A r \in Runners : step'[r] = "ended" =>
               \/ step[r] = "ended" \/ using[r] \in closing' \/ r \in abandoned'
               \/ using[r] \notin Known \ {None},
           \A r \in Runners : step'[r] = "recording" => step[r] = "recording"
    PROVE  /\ Known' = Known
           /\ \A r \in Runners : Target(r)' = Target(r)
           /\ Others'
<1>1. Known' = Known /\ (\A q \in Runners : Target(q)' = Target(q))
      /\ Mapped' /\ Handled' /\ Successive' /\ Kept' /\ Distinct' = Distinct
  BY QuietKeeps
<1>2. \A u \in Runners : Alive(u)' = Alive(u)
  BY DEF Gentle, Alive
<1>3. Lost'
  BY <1>1, <1>2, LostKeeps DEF Quiet, runner, Gentle
<1>4. Spawning'
  BY <1>2 DEF IInv, TypeOK, Spawning, Quiet, runner, Gentle
<1>5. Left'
  BY <1>1 DEF IInv, TypeOK, Left, Quiet, runner, Gentle
<1>6. Exclusive'
  <2> SUFFICES ASSUME Distinct, abandoned = {}, NEW q \in Runners, NEW r \in Runners,
                      process[q] = "alive", Running(r)', using[q] = using[r], q # r
               PROVE  closed'[using[r]]
    BY <1>1 DEF Exclusive, Quiet, runner, Gentle
  <2>1. closed[using[r]] /\ using[r] \in Runners
    BY DEF IInv, TypeOK, Exclusive, Placed
  <2> QED BY <2>1 DEF Gentle
<1>7. NotReplaced'
  BY <1>1 DEF IInv, NotReplaced, Quiet, runner, Gentle
<1> QED BY <1>1, <1>3, <1>4, <1>5, <1>6, <1>7 DEF Others

LEMMA KillKeeps ==
    ASSUME IInv, NEW r \in Runners, Kill(r) PROVE IInv'
<1> DEFINE s == using[r]
<1>1. /\ step[r] \in {"killing", "killed"} /\ s \in Runners
      /\ UNCHANGED <<runner, recorded, maps, closing, lock, todo, past, cancels>>
      /\ \/ StopNow(r, s) /\ step' = [step EXCEPT ![r] = "quitting"] /\ refusals' = refusals
            /\ step[r] = "killing"
         \/ StopWaits(r, s) /\ step' = [step EXCEPT ![r] = "killed"] /\ refusals' = refusals
            /\ step[r] = "killing"
         \/ StopConfirmed(r, s) /\ step' = [step EXCEPT ![r] = "quitting"]
            /\ refusals' = refusals /\ step[r] = "killed"
         \/ StopFails(r, s) /\ step' = [step EXCEPT ![r] = "quitting"]
            /\ step[r] = "killed"
  BY DEF Kill, Go, IInv, TypeOK, Placed, past
<1> HIDE DEF s
<1>2. Quiet /\ (\A q \in Runners : Running(q)' => Running(q))
      /\ (\A q \in Runners : step'[q] = "recording" => step[q] = "recording")
      /\ \A q \in Runners : step'[q] = "ended" => step[q] = "ended"
  BY <1>1 DEF Quiet, Running, IInv, TypeOK
<1>3. StopEffect(r, s)
  BY <1>1, StopIs DEF StopStage, IInv
<1>4. TypeOK'
  BY <1>1, <1>3, Apart
     DEF StopEffect, Gentle, IInv, TypeOK, runner, maps, past, Steps, SweepSteps
<1>5. Placed'
  BY <1>1, <1>3 DEF StopEffect, Gentle, IInv, TypeOK, Placed, runner
<1>6. Known' = Known /\ (\A q \in Runners : Target(q)' = Target(q)) /\ Others'
  BY <1>1, <1>2, <1>3, GentleKeeps DEF StopEffect, past
<1>7. Locked'
  BY <1>1, <1>6 DEF IInv, TypeOK, Locked
<1>8. Owned'
  <2>1. ASSUME step[r] = "killing", lifecycle[s] = None, closed'[s],
               \/ lifecycle' = lifecycle /\ step' = [step EXCEPT ![r] = "quitting"]
               \/ /\ lifecycle' = [lifecycle EXCEPT ![s] = r]
                  /\ step' = [step EXCEPT ![r] = "killed"]
        PROVE  Owned'
    <3>1. \A u \in Runners : closed[u] => closed'[u]
      BY <1>3 DEF StopEffect, Gentle
    <3>2. ASSUME NEW q \in Runners, step'[q] = "spawning" PROVE ~closed'[using'[q]]
      <4>1. step[q] = "spawning" /\ using'[q] = using[q] /\ using[q] \in Runners
        BY <1>1, <2>1, <3>2 DEF IInv, TypeOK, Placed, runner
      <4>2. using[q] # s
        BY <2>1, <4>1, Apart DEF IInv, Owned, Holds
      <4> QED BY <1>3, <4>1, <4>2 DEF StopEffect, IInv, Owned
    <3>3. \A u, q \in Runners : lifecycle'[u] = q <=> Holds(q, u)'
      <4> SUFFICES ASSUME NEW u \in Runners, NEW q \in Runners
                   PROVE  lifecycle'[u] = q <=> Holds(q, u)'
        OBVIOUS
      <4>1. CASE q = r
        BY <4>1, <1>1, <1>6, <2>1, Apart DEF IInv, TypeOK, Owned, Holds, runner, s
      <4>2. CASE q # r
        BY <4>2, <1>1, <1>6, <2>1, Apart DEF IInv, TypeOK, Owned, Holds, runner, s
      <4> QED BY <4>1, <4>2
    <3>4. /\ \A u \in Runners : lifecycle'[u] = Sweeper =>
                 step'[Sweeper] = "stopping" /\ u \in todo'
          /\ \A u, v \in Runners : lifecycle'[u] = Sweeper /\ lifecycle'[v] = Sweeper => u = v
      <4>1. ASSUME NEW u \in Runners, lifecycle'[u] = Sweeper PROVE lifecycle[u] = Sweeper
        BY <1>1, <2>1, <4>1, Apart DEF IInv, TypeOK
      <4>2. step'[Sweeper] = step[Sweeper] /\ todo' = todo
        BY <1>1, <2>1, Apart DEF IInv, TypeOK
      <4> QED BY <4>1, <4>2 DEF IInv, Owned
    <3>5. \A u \in Runners : lifecycle'[u] # None =>
              closed'[u] \/ step'[lifecycle'[u]] = "spawning"
      BY <1>1, <2>1, <3>1, Apart DEF IInv, TypeOK, Owned
    <3> QED BY <3>2, <3>3, <3>4, <3>5 DEF Owned
  <2>2. ASSUME step[r] = "killed", lifecycle' = [lifecycle EXCEPT ![s] = None],
               closed' = closed, lifecycle[s] = r,
               step' = [step EXCEPT ![r] = "quitting"]
        PROVE  Owned'
    BY <1>1, <1>6, <2>2, Apart DEF IInv, TypeOK, Owned, Holds, runner, s
  <2> QED BY <1>1, <1>3, <2>1, <2>2 DEF StopEffect
<1> QED BY <1>4, <1>5, <1>6, <1>7, <1>8 DEF IInv, Others

\* A run begins to remove its session, or finds that it is gone.
LEMMA RemoveKeeps ==
    ASSUME IInv, NEW r \in Runners, Remove(r) PROVE IInv'
<1>1. /\ step[r] = "leaving" /\ lock = None
      /\ UNCHANGED <<runner, recorded, maps, object, todo, past, cancels, refusals>>
      /\ \/ /\ Target(r) = None /\ step' = [step EXCEPT ![r] = "ended"]
            /\ UNCHANGED <<closing, lock>>
         \/ /\ Target(r) # None /\ step' = [step EXCEPT ![r] = "removing"]
            /\ closing' = closing \cup {Target(r)} /\ lock' = r
  BY DEF Remove, Go, past
<1>2. Target(r) \in Runners \cup {None}
  BY TargetIs DEF IInv
<1>3. Target(r) = None => using[r] \notin Known \ {None}
  BY <1>1 DEF IInv, Handled, Running
<1>4. TypeOK'
  BY <1>1, <1>2, Apart DEF IInv, TypeOK, runner, maps, object, past, Steps, SweepSteps
<1>5. Placed'
  BY <1>1 DEF IInv, TypeOK, Placed, runner, object
<1>6. Known' = Known /\ (\A q \in Runners : Target(q)' = Target(q)) /\ Others'
  <2>1. Quiet /\ Gentle /\ swept' = swept /\ abandoned' = abandoned
        /\ closing \subseteq closing'
    BY <1>1 DEF Quiet, Gentle, object, past, IInv, TypeOK
  <2>2. \A q \in Runners : step'[q] = "recording" => step[q] = "recording"
    BY <1>1 DEF IInv, TypeOK
  <2>3. \A q \in Runners : Running(q)' => Running(q)
    BY <1>1 DEF Running, IInv, TypeOK
  <2>4. \A q \in Runners : step'[q] = "ended" =>
               \/ step[q] = "ended" \/ using[q] \in closing' \/ q \in abandoned'
               \/ using[q] \notin Known \ {None}
    BY <1>1, <1>3 DEF IInv, TypeOK
  <2> QED BY <2>1, <2>2, <2>3, <2>4, GentleKeeps
<1>7. Locked'
  BY <1>1, <1>2, <1>6, Apart DEF IInv, TypeOK, Locked
<1>8. Owned'
  BY <1>1, <1>6, Apart DEF IInv, TypeOK, Owned, Holds, runner, object
<1> QED BY <1>4, <1>5, <1>6, <1>7, <1>8 DEF IInv, Others

\* A run that removes a session has its lock, and the session is closing.
LEMMA RemoveWaitsKeeps ==
    ASSUME IInv, NEW r \in Runners, RemoveWaits(r) PROVE IInv'
<1>0. Target(r) \in Runners /\ Target(r) \in closing
  BY TargetIs DEF RemoveWaits, IInv, Locked
<1>2. PICK s \in Runners : s = Target(r) /\ s \in closing
  BY <1>0
<1>1. /\ step[r] = "removing" /\ StopWaits(r, s)
      /\ step' = [step EXCEPT ![r] = "stopping"]
      /\ UNCHANGED <<runner, recorded, maps, closing, lock, todo, past, cancels, refusals>>
  BY <1>2 DEF RemoveWaits, Go, past
<1>3. StopEffect(r, s)
  BY <1>1, <1>2, StopIs DEF StopStage, IInv
<1>4. /\ lifecycle[s] = None /\ lifecycle' = [lifecycle EXCEPT ![s] = r] /\ closed'[s]
      /\ \A u \in Runners : closed[u] => closed'[u]
  BY <1>1, <1>3 DEF StopEffect, Gentle
<1>5. Known' = Known /\ (\A q \in Runners : Target(q)' = Target(q)) /\ Others'
  <2>1. \A q \in Runners : step'[q] = "ended" => step[q] = "ended"
    BY <1>1 DEF IInv, TypeOK
  <2>2. \A q \in Runners : step'[q] = "recording" => step[q] = "recording"
    BY <1>1 DEF IInv, TypeOK
  <2>3. \A q \in Runners : Running(q)' => Running(q)
    BY <1>1 DEF Running, IInv, TypeOK
  <2> QED BY <1>1, <1>3, <2>1, <2>2, <2>3, GentleKeeps DEF StopEffect, Quiet, past
<1>6. \A q \in Runners : Holds(q, s)' <=> q = r
  <2>1. \A q \in Runners : ~Holds(q, s)
    BY <1>4, Apart DEF IInv, Owned
  <2>2. Holds(r, s)'
    BY <1>1, <1>2, <1>5 DEF IInv, TypeOK, Holds
  <2>3. ASSUME NEW q \in Runners, q # r PROVE ~Holds(q, s)'
    BY <1>1, <1>5, <2>1, <2>3 DEF IInv, TypeOK, Holds, runner
  <2> QED BY <2>2, <2>3
<1>7. \A q, u \in Runners : u # s => (Holds(q, u)' <=> Holds(q, u))
  BY <1>1, <1>2, <1>5 DEF IInv, TypeOK, Holds, runner
<1>8. TypeOK'
  BY <1>1, <1>2, <1>3, <1>4, Apart
     DEF StopEffect, Gentle, IInv, TypeOK, runner, maps, past, Steps, SweepSteps
<1>9. Placed'
  BY <1>1, <1>3 DEF StopEffect, Gentle, IInv, TypeOK, Placed, runner
<1>10. Locked'
  BY <1>1, <1>5 DEF IInv, TypeOK, Locked
<1>11. Owned'
  <2>1. \A u, q \in Runners : lifecycle'[u] = q <=> Holds(q, u)'
    BY <1>2, <1>4, <1>6, <1>7, Apart DEF IInv, TypeOK, Owned
  <2>2. ASSUME NEW q \in Runners, step'[q] = "spawning" PROVE ~closed'[using'[q]]
    <3>1. step[q] = "spawning" /\ using'[q] = using[q] /\ using[q] \in Runners
      BY <1>1, <2>2 DEF IInv, TypeOK, Placed, runner
    <3>2. using[q] # s
      BY <1>4, <3>1, Apart DEF IInv, Owned, Holds
    <3> QED BY <1>3, <3>1, <3>2 DEF StopEffect, IInv, Owned
  <2>3. /\ \A u \in Runners : lifecycle'[u] = Sweeper =>
               step'[Sweeper] = "stopping" /\ u \in todo'
        /\ \A u, v \in Runners : lifecycle'[u] = Sweeper /\ lifecycle'[v] = Sweeper => u = v
    BY <1>1, <1>2, <1>4, Apart DEF IInv, TypeOK, Owned
  <2>4. \A u \in Runners : lifecycle'[u] # None =>
            closed'[u] \/ step'[lifecycle'[u]] = "spawning"
    BY <1>1, <1>2, <1>4, Apart DEF IInv, TypeOK, Owned
  <2> QED BY <2>1, <2>2, <2>3, <2>4 DEF Owned
<1> QED BY <1>5, <1>8, <1>9, <1>10, <1>11 DEF IInv, Others

LEMMA NotRemovedKeeps ==
    ASSUME IInv, NEW r \in Runners, NotRemoved(r) PROVE IInv'
<1>0. Target(r) \in Runners /\ Target(r) \in closing
  BY TargetIs DEF NotRemoved, IInv, Locked
<1>2. PICK s \in Runners : s = Target(r) /\ s \in closing
  BY <1>0
<1>1. /\ step[r] = "stopping" /\ StopFails(r, s)
      /\ step' = [step EXCEPT ![r] = "ended"] /\ lock' = None
      /\ UNCHANGED <<runner, recorded, maps, closing, todo, past, cancels>>
  BY <1>2 DEF NotRemoved, Go, past
<1>3. StopEffect(r, s)
  BY <1>1, <1>2, StopIs DEF StopStage, IInv
<1>4. /\ lifecycle[s] = r /\ lifecycle' = [lifecycle EXCEPT ![s] = None]
      /\ closed' = closed
  BY <1>1, <1>3 DEF StopEffect, Gentle
<1>5. using[r] \in closing \/ using[r] \notin Known \ {None}
  BY <1>1, <1>2 DEF IInv, Handled, Running
<1>6. Known' = Known /\ (\A q \in Runners : Target(q)' = Target(q)) /\ Others'
  <2>1. \A q \in Runners : step'[q] = "ended" =>
               \/ step[q] = "ended" \/ using[q] \in closing' \/ q \in abandoned'
               \/ using[q] \notin Known \ {None}
    BY <1>1, <1>5 DEF IInv, TypeOK
  <2>2. \A q \in Runners : step'[q] = "recording" => step[q] = "recording"
    BY <1>1 DEF IInv, TypeOK
  <2>3. \A q \in Runners : Running(q)' => Running(q)
    BY <1>1 DEF Running, IInv, TypeOK
  <2> QED BY <1>1, <1>3, <2>1, <2>2, <2>3, GentleKeeps DEF StopEffect, Quiet, past
<1>7. \A q \in Runners : ~Holds(q, s)'
  <2>1. \A q \in Runners : q # r => ~Holds(q, s)
    BY <1>4, Apart DEF IInv, Owned
  <2>2. ~Holds(r, s)'
    BY <1>1 DEF IInv, TypeOK, Holds
  <2>3. ASSUME NEW q \in Runners, q # r PROVE ~Holds(q, s)'
    BY <1>1, <1>6, <2>1, <2>3 DEF IInv, TypeOK, Holds, runner
  <2> QED BY <2>2, <2>3
<1>8. \A q, u \in Runners : u # s => (Holds(q, u)' <=> Holds(q, u))
  BY <1>1, <1>2, <1>6 DEF IInv, TypeOK, Holds, runner
<1>9. TypeOK'
  BY <1>1, <1>2, <1>3, <1>4, Apart
     DEF StopFails, StopEffect, Gentle, IInv, TypeOK, runner, maps, past, Steps, SweepSteps
<1>10. Placed'
  BY <1>1, <1>3 DEF StopEffect, Gentle, IInv, TypeOK, Placed, runner
<1>11. Locked'
  BY <1>1, <1>6, Apart DEF IInv, TypeOK, Locked
<1>12. Owned'
  <2>1. \A u, q \in Runners : lifecycle'[u] = q <=> Holds(q, u)'
    BY <1>2, <1>4, <1>7, <1>8, Apart DEF IInv, TypeOK, Owned
  <2>2. \A q \in Runners : step'[q] = "spawning" => ~closed'[using'[q]]
    BY <1>1, <1>4 DEF IInv, TypeOK, Owned, runner
  <2>3. /\ \A u \in Runners : lifecycle'[u] = Sweeper =>
               step'[Sweeper] = "stopping" /\ u \in todo'
        /\ \A u, v \in Runners : lifecycle'[u] = Sweeper /\ lifecycle'[v] = Sweeper => u = v
    BY <1>1, <1>2, <1>4, Apart DEF IInv, TypeOK, Owned
  <2>4. ASSUME NEW u \in Runners, lifecycle'[u] # None
        PROVE  closed'[u] \/ step'[lifecycle'[u]] = "spawning"
    <3>1. lifecycle'[u] = lifecycle[u] /\ u # s
      BY <1>2, <1>4, <2>4 DEF IInv, TypeOK
    <3>2. lifecycle[u] # r
      BY <1>1, <1>4, <3>1, Apart DEF IInv, Owned, Holds
    <3> QED BY <1>1, <1>4, <2>4, <3>1, <3>2, Apart DEF IInv, TypeOK, Owned
  <2> QED BY <2>1, <2>2, <2>3, <2>4 DEF Owned
<1> QED BY <1>6, <1>9, <1>10, <1>11, <1>12 DEF IInv, Others

\* A run that is cancelled.
LEMMA CancelKeeps ==
    ASSUME IInv, NEW r \in Runners, Cancel(r) PROVE IInv'
<1>1. /\ cancels' = cancels + 1
      /\ UNCHANGED <<runner, recorded, maps, closing, closed, current, process, pids,
                     todo, swept, refusals>>
      /\ CancelledBefore(r) \/ CancelledInSpawn(r) \/ CancelledAtLock(r)
         \/ CancelledInStop(r)
  BY DEF Cancel
<1>2. CASE CancelledBefore(r)
  <2>1. /\ UNCHANGED <<lock, lifecycle, abandoned>>
        /\ \/ step[r] \in {"getting", "starting", "quitting"}
              /\ step' = [step EXCEPT ![r] = "leaving"]
           \/ step[r] = "recording" /\ step' = [step EXCEPT ![r] = "quitting"]
           \/ step[r] = "running" /\ step' = [step EXCEPT ![r] = "killing"]
           \/ step[r] = "running" /\ step' = [step EXCEPT ![r] = "quitting"]
    BY <1>2 DEF CancelledBefore, Go
  <2>2. /\ \A q \in Runners : Running(q)' => Running(q)
        /\ \A q \in Runners : step'[q] = "ended" => step[q] = "ended"
        /\ \A q \in Runners : step'[q] = "recording" => step[q] = "recording"
    BY <2>1 DEF Running, IInv, TypeOK
  <2>3. TypeOK'
    BY <1>1, <2>1, Apart DEF IInv, TypeOK, runner, maps, Steps, SweepSteps
  <2>4. Placed'
    BY <1>1, <2>1 DEF IInv, TypeOK, Placed, runner
  <2>5. Known' = Known /\ (\A q \in Runners : Target(q)' = Target(q)) /\ Others'
    BY <1>1, <2>1, <2>2, GentleKeeps DEF Quiet, Gentle, IInv, TypeOK
  <2>6. Locked'
    BY <1>1, <2>1, <2>5, Apart DEF IInv, TypeOK, Locked
  <2>7. Owned'
    BY <1>1, <2>1, <2>5, Apart DEF IInv, TypeOK, Owned, Holds, runner
  <2> QED BY <2>3, <2>4, <2>5, <2>6, <2>7 DEF IInv, Others
<1>3. CASE CancelledInSpawn(r)
  <2>0. step[r] = "spawning" /\ using[r] \in Runners
    BY <1>3 DEF CancelledInSpawn, IInv, TypeOK, Placed
  <2>1. PICK s \in Runners : s = using[r]
    BY <2>0
  <2>2. /\ UNCHANGED <<lock, abandoned>>
        /\ step' = [step EXCEPT ![r] = "leaving"]
        /\ lifecycle' = [lifecycle EXCEPT ![s] = None] /\ lifecycle[s] = r
    BY <1>3, <2>0, <2>1 DEF CancelledInSpawn, Go, IInv, Owned, Holds
  <2>3. /\ \A q \in Runners : Running(q)' => Running(q)
        /\ \A q \in Runners : step'[q] = "ended" => step[q] = "ended"
        /\ \A q \in Runners : step'[q] = "recording" => step[q] = "recording"
    BY <2>0, <2>2 DEF Running, IInv, TypeOK
  <2>4. TypeOK'
    BY <1>1, <2>2, Apart DEF IInv, TypeOK, runner, maps, Steps, SweepSteps
  <2>5. Placed'
    BY <1>1, <2>0, <2>2 DEF IInv, TypeOK, Placed, runner
  <2>6. Known' = Known /\ (\A q \in Runners : Target(q)' = Target(q)) /\ Others'
    BY <1>1, <2>2, <2>3, GentleKeeps DEF Quiet, Gentle, IInv, TypeOK
  <2>7. Locked'
    BY <1>1, <2>0, <2>2, <2>6, Apart DEF IInv, TypeOK, Locked
  <2>8. Owned'
    BY <1>1, <2>0, <2>1, <2>2, <2>6, Apart DEF IInv, TypeOK, Owned, Holds, runner
  <2> QED BY <2>4, <2>5, <2>6, <2>7, <2>8 DEF IInv, Others
<1>4. CASE CancelledAtLock(r)
  <2>1. /\ step[r] = "leaving" /\ step' = [step EXCEPT ![r] = "ended"]
        /\ abandoned' = abandoned \cup {r} /\ UNCHANGED <<lock, lifecycle>>
    BY <1>4 DEF CancelledAtLock, Go
  <2>2. /\ \A q \in Runners : Running(q)' => Running(q)
        /\ \A q \in Runners : step'[q] = "ended" => step[q] = "ended" \/ q \in abandoned'
        /\ \A q \in Runners : step'[q] = "recording" => step[q] = "recording"
    BY <2>1 DEF Running, IInv, TypeOK
  <2>3. TypeOK'
    BY <1>1, <2>1, Apart DEF IInv, TypeOK, runner, maps, Steps, SweepSteps
  <2>4. Placed'
    BY <1>1, <2>1 DEF IInv, TypeOK, Placed, runner
  <2>5. Known' = Known /\ (\A q \in Runners : Target(q)' = Target(q)) /\ Others'
    BY <1>1, <2>1, <2>2, GentleKeeps DEF Quiet, Gentle, IInv, TypeOK
  <2>6. Locked'
    BY <1>1, <2>1, <2>5, Apart DEF IInv, TypeOK, Locked
  <2>7. Owned'
    BY <1>1, <2>1, <2>5, Apart DEF IInv, TypeOK, Owned, Holds, runner
  <2> QED BY <2>3, <2>4, <2>5, <2>6, <2>7 DEF IInv, Others
<1>5. CASE CancelledInStop(r)
  <2>0. step[r] \in {"removing", "stopping"} /\ Target(r) \in Runners
        /\ Target(r) \in closing
    BY <1>5, TargetIs DEF CancelledInStop, IInv, TypeOK, Locked
  <2>1. PICK s \in Runners : s = Target(r) /\ s \in closing
    BY <2>0
  <2>2. /\ step' = [step EXCEPT ![r] = "ended"] /\ lock' = None /\ lock = r
        /\ \/ step[r] = "removing" /\ lifecycle' = lifecycle
           \/ step[r] = "stopping" /\ lifecycle' = [lifecycle EXCEPT ![s] = None]
        /\ abandoned' = abandoned
    BY <1>5, <2>0, <2>1 DEF CancelledInStop, Go, IInv, Locked
  <2>3. using[r] \in closing \/ using[r] \notin Known \ {None}
    BY <2>0 DEF IInv, Handled, Running
  <2>4. /\ \A q \in Runners : Running(q)' => Running(q)
        /\ \A q \in Runners : step'[q] = "ended" =>
               step[q] = "ended" \/ using[q] \in closing \/ using[q] \notin Known \ {None}
        /\ \A q \in Runners : step'[q] = "recording" => step[q] = "recording"
    BY <2>0, <2>2, <2>3 DEF Running, IInv, TypeOK
  <2>5. TypeOK'
    BY <1>1, <2>2, Apart DEF IInv, TypeOK, runner, maps, Steps, SweepSteps
  <2>6. Placed'
    BY <1>1, <2>0, <2>2 DEF IInv, TypeOK, Placed, runner
  <2>7. Known' = Known /\ (\A q \in Runners : Target(q)' = Target(q)) /\ Others'
    BY <1>1, <2>2, <2>4, GentleKeeps DEF Quiet, Gentle, IInv, TypeOK
  <2>8. Locked'
    BY <1>1, <2>0, <2>2, <2>7, Apart DEF IInv, TypeOK, Locked
  <2>9. Owned'
    <3>1. CASE step[r] = "removing" /\ lifecycle' = lifecycle
      BY <1>1, <2>2, <2>7, <3>1, Apart DEF IInv, TypeOK, Owned, Holds, runner
    <3>2. CASE step[r] = "stopping" /\ lifecycle' = [lifecycle EXCEPT ![s] = None]
      <4>1. lifecycle[s] = r /\ closed' = closed
        BY <1>1, <2>1, <3>2 DEF IInv, Owned, Holds
      <4> QED BY <1>1, <2>1, <2>2, <2>7, <3>2, <4>1, Apart
             DEF IInv, TypeOK, Owned, Holds, runner
    <3> QED BY <2>2, <3>1, <3>2
  <2> QED BY <2>5, <2>6, <2>7, <2>8, <2>9 DEF IInv, Others
<1> QED BY <1>1, <1>2, <1>3, <1>4, <1>5

\* stop_all takes the lock of the manager, and then one session after the other.
LEMMA StopAllBeginsKeeps ==
    ASSUME IInv, StopAllBegins PROVE IInv'
<1>1. /\ step[Sweeper] = "idle" /\ lock = None /\ lock' = Sweeper
      /\ todo' = (Known \ {None}) \cup closing /\ closing' = closing \cup todo'
      /\ step' = [step EXCEPT ![Sweeper] = "sweeping"]
      /\ UNCHANGED <<runner, recorded, maps, object, past, cancels, refusals>>
  BY DEF StopAllBegins, Go
<1>2. Known \ {None} \subseteq Runners
  BY DEF IInv, TypeOK, Known
<1>3. \A q \in Runners : step'[q] = step[q] /\ (Running(q)' <=> Running(q))
  BY <1>1, Apart DEF IInv, TypeOK, Running
<1>4. TypeOK'
  BY <1>1, <1>2, <1>3, Apart DEF IInv, TypeOK, runner, maps, object, past, Steps, SweepSteps
<1>5. Placed'
  BY <1>1, <1>3 DEF IInv, Placed, runner, object
<1>6. Known' = Known /\ (\A q \in Runners : Target(q)' = Target(q)) /\ Others'
  BY <1>1, <1>3, GentleKeeps DEF Quiet, Gentle, object, past, IInv, TypeOK
<1>7. Locked'
  BY <1>1, <1>3, <1>6, Apart DEF IInv, TypeOK, Locked
<1>8. Owned'
  BY <1>1, <1>3, <1>6, Apart DEF IInv, TypeOK, Owned, Holds, runner, object
<1> QED BY <1>4, <1>5, <1>6, <1>7, <1>8 DEF IInv, Others

LEMMA StopAllEndsKeeps ==
    ASSUME IInv, StopAllEnds PROVE IInv'
<1>1. /\ step[Sweeper] = "sweeping" /\ lock' = None
      /\ step' = [step EXCEPT ![Sweeper] = "done"]
      /\ UNCHANGED <<runner, recorded, maps, closing, object, todo, past, cancels,
                     refusals>>
  BY DEF StopAllEnds, Go
<1>2. \A q \in Runners : step'[q] = step[q] /\ (Running(q)' <=> Running(q))
  BY <1>1, Apart DEF IInv, TypeOK, Running
<1>3. TypeOK'
  BY <1>1, <1>2, Apart DEF IInv, TypeOK, runner, maps, object, past, Steps, SweepSteps
<1>4. Placed'
  BY <1>1, <1>2 DEF IInv, Placed, runner, object
<1>5. Known' = Known /\ (\A q \in Runners : Target(q)' = Target(q)) /\ Others'
  BY <1>1, <1>2, GentleKeeps DEF Quiet, Gentle, object, past, IInv, TypeOK
<1>6. Locked'
  BY <1>1, <1>2, <1>5, Apart DEF IInv, TypeOK, Locked
<1>7. Owned'
  BY <1>1, <1>2, <1>5, Apart DEF IInv, TypeOK, Owned, Holds, runner, object
<1> QED BY <1>3, <1>4, <1>5, <1>6, <1>7 DEF IInv, Others

LEMMA StopOneWaitsKeeps ==
    ASSUME IInv, NEW s \in Runners, StopOneWaits(s) PROVE IInv'
<1>1. /\ s \in todo /\ step[Sweeper] = "sweeping" /\ StopWaits(Sweeper, s)
      /\ step' = [step EXCEPT ![Sweeper] = "stopping"]
      /\ UNCHANGED <<runner, recorded, maps, closing, lock, todo, past, cancels,
                     refusals>>
  BY DEF StopOneWaits, Go
<1>2. StopEffect(Sweeper, s)
  BY <1>1, StopIs DEF StopStage, IInv
<1>3. /\ lifecycle[s] = None /\ lifecycle' = [lifecycle EXCEPT ![s] = Sweeper] /\ closed'[s]
      /\ \A u \in Runners : closed[u] => closed'[u]
  BY <1>1, <1>2 DEF StopEffect, Gentle
<1>4. \A q \in Runners : step'[q] = step[q] /\ (Running(q)' <=> Running(q))
  BY <1>1, Apart DEF IInv, TypeOK, Running
<1>5. TypeOK'
  BY <1>1, <1>2, <1>3, <1>4, Apart
     DEF StopEffect, Gentle, IInv, TypeOK, runner, maps, past, Steps, SweepSteps
<1>6. Placed'
  BY <1>1, <1>2, <1>4 DEF StopEffect, Gentle, IInv, Placed, runner
<1>7. Known' = Known /\ (\A q \in Runners : Target(q)' = Target(q)) /\ Others'
  BY <1>1, <1>2, <1>4, GentleKeeps DEF StopEffect, Quiet, past
<1>8. Locked'
  BY <1>1, <1>4, <1>7, Apart DEF IInv, TypeOK, Locked
<1>9. Owned'
  <2>1. \A u, q \in Runners : lifecycle'[u] = q <=> Holds(q, u)'
    BY <1>1, <1>3, <1>4, <1>7, Apart DEF IInv, TypeOK, Owned, Holds, runner
  <2>2. ASSUME NEW q \in Runners, step'[q] = "spawning" PROVE ~closed'[using'[q]]
    <3>1. step[q] = "spawning" /\ using'[q] = using[q] /\ using[q] \in Runners
      BY <1>1, <1>4, <2>2 DEF IInv, TypeOK, Placed, runner
    <3>2. using[q] # s
      BY <1>3, <3>1, Apart DEF IInv, Owned, Holds
    <3> QED BY <1>2, <3>1, <3>2 DEF StopEffect, IInv, Owned
  <2>3. step'[Sweeper] = "stopping" /\ s \in todo'
        /\ \A u \in Runners : lifecycle'[u] = Sweeper => u = s
    BY <1>1, <1>3, Apart DEF IInv, TypeOK, Owned
  <2>4. \A u \in Runners : lifecycle'[u] # None =>
            closed'[u] \/ step'[lifecycle'[u]] = "spawning"
    BY <1>1, <1>3, <1>4, Apart DEF IInv, TypeOK, Owned
  <2> QED BY <2>1, <2>2, <2>3, <2>4 DEF Owned
<1> QED BY <1>5, <1>6, <1>7, <1>8, <1>9 DEF IInv, Others

LEMMA StopOneFailsKeeps ==
    ASSUME IInv, NEW s \in Runners, StopOneFails(s) PROVE IInv'
<1>1. /\ s \in todo /\ step[Sweeper] = "stopping" /\ StopFails(Sweeper, s)
      /\ todo' = todo \ {s}
      /\ step' = [step EXCEPT ![Sweeper] = "sweeping"]
      /\ UNCHANGED <<runner, recorded, maps, closing, lock, past, cancels>>
  BY DEF StopOneFails, Go
<1>2. StopEffect(Sweeper, s)
  BY <1>1, StopIs DEF StopStage, IInv
<1>3. /\ lifecycle[s] = Sweeper /\ lifecycle' = [lifecycle EXCEPT ![s] = None]
      /\ closed' = closed /\ refusals' = refusals + 1
  BY <1>1, <1>2 DEF StopEffect
<1>4. \A q \in Runners : step'[q] = step[q] /\ (Running(q)' <=> Running(q))
  BY <1>1, Apart DEF IInv, TypeOK, Running
<1>5. TypeOK'
  BY <1>1, <1>2, <1>3, <1>4, Apart
     DEF StopEffect, Gentle, IInv, TypeOK, runner, maps, past, Steps, SweepSteps
<1>6. Placed'
  BY <1>1, <1>2, <1>4 DEF StopEffect, Gentle, IInv, Placed, runner
<1>7. Known' = Known /\ (\A q \in Runners : Target(q)' = Target(q)) /\ Others'
  BY <1>1, <1>2, <1>4, GentleKeeps DEF StopEffect, Quiet, past
<1>8. Locked'
  BY <1>1, <1>4, <1>7, Apart DEF IInv, TypeOK, Locked
<1>9. Owned'
  <2>1. \A u, q \in Runners : lifecycle'[u] = q <=> Holds(q, u)'
    BY <1>1, <1>3, <1>4, <1>7, Apart DEF IInv, TypeOK, Owned, Holds, runner
  <2>2. \A q \in Runners : step'[q] = "spawning" => ~closed'[using'[q]]
    BY <1>1, <1>3, <1>4 DEF IInv, Owned, runner
  <2>3. \A u \in Runners : lifecycle'[u] # Sweeper
    BY <1>1, <1>3, Apart DEF IInv, TypeOK, Owned
  <2>4. \A u \in Runners : lifecycle'[u] # None =>
            closed'[u] \/ step'[lifecycle'[u]] = "spawning"
    BY <1>1, <1>3, <1>4, <2>3, Apart DEF IInv, TypeOK, Owned
  <2> QED BY <2>1, <2>2, <2>3, <2>4 DEF Owned
<1> QED BY <1>5, <1>6, <1>7, <1>8, <1>9 DEF IInv, Others

\* A step that changes nothing.
LEMMA RestKeeps ==
    ASSUME IInv, UNCHANGED managedVars PROVE IInv'
<1>1. TypeOK' /\ Placed' /\ Known' = Known /\ \A q \in Runners : Target(q)' = Target(q)
  BY DEF managedVars, IInv, TypeOK, Placed, Known, Target, HandleOf, SessionFor
<1>2. Others'
  BY <1>1, GentleKeeps DEF managedVars, Quiet, runner, maps, Gentle, Running, IInv, TypeOK
<1>3. Locked' /\ Owned'
  BY <1>1 DEF managedVars, IInv, Locked, Owned, Holds
<1> QED BY <1>1, <1>2, <1>3 DEF IInv, Others

-----------------------------------------------------------------------------
(* Runs begin and get their sessions. *)

\* A session of a run that has begun is of a run that has begun.
LEMMA BeginKeeps ==
    ASSUME IInv, NEW r \in Runners, NEW t \in Trees, Begin(r, t) PROVE IInv'
<1>1. /\ step[r] = "new" /\ tree' = [tree EXCEPT ![r] = t]
      /\ \A q \in Runners : tree[q] = t => ~Running(q)
      /\ step' = [step EXCEPT ![r] = "getting"]
      /\ UNCHANGED <<recorded, using, temp, captured, reported, maps, closing, lock, object,
                     todo, past, cancels, refusals>>
  BY DEF Begin, Go
<1>2. using[r] = None /\ temp[r] = None /\ reported[r] = None /\ process[r] = "none"
  BY <1>1 DEF IInv, Placed
<1>3. \A q \in Runners : using[q] # r
  BY <1>2, Apart DEF IInv, Placed
<1>4. \A s \in Known \ {None} : s # r
  BY <1>2, Apart DEF IInv, Handled
<1>5. Known' = Known /\ \A q \in Runners : Target(q)' = Target(q)
  BY <1>1 DEF maps, Known, Target, HandleOf, SessionFor
<1>6. TypeOK'
  BY <1>1, Apart DEF IInv, TypeOK, maps, object, past, Steps, SweepSteps
<1>7. Placed'
  BY <1>1, Apart DEF IInv, TypeOK, Placed, object
<1>8. Successive'
  BY <1>1 DEF IInv, TypeOK, Successive, Running
<1>9. Mapped'
  BY <1>1 DEF IInv, Mapped, maps
<1>10. Handled'
  <2>1. \A s \in Known' \ {None} : using'[s] = s
    BY <1>1, <1>5 DEF IInv, Handled
  <2>2. ASSUME NEW q \in Runners, Running(q)', using'[q] \in Known' \ {None}
        PROVE  /\ Target(q)' = using'[q]
               /\ step'[q] = "recording" /\ using'[q] = q /\ temp'[q] # None =>
                      sessions'[reported'[q]] = q
    <3>1. q # r
      BY <1>1, <1>2, <2>2
    <3>2. step'[q] = step[q] /\ Running(q)
      BY <1>1, <2>2, <3>1 DEF Running, IInv, TypeOK
    <3> QED BY <1>1, <1>5, <2>2, <3>2 DEF IInv, Handled, maps
  <2> QED BY <2>1, <2>2 DEF Handled
<1>11. Lost'
  BY <1>1, <1>5, LostKeeps DEF object, Alive
<1>12. Locked'
  BY <1>1, <1>5, Apart DEF IInv, TypeOK, Locked
<1>13. Owned'
  BY <1>1, <1>5, Apart DEF IInv, TypeOK, Owned, Holds, object
<1>14. Spawning'
  BY <1>1 DEF IInv, TypeOK, Spawning, Alive, object, past
<1>15. Left'
  BY <1>1, <1>5 DEF IInv, TypeOK, Left, object, past
<1>16. Distinct' => Distinct
  <2> SUFFICES ASSUME Distinct', NEW p \in Runners, NEW q \in Runners,
                      reported[p] # None, reported[p] = reported[q]
               PROVE  tree[p] = tree[q]
    BY DEF Distinct
  <2>1. tree'[p] = tree'[q] /\ p # r /\ q # r
    BY <1>1, <1>2 DEF Distinct
  <2> QED BY <1>1, <2>1 DEF IInv, TypeOK
<1>17. Kept'
  <2>1. \A q \in Runners : IF temp'[q] \in Ids THEN temp'[q] \in recorded'[tree'[q]]
                                             ELSE temp'[q] \in {q, None}
    BY <1>1, <1>2, Apart DEF IInv, TypeOK, Kept
  <2>2. ASSUME NEW u \in Trees, NEW i \in recorded'[u]
        PROVE  \E q \in Runners : tree'[q] = u /\ reported'[q] = i
    <3>1. i \in Ids
      BY <1>1 DEF IInv, TypeOK
    <3>2. PICK q \in Runners : tree[q] = u /\ reported[q] = i
      BY <1>1 DEF IInv, Kept
    <3>3. q # r
      BY <1>2, <3>1, <3>2, Apart
    <3> QED BY <1>1, <3>2, <3>3 DEF IInv, TypeOK
  <2>3. ASSUME NEW k \in Keys, pendings'[k] # None
        PROVE  IF k \in Ids THEN k \in recorded'[tree'[pendings'[k]]] ELSE k = pendings'[k]
    <3>1. pendings'[k] = pendings[k] /\ pendings[k] \in Runners /\ pendings[k] # r
      BY <1>1, <1>4, <2>3, KnownIs DEF maps, IInv, TypeOK
    <3> QED BY <1>1, <2>3, <3>1 DEF IInv, TypeOK, Kept
  <2>4. ASSUME NEW i \in Ids, sessions'[i] # None
        PROVE  /\ IF realToTemp'[i] \in Ids
                  THEN realToTemp'[i] \in recorded'[tree'[sessions'[i]]]
                  ELSE realToTemp'[i] = sessions'[i]
               /\ Distinct' => \E q \in Runners :
                      tree'[q] = tree'[sessions'[i]] /\ reported'[q] = i
    <3>1. sessions'[i] = sessions[i] /\ sessions[i] \in Runners /\ sessions[i] # r
          /\ realToTemp' = realToTemp
      BY <1>1, <1>4, <2>4, KnownIs DEF maps, IInv, TypeOK
    <3>2. tree'[sessions'[i]] = tree[sessions[i]]
      BY <1>1, <3>1 DEF IInv, TypeOK
    <3>3. IF realToTemp'[i] \in Ids
          THEN realToTemp'[i] \in recorded'[tree'[sessions'[i]]]
          ELSE realToTemp'[i] = sessions'[i]
      BY <1>1, <2>4, <3>1, <3>2 DEF IInv, Kept
    <3>4. ASSUME Distinct' PROVE \E q \in Runners :
                      tree'[q] = tree'[sessions'[i]] /\ reported'[q] = i
      <4>1. PICK q \in Runners : tree[q] = tree[sessions[i]] /\ reported[q] = i
        BY <1>16, <2>4, <3>1, <3>4 DEF IInv, Kept
      <4>2. q # r
        BY <1>2, <4>1, Apart
      <4> QED BY <1>1, <3>2, <4>1, <4>2 DEF IInv, TypeOK
    <3> QED BY <3>3, <3>4
  <2>5. ASSUME Distinct', NEW q \in Runners, using'[q] # None
        PROVE  tree'[q] = tree'[using'[q]]
    <3>1. q # r /\ using'[q] = using[q] /\ using[q] # r /\ using[q] \in Runners
      BY <1>1, <1>2, <1>3, <2>5 DEF IInv, TypeOK
    <3> QED BY <1>1, <1>16, <2>5, <3>1 DEF IInv, TypeOK, Kept
  <2> QED BY <2>1, <2>2, <2>3, <2>4, <2>5 DEF Kept
<1>18. Exclusive'
  <2> SUFFICES ASSUME Distinct, abandoned = {}, NEW p \in Runners, NEW q \in Runners,
                      process[p] = "alive", Running(q)', using[p] = using[q], p # q
               PROVE  closed[using[q]]
    BY <1>1, <1>16 DEF Exclusive, object, past
  <2>1. q # r
    BY <1>2 DEF IInv, Placed
  <2>2. Running(q)
    BY <1>1, <2>1 DEF Running, IInv, TypeOK
  <2> QED BY <2>2 DEF IInv, Exclusive
<1>19. NotReplaced'
  BY <1>1, <1>16 DEF IInv, NotReplaced, object, past
<1> QED BY <1>6, <1>7, <1>8, <1>9, <1>10, <1>11, <1>12, <1>13, <1>14, <1>15, <1>17, <1>18,
           <1>19 DEF IInv

\* While processes report ids of their own, an id that a conversation has
\* recorded stands for a session of that conversation.
LEMMA OfThisTree ==
    ASSUME IInv, Distinct, NEW t \in Trees, NEW parent \in recorded[t],
           SessionFor(parent) # None
    PROVE  tree[SessionFor(parent)] = t
<1>1. parent \in Ids /\ parent \in Keys
  BY Apart DEF IInv, TypeOK
<1>2. PICK q \in Runners : tree[q] = t /\ reported[q] = parent
  BY DEF IInv, Kept
<1>3. ASSUME NEW u \in Trees, parent \in recorded[u] PROVE u = t
  <2>1. PICK p \in Runners : tree[p] = u /\ reported[p] = parent
    BY <1>3 DEF IInv, Kept
  <2> QED BY <1>1, <1>2, <2>1, Apart DEF Distinct
<1>4. ASSUME NEW s \in Known \ {None} PROVE tree[s] \in Trees
  <2>1. s \in Runners /\ using[s] = s
    BY KnownIs DEF IInv, TypeOK, Handled
  <2> QED BY <2>1, Apart DEF IInv, Placed
<1>5. SessionFor(parent) \in Known \ {None}
  BY <1>1, Lookup DEF IInv
<1>6. CASE tempToReal[parent] # None
  <2>1. PICK i \in Ids : i = tempToReal[parent]
    BY <1>1, <1>6 DEF IInv, TypeOK
  <2>2. realToTemp[i] = parent /\ SessionFor(parent) = sessions[i]
    BY <1>1, <1>6, <2>1, Lookup DEF IInv, Mapped
  <2>3. parent \in recorded[tree[sessions[i]]]
    BY <1>1, <1>5, <2>2 DEF IInv, Kept
  <2> QED BY <1>3, <1>4, <1>5, <2>2, <2>3
<1>7. CASE tempToReal[parent] = None /\ sessions[parent] # None
  <2>1. SessionFor(parent) = sessions[parent]
    BY <1>1, <1>7, Lookup DEF IInv
  <2>2. PICK p \in Runners : tree[p] = tree[sessions[parent]] /\ reported[p] = parent
    BY <1>1, <1>7 DEF IInv, Kept
  <2> QED BY <1>1, <1>2, <2>1, <2>2, Apart DEF Distinct
<1>8. CASE tempToReal[parent] = None /\ sessions[parent] = None
  <2>1. SessionFor(parent) = pendings[parent]
    BY <1>1, <1>8, Lookup DEF IInv
  <2>2. parent \in recorded[tree[pendings[parent]]]
    BY <1>1, <1>5, <2>1 DEF IInv, Kept
  <2> QED BY <1>3, <1>4, <1>5, <2>1, <2>2
<1> QED BY <1>6, <1>7, <1>8

\* A run that is refused, because its session is closing or the id that its
\* process reports is taken, goes on to its end.
LEMMA RefusedKeeps ==
    ASSUME IInv, NEW r \in Runners,
           \/ step[r] = "getting" /\ step' = [step EXCEPT ![r] = "leaving"]
           \/ step[r] = "running" /\ step' = [step EXCEPT ![r] = "quitting"],
           UNCHANGED <<runner, recorded, maps, closing, lock, object, todo, past,
                       cancels, refusals>>
    PROVE  IInv'
<1>1. /\ \A q \in Runners : Running(q)' => Running(q)
      /\ \A q \in Runners : step'[q] = "ended" => step[q] = "ended"
      /\ \A q \in Runners : step'[q] = "recording" => step[q] = "recording"
  BY DEF Running, IInv, TypeOK
<1>2. TypeOK'
  BY Apart DEF IInv, TypeOK, runner, maps, object, past, Steps, SweepSteps
<1>3. Placed'
  BY DEF IInv, TypeOK, Placed, runner, object
<1>4. Known' = Known /\ (\A q \in Runners : Target(q)' = Target(q)) /\ Others'
  BY <1>1, GentleKeeps DEF Quiet, Gentle, IInv, TypeOK, object, past
<1>5. Locked'
  BY <1>4, Apart DEF IInv, TypeOK, Locked
<1>6. Owned'
  BY <1>4, Apart DEF IInv, TypeOK, Owned, Holds, runner, object
<1> QED BY <1>2, <1>3, <1>4, <1>5, <1>6 DEF IInv, Others

\* A reply goes on in the session of its conversation, found by id: whoever
\* used it before has ended and has stopped it.
LEMMA ReuseKeeps ==
    ASSUME IInv, NEW r \in Runners, step[r] = "getting",
           NEW parent \in recorded[tree[r]], NEW s \in Runners,
           s = SessionFor(parent), s \notin closing,
           using' = [using EXCEPT ![r] = s],
           captured' = [captured EXCEPT ![r] =
               IF tempToReal[parent] = None THEN parent ELSE tempToReal[parent]],
           step' = [step EXCEPT ![r] = "starting"],
           UNCHANGED <<tree, recorded, temp, reported, maps, closing, lock, object, todo,
                       past, cancels, refusals>>
    PROVE  IInv'
<1>1. /\ using[r] = None /\ temp[r] = None /\ captured[r] = None /\ reported[r] = None
      /\ process[r] = "none" /\ tree[r] \in Trees
  BY DEF IInv, Placed
<1>2. parent \in Ids /\ parent \in Keys
  BY <1>1, Apart DEF IInv, TypeOK
<1>3. s \in Known \ {None} /\ using[s] = s /\ s # r
  BY <1>1, <1>2, Lookup, Apart DEF IInv, Handled
<1>4. PICK i \in Ids : captured'[r] = i /\ SessionFor(i) = s
  <2>1. CASE tempToReal[parent] = None
    BY <1>2, <2>1 DEF IInv, TypeOK
  <2>2. CASE tempToReal[parent] # None
    <3>1. SessionFor(parent) = sessions[tempToReal[parent]] /\ tempToReal[parent] \in Ids
      BY <1>2, <2>2, Lookup DEF IInv, TypeOK
    <3>2. SessionFor(tempToReal[parent]) = s
      BY <1>3, <3>1, Found DEF IInv
    <3> QED BY <2>2, <3>1, <3>2 DEF IInv, TypeOK
  <2> QED BY <2>1, <2>2
<1>5. Known' = Known /\ (\A k : SessionFor(k)' = SessionFor(k))
  BY DEF maps, Known, SessionFor
<1>6. Target(r)' = s
  BY <1>4, <1>5, Apart DEF Target, HandleOf
<1>7. \A q \in Runners : q # r => Target(q)' = Target(q) /\ using'[q] = using[q]
                                  /\ step'[q] = step[q] /\ captured'[q] = captured[q]
  BY <1>5 DEF Target, HandleOf, IInv, TypeOK
<1>8. TypeOK'
  BY <1>4, Apart DEF IInv, TypeOK, maps, object, past, Steps, SweepSteps
<1>9. Placed'
  BY <1>1, <1>3, Apart DEF IInv, TypeOK, Placed, object
<1>10. Successive'
  BY DEF IInv, TypeOK, Successive, Running
<1>11. Mapped'
  BY DEF IInv, Mapped, maps
<1>12. Handled'
  <2>1. \A u \in Known' \ {None} : using'[u] = u
    BY <1>1, <1>5, Apart DEF IInv, TypeOK, Handled
  <2>2. ASSUME NEW q \in Runners, Running(q)', using'[q] \in Known' \ {None}
        PROVE  /\ Target(q)' = using'[q]
               /\ step'[q] = "recording" /\ using'[q] = q /\ temp'[q] # None =>
                      sessions'[reported'[q]] = q
    <3>1. CASE q = r
      BY <1>6, <3>1 DEF IInv, TypeOK
    <3>2. CASE q # r
      BY <1>5, <1>7, <2>2, <3>2 DEF IInv, Handled, Running, maps
    <3> QED BY <3>1, <3>2
  <2> QED BY <2>1, <2>2 DEF Handled
<1>13. Lost'
  <2>1. \A u \in Runners : Alive(u)' <=> Alive(u)
    BY DEF Alive, object
  <2>2. ASSUME NEW q \in Runners, NEW u \in Runners, using'[q] = u, u \notin Known
        PROVE  closed'[u] /\ ~Alive(u)'
    <3>1. q # r
      BY <1>3, <2>2 DEF IInv, TypeOK
    <3> QED BY <1>7, <2>1, <2>2, <3>1, Apart DEF IInv, Lost, object
  <2>3. ASSUME NEW q \in Runners, using'[q] # None, using'[q] \notin Known'
        PROVE  closed'[using'[q]] /\
               ~(current'[using'[q]] # None /\ process'[current'[using'[q]]] = "alive")
    BY <1>5, <1>8, <2>2, <2>3 DEF TypeOK, Alive
  <2> QED BY <2>3 DEF Lost, Alive
<1>14. Locked'
  BY <1>7, Apart DEF IInv, TypeOK, Locked
<1>15. Owned'
  BY <1>1, <1>7, Apart DEF IInv, TypeOK, Owned, Holds, object
<1>16. Spawning'
  <2>1. \A u \in Runners : current[u] # None => current[u] # r
    BY <1>1, Apart DEF IInv, Spawning
  <2> QED BY <2>1 DEF IInv, TypeOK, Spawning, Alive, object, past
<1>17. Left'
  BY <1>5 DEF IInv, TypeOK, Left, object, past
<1>18. Distinct' = Distinct
  BY DEF Distinct
<1>19. Distinct => tree[r] = tree[s]
  BY <1>1, <1>3, OfThisTree, Apart
<1>20. Kept'
  <2>1. \A q \in Runners : IF temp'[q] \in Ids THEN temp'[q] \in recorded'[tree'[q]]
                                             ELSE temp'[q] \in {q, None}
    BY DEF IInv, Kept
  <2>2. \A t \in Trees : \A j \in recorded'[t] :
            \E q \in Runners : tree'[q] = t /\ reported'[q] = j
    BY DEF IInv, Kept
  <2>3. \A k \in Keys : pendings'[k] # None =>
            IF k \in Ids THEN k \in recorded'[tree'[pendings'[k]]] ELSE k = pendings'[k]
    BY DEF IInv, Kept, maps
  <2>4. \A j \in Ids : sessions'[j] # None =>
            /\ IF realToTemp'[j] \in Ids
               THEN realToTemp'[j] \in recorded'[tree'[sessions'[j]]]
               ELSE realToTemp'[j] = sessions'[j]
            /\ Distinct' => \E q \in Runners :
                   tree'[q] = tree'[sessions'[j]] /\ reported'[q] = j
    BY <1>18 DEF IInv, Kept, maps
  <2>5. Distinct' => \A q \in Runners : using'[q] # None => tree'[q] = tree'[using'[q]]
    BY <1>18, <1>19 DEF IInv, TypeOK, Kept
  <2> QED BY <2>1, <2>2, <2>3, <2>4, <2>5 DEF Kept
<1>21. ASSUME Distinct, abandoned = {}, NEW q \in Runners, using[q] = s,
              process[q] = "alive"
       PROVE  closed[s]
  <2>1. q # r /\ using[q] # None
    BY <1>1, <1>21, Apart
  <2>2. CASE Running(q)
    <3>1. tree[q] = tree[r]
      BY <1>19, <1>21, <2>1 DEF IInv, Kept
    <3> QED BY <2>1, <2>2, <3>1 DEF IInv, Successive, Running
  <2>3. CASE ~Running(q)
    <3>1. step[q] = "ended"
      BY <1>21, <2>3 DEF IInv, Placed, Running
    <3> QED BY <1>3, <1>21, <3>1 DEF IInv, Left
  <2> QED BY <2>2, <2>3
<1>22. Exclusive'
  <2> SUFFICES ASSUME Distinct, abandoned = {}, NEW p \in Runners, NEW q \in Runners,
                      process[p] = "alive", Running(q)', using'[p] = using'[q], p # q
               PROVE  closed[using'[q]]
    BY <1>18 DEF Exclusive, object, past
  <2>1. p # r /\ using'[p] = using[p]
    BY <1>1, <1>7
  <2>2. CASE q = r
    BY <1>21, <2>1, <2>2 DEF IInv, TypeOK
  <2>3. CASE q # r
    BY <1>7, <2>1, <2>3 DEF IInv, Exclusive, Running
  <2> QED BY <2>2, <2>3
<1>23. NotReplaced'
  <2> SUFFICES ASSUME Distinct, abandoned = {}, NEW q \in Runners, process[q] = "alive"
               PROVE  current[using'[q]] = q
    BY <1>18 DEF NotReplaced, object, past
  <2> QED BY <1>1, <1>7 DEF IInv, NotReplaced
<1> QED BY <1>8, <1>9, <1>10, <1>11, <1>12, <1>13, <1>14, <1>15, <1>16, <1>17, <1>20,
           <1>22, <1>23 DEF IInv

\* A session that is made for a run is known under an id that stood for none.
LEMMA CreateKeeps ==
    ASSUME IInv, NEW r \in Runners, step[r] = "getting", NEW id \in Keys,
           IF id \in Ids THEN id \in recorded[tree[r]] /\ SessionFor(id) = None
                         ELSE id = r,
           temp' = [temp EXCEPT ![r] = id],
           pendings' = [pendings EXCEPT ![id] = r],
           using' = [using EXCEPT ![r] = r],
           step' = [step EXCEPT ![r] = "starting"],
           UNCHANGED <<tree, recorded, captured, reported, sessions, tempToReal, realToTemp,
                       closing, lock, object, todo, past, cancels, refusals>>
    PROVE  IInv'
<1>1. /\ using[r] = None /\ temp[r] = None /\ captured[r] = None /\ reported[r] = None
      /\ process[r] = "none" /\ tree[r] \in Trees
  BY DEF IInv, Placed
<1>2. r \notin Known
  BY <1>1, Apart DEF IInv, Handled
<1>3. \A q \in Runners : using[q] # r
  BY <1>1, Apart DEF IInv, Placed
<1>4. tempToReal[id] = None /\ pendings[id] = None /\ (id \in Ids => sessions[id] = None)
  <2>1. CASE id \in Ids
    <3>1. SessionFor(id) = None
      BY <2>1
    <3>2. tempToReal[id] = None
      BY <3>1, Lookup DEF IInv
    <3>3. sessions[id] = None
      BY <2>1, <3>1, <3>2, Lookup DEF IInv
    <3>4. pendings[id] = None
      BY <2>1, <3>1, <3>2, <3>3, Lookup DEF IInv
    <3> QED BY <3>2, <3>3, <3>4
  <2>2. CASE id \notin Ids
    <3>1. id = r
      BY <2>2
    <3>2. pendings[r] = None
      BY <1>2, <2>2, <3>1, KnownIs DEF IInv, Kept
    <3>3. ASSUME tempToReal[r] # None PROVE FALSE
      <4>1. PICK i \in Ids : tempToReal[r] = i
        BY <3>1, <3>3 DEF IInv, TypeOK
      <4>2. realToTemp[i] = r /\ sessions[i] # None
        BY <3>1, <4>1, Apart DEF IInv, Mapped
      <4>3. sessions[i] = r
        BY <2>2, <3>1, <4>2 DEF IInv, Kept
      <4> QED BY <1>2, <4>3, KnownIs
    <3> QED BY <2>2, <3>1, <3>2, <3>3
  <2> QED BY <2>1, <2>2
<1>5. /\ \A s : s \in Known => s \in Known' \cup {None}
      /\ \A s : s \in Known' => s \in Known \cup {r}
      /\ r \in Known'
  <2>1. \A k \in Keys : k # id => pendings'[k] = pendings[k]
    BY DEF IInv, TypeOK
  <2>2. pendings'[id] = r
    BY DEF IInv, TypeOK
  <2>3. \A i \in Ids : sessions'[i] = sessions[i]
    OBVIOUS
  <2> QED BY <1>4, <2>1, <2>2, <2>3 DEF Known
<1>6. \A k \in Keys : SessionFor(k) # None => SessionFor(k)' = SessionFor(k)
  <2> SUFFICES ASSUME NEW k \in Keys, SessionFor(k) # None
               PROVE  SessionFor(k)' = SessionFor(k)
    OBVIOUS
  <2>1. CASE tempToReal[k] # None
    <3>1. PICK i \in Ids : i = tempToReal[k]
      BY <2>1 DEF IInv, TypeOK
    <3>2. sessions[i] # None
      BY <2>1, <3>1, Lookup DEF IInv
    <3> QED BY <2>1, <3>1, <3>2 DEF SessionFor
  <2>2. CASE tempToReal[k] = None
    <3>1. pendings[k] # None => pendings'[k] = pendings[k]
      BY <1>4 DEF IInv, TypeOK
    <3> QED BY <2>2, <3>1 DEF SessionFor
  <2> QED BY <2>1, <2>2
<1>7. SessionFor(id)' = r
  <2>1. pendings'[id] = r
    BY DEF IInv, TypeOK
  <2> QED BY <1>4, <2>1, Apart DEF SessionFor
<1>8. Target(r)' = r
  <2>1. captured'[r] = None /\ temp'[r] = id /\ id # None
    BY <1>1, Apart DEF IInv, TypeOK
  <2> QED BY <1>7, <2>1 DEF Target, HandleOf
<1>9. \A q \in Runners : q # r => using'[q] = using[q] /\ step'[q] = step[q]
                                  /\ temp'[q] = temp[q]
  BY DEF IInv, TypeOK
<1>10. \A q \in Runners : q # r /\ Target(q) # None => Target(q)' = Target(q)
  <2> SUFFICES ASSUME NEW q \in Runners, q # r, Target(q) # None PROVE Target(q)' = Target(q)
    OBVIOUS
  <2>1. HandleOf(q)' = HandleOf(q)
    BY <1>9 DEF HandleOf
  <2>2. HandleOf(q) \in Keys /\ Target(q) = SessionFor(HandleOf(q))
    BY Apart DEF HandleOf, Target, IInv, TypeOK
  <2>3. PICK k \in Keys : k = HandleOf(q)
    BY <2>2
  <2>4. Target(q)' = SessionFor(k)' /\ Target(q) = SessionFor(k)
    BY <2>1, <2>3, Apart DEF Target
  <2> QED BY <1>6, <2>4
<1>11. TypeOK'
  BY Apart DEF IInv, TypeOK, object, past, Steps, SweepSteps
<1>12. Placed'
  BY <1>1, <1>3, Apart DEF IInv, TypeOK, Placed, object
<1>13. Successive'
  BY DEF IInv, TypeOK, Successive, Running
<1>14. Mapped'
  <2>1. \A i \in Ids : sessions[i] # r
    BY <1>2, KnownIs
  <2>2. \A k \in Keys : pendings[k] # r
    BY <1>2, KnownIs
  <2>3. \A k \in Keys : pendings'[k] = IF k = id THEN r ELSE pendings[k]
    BY DEF IInv, TypeOK
  <2>4. \A i \in Ids : i \in Keys
    BY Apart
  <2>5. /\ \A k \in Keys : pendings'[k] # None => tempToReal'[k] = None
        /\ \A i \in Ids : pendings'[i] # None => sessions'[i] = None
    BY <1>4, <2>3, <2>4 DEF IInv, Mapped
  <2>6. /\ \A k, l \in Keys : pendings'[k] # None /\ pendings'[k] = pendings'[l] => k = l
        /\ \A i \in Ids, k \in Keys : sessions'[i] # None => sessions'[i] # pendings'[k]
    BY <2>1, <2>2, <2>3 DEF IInv, Mapped
  <2>7. /\ \A i \in Ids : sessions'[i] # None <=> realToTemp'[i] # None
        /\ \A k \in Keys, i \in Ids : tempToReal'[k] = i <=> realToTemp'[i] = k
        /\ \A i \in Ids : sessions'[i] # None => tempToReal'[i] \in {None, i}
        /\ \A i, j \in Ids : sessions'[i] # None /\ sessions'[i] = sessions'[j] => i = j
    BY DEF IInv, Mapped
  <2> QED BY <2>5, <2>6, <2>7 DEF Mapped
<1>15. Handled'
  <2>1. \A s \in Known' \ {None} : using'[s] = s
    <3> SUFFICES ASSUME NEW s \in Known', s # None PROVE using'[s] = s
      OBVIOUS
    <3>1. s = r \/ s \in Known \ {None}
      BY <1>5
    <3>2. CASE s = r
      BY <3>2 DEF IInv, TypeOK
    <3>3. CASE s # r
      <4>1. s \in Runners /\ using[s] = s
        BY <3>1, <3>3, KnownIs DEF IInv, Handled, TypeOK
      <4> QED BY <1>9, <3>3, <4>1
    <3> QED BY <3>2, <3>3
  <2>2. ASSUME NEW q \in Runners, Running(q)', using'[q] \in Known' \ {None}
        PROVE  /\ Target(q)' = using'[q]
               /\ step'[q] = "recording" /\ using'[q] = q /\ temp'[q] # None =>
                      sessions'[reported'[q]] = q
    <3>1. CASE q = r
      BY <1>8, <3>1 DEF IInv, TypeOK
    <3>2. CASE q # r
      <4>1. using[q] \in Known \ {None} /\ Running(q)
        BY <1>3, <1>5, <1>9, <2>2, <3>2 DEF Running
      <4>2. Target(q) = using[q]
        BY <4>1 DEF IInv, Handled
      <4> QED BY <1>9, <1>10, <3>2, <4>1, <4>2 DEF IInv, Handled
    <3> QED BY <3>1, <3>2
  <2> QED BY <2>1, <2>2 DEF Handled
<1>16. Lost'
  <2>1. \A u \in Runners : Alive(u)' <=> Alive(u)
    BY DEF Alive, object
  <2>2. ASSUME NEW q \in Runners, NEW u \in Runners, using'[q] = u, u \notin Known'
        PROVE  closed'[u] /\ ~Alive(u)'
    <3>1. q # r
      BY <1>5, <2>2 DEF IInv, TypeOK
    <3>2. using[q] = u /\ u \notin Known
      BY <1>5, <1>9, <2>2, <3>1, Apart
    <3> QED BY <2>1, <3>2, Apart DEF IInv, Lost, object
  <2>3. ASSUME NEW q \in Runners, using'[q] # None, using'[q] \notin Known'
        PROVE  closed'[using'[q]] /\
               ~(current'[using'[q]] # None /\ process'[current'[using'[q]]] = "alive")
    BY <1>11, <2>2, <2>3 DEF TypeOK, Alive
  <2> QED BY <2>3 DEF Lost, Alive
<1>17. Locked'
  <2>1. ASSUME NEW q \in Runners, step'[q] \in {"removing", "stopping"}
        PROVE  Target(q)' # None /\ Target(q)' \in closing
    <3>1. q # r /\ step[q] \in {"removing", "stopping"}
      BY <1>9, <2>1 DEF IInv, TypeOK
    <3> QED BY <1>10, <3>1 DEF IInv, Locked
  <2>2. /\ \A q \in Runners : lock' = q <=> step'[q] \in {"removing", "stopping"}
        /\ lock' = Sweeper <=> step'[Sweeper] \in {"sweeping", "stopping"}
    BY Apart DEF IInv, TypeOK, Locked
  <2> QED BY <2>1, <2>2 DEF Locked
<1>18. Owned'
  <2>1. \A q, u \in Runners : Holds(q, u)' <=> Holds(q, u)
    <3> SUFFICES ASSUME NEW q \in Runners, NEW u \in Runners
                 PROVE  Holds(q, u)' <=> Holds(q, u)
      OBVIOUS
    <3>1. CASE q = r
      BY <3>1 DEF IInv, TypeOK, Holds
    <3>2. CASE q # r
      <4>1. step[q] = "stopping" => Target(q)' = Target(q)
        BY <1>10, <3>2 DEF IInv, Locked
      <4> QED BY <1>9, <3>2, <4>1 DEF Holds
    <3> QED BY <3>1, <3>2
  <2>2. step'[Sweeper] = step[Sweeper]
    BY Apart DEF IInv, TypeOK
  <2>3. \A q \in Runners : step'[q] = "spawning" => ~closed'[using'[q]]
    BY DEF IInv, TypeOK, Owned, object
  <2>4. \A u \in Runners : lifecycle'[u] # None =>
           closed'[u] \/ step'[lifecycle'[u]] = "spawning"
    BY Apart DEF IInv, TypeOK, Owned, object
  <2> QED BY <2>1, <2>2, <2>3, <2>4 DEF IInv, Owned, object
<1>19. Spawning'
  <2>1. \A u \in Runners : current[u] # None => current[u] # r
    BY <1>1, Apart DEF IInv, Spawning
  <2> QED BY <2>1 DEF IInv, TypeOK, Spawning, Alive, object, past
<1>20. Left'
  BY <1>3, <1>5 DEF IInv, TypeOK, Left, object, past
<1>21. Distinct' = Distinct
  BY DEF Distinct
<1>22. Kept'
  <2>1. \A q \in Runners : IF temp'[q] \in Ids THEN temp'[q] \in recorded'[tree'[q]]
                                             ELSE temp'[q] \in {q, None}
    BY DEF IInv, TypeOK, Kept
  <2>2. \A t \in Trees : \A j \in recorded'[t] :
            \E q \in Runners : tree'[q] = t /\ reported'[q] = j
    BY DEF IInv, Kept
  <2>3. \A k \in Keys : pendings'[k] # None =>
            IF k \in Ids THEN k \in recorded'[tree'[pendings'[k]]] ELSE k = pendings'[k]
    BY DEF IInv, TypeOK, Kept
  <2>4. \A j \in Ids : sessions'[j] # None =>
            /\ IF realToTemp'[j] \in Ids
               THEN realToTemp'[j] \in recorded'[tree'[sessions'[j]]]
               ELSE realToTemp'[j] = sessions'[j]
            /\ Distinct' => \E q \in Runners :
                   tree'[q] = tree'[sessions'[j]] /\ reported'[q] = j
    BY <1>21 DEF IInv, Kept
  <2>5. Distinct' => \A q \in Runners : using'[q] # None => tree'[q] = tree'[using'[q]]
    BY <1>21 DEF IInv, TypeOK, Kept
  <2> QED BY <2>1, <2>2, <2>3, <2>4, <2>5 DEF Kept
<1>23. Exclusive'
  <2> SUFFICES ASSUME Distinct, abandoned = {}, NEW p \in Runners, NEW q \in Runners,
                      process[p] = "alive", Running(q)', using'[p] = using'[q], p # q
               PROVE  closed[using'[q]]
    BY <1>21 DEF Exclusive, object, past
  <2>1. p # r /\ using'[p] = using[p]
    BY <1>1, <1>9
  <2>2. q # r
    BY <1>3, <2>1 DEF IInv, TypeOK
  <2> QED BY <1>9, <2>1, <2>2 DEF IInv, Exclusive, Running
<1>24. NotReplaced'
  <2> SUFFICES ASSUME Distinct, abandoned = {}, NEW q \in Runners, process[q] = "alive"
               PROVE  current[using'[q]] = q
    BY <1>21 DEF NotReplaced, object, past
  <2> QED BY <1>1, <1>9 DEF IInv, NotReplaced
<1> QED BY <1>11, <1>12, <1>13, <1>14, <1>15, <1>16, <1>17, <1>18, <1>19, <1>20, <1>22, <1>23,
           <1>24 DEF IInv

LEMMA GetOrCreateKeeps ==
    ASSUME IInv, NEW r \in Runners, GetOrCreate(r) PROVE IInv'
<1>1. PICK parent \in recorded[tree[r]] \cup {None} :
          step[r] = "getting" /\ Find(r, parent)
  BY DEF GetOrCreate
<1>2. UNCHANGED <<tree, recorded, reported, sessions, tempToReal, realToTemp, closing,
                  lock, object, todo, past, cancels, refusals>>
  BY DEF GetOrCreate
<1>3. r \in Keys /\ r \notin Ids /\ tree[r] \in Trees
  BY <1>1, Apart DEF IInv, Placed
<1>4. CASE parent = None
  <2>1. /\ temp' = [temp EXCEPT ![r] = r] /\ pendings' = [pendings EXCEPT ![r] = r]
        /\ using' = [using EXCEPT ![r] = r] /\ step' = [step EXCEPT ![r] = "starting"]
        /\ captured' = captured
    BY <1>1, <1>4 DEF Find, Go
  <2> QED BY <1>1, <1>2, <1>3, <2>1, CreateKeeps
<1>5. CASE parent # None
  <2>1. parent \in recorded[tree[r]] /\ parent \in Ids /\ parent \in Keys
    BY <1>1, <1>3, <1>5, Apart DEF IInv, TypeOK
  <2>2. SessionFor(parent) \in Runners \cup {None}
    BY <2>1, Lookup DEF IInv
  <2>3. CASE SessionFor(parent) = None
    <3>1. /\ temp' = [temp EXCEPT ![r] = parent]
          /\ pendings' = [pendings EXCEPT ![parent] = r]
          /\ using' = [using EXCEPT ![r] = r] /\ step' = [step EXCEPT ![r] = "starting"]
          /\ captured' = captured
      BY <1>1, <1>5, <2>3 DEF Find, Go
    <3> QED BY <1>1, <1>2, <2>1, <2>3, <3>1, CreateKeeps
  <2>4. CASE SessionFor(parent) # None /\ SessionFor(parent) \in closing
    <3>1. /\ step' = [step EXCEPT ![r] = "leaving"]
          /\ UNCHANGED <<using, temp, captured, pendings>>
      BY <1>1, <1>5, <2>4 DEF Find, Go
    <3>2. UNCHANGED <<runner, recorded, maps, closing, lock, object, todo, past,
                       cancels, refusals>>
      BY <1>2, <3>1 DEF runner, maps
    <3> QED BY <1>1, <3>1, <3>2, RefusedKeeps
  <2>5. CASE SessionFor(parent) # None /\ SessionFor(parent) \notin closing
    <3>1. /\ using' = [using EXCEPT ![r] = SessionFor(parent)]
          /\ captured' = [captured EXCEPT ![r] =
                IF tempToReal[parent] = None THEN parent ELSE tempToReal[parent]]
          /\ step' = [step EXCEPT ![r] = "starting"]
          /\ UNCHANGED <<temp, pendings>>
      BY <1>1, <1>5, <2>5 DEF Find, Go
    <3>2. PICK s \in Runners : s = SessionFor(parent)
      BY <2>2, <2>5
    <3>3. UNCHANGED <<tree, recorded, temp, reported, maps, closing, lock, object, todo,
                       past, cancels, refusals>>
      BY <1>2, <3>1 DEF maps
    <3>4. using' = [using EXCEPT ![r] = s] /\ s \notin closing
      BY <2>5, <3>1, <3>2
    <3> QED BY <1>1, <2>1, <3>1, <3>2, <3>3, <3>4, ReuseKeeps
  <2> QED BY <2>3, <2>4, <2>5
<1> QED BY <1>4, <1>5

\* An id that a process reports becomes the id of the session that was pending
\* for its run; the ids that stood for a session still do.
LEMMA RegisteredKeeps ==
    ASSUME IInv, NEW r \in Runners, NEW i \in Ids, NEW k \in Keys, NEW s \in Runners,
           step[r] = "running", temp[r] = k, lock = None,
           pendings[k] = s, s \notin closing, SessionFor(i) \in {None, s},
           pendings' = [pendings EXCEPT ![k] = None],
           sessions' = [sessions EXCEPT ![i] = s],
           tempToReal' = [tempToReal EXCEPT ![k] = i],
           realToTemp' = [realToTemp EXCEPT ![i] = k],
           reported' = [reported EXCEPT ![r] = i],
           step' = [step EXCEPT ![r] = "recording"],
           UNCHANGED <<tree, using, temp, captured, recorded, closing, lock, object, todo,
                       past, cancels, refusals>>
    PROVE  IInv'
<1>1. /\ using[r] = r /\ reported[r] = None /\ captured[r] = None /\ k # None /\ i \in Keys
      /\ i # None /\ s # None /\ tree[r] \in Trees
  BY Apart DEF IInv, Placed
<1>2. /\ tempToReal[k] = None /\ (k \in Ids => sessions[k] = None)
      /\ (\A j \in Ids : sessions[j] # s)
      /\ \A l \in Keys : pendings[l] = s => l = k
  BY <1>1 DEF IInv, Mapped
<1>3. tempToReal[i] = None /\ sessions[i] = None /\ realToTemp[i] = None
      /\ (pendings[i] = None \/ i = k)
  <2>1. tempToReal[i] = None
    <3> SUFFICES ASSUME tempToReal[i] # None PROVE FALSE
      OBVIOUS
    <3>1. PICK j \in Ids : j = tempToReal[i]
      BY <1>1 DEF IInv, TypeOK
    <3>2. SessionFor(i) = sessions[j] /\ SessionFor(i) # None
      BY <1>1, <3>1, Lookup DEF IInv
    <3> QED BY <1>2, <3>2
  <2>2. sessions[i] = None
    BY <1>1, <1>2, <2>1, Lookup DEF IInv
  <2>3. realToTemp[i] = None
    BY <2>2 DEF IInv, Mapped
  <2>4. SessionFor(i) = pendings[i]
    BY <1>1, <2>1, <2>2, Lookup DEF IInv
  <2> QED BY <1>1, <1>2, <2>1, <2>2, <2>3, <2>4
<1>4. /\ \A j \in Ids : sessions'[j] = IF j = i THEN s ELSE sessions[j]
      /\ \A j \in Ids : realToTemp'[j] = IF j = i THEN k ELSE realToTemp[j]
      /\ \A l \in Keys : pendings'[l] = IF l = k THEN None ELSE pendings[l]
      /\ \A l \in Keys : tempToReal'[l] = IF l = k THEN i ELSE tempToReal[l]
      /\ \A q \in Runners : reported'[q] = IF q = r THEN i ELSE reported[q]
      /\ \A q \in Runners : step'[q] = IF q = r THEN "recording" ELSE step[q]
      /\ step'[Sweeper] = step[Sweeper]
  BY Apart DEF IInv, TypeOK
<1>5. Known' \ {None} = Known \ {None}
  <2>1. ASSUME NEW u, u # None, u \in Known PROVE u \in Known'
    <3>1. CASE \E j \in Ids : sessions[j] = u
      BY <1>3, <1>4, <2>1, <3>1 DEF Known
    <3>2. CASE \E l \in Keys : pendings[l] = u
      BY <1>3, <1>4, <2>1, <3>2 DEF Known
    <3> QED BY <2>1, <3>1, <3>2, KnownIs
  <2>2. ASSUME NEW u, u # None, u \in Known' PROVE u \in Known
    <3>1. (\E j \in Ids : sessions'[j] = u) \/ (\E l \in Keys : pendings'[l] = u)
      BY <2>2 DEF Known
    <3>2. CASE \E j \in Ids : sessions'[j] = u
      BY <1>4, <3>2, KnownIs
    <3>3. CASE \E l \in Keys : pendings'[l] = u
      BY <1>4, <2>2, <3>3, KnownIs
    <3> QED BY <3>1, <3>2, <3>3
  <2> QED BY <2>1, <2>2
<1>6. ASSUME NEW l \in Keys, SessionFor(l) # None PROVE SessionFor(l)' = SessionFor(l)
  <2>1. SessionFor(l)' = LET real == IF tempToReal'[l] = None THEN l ELSE tempToReal'[l]
                         IN  IF real \in Ids /\ sessions'[real] # None THEN sessions'[real]
                             ELSE pendings'[real]
    BY DEF SessionFor
  <2>2. CASE l = k
    <3>1. SessionFor(l) = s
      BY <1>1, <2>2, Found DEF IInv
    <3> QED BY <1>1, <1>4, <2>1, <2>2, <3>1
  <2>3. CASE l # k /\ tempToReal[l] # None
    <3>1. PICK j \in Ids : j = tempToReal[l]
      BY <2>3 DEF IInv, TypeOK
    <3>2. SessionFor(l) = sessions[j] /\ sessions[j] # None /\ j # i
      BY <1>3, <2>3, <3>1, <1>6, Lookup DEF IInv
    <3> QED BY <1>4, <2>1, <2>3, <3>1, <3>2
  <2>4. CASE l # k /\ tempToReal[l] = None /\ l \in Ids /\ sessions[l] # None
    <3>1. SessionFor(l) = sessions[l] /\ l # i
      BY <1>3, <2>4, Lookup DEF IInv
    <3> QED BY <1>4, <2>1, <2>4, <3>1
  <2>5. CASE l # k /\ tempToReal[l] = None /\ ~(l \in Ids /\ sessions[l] # None)
    <3>1. SessionFor(l) = pendings[l] /\ pendings[l] # None /\ l # i
      BY <1>3, <1>6, <2>5, Lookup DEF IInv
    <3> QED BY <1>4, <2>1, <2>5, <3>1
  <2> QED BY <2>2, <2>3, <2>4, <2>5
<1>7. ASSUME NEW q \in Runners, Target(q) # None PROVE Target(q)' = Target(q)
  <2>1. HandleOf(q) \in Keys /\ Target(q) = SessionFor(HandleOf(q)) /\ HandleOf(q)' = HandleOf(q)
    BY <1>7, Apart DEF HandleOf, Target, IInv, TypeOK
  <2>2. PICK l \in Keys : l = HandleOf(q)
    BY <2>1
  <2>3. Target(q)' = SessionFor(l)' /\ Target(q) = SessionFor(l)
    BY <2>1, <2>2, Apart DEF Target
  <2> QED BY <1>6, <1>7, <2>3
<1>8. \A q \in Runners : step[q] \notin {"removing", "stopping"}
                         /\ step'[q] \notin {"removing", "stopping"}
  BY <1>4, Apart DEF IInv, Locked
<1>9. \A q \in Runners : Running(q)' => Running(q)
  BY <1>4 DEF Running
<1>10. TypeOK'
  BY Apart DEF IInv, TypeOK, object, past, Steps, SweepSteps
<1>11. Placed'
  BY <1>1, <1>4 DEF IInv, Placed, object
<1>12. Successive'
  BY <1>9 DEF IInv, Successive
<1>13. Mapped'
  <2>1. \A j \in Ids : sessions'[j] # None <=> realToTemp'[j] # None
    BY <1>1, <1>4 DEF IInv, Mapped
  <2>2. \A l \in Keys, j \in Ids : tempToReal'[l] = j <=> realToTemp'[j] = l
    BY <1>1, <1>2, <1>3, <1>4, Apart DEF IInv, Mapped
  <2>3. \A l \in Keys : pendings'[l] # None => tempToReal'[l] = None
    BY <1>4 DEF IInv, Mapped
  <2>4. \A j \in Ids : pendings'[j] # None => sessions'[j] = None
    BY <1>3, <1>4, Apart DEF IInv, Mapped
  <2>5. \A j \in Ids : sessions'[j] # None => tempToReal'[j] \in {None, j}
    BY <1>2, <1>3, <1>4, Apart DEF IInv, Mapped
  <2>6. \A j, l \in Ids : sessions'[j] # None /\ sessions'[j] = sessions'[l] => j = l
    BY <1>2, <1>4 DEF IInv, Mapped
  <2>7. \A j, l \in Keys : pendings'[j] # None /\ pendings'[j] = pendings'[l] => j = l
    BY <1>4 DEF IInv, Mapped
  <2>8. \A j \in Ids, l \in Keys : sessions'[j] # None => sessions'[j] # pendings'[l]
    BY <1>1, <1>2, <1>4 DEF IInv, Mapped
  <2> QED BY <2>1, <2>2, <2>3, <2>4, <2>5, <2>6, <2>7, <2>8 DEF Mapped
<1>14. Handled'
  <2>1. \A u \in Known' \ {None} : using'[u] = u
    BY <1>5 DEF IInv, Handled
  <2>2. ASSUME NEW q \in Runners, Running(q)', using'[q] \in Known' \ {None}
        PROVE  /\ Target(q)' = using'[q]
               /\ step'[q] = "recording" /\ using'[q] = q /\ temp'[q] # None =>
                      sessions'[reported'[q]] = q
    <3>1. Running(q) /\ using[q] \in Known \ {None}
      BY <1>5, <1>9, <2>2
    <3>2. Target(q) = using[q]
      BY <3>1 DEF IInv, Handled
    <3>3. Target(q)' = using'[q]
      BY <1>7, <3>1, <3>2
    <3>4. CASE q = r
      <4>1. Target(r) = SessionFor(k)
        BY <1>1 DEF Target, HandleOf
      <4>2. SessionFor(k) = s
        BY <1>1, Found DEF IInv
      <4> QED BY <1>1, <1>4, <3>2, <3>3, <3>4, <4>1, <4>2
    <3>5. CASE q # r
      <4> SUFFICES ASSUME step[q] = "recording", using[q] = q, temp[q] # None
                   PROVE  sessions'[reported[q]] = q
        BY <1>4, <3>3, <3>5
      <4>1. sessions[reported[q]] = q /\ reported[q] \in Ids
        BY <3>1 DEF IInv, Handled, Placed, TypeOK
      <4> QED BY <1>3, <1>4, <4>1, Apart
    <3> QED BY <3>4, <3>5
  <2> QED BY <2>1, <2>2 DEF Handled
<1>15. Lost'
  <2>1. \A q \in Runners : using[q] # None /\ using[q] \notin Known' => using[q] \notin Known
    BY <1>5
  <2> QED BY <2>1 DEF IInv, Lost, object, Alive
<1>16. Locked'
  BY <1>4, <1>8, Apart DEF IInv, Locked
<1>17. Owned'
  <2>1. \A q, u \in Runners : Holds(q, u)' <=> Holds(q, u)
    BY <1>4, <1>8 DEF Holds
  <2>2. \A q \in Runners : step'[q] = "spawning" => ~closed'[using'[q]]
    BY <1>4 DEF IInv, Owned, object
  <2>3. \A u \in Runners : lifecycle'[u] # None =>
           closed'[u] \/ step'[lifecycle'[u]] = "spawning"
    BY Apart DEF IInv, TypeOK, Owned, object
  <2> QED BY <1>4, <2>1, <2>2, <2>3 DEF IInv, Owned, object
<1>18. Spawning'
  BY DEF IInv, Spawning, Alive, object, past
<1>19. Left'
  BY <1>4, <1>5 DEF IInv, Left, object, past
<1>20. Distinct' => Distinct
  BY <1>1, <1>4 DEF Distinct
<1>21. Kept'
  <2>1. \A q \in Runners : IF temp'[q] \in Ids THEN temp'[q] \in recorded'[tree'[q]]
                                               ELSE temp'[q] \in {q, None}
    BY DEF IInv, Kept
  <2>2. ASSUME NEW t \in Trees, NEW j \in recorded'[t]
        PROVE  \E q \in Runners : tree'[q] = t /\ reported'[q] = j
    <3>1. j \in Ids
      BY DEF IInv, TypeOK
    <3>2. PICK q \in Runners : tree[q] = t /\ reported[q] = j
      BY DEF IInv, Kept
    <3> QED BY <1>1, <1>4, <3>1, <3>2, Apart
  <2>3. \A l \in Keys : pendings'[l] # None =>
            IF l \in Ids THEN l \in recorded'[tree'[pendings'[l]]] ELSE l = pendings'[l]
    BY <1>4 DEF IInv, Kept
  <2>4. ASSUME Distinct' PROVE tree[r] = tree[s]
    <3>1. CASE k \in Ids
      <4>1. k \in recorded[tree[r]] /\ k \in recorded[tree[s]] /\ s \in Known
        BY <1>1, <3>1, KnownIs DEF IInv, Kept
      <4>2. using[s] = s
        BY <1>1, <4>1 DEF IInv, Handled
      <4>3. tree[s] \in Trees
        BY <4>2, Apart DEF IInv, Placed
      <4>4. PICK p \in Runners : tree[p] = tree[r] /\ reported[p] = k
        BY <1>1, <4>1 DEF IInv, Kept
      <4>5. PICK q \in Runners : tree[q] = tree[s] /\ reported[q] = k
        BY <4>1, <4>3 DEF IInv, Kept
      <4> QED BY <1>1, <1>20, <2>4, <4>4, <4>5 DEF Distinct
    <3>2. CASE k \notin Ids
      BY <1>1, <3>2 DEF IInv, Kept
    <3> QED BY <3>1, <3>2
  <2>5. ASSUME NEW j \in Ids, sessions'[j] # None
        PROVE  /\ IF realToTemp'[j] \in Ids
                  THEN realToTemp'[j] \in recorded'[tree'[sessions'[j]]]
                  ELSE realToTemp'[j] = sessions'[j]
               /\ Distinct' => \E q \in Runners :
                      tree'[q] = tree'[sessions'[j]] /\ reported'[q] = j
    <3>1. CASE j = i
      <4>1. sessions'[j] = s /\ realToTemp'[j] = k /\ reported'[r] = j
        BY <1>4, <3>1
      <4>2. IF k \in Ids THEN k \in recorded[tree[s]] ELSE k = s
        BY <1>1 DEF IInv, Kept
      <4> QED BY <2>4, <4>1, <4>2
    <3>2. CASE j # i
      <4>1. sessions'[j] = sessions[j] /\ realToTemp'[j] = realToTemp[j]
        BY <1>4, <3>2
      <4>2. ASSUME Distinct'
            PROVE  \E q \in Runners : tree'[q] = tree'[sessions'[j]] /\ reported'[q] = j
        <5>1. PICK q \in Runners : tree[q] = tree[sessions[j]] /\ reported[q] = j
          BY <1>20, <2>5, <4>1, <4>2 DEF IInv, Kept
        <5> QED BY <1>1, <1>4, <4>1, <5>1, Apart
      <4> QED BY <2>5, <4>1, <4>2 DEF IInv, Kept
    <3> QED BY <3>1, <3>2
  <2>6. Distinct' => \A q \in Runners : using'[q] # None => tree'[q] = tree'[using'[q]]
    BY <1>20 DEF IInv, Kept
  <2> QED BY <2>1, <2>2, <2>3, <2>5, <2>6 DEF Kept
<1>22. Exclusive'
  BY <1>9, <1>20 DEF IInv, Exclusive, object, past
<1>23. NotReplaced'
  BY <1>20 DEF IInv, NotReplaced, object, past
<1> QED BY <1>10, <1>11, <1>12, <1>13, <1>14, <1>15, <1>16, <1>17, <1>18, <1>19, <1>21, <1>22,
           <1>23 DEF IInv

LEMMA RegisterKeeps ==
    ASSUME IInv, NEW r \in Runners, NEW i \in Ids, Register(r, i) PROVE IInv'
<1>1. /\ step[r] = "running" /\ temp[r] \in Keys /\ lock = None
      /\ UNCHANGED <<tree, using, temp, captured, recorded, closing, lock, object, todo,
                       past, cancels, refusals>>
  BY DEF Register, IInv, TypeOK
<1>2. CASE step' = [step EXCEPT ![r] = "quitting"] /\ UNCHANGED <<maps, reported>>
  <2>1. UNCHANGED <<runner, recorded, maps, closing, lock, object, todo, past, cancels,
                    refusals>>
    BY <1>1, <1>2 DEF runner
  <2> QED BY <1>1, <1>2, <2>1, RefusedKeeps
<1>3. CASE ~(step' = [step EXCEPT ![r] = "quitting"] /\ UNCHANGED <<maps, reported>>)
  <2>1. PICK k \in Keys : k = temp[r]
    BY <1>1
  <2>2. /\ pendings[k] # None /\ pendings[k] \notin closing
        /\ SessionFor(i) \in {None, pendings[k]}
        /\ pendings' = [pendings EXCEPT ![k] = None]
        /\ sessions' = [sessions EXCEPT ![i] = pendings[k]]
        /\ tempToReal' = [tempToReal EXCEPT ![k] = i]
        /\ realToTemp' = [realToTemp EXCEPT ![i] = k]
        /\ reported' = [reported EXCEPT ![r] = i]
        /\ step' = [step EXCEPT ![r] = "recording"]
    BY <1>3, <2>1 DEF Register, Go
  <2>3. PICK s \in Runners : s = pendings[k]
    BY <2>2 DEF IInv, TypeOK
  <2> QED BY <1>1, <2>1, <2>2, <2>3, RegisteredKeeps
<1> QED BY <1>2, <1>3

\* The id is recorded at the node, and the run goes by it from then on.
LEMMA RecordKeeps ==
    ASSUME IInv, NEW r \in Runners, Record(r) PROVE IInv'
<1>0. step[r] = "recording" /\ tree[r] \in Trees /\ reported[r] \in Ids
  BY DEF Record, IInv, TypeOK, Placed
<1>1. PICK i \in Ids : i = reported[r]
  BY <1>0
<1>2. /\ recorded' = [recorded EXCEPT ![tree[r]] = recorded[tree[r]] \cup {i}]
      /\ captured' = [captured EXCEPT ![r] = i]
      /\ temp' = [temp EXCEPT ![r] = None]
      /\ step' = [step EXCEPT ![r] = "running"]
      /\ UNCHANGED <<tree, using, reported, maps, closing, lock, object, todo, past,
                   cancels, refusals>>
  BY <1>0, <1>1 DEF Record, Go, IInv, TypeOK
<1>3. /\ \A t \in Trees : recorded[t] \subseteq recorded'[t]
      /\ \A t \in Trees : t # tree[r] => recorded'[t] = recorded[t]
      /\ recorded'[tree[r]] = recorded[tree[r]] \cup {i}
      /\ \A q \in Runners : captured'[q] = IF q = r THEN i ELSE captured[q]
      /\ \A q \in Runners : temp'[q] = IF q = r THEN None ELSE temp[q]
      /\ \A q \in Runners : step'[q] = IF q = r THEN "running" ELSE step[q]
      /\ step'[Sweeper] = step[Sweeper]
  BY <1>0, <1>2, Apart DEF IInv, TypeOK
<1>4. using[r] = r /\ temp[r] # None
  BY <1>0 DEF IInv, Placed
<1>5. Known' = Known /\ (\A k : SessionFor(k)' = SessionFor(k))
  BY <1>2 DEF maps, Known, SessionFor
<1>6. \A q \in Runners : q # r => Target(q)' = Target(q)
  BY <1>3, <1>5 DEF Target, HandleOf
<1>7. r \in Known => Target(r)' = r
  <2> SUFFICES ASSUME r \in Known PROVE Target(r)' = r
    OBVIOUS
  <2>1. sessions[i] = r
    BY <1>0, <1>1, <1>4, Apart DEF IInv, Handled, Running
  <2>2. SessionFor(i) = r
    BY <2>1, Found, Apart DEF IInv
  <2> QED BY <1>3, <1>5, <2>2, Apart DEF Target, HandleOf
<1>8. \A q \in Runners : Running(q)' => Running(q)
  BY <1>0, <1>3 DEF Running
<1>9. TypeOK'
  BY <1>0, <1>2, Apart DEF IInv, TypeOK, maps, object, past, Steps, SweepSteps
<1>10. Placed'
  BY <1>0, <1>1, <1>2, <1>3, Apart DEF IInv, Placed, object
<1>11. Successive'
  BY <1>2, <1>8 DEF IInv, Successive
<1>12. Mapped'
  BY <1>2 DEF IInv, Mapped, maps
<1>13. Handled'
  <2>1. \A u \in Known' \ {None} : using'[u] = u
    BY <1>2, <1>5 DEF IInv, Handled
  <2>2. ASSUME NEW q \in Runners, Running(q)', using'[q] \in Known' \ {None}
        PROVE  /\ Target(q)' = using'[q]
               /\ step'[q] = "recording" /\ using'[q] = q /\ temp'[q] # None =>
                      sessions'[reported'[q]] = q
    <3>1. CASE q = r
      BY <1>2, <1>3, <1>4, <1>5, <1>7, <2>2, <3>1
    <3>2. CASE q # r
      BY <1>2, <1>3, <1>5, <1>6, <1>8, <2>2, <3>2 DEF IInv, Handled, maps
    <3> QED BY <3>1, <3>2
  <2> QED BY <2>1, <2>2 DEF Handled
<1>14. Lost'
  BY <1>2, <1>5, LostKeeps DEF object, Alive
<1>15. Locked'
  BY <1>0, <1>2, <1>3, <1>6, Apart DEF IInv, Locked
<1>16. Owned'
  <2>1. \A q, u \in Runners : Holds(q, u)' <=> Holds(q, u)
    BY <1>0, <1>2, <1>3, <1>6 DEF Holds
  <2>2. \A q \in Runners : step'[q] = "spawning" => ~closed'[using'[q]]
    BY <1>2, <1>3 DEF IInv, Owned, object
  <2>3. \A u \in Runners : lifecycle'[u] # None =>
           closed'[u] \/ step'[lifecycle'[u]] = "spawning"
    BY <1>0, <1>2, <1>3, Apart DEF IInv, TypeOK, Owned, object
  <2> QED BY <1>2, <1>3, <2>1, <2>2, <2>3 DEF IInv, Owned, object
<1>17. Spawning'
  BY <1>2 DEF IInv, Spawning, Alive, object, past
<1>18. Left'
  BY <1>2, <1>3, <1>5 DEF IInv, Left, object, past
<1>19. Distinct' = Distinct
  BY <1>2 DEF Distinct
<1>20. Kept'
  <2>0. \A u \in Known \ {None} : tree[u] \in Trees
    <3> SUFFICES ASSUME NEW u \in Known \ {None} PROVE tree[u] \in Trees
      OBVIOUS
    <3>1. u \in Runners /\ using[u] = u
      BY KnownIs DEF IInv, TypeOK, Handled
    <3> QED BY <3>1, Apart DEF IInv, Placed
  <2>1. ASSUME NEW q \in Runners
        PROVE  IF temp'[q] \in Ids THEN temp'[q] \in recorded'[tree'[q]]
                                   ELSE temp'[q] \in {q, None}
    <3>1. CASE q = r
      BY <1>3, <3>1, Apart
    <3>2. CASE q # r /\ temp[q] \in Ids
      <4>1. temp[q] \in recorded[tree[q]] /\ using[q] = q
        BY <3>2, Apart DEF IInv, Kept, Placed
      <4>2. tree[q] \in Trees
        BY <4>1, Apart DEF IInv, Placed
      <4> QED BY <1>2, <1>3, <3>2, <4>1, <4>2
    <3>3. CASE q # r /\ temp[q] \notin Ids
      BY <1>3, <3>3 DEF IInv, Kept
    <3> QED BY <3>1, <3>2, <3>3
  <2>2. ASSUME NEW t \in Trees, NEW j \in recorded'[t]
        PROVE  \E q \in Runners : tree'[q] = t /\ reported'[q] = j
    <3>1. j \in recorded[t] \/ (t = tree[r] /\ j = i)
      BY <1>3
    <3> QED BY <1>1, <1>2, <3>1 DEF IInv, Kept
  <2>3. ASSUME NEW k \in Keys, pendings'[k] # None
        PROVE  IF k \in Ids THEN k \in recorded'[tree'[pendings'[k]]] ELSE k = pendings'[k]
    <3>1. pendings'[k] = pendings[k] /\ tree[pendings[k]] \in Trees
      BY <1>2, <2>0, <2>3, KnownIs DEF maps
    <3> QED BY <1>2, <1>3, <2>3, <3>1 DEF IInv, Kept
  <2>4. ASSUME NEW j \in Ids, sessions'[j] # None
        PROVE  /\ IF realToTemp'[j] \in Ids
                  THEN realToTemp'[j] \in recorded'[tree'[sessions'[j]]]
                  ELSE realToTemp'[j] = sessions'[j]
               /\ Distinct' => \E q \in Runners :
                      tree'[q] = tree'[sessions'[j]] /\ reported'[q] = j
    <3>1. sessions' = sessions /\ realToTemp' = realToTemp /\ tree[sessions[j]] \in Trees
      BY <1>2, <2>0, <2>4, KnownIs DEF maps
    <3> QED BY <1>2, <1>3, <1>19, <2>4, <3>1 DEF IInv, Kept
  <2>5. Distinct' => \A q \in Runners : using'[q] # None => tree'[q] = tree'[using'[q]]
    BY <1>2, <1>19 DEF IInv, Kept
  <2> QED BY <2>1, <2>2, <2>3, <2>4, <2>5 DEF Kept
<1>21. Exclusive'
  BY <1>2, <1>8, <1>19 DEF IInv, Exclusive, object, past
<1>22. NotReplaced'
  BY <1>2, <1>19 DEF IInv, NotReplaced, object, past
<1> QED BY <1>9, <1>10, <1>11, <1>12, <1>13, <1>14, <1>15, <1>16, <1>17, <1>18, <1>20, <1>21,
           <1>22 DEF IInv

-----------------------------------------------------------------------------
(* A session that has been stopped is forgotten. *)

LEMMA ForgetKeeps ==
    ASSUME IInv, NEW s \in Runners, Forget(s), Gentle, closed'[s], ~Alive(s),
           UNCHANGED <<runner, recorded>>, swept' \subseteq swept \cup {s},
           abandoned' = abandoned,
           \A r \in Runners : Running(r)' => Running(r),
           \A r \in Runners : step'[r] = "ended" =>
               step[r] = "ended" \/ using[r] = s \/ using[r] \notin Known \ {None},
           \A r \in Runners : step'[r] = "recording" => step[r] = "recording"
    PROVE  Others'
<1>1. /\ \A k \in Keys : pendings'[k] = IF pendings[k] = s THEN None ELSE pendings[k]
      /\ \A i \in Ids : sessions'[i] = IF sessions[i] = s THEN None ELSE sessions[i]
      /\ \A i \in Ids : realToTemp'[i] = IF sessions[i] = s THEN None ELSE realToTemp[i]
      /\ \A k \in Keys : tempToReal'[k] =
             IF \E i \in Ids : sessions[i] = s /\ realToTemp[i] = k THEN None
             ELSE tempToReal[k]
      /\ closing' = closing \ {s}
  BY DEF Forget
<1>2. /\ UNCHANGED <<tree, using, temp, captured, reported, current, process>>
      /\ recorded' = recorded /\ \A u \in Runners : closed[u] => closed'[u]
  BY DEF runner, Gentle
<1>3. s # None /\ (\A i \in Ids : i \in Keys) /\ None \notin Keys
  BY Apart
<1>4. \A u \in Runners : Alive(u)' <=> Alive(u)
  BY <1>2 DEF Alive
<1>5. Known' \ {None} = Known \ {s, None}
  <2>1. ASSUME NEW u, u \notin {s, None}, u \in Known PROVE u \in Known'
    <3>1. CASE \E i \in Ids : sessions[i] = u
      BY <1>1, <2>1, <3>1 DEF Known
    <3>2. CASE \E k \in Keys : pendings[k] = u
      BY <1>1, <2>1, <3>2 DEF Known
    <3> QED BY <2>1, <3>1, <3>2, KnownIs
  <2>2. ASSUME NEW u, u # None, u \in Known' PROVE u \in Known \ {s, None}
    <3>1. (\E i \in Ids : sessions'[i] = u) \/ (\E k \in Keys : pendings'[k] = u)
      BY <2>2 DEF Known
    <3>2. CASE \E i \in Ids : sessions'[i] = u
      <4>1. PICK i \in Ids : sessions'[i] = u
        BY <3>2
      <4>2. sessions[i] = u /\ u # s
        BY <1>1, <2>2, <4>1
      <4> QED BY <2>2, <4>2, KnownIs
    <3>3. CASE \E k \in Keys : pendings'[k] = u
      <4>1. PICK k \in Keys : pendings'[k] = u
        BY <3>3
      <4>2. pendings[k] = u /\ u # s
        BY <1>1, <2>2, <4>1
      <4> QED BY <2>2, <4>2, KnownIs
    <3> QED BY <3>1, <3>2, <3>3
  <2> QED BY <2>1, <2>2
<1>6. ASSUME NEW k \in Keys, SessionFor(k) \notin {s, None}
      PROVE  SessionFor(k)' = SessionFor(k)
  <2>1. SessionFor(k)' = LET real == IF tempToReal'[k] = None THEN k ELSE tempToReal'[k]
                         IN  IF real \in Ids /\ sessions'[real] # None THEN sessions'[real]
                             ELSE pendings'[real]
    BY DEF SessionFor
  <2>2. CASE tempToReal[k] # None
    <3>1. PICK j \in Ids : j = tempToReal[k]
      BY <2>2 DEF IInv, TypeOK
    <3>2. SessionFor(k) = sessions[j]
      BY <2>2, <3>1, Lookup DEF IInv
    <3>3. \A i \in Ids : realToTemp[i] = k => i = j
      BY <3>1 DEF IInv, Mapped
    <3>4. tempToReal'[k] = j
      BY <1>1, <1>6, <3>1, <3>2, <3>3
    <3>5. sessions'[j] = sessions[j]
      BY <1>1, <1>6, <3>2
    <3> QED BY <1>3, <1>6, <2>1, <3>2, <3>4, <3>5
  <2>3. CASE tempToReal[k] = None /\ k \in Ids /\ sessions[k] # None
    <3>1. SessionFor(k) = sessions[k] /\ tempToReal'[k] = None
      BY <1>1, <2>3, Lookup DEF IInv
    <3>2. sessions'[k] = sessions[k]
      BY <1>1, <1>6, <2>3, <3>1
    <3> QED BY <1>6, <2>1, <2>3, <3>1, <3>2
  <2>4. CASE tempToReal[k] = None /\ ~(k \in Ids /\ sessions[k] # None)
    <3>1. SessionFor(k) = pendings[k] /\ tempToReal'[k] = None
      BY <1>1, <2>4, Lookup DEF IInv
    <3>2. pendings'[k] = pendings[k]
      BY <1>1, <1>6, <3>1
    <3>3. ~(k \in Ids /\ sessions'[k] # None)
      BY <1>1, <2>4
    <3> QED BY <2>1, <3>1, <3>2, <3>3
  <2> QED BY <2>2, <2>3, <2>4
<1>7. ASSUME NEW q \in Runners, Target(q) \notin {s, None} PROVE Target(q)' = Target(q)
  <2>1. HandleOf(q) \in Keys /\ Target(q) = SessionFor(HandleOf(q)) /\ HandleOf(q)' = HandleOf(q)
    BY <1>2, <1>7, Apart DEF HandleOf, Target, IInv, TypeOK
  <2>2. PICK l \in Keys : l = HandleOf(q)
    BY <2>1
  <2>3. Target(q)' = SessionFor(l)' /\ Target(q) = SessionFor(l)
    BY <1>3, <2>1, <2>2 DEF Target
  <2> QED BY <1>6, <1>7, <2>3
<1>8. Mapped'
  <2>1. \A i \in Ids : sessions'[i] # None <=> realToTemp'[i] # None
    BY <1>1 DEF IInv, Mapped
  <2>2. ASSUME NEW k \in Keys, NEW i \in Ids PROVE tempToReal'[k] = i <=> realToTemp'[i] = k
    <3>1. ASSUME tempToReal'[k] = i PROVE realToTemp'[i] = k
      <4>1. tempToReal[k] = i /\ ~ \E j \in Ids : sessions[j] = s /\ realToTemp[j] = k
        BY <1>1, <3>1, Apart
      <4> QED BY <1>1, <4>1 DEF IInv, Mapped
    <3>2. ASSUME realToTemp'[i] = k PROVE tempToReal'[k] = i
      <4>1. realToTemp[i] = k /\ sessions[i] # s
        BY <1>1, <1>3, <3>2
      <4>2. tempToReal[k] = i /\ \A j \in Ids : realToTemp[j] = k => j = i
        BY <4>1 DEF IInv, Mapped
      <4> QED BY <1>1, <4>1, <4>2
    <3> QED BY <3>1, <3>2
  <2>3. \A k \in Keys : pendings'[k] # None => tempToReal'[k] = None
    BY <1>1 DEF IInv, Mapped
  <2>4. \A i \in Ids : pendings'[i] # None => sessions'[i] = None
    BY <1>1, <1>3 DEF IInv, Mapped
  <2>5. \A i \in Ids : sessions'[i] # None => tempToReal'[i] \in {None, i}
    BY <1>1, <1>3 DEF IInv, Mapped
  <2>6. \A i, j \in Ids : sessions'[i] # None /\ sessions'[i] = sessions'[j] => i = j
    BY <1>1 DEF IInv, Mapped
  <2>7. \A k, l \in Keys : pendings'[k] # None /\ pendings'[k] = pendings'[l] => k = l
    BY <1>1 DEF IInv, Mapped
  <2>8. \A i \in Ids, k \in Keys : sessions'[i] # None => sessions'[i] # pendings'[k]
    BY <1>1 DEF IInv, Mapped
  <2> QED BY <2>1, <2>2, <2>3, <2>4, <2>5, <2>6, <2>7, <2>8 DEF Mapped
<1>9. Handled'
  <2>1. \A u \in Known' \ {None} : using'[u] = u
    BY <1>2, <1>5 DEF IInv, Handled
  <2>2. ASSUME NEW q \in Runners, Running(q)', using'[q] \in Known' \ {None}
        PROVE  /\ Target(q)' = using'[q]
               /\ step'[q] = "recording" /\ using'[q] = q /\ temp'[q] # None =>
                      sessions'[reported'[q]] = q
    <3>1. Running(q) /\ using[q] \in Known \ {s, None}
      BY <1>2, <1>5, <2>2
    <3>2. Target(q) = using[q]
      BY <3>1 DEF IInv, Handled
    <3>3. Target(q)' = using'[q]
      BY <1>2, <1>7, <3>1, <3>2
    <3>4. ASSUME step'[q] = "recording", using[q] = q, temp[q] # None
          PROVE  sessions'[reported[q]] = q
      <4>1. sessions[reported[q]] = q /\ reported[q] \in Ids
        BY <3>1, <3>4 DEF IInv, Handled, Placed, TypeOK
      <4> QED BY <1>1, <3>1, <3>4, <4>1
    <3> QED BY <1>2, <3>3, <3>4
  <2> QED BY <2>1, <2>2 DEF Handled
<1>10. Successive'
  BY <1>2 DEF IInv, Successive
<1>11. Lost'
  <2> SUFFICES ASSUME NEW q \in Runners, using[q] # None, using[q] \notin Known'
               PROVE  closed'[using[q]] /\ ~(current[using[q]] # None
                                             /\ process[current[using[q]]] = "alive")
    BY <1>2 DEF Lost, Alive
  <2>1. using[q] \in Runners
    BY DEF IInv, TypeOK
  <2>2. CASE using[q] = s
    BY <2>2 DEF Alive
  <2>3. CASE using[q] # s
    <3>1. using[q] \notin Known
      BY <1>5, <2>3
    <3> QED BY <1>2, <2>1, <3>1 DEF IInv, Lost, Alive
  <2> QED BY <2>2, <2>3
<1>12. Spawning'
  <2>1. \A u \in swept' : closed'[u] /\ ~Alive(u)'
    BY <1>2, <1>4 DEF IInv, TypeOK, Spawning
  <2>2. \A q \in Runners : process'[q] = "alive" => q \in pids'
    BY DEF IInv, Spawning, Gentle
  <2> QED BY <1>2, <2>1, <2>2 DEF IInv, Spawning
<1>13. Left'
  BY <1>1, <1>2, <1>5 DEF IInv, Left
<1>14. Distinct' = Distinct
  BY <1>2 DEF Distinct
<1>15. Kept'
  <2>1. \A q \in Runners : IF temp'[q] \in Ids THEN temp'[q] \in recorded'[tree'[q]]
                                               ELSE temp'[q] \in {q, None}
    BY <1>2 DEF IInv, Kept
  <2>2. \A t \in Trees : \A j \in recorded'[t] :
            \E q \in Runners : tree'[q] = t /\ reported'[q] = j
    BY <1>2 DEF IInv, Kept
  <2>3. \A k \in Keys : pendings'[k] # None =>
            IF k \in Ids THEN k \in recorded'[tree'[pendings'[k]]] ELSE k = pendings'[k]
    BY <1>1, <1>2 DEF IInv, Kept
  <2>4. ASSUME NEW j \in Ids, sessions'[j] # None
        PROVE  /\ IF realToTemp'[j] \in Ids
                  THEN realToTemp'[j] \in recorded'[tree'[sessions'[j]]]
                  ELSE realToTemp'[j] = sessions'[j]
               /\ Distinct' => \E q \in Runners :
                      tree'[q] = tree'[sessions'[j]] /\ reported'[q] = j
    <3>1. sessions'[j] = sessions[j] /\ realToTemp'[j] = realToTemp[j]
      BY <1>1, <2>4
    <3> QED BY <1>2, <1>14, <2>4, <3>1 DEF IInv, Kept
  <2>5. Distinct' => \A q \in Runners : using'[q] # None => tree'[q] = tree'[using'[q]]
    BY <1>2, <1>14 DEF IInv, Kept
  <2> QED BY <2>1, <2>2, <2>3, <2>4, <2>5 DEF Kept
<1>16. Exclusive'
  <2> SUFFICES ASSUME Distinct, abandoned = {}, NEW q \in Runners, NEW r \in Runners,
                      process[q] = "alive", Running(r)', using[q] = using[r], q # r
               PROVE  closed'[using[r]]
    BY <1>2, <1>14 DEF Exclusive
  <2>1. closed[using[r]] /\ using[r] \in Runners
    BY DEF IInv, TypeOK, Exclusive, Placed
  <2> QED BY <1>2, <2>1
<1>17. NotReplaced'
  BY <1>2, <1>14 DEF IInv, NotReplaced
<1> QED BY <1>8, <1>9, <1>10, <1>11, <1>12, <1>13, <1>15, <1>16, <1>17 DEF Others

\* The maps keep their types.
LEMMA ForgetTyped ==
    ASSUME TypeOK, NEW s, Forget(s)
    PROVE  /\ sessions' \in [Ids -> Runners \cup {None}]
           /\ pendings' \in [Keys -> Runners \cup {None}]
           /\ tempToReal' \in [Keys -> Ids \cup {None}]
           /\ realToTemp' \in [Ids -> Keys \cup {None}]
           /\ closing' \subseteq Runners
<1>1. sessions' \in [Ids -> Runners \cup {None}]
  BY DEF TypeOK, Forget
<1>2. pendings' \in [Keys -> Runners \cup {None}]
  BY DEF TypeOK, Forget
<1>3. tempToReal' \in [Keys -> Ids \cup {None}]
  BY DEF TypeOK, Forget
<1>4. realToTemp' \in [Ids -> Keys \cup {None}]
  BY DEF TypeOK, Forget
<1> QED BY <1>1, <1>2, <1>3, <1>4 DEF TypeOK, Forget

LEMMA RemovedKeeps ==
    ASSUME IInv, NEW r \in Runners, Removed(r) PROVE IInv'
<1>0. Target(r) \in Runners /\ step[r] \in {"removing", "stopping"}
  BY TargetIs DEF Removed, IInv, Locked
<1>1. PICK s \in Runners : s = Target(r)
  BY <1>0
<1>2. /\ \/ step[r] = "removing" /\ StopNow(r, s)
         \/ step[r] = "stopping" /\ StopConfirmed(r, s)
      /\ Forget(s) /\ lock' = None /\ step' = [step EXCEPT ![r] = "ended"]
      /\ UNCHANGED <<runner, recorded, todo, past, cancels, refusals>>
  BY <1>1 DEF Removed, Go
<1>3. lock = r /\ \A q \in Runners : q # r => step[q] \notin {"removing", "stopping"}
  BY <1>0, Apart DEF IInv, Locked
<1>4. StopEffect(r, s)
  BY <1>2, StopIs DEF StopStage, IInv
<1>5. Gentle /\ ~Alive(s)
      /\ \/ lifecycle[s] = None /\ lifecycle' = lifecycle /\ closed'[s]
         \/ /\ lifecycle[s] = r /\ lifecycle' = [lifecycle EXCEPT ![s] = None]
            /\ step[r] = "stopping" /\ closed' = closed
  BY <1>2, <1>4 DEF StopEffect
<1>6. closed'[s]
  BY <1>3, <1>5, Apart DEF IInv, Owned
<1>7. \A q \in Runners : step'[q] = IF q = r THEN "ended" ELSE step[q]
  BY <1>2 DEF IInv, TypeOK
<1>8. step'[Sweeper] = step[Sweeper]
  BY <1>2, Apart DEF IInv, TypeOK
<1>9. using[r] = s \/ using[r] \notin Known \ {None}
  BY <1>0, <1>1 DEF IInv, Handled, Running
<1>10. Others'
  BY <1>2, <1>5, <1>6, <1>7, <1>9, ForgetKeeps DEF Running, past
<1>11. TypeOK'
  <2>1. lifecycle' \in [Runners -> Runners \cup {Sweeper, None}]
    BY <1>5 DEF IInv, TypeOK
  <2>2. /\ sessions' \in [Ids -> Runners \cup {None}]
        /\ pendings' \in [Keys -> Runners \cup {None}]
        /\ tempToReal' \in [Keys -> Ids \cup {None}]
        /\ realToTemp' \in [Ids -> Keys \cup {None}]
        /\ closing' \subseteq Runners
    BY <1>2, ForgetTyped DEF IInv
  <2> QED BY <1>2, <1>5, <2>1, <2>2, Apart
          DEF IInv, TypeOK, runner, past, Gentle, Steps, SweepSteps
<1>12. Placed'
  BY <1>0, <1>2, <1>5, <1>7 DEF IInv, Placed, runner, Gentle
<1>13. Locked'
  BY <1>2, <1>3, <1>7, <1>8, Apart DEF IInv, TypeOK, Locked
<1>14. Owned'
  <2>1. \A u, q \in Runners : lifecycle'[u] = q <=> Holds(q, u)'
    <3> SUFFICES ASSUME NEW u \in Runners, NEW q \in Runners
                 PROVE  lifecycle'[u] = q <=> Holds(q, u)'
      OBVIOUS
    <3>1. lifecycle[u] = q <=> Holds(q, u)
      BY DEF IInv, Owned
    <3>2. CASE q = r
      <4>1. ~Holds(r, u)'
        BY <1>7 DEF Holds
      <4>2. lifecycle'[u] # r
        BY <1>0, <1>1, <1>5, <3>1, <3>2, Apart DEF Holds, IInv, TypeOK
      <4> QED BY <3>2, <4>1, <4>2
    <3>3. CASE q # r
      <4>1. Holds(q, u)' <=> Holds(q, u)
        BY <1>2, <1>3, <1>7, <3>3 DEF Holds, runner
      <4>2. lifecycle'[u] = q <=> lifecycle[u] = q
        BY <1>5, <3>3, Apart DEF IInv, TypeOK
      <4> QED BY <3>1, <4>1, <4>2
    <3> QED BY <3>2, <3>3
  <2>2. ASSUME NEW q \in Runners, step'[q] = "spawning" PROVE ~closed'[using'[q]]
    <3>1. step[q] = "spawning" /\ q # r /\ using'[q] = using[q] /\ using[q] \in Runners
      BY <1>2, <1>7, <2>2 DEF IInv, TypeOK, Placed, runner
    <3>2. lifecycle[using[q]] = q
      BY <3>1 DEF IInv, Owned, Holds
    <3>3. using[q] # s
      BY <1>5, <3>1, <3>2, Apart
    <3> QED BY <1>4, <3>1, <3>3 DEF StopEffect, IInv, Owned
  <2>3. \A u \in Runners : lifecycle'[u] # None => lifecycle'[u] = lifecycle[u]
    BY <1>5 DEF IInv, TypeOK
  <2>4. ASSUME NEW u \in Runners, lifecycle'[u] # None
        PROVE  closed'[u] \/ step'[lifecycle'[u]] = "spawning"
    <3>1. closed[u] \/ step[lifecycle[u]] = "spawning"
      BY <2>3, <2>4 DEF IInv, Owned
    <3>2. lifecycle[u] \in Runners \cup {Sweeper}
      BY <2>3, <2>4 DEF IInv, TypeOK
    <3> QED BY <1>0, <1>5, <1>7, <1>8, <2>3, <2>4, <3>1, <3>2 DEF Gentle
  <2> QED BY <1>2, <1>8, <2>1, <2>2, <2>3, <2>4, Apart DEF IInv, Owned
<1> QED BY <1>10, <1>11, <1>12, <1>13, <1>14 DEF IInv, Others

LEMMA StopOneKeeps ==
    ASSUME IInv, NEW s \in Runners, StopOne(s) PROVE IInv'
<1>1. /\ s \in todo
      /\ \/ step[Sweeper] = "sweeping" /\ StopNow(Sweeper, s)
         \/ step[Sweeper] = "stopping" /\ StopConfirmed(Sweeper, s)
      /\ Forget(s) /\ todo' = todo \ {s} /\ swept' = swept \cup {s}
      /\ step' = [step EXCEPT ![Sweeper] = "sweeping"]
      /\ UNCHANGED <<runner, recorded, lock, abandoned, cancels, refusals>>
  BY DEF StopOne, Go
<1>2. lock = Sweeper /\ \A q \in Runners : step[q] \notin {"removing", "stopping"}
  BY <1>1, Apart DEF IInv, Locked
<1>3. StopEffect(Sweeper, s)
  BY <1>1, StopIs DEF StopStage, IInv
<1>4. Gentle /\ ~Alive(s)
      /\ \/ /\ lifecycle[s] = None /\ lifecycle' = lifecycle /\ closed'[s]
            /\ step[Sweeper] = "sweeping"
         \/ /\ lifecycle[s] = Sweeper /\ lifecycle' = [lifecycle EXCEPT ![s] = None]
            /\ step[Sweeper] = "stopping" /\ closed' = closed
  BY <1>1, <1>3 DEF StopEffect
<1>5. closed'[s]
  BY <1>4, Apart DEF IInv, Owned
<1>6. \A q \in Runners : step'[q] = step[q]
  BY <1>1, Apart DEF IInv, TypeOK
<1>7. step'[Sweeper] = "sweeping"
  BY <1>1 DEF IInv, TypeOK
<1>8. Others'
  BY <1>1, <1>4, <1>5, <1>6, ForgetKeeps DEF Running
<1>9. TypeOK'
  <2>1. lifecycle' \in [Runners -> Runners \cup {Sweeper, None}]
    BY <1>4 DEF IInv, TypeOK
  <2>2. /\ sessions' \in [Ids -> Runners \cup {None}]
        /\ pendings' \in [Keys -> Runners \cup {None}]
        /\ tempToReal' \in [Keys -> Ids \cup {None}]
        /\ realToTemp' \in [Ids -> Keys \cup {None}]
        /\ closing' \subseteq Runners
    BY <1>1, ForgetTyped DEF IInv
  <2> QED BY <1>1, <1>4, <1>6, <1>7, <2>1, <2>2, Apart
          DEF IInv, TypeOK, runner, Gentle, Steps, SweepSteps
<1>10. Placed'
  BY <1>1, <1>4, <1>6 DEF IInv, Placed, runner, Gentle
<1>11. Locked'
  BY <1>1, <1>2, <1>6, <1>7, Apart DEF IInv, Locked
<1>12. Owned'
  <2>1. \A u, q \in Runners : lifecycle'[u] = q <=> Holds(q, u)'
    <3>1. \A u, q \in Runners : Holds(q, u)' <=> Holds(q, u)
      BY <1>1, <1>2, <1>6 DEF Holds, runner
    <3>2. \A u, q \in Runners : lifecycle'[u] = q <=> lifecycle[u] = q
      BY <1>4, Apart DEF IInv, TypeOK
    <3> QED BY <3>1, <3>2 DEF IInv, Owned
  <2>2. ASSUME NEW q \in Runners, step'[q] = "spawning" PROVE ~closed'[using'[q]]
    <3>1. step[q] = "spawning" /\ using'[q] = using[q] /\ using[q] \in Runners
      BY <1>1, <1>6, <2>2 DEF IInv, TypeOK, Placed, runner
    <3>2. lifecycle[using[q]] = q
      BY <3>1 DEF IInv, Owned, Holds
    <3>3. using[q] # s
      BY <1>4, <3>2, Apart
    <3> QED BY <1>3, <3>1, <3>3 DEF StopEffect, IInv, Owned
  <2>3. \A u \in Runners : lifecycle'[u] # Sweeper
    <3>1. CASE step[Sweeper] = "sweeping"
      BY <1>4, <3>1 DEF IInv, Owned
    <3>2. CASE step[Sweeper] = "stopping"
      BY <1>4, <3>2, Apart DEF IInv, TypeOK, Owned
    <3> QED BY <1>1, <3>1, <3>2
  <2>4. ASSUME NEW u \in Runners, lifecycle'[u] # None
        PROVE  closed'[u] \/ step'[lifecycle'[u]] = "spawning"
    <3>1. lifecycle'[u] = lifecycle[u] /\ lifecycle[u] \in Runners
      BY <1>4, <2>3, <2>4 DEF IInv, TypeOK
    <3> QED BY <1>4, <1>6, <2>4, <3>1 DEF IInv, Owned, Gentle
  <2> QED BY <2>1, <2>2, <2>3, <2>4 DEF Owned
<1> QED BY <1>8, <1>9, <1>10, <1>11, <1>12 DEF IInv, Others

-----------------------------------------------------------------------------
LEMMA InitIInv == ManagedInit => IInv
<1> SUFFICES ASSUME ManagedInit PROVE IInv
  OBVIOUS
<1>1. TypeOK
  BY Apart DEF ManagedInit, TypeOK, Steps, SweepSteps
<1>2. \A r \in Runners : step[r] = "new"
  BY Apart DEF ManagedInit
<1>3. step[Sweeper] = "idle"
  BY DEF ManagedInit
<1>4. Known \subseteq {None}
  BY DEF ManagedInit, Known
<1>5. Placed /\ Successive
  BY <1>2 DEF ManagedInit, Placed, Successive, Running
<1>6. Mapped
  BY Apart DEF ManagedInit, Mapped
<1>7. Handled /\ Lost /\ Left
  BY <1>2, <1>4 DEF ManagedInit, Handled, Lost, Left, Running
<1>8. Locked /\ Owned
  BY <1>2, <1>3, Apart DEF ManagedInit, Locked, Owned, Holds
<1>9. Spawning
  BY DEF ManagedInit, Spawning
<1>10. Kept /\ Exclusive /\ NotReplaced
  BY Apart DEF ManagedInit, Kept, Exclusive, NotReplaced
<1> QED BY <1>1, <1>5, <1>6, <1>7, <1>8, <1>9, <1>10 DEF IInv

\* Every step of a run, of stop_all or of a process keeps it.
LEMMA StepKeeps == IInv /\ [ManagedNext]_managedVars => IInv'
<1> SUFFICES ASSUME IInv, [ManagedNext]_managedVars PROVE IInv'
  OBVIOUS
<1>1. CASE UNCHANGED managedVars
  BY <1>1, RestKeeps
<1>2. ASSUME NEW r \in Runners, NEW t \in Trees, Begin(r, t) PROVE IInv'
  BY <1>2, BeginKeeps
<1>3. ASSUME NEW r \in Runners, Run(r) PROVE IInv'
  BY <1>3, GetOrCreateKeeps, SpawnKeeps, SpawnedKeeps, RecordKeeps, EndsKeep, KillKeeps,
     RemoveKeeps, RemovedKeeps, RemoveWaitsKeeps, NotRemovedKeeps DEF Run
<1>4. ASSUME NEW r \in Runners, Cancel(r) PROVE IInv'
  BY <1>4, CancelKeeps
<1>5. ASSUME NEW r \in Runners, ProcessExits(r) PROVE IInv'
  BY <1>5, ProcessExitsKeeps
<1>6. ASSUME NEW r \in Runners, NEW i \in Ids, Register(r, i) PROVE IInv'
  BY <1>6, RegisterKeeps
<1>7. CASE Sweep
  BY <1>7, StopAllBeginsKeeps, StopAllEndsKeeps, StopOneKeeps, StopOneWaitsKeeps,
     StopOneFailsKeeps DEF Sweep
<1>8. CASE AtRest
  BY <1>8, RestKeeps DEF AtRest
<1> QED BY <1>1, <1>2, <1>3, <1>4, <1>5, <1>6, <1>7, <1>8 DEF ManagedNext

\* The maps, the locks and the registry agree at every step of any number of
\* runs, with any cancellations, failures and ids.
THEOREM SessionsAreSound == ManagedSpec => []IInv
<1>1. ManagedInit => IInv
  BY InitIInv
<1>2. IInv /\ [ManagedNext]_managedVars => IInv'
  BY StepKeeps
<1> QED BY <1>1, <1>2, PTL DEF ManagedSpec

\* A session is under one id at most.
LEMMA Once ==
    ASSUME IInv, NEW s \in Runners
    PROVE  Cardinality({i \in Ids : sessions[i] = s}) +
           Cardinality({k \in Keys : pendings[k] = s}) <= 1
<1> DEFINE I == {i \in Ids : sessions[i] = s}
           K == {k \in Keys : pendings[k] = s}
<1>1. (I = {} \/ \E i : I = {i}) /\ (K = {} \/ \E k : K = {k}) /\ (I = {} \/ K = {})
  BY Apart DEF IInv, Mapped
<1>2. /\ I = {} => Cardinality(I) = 0
      /\ K = {} => Cardinality(K) = 0
  BY FS_EmptySet
<1>3. /\ (\E i : I = {i}) => Cardinality(I) = 1
      /\ (\E k : K = {k}) => Cardinality(K) = 1
  BY FS_Singleton
<1> HIDE DEF I, K
<1>4. CASE I = {}
  <2>1. Cardinality(I) = 0 /\ (Cardinality(K) = 0 \/ Cardinality(K) = 1)
    BY <1>1, <1>2, <1>3, <1>4
  <2> QED BY <2>1 DEF I, K
<1>5. CASE K = {}
  <2>1. Cardinality(K) = 0 /\ (Cardinality(I) = 0 \/ Cardinality(I) = 1)
    BY <1>1, <1>2, <1>3, <1>5
  <2> QED BY <2>1 DEF I, K
<1> QED BY <1>1, <1>4, <1>5

\* No process is left behind, NoProcessLost of ManagedSessions: every process
\* that may be alive is in the registry that is killed at exit and its session
\* is one that stop_all stops; a session that was stopped stays so; a run has
\* removed its session at its end; and a session's process has exited before
\* the session starts another.
THEOREM ProcessesAreKept == ManagedSpec => []NoProcessLost
<1>1. IInv => NoProcessLost
  <2> SUFFICES ASSUME IInv PROVE NoProcessLost
    OBVIOUS
  <2>1. ASSUME NEW r \in Runners, process[r] = "alive"
        PROVE  r \in pids /\ (current[using[r]] = r => using[r] \in Known)
    <3>1. r \in pids /\ using[r] # None
      BY <2>1 DEF IInv, Spawning, Placed
    <3>2. ASSUME current[using[r]] = r, using[r] \notin Known PROVE FALSE
      BY <2>1, <3>1, <3>2, Apart DEF IInv, Lost, Alive
    <3> QED BY <3>1, <3>2
  <2>2. Stopped
    BY DEF IInv, Spawning, Stopped
  <2>3. RemovedAtEnd
    <3> SUFFICES ASSUME NEW s \in Known, s # None, step[s] = "ended",
                        s \notin abandoned, s \notin closing
                 PROVE  FALSE
      BY DEF RemovedAtEnd
    <3>1. s \in Runners /\ using[s] = s
      BY KnownIs DEF IInv, TypeOK, Handled
    <3> QED BY <3>1 DEF IInv, Left
  <2>4. KnownOnce
    BY Once DEF IInv, Mapped, KnownOnce
  <2> QED BY <2>1, <2>2, <2>3, <2>4 DEF IInv, NoProcessLost, Reachable
<1> QED BY <1>1, SessionsAreSound, PTL
=============================================================================
