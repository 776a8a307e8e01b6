-------------------------- MODULE AppLifecycleProofs --------------------------
(***************************************************************************)
(* What holds of AppLifecycle for any number of changes, failures and runs *)
(* of the supervisor: a server's resources are taken down in the order in  *)
(* which its turns need them, and no application is replaced before it has *)
(* closed what it owned.                                                   *)
(*                                                                         *)
(* What holds of ConversationRestore across any number of deaths of that   *)
(* server: the conversations come back whole and in their places, nothing  *)
(* that was cleared comes back, and no status is left telling of work that *)
(* nobody does.  The heart of its invariant is Sound: trees, store and     *)
(* file are each what the restart accepts, the store has every tree that   *)
(* is not still owed to it (Covers), and what has left it is buried.       *)
(***************************************************************************)
EXTENDS AppLifecycle, ConversationRestore, FiniteSetTheorems, TLAPS

Names == {"ingress", "workflow", "delivery", "transcriber", "providers", "accounts"}
Gone == {"none", "closed"}

TypeOK ==
    /\ pc \in {"idle", "looping", "loading", "loaded", "serving", "returning", "returned"}
    /\ app \in {"none", "built", "starting", "started", "closing", "closed", "incomplete"}
    /\ step \in 1..7
    /\ after \in {"closed", "failed", "started"}
    /\ resource \in [Names -> {"none", "open", "stopping", "closed"}]
    /\ turn \in {"none", "handling", "working"}

\* The supervisor serves an application until it has ended, one at a time.
OneApplication ==
    /\ pc # "serving" => app \in {"none", "closed", "incomplete"}
    /\ pc \in {"looping", "loading", "loaded"} => app \in {"none", "closed"}
    /\ pc \in {"idle", "returned"} => app = "none"
    /\ app = "none" => \A r \in Names : Is(r, "none")
    /\ orphans = 0

\* A teardown has closed all it has come past, and leaves what comes later:
\* messaging that fails takes nothing else down.
Ordered ==
    /\ app = "closing" =>
           \A i \in 1..6 : i < step => resource[Resources[i]] \in Gone
    /\ app = "closed" => \A r \in Names : resource[r] \in Gone
    /\ app \in {"built", "starting", "started"} \/ (app = "closing" /\ after = "started") =>
           Is("transcriber", "open") /\ Is("providers", "open") /\ Is("accounts", "open")
    /\ app = "closing" /\ after = "started" => step <= 4

\* Each resource of messaging stands on those that close after it.
Standing ==
    /\ resource["ingress"] \notin Gone => Is("workflow", "open")
    /\ resource["workflow"] \notin Gone => Is("delivery", "open") /\ Is("transcriber", "open")
                                /\ Is("providers", "open") /\ Is("accounts", "open")

\* A message is handled while ingress is drained, a turn worked on while the
\* workflow is.
Drained ==
    /\ turn = "handling" => resource["ingress"] \notin Gone
    /\ turn = "working" => resource["workflow"] \notin Gone

IInv == TypeOK /\ OneApplication /\ Ordered /\ Standing /\ Drained

-----------------------------------------------------------------------------
\* The order of the resources.
LEMMA Places ==
    /\ Resources[1] = "ingress" /\ Resources[2] = "workflow" /\ Resources[3] = "delivery"
    /\ Resources[4] = "transcriber" /\ Resources[5] = "providers"
    /\ Resources[6] = "accounts"
    /\ \A i \in 1..6 : Resources[i] \in Names
BY DEF Resources, Names

LEMMA Positions ==
    /\ Position("ingress") = 1 /\ Position("workflow") = 2 /\ Position("delivery") = 3
    /\ Position("transcriber") = 4 /\ Position("providers") = 5
    /\ Position("accounts") = 6
<1>1. ASSUME NEW j \in 1..6 PROVE Position(Resources[j]) = j
  <2>1. \A i \in 1..6 : Resources[i] = Resources[j] => i = j
    BY DEF Resources
  <2> QED BY <2>1 DEF Position
<1> QED BY <1>1, Places

\* The supervisor's own steps leave the application alone.
LEMMA QuietKeeps ==
    ASSUME IInv, UNCHANGED application, pc' = pc PROVE IInv'
BY DEF application, IInv, TypeOK, OneApplication, Ordered, Standing, Drained, Is

\* The supervisor's loop takes up an application when the last has closed.
LEMMA SuperviseKeeps ==
    ASSUME IInv, Supervise PROVE IInv'
<1>1. CASE Run \/ ReadGeneration \/ LoadSettings
  BY <1>1 DEF Run, ReadGeneration, LoadSettings, Goto, application, IInv, TypeOK,
              OneApplication, Ordered, Standing, Drained, Is
<1>2. CASE RunOnceEnds
  <2>1. pc = "serving" /\ app \in {"closed", "incomplete"} /\ UNCHANGED application
        /\ pc' = IF RestartsAgain THEN "looping" ELSE "returning"
    BY <1>2 DEF RunOnceEnds, Goto
  <2>2. pc' = "returning" \/ (pc' = "looping" /\ app = "closed")
    BY <2>1 DEF RestartsAgain
  <2> QED BY <2>1, <2>2 DEF application, IInv, TypeOK, OneApplication, Ordered, Standing,
                            Drained, Is
<1>3. CASE RunReturns
  <2>1. /\ app' = "none" /\ turn' = "none" /\ UNCHANGED <<step, after, orphans>>
        /\ resource' = [r \in Names |-> "none"]
        /\ pc' \in {"returned", "idle"}
    BY <1>3 DEF RunReturns, Goto, IInv, TypeOK
  <2>2. \A r \in Names : resource'[r] = "none"
    BY <2>1
  <2> QED BY <2>1, <2>2 DEF IInv, TypeOK, OneApplication, Ordered, Standing, Drained, Is,
                            Gone, Names
<1>4. CASE Build
  <2>1. /\ pc = "loaded" /\ pc' = "serving" /\ app' = "built" /\ step' = 1
        /\ resource' = [r \in Names |-> IF Position(r) >= 4 THEN "open" ELSE "none"]
        /\ app \in {"none", "closed"} /\ orphans' = orphans /\ UNCHANGED <<after, turn>>
    BY <1>4 DEF Build, Goto, IInv, TypeOK, OneApplication
  <2>2. \A r \in Names : resource[r] \in Gone
    BY <2>1 DEF IInv, OneApplication, Ordered, Is, Gone
  <2>3. turn = "none"
    BY <2>2 DEF IInv, TypeOK, Drained, Names
  <2>4. /\ \A r \in {"ingress", "workflow", "delivery"} : resource'[r] = "none"
        /\ \A r \in {"transcriber", "providers", "accounts"} : resource'[r] = "open"
    BY <2>1, Positions DEF Names
  <2> QED BY <2>1, <2>3, <2>4 DEF IInv, TypeOK, OneApplication, Ordered, Standing, Drained,
                                  Is, Gone, Names
<1> QED BY <1>1, <1>2, <1>3, <1>4 DEF Supervise

\* Startup, with or without messaging, and the ends of it.
LEMMA LifespanKeeps ==
    ASSUME IInv, Start \/ StartMessaging \/ MessagingFails \/ Started \/ Close
                 \/ NoShutdown
    PROVE  IInv'
<1>1. CASE Start
  BY <1>1 DEF Start, IInv, TypeOK, OneApplication, Ordered, Standing, Drained, Is
<1>2. CASE StartMessaging
  <2>1. /\ app = "starting" /\ UNCHANGED <<pc, app, step, after, turn, orphans>>
        /\ \A r \in Names : resource'[r] =
               IF r \in {"ingress", "workflow", "delivery"} THEN "open" ELSE resource[r]
        /\ resource' \in [Names -> {"none", "open", "stopping", "closed"}]
    BY <1>2 DEF StartMessaging, supervisor, IInv, TypeOK, Names
  <2> QED BY <2>1 DEF IInv, TypeOK, OneApplication, Ordered, Standing, Drained, Is, Names, Gone
<1>3. CASE MessagingFails
  BY <1>3 DEF MessagingFails, supervisor, IInv, TypeOK, OneApplication, Ordered, Standing,
              Drained, Is
<1>4. CASE Started
  BY <1>4 DEF Started, supervisor, IInv, TypeOK, OneApplication, Ordered, Standing, Drained,
              Is
<1>5. CASE Close
  BY <1>5 DEF Close, supervisor, IInv, TypeOK, OneApplication, Ordered, Standing, Drained, Is
<1>6. CASE NoShutdown
  BY <1>6 DEF NoShutdown, supervisor, IInv, TypeOK, OneApplication, Ordered, Standing,
              Drained, Is
<1> QED BY <1>1, <1>2, <1>3, <1>4, <1>5, <1>6

\* A step of the teardown closes the resource it has come to, when nothing
\* uses it any more.
LEMMA TeardownKeeps ==
    ASSUME IInv, Teardown \/ TeardownFails PROVE IInv'
<1>1. ASSUME TeardownStep PROVE IInv'
  <2>1. PICK i \in 1..6 : i = step
    BY <1>1 DEF TeardownStep, IInv, TypeOK
  <2>2. PICK r \in Names : r = Resources[i]
    BY Places
  <2>3. /\ app = "closing" /\ (after = "started" => i <= 3)
        /\ UNCHANGED <<pc, app, after, orphans>>
        /\ \/ /\ resource[r] \in Gone /\ step' = i + 1 /\ UNCHANGED <<resource, turn>>
           \/ /\ resource[r] = "open" /\ resource' = [resource EXCEPT ![r] = "stopping"]
              /\ UNCHANGED <<step, turn>>
           \/ /\ resource[r] = "stopping" /\ (r = "ingress" => turn # "handling")
              /\ turn' = IF r = "workflow" /\ turn = "working" THEN "none" ELSE turn
              /\ resource' = [resource EXCEPT ![r] = "closed"] /\ step' = i + 1
    BY <1>1, <2>1, <2>2 DEF TeardownStep, Is, Set, QuiesceDone, Gone, supervisor
  <2>4. \A j \in 1..6 : j < i => resource[Resources[j]] \in Gone
    BY <2>1, <2>3 DEF IInv, Ordered
  <2>5. \A q \in Names : q # r => resource'[q] = resource[q]
    BY <2>3 DEF IInv, TypeOK
  <2>6. TypeOK'
    BY <2>1, <2>3 DEF IInv, TypeOK
  <2>7. OneApplication'
    BY <2>3 DEF IInv, OneApplication, Is
  <2>8. Ordered'
    <3>1. step' = i \/ (step' = i + 1 /\ resource'[r] \in Gone)
      BY <2>1, <2>3 DEF IInv, TypeOK, Gone
    <3>2. \A j \in 1..6 : j < i => resource'[Resources[j]] \in Gone
      BY <2>2, <2>4, <2>5, Places DEF Resources
    <3>3. \A j \in 1..6 : j < step' => resource'[Resources[j]] \in Gone
      BY <2>2, <3>1, <3>2
    <3>4. after = "started" =>
            resource'["transcriber"] = "open" /\ resource'["providers"] = "open"
            /\ resource'["accounts"] = "open"
      <4>1. after = "started" => r \notin {"transcriber", "providers", "accounts"}
        BY <2>2, <2>3 DEF Resources
      <4> QED BY <2>3, <2>5, <4>1 DEF IInv, Ordered, Is, Names
    <3>5. app' = "closing" /\ after' = after /\ (after = "started" => step' <= 4)
      BY <2>3, <3>1
    <3> QED BY <3>3, <3>4, <3>5 DEF Ordered, Is
  <2>9. Standing'
    <3>1. CASE i = 1
      <4>1. r = "ingress"
        BY <2>2, <3>1, Places
      <4>2. resource'["ingress"] \notin Gone => resource["ingress"] \notin Gone
        BY <2>3, <4>1 DEF IInv, TypeOK, Gone, Names
      <4> QED BY <2>5, <4>1, <4>2 DEF IInv, Standing, Is, Names
    <3>2. CASE i # 1
      <4>1. resource["ingress"] \in Gone /\ r # "ingress"
        BY <2>2, <2>4, <3>2, Places DEF Resources
      <4>2. resource'["ingress"] \in Gone
        BY <2>5, <4>1 DEF Names
      <4>3. CASE r = "workflow"
        <5>1. resource'["workflow"] \notin Gone => resource["workflow"] \notin Gone
          BY <2>3, <4>3 DEF IInv, TypeOK, Gone, Names
        <5> QED BY <2>5, <4>2, <4>3, <5>1 DEF IInv, Standing, Is, Names
      <4>4. CASE r # "workflow"
        <5>1. i > 2
          BY <2>2, <3>2, <4>4, Places
        <5>2. resource["workflow"] \in Gone
          BY <2>4, <5>1, Places
        <5> QED BY <2>5, <4>2, <4>4, <5>2 DEF Standing, Names
      <4> QED BY <4>3, <4>4
    <3> QED BY <3>1, <3>2
  <2>10. Drained'
    BY <2>3, <2>5 DEF IInv, TypeOK, Drained, Gone, Names
  <2> QED BY <2>6, <2>7, <2>8, <2>9, <2>10 DEF IInv
<1>2. ASSUME TeardownFails PROVE IInv'
  BY <1>2 DEF TeardownFails, IInv, TypeOK, OneApplication, Ordered, Standing, Drained, Is
<1>3. ASSUME TeardownEnds PROVE IInv'
  <2>1. /\ app = "closing" /\ app' = IF after = "started" THEN "started" ELSE "closed"
        /\ step > (IF after = "started" THEN 3 ELSE 6)
        /\ UNCHANGED <<pc, step, after, resource, turn, orphans>>
    BY <1>3 DEF TeardownEnds, supervisor
  <2>2. CASE after = "started"
    BY <2>1, <2>2 DEF IInv, TypeOK, OneApplication, Ordered, Standing, Drained, Is
  <2>3. CASE after # "started"
    <3>1. \A i \in 1..6 : resource[Resources[i]] \in Gone
      BY <2>1, <2>3 DEF IInv, TypeOK, Ordered
    <3>2. \A r \in Names : resource[r] \in Gone
      BY <3>1, Places DEF Names
    <3> QED BY <2>1, <2>3, <3>2 DEF IInv, TypeOK, OneApplication, Ordered, Standing, Drained,
                                    Is
  <2> QED BY <2>2, <2>3
<1> QED BY <1>1, <1>2, <1>3 DEF Teardown

\* A message comes while ingress is open; its turn is the workflow's.
LEMMA TurnKeeps ==
    ASSUME IInv, Receive \/ Turn PROVE IInv'
<1>1. /\ UNCHANGED <<pc, app, step, after, resource, orphans>>
      /\ \/ resource["ingress"] = "open" /\ turn' = "handling"
         \/ turn = "handling" /\ turn' \in {"none", "working"}
         \/ turn' = "none"
  BY DEF Receive, Turn, Handled, TurnEnds, Is, supervisor
<1>2. Drained'
  BY <1>1 DEF IInv, Standing, Drained, Is, Gone
<1> QED BY <1>1, <1>2 DEF IInv, TypeOK, OneApplication, Ordered, Standing, Is

LEMMA InitIInv == Init => IInv
<1> SUFFICES ASSUME Init PROVE IInv
  OBVIOUS
<1>1. {Resources[i] : i \in 1..6} = Names
  BY Places DEF Names
<1>2. resource \in [Names -> {"none", "open", "stopping", "closed"}]
      /\ \A r \in Names : resource[r] = "none"
  BY <1>1 DEF Init
<1> QED BY <1>2 DEF Init, IInv, TypeOK, OneApplication, Ordered, Standing, Drained, Is, Gone,
                    Names

LEMMA StepKeeps == IInv /\ [Next]_vars => IInv'
<1> SUFFICES ASSUME IInv, [Next]_vars PROVE IInv'
  OBVIOUS
<1>1. CASE UNCHANGED vars
  BY <1>1, QuietKeeps DEF vars, supervisor
<1>2. CASE ScheduleRun \/ RequestRestart \/ RequestStop \/ Signalled
  BY <1>2, QuietKeeps DEF ScheduleRun, RequestRestart, RequestStop, Signalled
<1>3. ASSUME NEW pending \in BOOLEAN, Apply(pending) PROVE IInv'
  BY <1>3, QuietKeeps DEF Apply
<1>4. CASE Supervise
  BY <1>4, SuperviseKeeps
<1>5. CASE Start \/ StartMessaging \/ MessagingFails \/ Started \/ Close \/ NoShutdown
  BY <1>5, LifespanKeeps
<1>6. CASE Teardown \/ TeardownFails
  BY <1>6, TeardownKeeps
<1>7. CASE Receive \/ Turn
  BY <1>7, TurnKeeps
<1>8. CASE AtRest
  BY <1>8, QuietKeeps DEF AtRest, vars, supervisor
<1> QED BY <1>1, <1>2, <1>3, <1>4, <1>5, <1>6, <1>7, <1>8 DEF Next

\* The order of startup and teardown, for any number of runs and failures.
THEOREM LifecycleIsSound == Spec => []IInv
<1>1. Init => IInv
  BY InitIInv
<1>2. IInv /\ [Next]_vars => IInv'
  BY StepKeeps
<1> QED BY <1>1, <1>2, PTL DEF Spec

\* TeardownInOrder of AppLifecycle: what a message or a turn needs outlives
\* it, and the next application is built when the last has closed everything.
THEOREM TeardownIsOrdered == Spec => []TeardownInOrder
<1>1. IInv => TeardownInOrder
  <2> SUFFICES ASSUME IInv PROVE TeardownInOrder
    OBVIOUS
  <2>1. Is("ingress", "open") \/ turn = "handling" => Is("workflow", "open")
    BY DEF IInv, Standing, Drained, Is, Gone
  <2>2. Is("ingress", "open") \/ turn # "none" =>
            Is("delivery", "open") /\ Is("transcriber", "open") /\ Is("providers", "open")
            /\ Is("accounts", "open")
    BY DEF IInv, TypeOK, Standing, Drained, Is, Gone
  <2>3. Is("ingress", "open") \/ turn # "none" => \A i \in 3..6 : Is(Resources[i], "open")
    BY <2>2, Places
  <2>4. app = "closed" => \A i \in 1..6 : resource[Resources[i]] \in {"none", "closed"}
    BY Places DEF IInv, Ordered, Gone
  <2> QED BY <2>1, <2>3, <2>4 DEF IInv, OneApplication, TeardownInOrder
<1> QED BY <1>1, LifecycleIsSound, PTL
-----------------------------------------------------------------------------
(***************************************************************************)
(* ConversationRestore: the graphs of conversations, and what is done to   *)
(* them.                                                                   *)
(***************************************************************************)
Node == [status : Nat, state : {"pending", "in_progress", "completed", "error"},
         parent : Nat, ref : Nat, born : Nat]

\* The statuses sent so far
Sent(n) == MaxPrompts + 1 .. MaxPrompts + n

Formed(g, n) ==
    /\ DOMAIN g \subseteq Prompts
    /\ \A m \in DOMAIN g :
        g[m] \in Node /\ g[m].status \in {0} \cup Sent(n) /\ g[m].born \in Sent(n)

\* What a conversation must be for its snapshot to be accepted whole
Sound(c, n) ==
    /\ \A t \in DOMAIN c : Formed(c[t], n) /\ Accepted(t, c[t])
    /\ \A t, x \in DOMAIN c : t # x => References(c[t]) \cap References(c[x]) = {}

\* A reply names the message it answers: an old file's replies do not.
Replying(t, g) == \A m \in DOMAIN g : m # t => g[m].ref # 0

\* Nothing but states has changed, and nothing begins to run.
Relabelled(g, h) ==
    /\ DOMAIN h = DOMAIN g
    /\ \A m \in DOMAIN g :
        /\ h[m] \in Node
        /\ h[m].status = g[m].status /\ h[m].parent = g[m].parent
        /\ h[m].ref = g[m].ref /\ h[m].born = g[m].born
        /\ h[m].state \in Runnable => g[m].state \in Runnable

\* There is a prompt, and room for another.
LEMMA MaxIsNat == MaxPrompts \in Nat /\ 1 \in Prompts /\ 2 \in Prompts
  BY RestartAssumption DEF Prompts

\* A tree's references are its prompts and their statuses.
LEMMA ReferencesOf ==
    ASSUME NEW g, NEW x
    PROVE  x \in References(g)
             <=> x \in DOMAIN g \/ (x # 0 /\ \E m \in DOMAIN g : g[m].status = x)
  BY DEF References

\* ... of each prompt, itself and its status.
LEMMA OwnReferences ==
    ASSUME NEW g, NEW m \in DOMAIN g
    PROVE  m \in References(g) /\ (g[m].status # 0 => g[m].status \in References(g))
  BY ReferencesOf

\* Another status sent leaves a tree well formed.
LEMMA FormedMore ==
    ASSUME NEW g, NEW n \in Nat, Formed(g, n)
    PROVE  Formed(g, n + 1)
  BY MaxIsNat DEF Formed, Sent

\* No tree refers to 0, or to the status that is sent next.
LEMMA FormedBounds ==
    ASSUME NEW g, NEW n \in Nat, Formed(g, n)
    PROVE  /\ 0 \notin References(g)
           /\ MaxPrompts + n + 1 \notin References(g)
<1>1. ASSUME NEW x \in References(g)
      PROVE  x \in Nat /\ x # 0 /\ x # MaxPrompts + n + 1
  <2>1. CASE x \in DOMAIN g
    BY <2>1, MaxIsNat DEF Formed, Prompts
  <2>2. CASE x # 0 /\ \E m \in DOMAIN g : g[m].status = x
    BY <2>2, MaxIsNat DEF Formed, Sent
  <2>3. QED BY <1>1, <2>1, <2>2, ReferencesOf
<1>2. QED BY <1>1

\* The ids of a node: its prompt and its status
LEMMA IdsAre ==
    ASSUME NEW g, NEW m, NEW x
    PROVE  x \in Ids(g, m) <=> x # 0 /\ (x = m \/ x = g[m].status)
  BY DEF Ids

\* The same tree in other states is accepted as well.
LEMMA AcceptedAlike ==
    ASSUME NEW t, NEW g, NEW h, Accepted(t, g), DOMAIN h = DOMAIN g, h[t].ref = 0,
           \A m \in DOMAIN g : /\ h[m].status = g[m].status
                               /\ h[m].parent = g[m].parent
                               /\ m # t => Exact(h[m]) = Exact(g[m])
                               /\ h[m].state \in Runnable => h[m].status # 0
    PROVE  Accepted(t, h) /\ References(h) = References(g)
<1>1. \A m \in DOMAIN g : Ids(h, m) = Ids(g, m)
  BY DEF Ids
<1>2. Descendants(h, t) = Descendants(g, t)
  BY DEF Descendants, KeepsChildren
<1>3. \A x : x \in References(h) <=> x \in References(g)
  BY ReferencesOf
<1>4. References(h) = References(g)
  BY <1>3
<1>5. QED BY <1>1, <1>2, <1>4 DEF Accepted

\* ... so states may change as long as nothing begins to run.
LEMMA RelabelledIsSound ==
    ASSUME NEW t, NEW n \in Nat, NEW g, NEW h, Formed(g, n), Accepted(t, g), Relabelled(g, h)
    PROVE  /\ Formed(h, n) /\ Accepted(t, h) /\ References(h) = References(g)
           /\ Replying(t, g) => Replying(t, h)
<1>1. Formed(h, n)
  BY DEF Formed, Relabelled
<1>2. \A m \in DOMAIN g : Exact(h[m]) = Exact(g[m])
  BY DEF Relabelled, Exact
<1>3. \A m \in DOMAIN g : h[m].state \in Runnable => h[m].status # 0
  BY DEF Relabelled, Accepted
<1>4. h[t].ref = 0 /\ DOMAIN h = DOMAIN g
  BY DEF Relabelled, Accepted
<1>5. Accepted(t, h) /\ References(h) = References(g)
  BY <1>2, <1>3, <1>4, AcceptedAlike DEF Relabelled
<1>6. QED BY <1>1, <1>5 DEF Replying, Relabelled

\* The graph's own change of state is such a relabelling.
LEMMA BecomesRelabels ==
    ASSUME NEW g, NEW n \in Nat, Formed(g, n), NEW ms,
           NEW state \in {"pending", "in_progress", "completed", "error"},
           state \in Runnable => \A m \in ms : m \in DOMAIN g => g[m].state \in Runnable
    PROVE  /\ Relabelled(g, Becomes(g, ms, state))
           /\ \A m \in DOMAIN g :
                Becomes(g, ms, state)[m].state = IF m \in ms THEN state ELSE g[m].state
<1>1. DOMAIN Becomes(g, ms, state) = DOMAIN g
  BY DEF Becomes
<1>2. ASSUME NEW m \in DOMAIN g
      PROVE  LET h == Becomes(g, ms, state) IN
             /\ h[m] \in Node
             /\ h[m].status = g[m].status /\ h[m].parent = g[m].parent
             /\ h[m].ref = g[m].ref /\ h[m].born = g[m].born
             /\ h[m].state \in Runnable => g[m].state \in Runnable
             /\ h[m].state = IF m \in ms THEN state ELSE g[m].state
  <2>1. g[m] \in Node
    BY DEF Formed
  <2>2. CASE m \in ms
    <3>1. Becomes(g, ms, state)[m] = [g[m] EXCEPT !.state = state]
      BY <2>2 DEF Becomes
    <3>2. QED BY <2>1, <2>2, <3>1 DEF Node
  <2>3. CASE m \notin ms
    BY <2>1, <2>3 DEF Becomes
  <2>4. QED BY <2>2, <2>3
<1>3. QED BY <1>1, <1>2 DEF Relabelled

\* A reference resolves to a prompt, itself or the one it is the status of.
LEMMA ResolveFinds ==
    ASSUME NEW g, NEW r \in References(g)
    PROVE  /\ Resolve(g, r) \in DOMAIN g
           /\ r = Resolve(g, r) \/ (r # 0 /\ r = g[Resolve(g, r)].status)
<1>1. CASE r \in DOMAIN g
  BY <1>1 DEF Resolve
<1>2. CASE r \notin DOMAIN g
  BY <1>2, ReferencesOf DEF Resolve
<1>3. QED BY <1>1, <1>2

\* One entry set leaves the others alone.
LEMMA WithFacts ==
    ASSUME NEW f, NEW x, NEW value
    PROVE  /\ DOMAIN With(f, x, value) = DOMAIN f \cup {x}
           /\ With(f, x, value)[x] = value
           /\ \A y \in DOMAIN f : y # x => With(f, x, value)[y] = f[y]
  BY DEF With

\* A reply is put below what it answers.
LEMMA Grafted ==
    ASSUME NEW n \in Nat, NEW t, NEW g, Formed(g, n), Accepted(t, g), Replying(t, g),
           NEW m \in Prompts, m \notin References(g), NEW r \in References(g), NEW node,
           node = [status |-> MaxPrompts + n + 1, state |-> node.state,
                   parent |-> Resolve(g, r), ref |-> r, born |-> MaxPrompts + n + 1],
           node.state \in Runnable
    PROVE  /\ Formed(With(g, m, node), n + 1)
           /\ Accepted(t, With(g, m, node))
           /\ Replying(t, With(g, m, node))
           /\ References(With(g, m, node)) = References(g) \cup {m, MaxPrompts + n + 1}
<1> DEFINE s == MaxPrompts + n + 1
           h == With(g, m, node)
           p == Resolve(g, r)
<1>1. p \in DOMAIN g /\ (r = p \/ (r # 0 /\ r = g[p].status))
  BY ResolveFinds
<1>2. DOMAIN h = DOMAIN g \cup {m} /\ h[m] = node /\ (\A y \in DOMAIN g : y # m => h[y] = g[y])
  BY DEF With
<1>3. m \notin DOMAIN g /\ s \in Nat /\ s # 0 /\ s \notin References(g) /\ 0 \notin References(g)
      /\ m \in Nat /\ s # m /\ m # 0 /\ r # 0 /\ r \in Nat
  <2>1. r \in Nat
    BY <1>1, MaxIsNat DEF Formed, Prompts, Node
  <2>2. m \notin DOMAIN g
    BY OwnReferences
  <2>3. s \notin References(g) /\ 0 \notin References(g) /\ r # 0
    BY FormedBounds
  <2>4. m \in Nat /\ m # 0 /\ s \in Nat /\ s # 0 /\ s # m
    BY MaxIsNat DEF Prompts
  <2>5. QED BY <2>1, <2>2, <2>3, <2>4
<1>4. \A y \in DOMAIN g : h[y] = g[y]
  BY <1>2, <1>3
<1>5. /\ node.status = s /\ node.parent = p /\ node.ref = r /\ node.born = s
      /\ p \in Nat /\ node \in Node
  <2>1. p \in Nat
    BY <1>1, MaxIsNat DEF Formed, Prompts
  <2>2. QED BY <1>3, <2>1 DEF Node, Runnable
<1> HIDE DEF s, h, p
<1>6. Formed(h, n + 1)
  <2>1. Formed(g, n + 1) /\ s \in Sent(n + 1)
    BY FormedMore, MaxIsNat DEF s, Sent
  <2>2. QED BY <1>2, <1>4, <1>5, <2>1 DEF Formed
<1>7. Replying(t, h)
  BY <1>2, <1>3, <1>4, <1>5 DEF Replying
<1>8. References(h) = References(g) \cup {m, s}
  <2>1. ASSUME NEW x PROVE x \in References(h) <=> x \in References(g) \cup {m, s}
    <3>1. (\E y \in DOMAIN h : h[y].status = x) <=> (x = s \/ \E y \in DOMAIN g : g[y].status = x)
      BY <1>2, <1>4, <1>5
    <3>2. QED BY <1>2, <1>3, <3>1, ReferencesOf
  <2>2. QED BY <2>1
<1>9. Accepted(t, h)
  <2>1. t \in DOMAIN h /\ h[t].parent = 0 /\ h[t].ref = 0 /\ t # m
    BY <1>2, <1>3, <1>4 DEF Accepted
  <2>2. \A y \in DOMAIN g : Ids(h, y) = Ids(g, y) /\ Ids(g, y) \subseteq References(g)
    BY <1>4, OwnReferences DEF Ids
  <2>3. Ids(h, m) = {m, s}
    BY <1>2, <1>3, <1>5 DEF Ids
  <2>4. ASSUME NEW y \in DOMAIN h
        PROVE  /\ h[y].state \in Runnable => h[y].status # 0
               /\ h[y].status # y
               /\ \A z \in DOMAIN h \ {y} : Ids(h, y) \cap Ids(h, z) = {}
               /\ y # t => h[y].parent \in DOMAIN h /\ Exact(h[y]) \in Ids(h, h[y].parent)
    <3>1. CASE y = m
      <4>1. \A z \in DOMAIN h \ {y} : Ids(h, y) \cap Ids(h, z) = {}
        BY <1>2, <1>3, <2>2, <2>3, <3>1
      <4>2. Exact(h[y]) \in Ids(h, h[y].parent) /\ h[y].parent \in DOMAIN h
        <5>1. Exact(h[y]) = r
          BY <1>2, <1>3, <1>5, <3>1 DEF Exact
        <5>2. r \in Ids(g, p)
          BY <1>1, <1>3, IdsAre
        <5>3. QED BY <1>1, <1>2, <1>5, <2>2, <3>1, <5>1, <5>2
      <4>3. QED BY <1>2, <1>3, <1>5, <3>1, <4>1, <4>2
    <3>2. CASE y # m
      <4>1. y \in DOMAIN g /\ h[y] = g[y]
        BY <1>2, <1>4, <3>2
      <4>2. \A z \in DOMAIN h \ {y} : Ids(h, y) \cap Ids(h, z) = {}
        <5>1. ASSUME NEW z \in DOMAIN h \ {y} PROVE Ids(h, y) \cap Ids(h, z) = {}
          <6>1. CASE z = m
            BY <1>3, <2>2, <2>3, <4>1, <6>1
          <6>2. CASE z # m
            BY <1>2, <2>2, <4>1, <6>2 DEF Accepted
          <6>3. QED BY <6>1, <6>2
        <5>2. QED BY <5>1
      <4>3. QED BY <1>2, <2>2, <4>1, <4>2 DEF Accepted
    <3>3. QED BY <3>1, <3>2
  <2>5. Descendants(h, t) = DOMAIN h
    <3>1. ASSUME NEW c \in DOMAIN h, NEW xs \in SUBSET DOMAIN h, t \in xs,
                 KeepsChildren(h, xs)
          PROVE  c \in xs
      <4> DEFINE ys == xs \cap DOMAIN g
      <4>1. ys \in SUBSET DOMAIN g /\ t \in ys
        BY <3>1 DEF Accepted
      <4>2. KeepsChildren(g, ys)
        BY <1>2, <1>4, <3>1 DEF KeepsChildren
      <4> HIDE DEF ys
      <4>3. DOMAIN g \subseteq ys
        BY <4>1, <4>2 DEF Accepted, Descendants
      <4>4. DOMAIN g \subseteq xs
        BY <4>3 DEF ys
      <4>5. m \in xs
        BY <1>1, <1>2, <1>5, <3>1, <4>4 DEF KeepsChildren
      <4>6. QED BY <1>2, <4>4, <4>5
    <3>2. QED BY <3>1 DEF Descendants
  <2>6. QED BY <2>1, <2>4, <2>5 DEF Accepted
<1>10. QED BY <1>6, <1>7, <1>8, <1>9 DEF h, s

\* A prompt that answers nothing is a tree of its own.
LEMMA Planted ==
    ASSUME NEW n \in Nat, NEW m \in Prompts, NEW node,
           node = [status |-> MaxPrompts + n + 1, state |-> node.state,
                   parent |-> 0, ref |-> 0, born |-> MaxPrompts + n + 1],
           node.state \in Runnable
    PROVE  /\ Formed(With(Nothing, m, node), n + 1)
           /\ Accepted(m, With(Nothing, m, node))
           /\ Replying(m, With(Nothing, m, node))
           /\ References(With(Nothing, m, node)) = {m, MaxPrompts + n + 1}
<1> DEFINE s == MaxPrompts + n + 1
           h == With(Nothing, m, node)
<1>1. DOMAIN h = {m} /\ h[m] = node
  BY DEF With, Nothing
<1>2. s \in Nat /\ s # 0 /\ s # m /\ m # 0 /\ m \in Nat /\ s \in Sent(n + 1)
  BY MaxIsNat DEF Prompts, Sent
<1>3. /\ node.status = s /\ node.parent = 0 /\ node.ref = 0 /\ node.born = s /\ node \in Node
  BY <1>2 DEF Node, Runnable
<1> HIDE DEF s, h
<1>4. Formed(h, n + 1)
  BY <1>1, <1>2, <1>3 DEF Formed
<1>5. Replying(m, h)
  BY <1>1 DEF Replying
<1>6. References(h) = {m, s}
  BY <1>1, <1>2, <1>3 DEF References
<1>7. Accepted(m, h)
  <2>1. Descendants(h, m) = DOMAIN h
    BY <1>1 DEF Descendants
  <2>2. QED BY <1>1, <1>2, <1>3, <2>1 DEF Accepted
<1>8. QED BY <1>4, <1>5, <1>6, <1>7 DEF s, h

(* h is tree t's graph g as a restart brings it back                        *)
Reset(t, g, h, n) ==
    /\ Formed(h, n) /\ Accepted(t, h) /\ Replying(t, h)
    /\ References(h) = References(g)
    /\ DOMAIN h = DOMAIN g
    /\ \A m \in DOMAIN g :
         /\ h[m].status = g[m].status
         /\ h[m].born = g[m].born
         /\ h[m].state \notin Runnable
         /\ g[m].state \in Runnable \/ h[m].state = g[m].state

\* What a restart makes of an accepted tree is accepted, and runs nothing.
LEMMA InterruptedIsSound ==
    ASSUME NEW n \in Nat, NEW t, NEW g, Formed(g, n), Accepted(t, g)
    PROVE  Reset(t, g, Interrupted(g), n)
<1> DEFINE h == Interrupted(g)
<1>1. DOMAIN h = DOMAIN g
  BY DEF Interrupted
<1>2. ASSUME NEW m \in DOMAIN g
      PROVE  /\ h[m].status = g[m].status /\ h[m].parent = g[m].parent
             /\ h[m].born = g[m].born /\ h[m].ref = Exact(g[m])
             /\ h[m].state = IF g[m].state \in Runnable THEN "error" ELSE g[m].state
             /\ h[m] \in Node
  <2>1. g[m] \in Node
    BY DEF Formed
  <2>2. Exact(g[m]) \in Nat
    BY <2>1 DEF Node, Exact
  <2>3. h[m] = [g[m] EXCEPT !.ref = Exact(g[m]),
                            !.state = IF g[m].state \in Runnable THEN "error" ELSE g[m].state]
    BY DEF Interrupted
  <2> DEFINE state == IF g[m].state \in Runnable THEN "error" ELSE g[m].state
             ref == Exact(g[m])
  <2>4. state \in {"pending", "in_progress", "completed", "error"}
    BY <2>1 DEF Node
  <2>5. h[m] = [g[m] EXCEPT !.ref = ref, !.state = state]
    BY <2>3
  <2>6. ref \in Nat
    BY <2>2
  <2> HIDE DEF state, ref, h
  <2>7. /\ h[m].status = g[m].status /\ h[m].parent = g[m].parent
        /\ h[m].born = g[m].born /\ h[m].ref = ref /\ h[m].state = state /\ h[m] \in Node
    BY <2>1, <2>4, <2>5, <2>6 DEF Node
  <2>8. QED BY <2>7 DEF state, ref
<1> HIDE DEF h
<1>3. h[t].ref = 0
  BY <1>2 DEF Accepted, Exact
<1>4. \A m \in DOMAIN g : m # t => h[m].ref # 0 /\ Exact(h[m]) = Exact(g[m])
  BY <1>2, IdsAre DEF Accepted, Exact
<1>5. \A m \in DOMAIN g : h[m].state \notin Runnable
  BY <1>2 DEF Runnable
<1>6. Accepted(t, h) /\ References(h) = References(g)
  BY <1>1, <1>2, <1>3, <1>4, <1>5, AcceptedAlike
<1>7. Formed(h, n)
  BY <1>1, <1>2 DEF Formed
<1>8. Replying(t, h)
  BY <1>1, <1>4 DEF Replying
<1>9. QED BY <1>1, <1>2, <1>5, <1>6, <1>7, <1>8 DEF h, Reset

\* What is removed with a message is closed under replies and statuses.
LEMMA SubtreeKeeps ==
    ASSUME NEW g, NEW r \in References(g)
    PROVE  r \in Subtree(g, r) /\ KeepsReplies(g, Subtree(g, r))
<1> DEFINE gone == Subtree(g, r)
<1>1. r \in gone
  BY DEF Subtree
<1>2. ASSUME NEW c \in DOMAIN g, g[c].ref \in gone
      PROVE  c \in gone
  <2>1. c \in References(g)
    BY OwnReferences
  <2>2. \A xs \in SUBSET References(g) : r \in xs /\ KeepsReplies(g, xs) => g[c].ref \in xs
    BY <1>2 DEF Subtree
  <2>3. QED BY <2>1, <2>2 DEF Subtree, KeepsReplies
<1>3. ASSUME NEW c \in DOMAIN g, c \in gone, g[c].status # 0
      PROVE  g[c].status \in gone
  <2>1. g[c].status \in References(g)
    BY <1>3, OwnReferences
  <2>2. \A xs \in SUBSET References(g) : r \in xs /\ KeepsReplies(g, xs) => c \in xs
    BY <1>3 DEF Subtree
  <2>3. QED BY <1>3, <2>1, <2>2 DEF Subtree, KeepsReplies
<1>4. QED BY <1>1, <1>2, <1>3 DEF KeepsReplies

\* What is left when a message goes with all that answers it
Left(g, r) == Cleared(g, Subtree(g, r), Resolve(g, r))

Pruned(g, gone, owner, h) ==
    /\ DOMAIN h = DOMAIN g \ gone
    /\ \A m \in DOMAIN h :
        /\ h[m] \in Node
        /\ h[m].parent = g[m].parent /\ h[m].ref = g[m].ref /\ h[m].born = g[m].born
        /\ \/ h[m] = g[m]
           \/ h[m].status = 0 /\ h[m].state = "error" /\ g[m].status \in gone
        /\ m = owner => h[m].state = "error"

\* A reply-/clear takes whole nodes, and a status's owner keeps its own.
LEMMA LeftNodes ==
    ASSUME NEW n \in Nat, NEW g, Formed(g, n), NEW r \in References(g)
    PROVE  Pruned(g, Subtree(g, r), Resolve(g, r), Left(g, r))
<1> DEFINE h == Left(g, r)
           owner == Resolve(g, r)
           gone == Subtree(g, r)
<1>1. DOMAIN h = DOMAIN g \ gone
  BY DEF Left, Cleared
<1>2. ASSUME NEW m \in DOMAIN h
      PROVE  /\ h[m] \in Node
             /\ h[m].parent = g[m].parent /\ h[m].ref = g[m].ref /\ h[m].born = g[m].born
             /\ \/ h[m] = g[m]
                \/ h[m].status = 0 /\ h[m].state = "error" /\ g[m].status \in gone
             /\ m = owner => h[m].state = "error"
  <2>1. m \in DOMAIN g /\ m \notin gone /\ g[m] \in Node
    BY <1>1 DEF Formed
  <2>2. CASE m = owner /\ g[m].status \in gone
    <3>1. h[m] = [g[m] EXCEPT !.status = 0, !.state = "error"]
      BY <1>1, <2>1, <2>2 DEF Left, Cleared
    <3>2. h[m] = [status |-> 0, state |-> "error", parent |-> g[m].parent,
                  ref |-> g[m].ref, born |-> g[m].born]
      BY <2>1, <3>1 DEF Node
    <3>3. h[m].status = 0 /\ h[m].state = "error" /\ h[m].parent = g[m].parent
          /\ h[m].ref = g[m].ref /\ h[m].born = g[m].born
      BY <3>2
    <3>4. h[m] \in Node
      BY <2>1, <3>2 DEF Node
    <3>5. QED BY <2>2, <3>3, <3>4
  <2>3. CASE ~(m = owner /\ g[m].status \in gone)
    <3>1. h[m] = g[m]
      BY <1>1, <2>1, <2>3 DEF Left, Cleared
    <3>2. m # owner
      BY <2>1, <2>3, ResolveFinds, SubtreeKeeps
    <3>3. QED BY <2>1, <3>1, <3>2
  <2>4. QED BY <2>2, <2>3
<1> HIDE DEF h, owner, gone
<1>3. Pruned(g, gone, owner, h)
  BY <1>1, <1>2 DEF Pruned
<1>4. QED BY <1>3 DEF h, owner, gone

\* What a reply-/clear leaves of a tree is accepted as it is.
LEMMA LeftIsSound ==
    ASSUME NEW n \in Nat, NEW t, NEW g, Formed(g, n), Accepted(t, g), Replying(t, g),
           NEW r \in References(g), Left(g, r) # Nothing
    PROVE  /\ Formed(Left(g, r), n) /\ Accepted(t, Left(g, r)) /\ Replying(t, Left(g, r))
           /\ References(Left(g, r)) \subseteq References(g)
<1> DEFINE h == Left(g, r)
           gone == Subtree(g, r)
<1>1. KeepsReplies(g, gone)
  BY SubtreeKeeps
<1> DEFINE owner == Resolve(g, r)
<1>2. Pruned(g, gone, owner, h)
  BY LeftNodes
<1>3. DOMAIN h # {}
  <2>1. CASE DOMAIN h = {}
    <3>1. h = [m \in {} |-> 0]
      BY <2>1 DEF Left, Cleared
    <3>2. QED BY <3>1 DEF Nothing
  <2>2. QED BY <2>1
<1> HIDE DEF h, gone, owner
<1>2a. /\ DOMAIN h = DOMAIN g \ gone
      /\ \A m \in DOMAIN h :
           /\ h[m] \in Node
           /\ h[m].parent = g[m].parent /\ h[m].ref = g[m].ref /\ h[m].born = g[m].born
           /\ \/ h[m] = g[m]
              \/ h[m].status = 0 /\ h[m].state = "error" /\ g[m].status \in gone
  BY <1>2 DEF Pruned
\* Replies to what is gone are gone.
<1>4. \A c \in DOMAIN g : c # t /\ g[c].parent \in gone => c \in gone
  <2>1. ASSUME NEW c \in DOMAIN g, c # t, g[c].parent \in gone
        PROVE  c \in gone
    <3>1. /\ g[c].parent \in DOMAIN g
          /\ g[c].ref # 0
          /\ g[c].ref \in Ids(g, g[c].parent)
      BY <2>1 DEF Accepted, Replying, Exact
    <3>2. g[c].ref = g[c].parent \/ g[c].ref = g[g[c].parent].status
      BY <3>1, IdsAre
    <3>3. g[c].ref \in gone
      BY <1>1, <2>1, <3>1, <3>2 DEF KeepsReplies
    <3>4. QED BY <1>1, <3>3 DEF KeepsReplies
  <2>2. QED BY <2>1
<1>5. t \in DOMAIN h
  <2>1. CASE t \in gone
    <3> DEFINE ys == gone \cap DOMAIN g
    <3>1. KeepsChildren(g, ys) /\ t \in ys /\ ys \in SUBSET DOMAIN g
      BY <1>4, <2>1 DEF KeepsChildren, Accepted
    <3> HIDE DEF ys
    <3>2. DOMAIN g \subseteq ys
      BY <3>1 DEF Accepted, Descendants
    <3>3. QED BY <1>2a, <1>3, <3>2 DEF ys
  <2>2. QED BY <1>2a, <2>1 DEF Accepted
<1>6. Formed(h, n)
  BY <1>2a DEF Formed
<1>7. Replying(t, h)
  BY <1>2a DEF Replying
<1>8. References(h) \subseteq References(g)
  BY <1>2a, ReferencesOf
<1>9. \A m \in DOMAIN h : Ids(h, m) \subseteq Ids(g, m)
  BY <1>2a, IdsAre
<1>10. ASSUME NEW m \in DOMAIN h, m # t
       PROVE  h[m].parent \in DOMAIN h /\ Exact(h[m]) \in Ids(h, h[m].parent)
  <2>1. /\ m \in DOMAIN g /\ m \notin gone /\ h[m].parent = g[m].parent
        /\ g[m].ref # 0 /\ h[m].ref = g[m].ref
    BY <1>2a, <1>10 DEF Replying
  <2>2. g[m].parent \in DOMAIN g /\ g[m].ref \in Ids(g, g[m].parent)
    BY <1>10, <2>1 DEF Accepted, Exact
  <2>3. g[m].parent \in DOMAIN h
    BY <1>2a, <1>4, <1>10, <2>1, <2>2
  <2>4. g[m].ref \notin gone
    BY <1>1, <2>1 DEF KeepsReplies
  <2>5. g[m].ref \in Ids(h, g[m].parent)
    BY <1>2a, <2>2, <2>3, <2>4, IdsAre
  <2>6. QED BY <2>1, <2>3, <2>5 DEF Exact
<1>11. Descendants(h, t) = DOMAIN h
  <2>1. ASSUME NEW c \in DOMAIN h, NEW xs \in SUBSET DOMAIN h, t \in xs, KeepsChildren(h, xs)
        PROVE  c \in xs
    <3> DEFINE ys == xs \cup (gone \cap DOMAIN g)
    <3>1. ys \in SUBSET DOMAIN g /\ t \in ys
      BY <1>2a, <2>1
    <3>2. KeepsChildren(g, ys)
      <4>1. ASSUME NEW d \in DOMAIN g, g[d].parent \in ys
            PROVE  d \in ys
        <5>1. CASE d = t
          BY <3>1, <5>1
        <5>2. CASE d # t /\ d \in gone
          BY <5>2
        <5>3. CASE d # t /\ d \notin gone
          <6>1. d \in DOMAIN h /\ g[d].parent \notin gone
            BY <1>2a, <1>4, <5>3
          <6>2. QED BY <1>2a, <2>1, <4>1, <6>1 DEF KeepsChildren
        <5>4. QED BY <5>1, <5>2, <5>3
      <4>2. QED BY <4>1 DEF KeepsChildren
    <3> HIDE DEF ys
    <3>3. DOMAIN g \subseteq ys
      BY <3>1, <3>2 DEF Accepted, Descendants
    <3>4. QED BY <1>2a, <3>3 DEF ys
  <2>2. QED BY <2>1 DEF Descendants
<1>12. Accepted(t, h)
  <2>1. h[t].parent = 0 /\ h[t].ref = 0
    BY <1>2a, <1>5 DEF Accepted
  <2>2. ASSUME NEW m \in DOMAIN h
        PROVE  /\ h[m].state \in Runnable => h[m].status # 0
               /\ h[m].status # m
               /\ \A z \in DOMAIN h \ {m} : Ids(h, m) \cap Ids(h, z) = {}
    <3>1. m \in DOMAIN g /\ m # 0
      BY <1>2a, MaxIsNat DEF Formed, Prompts
    <3>2. h[m].state \in Runnable => h[m].status # 0
      BY <1>2a, <3>1 DEF Accepted, Runnable
    <3>3. h[m].status # m
      BY <1>2a, <3>1 DEF Accepted
    <3>4. ASSUME NEW z \in DOMAIN h \ {m} PROVE Ids(h, m) \cap Ids(h, z) = {}
      <4>1. Ids(g, m) \cap Ids(g, z) = {}
        BY <1>2a DEF Accepted
      <4>2. QED BY <1>9, <4>1
    <3>5. QED BY <3>2, <3>3, <3>4
  <2>3. QED BY <1>5, <1>10, <1>11, <2>1, <2>2 DEF Accepted
<1>13. QED BY <1>6, <1>7, <1>8, <1>12 DEF h

\* c with the graph g at t
Puts(c, d, t, g) ==
    /\ DOMAIN d = DOMAIN c \cup {t}
    /\ d[t] = g
    /\ \A x \in DOMAIN c : x # t => d[x] = c[x]

\* Puts by With, for a tree that may be new
LEMMA WithPuts == ASSUME NEW c, NEW t, NEW g PROVE Puts(c, With(c, t, g), t, g)
  BY DEF With, Puts

\* Puts by EXCEPT, for one that is there
LEMMA ExceptPuts ==
    ASSUME NEW c, NEW t \in DOMAIN c, NEW g
    PROVE  Puts(c, [c EXCEPT ![t] = g], t, g)
  BY DEF Puts

\* A sound graph that refers to nothing of the others keeps all sound.
LEMMA SoundPut ==
    ASSUME NEW n \in Nat, NEW c, NEW d, NEW t, NEW g, Sound(c, n), Puts(c, d, t, g),
           Formed(g, n), Accepted(t, g),
           \A x \in DOMAIN c : x # t => References(g) \cap References(c[x]) = {}
    PROVE  Sound(d, n)
<1>1. \A x \in DOMAIN d : x # t => x \in DOMAIN c /\ d[x] = c[x]
  BY DEF Puts
<1>2. \A x \in DOMAIN d : Formed(d[x], n) /\ Accepted(x, d[x])
  <2>1. ASSUME NEW x \in DOMAIN d PROVE Formed(d[x], n) /\ Accepted(x, d[x])
    <3>1. CASE x = t
      BY <3>1 DEF Puts
    <3>2. CASE x # t
      BY <1>1, <3>2 DEF Sound
    <3>3. QED BY <3>1, <3>2
  <2>2. QED BY <2>1
<1>3. ASSUME NEW x \in DOMAIN d, NEW y \in DOMAIN d, x # y
      PROVE  References(d[x]) \cap References(d[y]) = {}
  <2>1. CASE x = t
    BY <1>1, <1>3, <2>1 DEF Puts
  <2>2. CASE y = t
    <3>1. References(d[y]) \cap References(d[x]) = {}
      BY <1>1, <1>3, <2>2 DEF Puts
    <3>2. QED BY <3>1
  <2>3. CASE x # t /\ y # t
    BY <1>1, <1>3, <2>3 DEF Sound
  <2>4. QED BY <2>1, <2>2, <2>3
<1>4. QED BY <1>2, <1>3 DEF Sound

\* Some trees of a sound conversation are sound.
LEMMA SoundPart ==
    ASSUME NEW n, NEW c, NEW d, Sound(c, n), DOMAIN d \subseteq DOMAIN c,
           \A x \in DOMAIN d : d[x] = c[x]
    PROVE  Sound(d, n)
  BY DEF Sound

\* Another status sent leaves a conversation sound.
LEMMA SoundMore ==
    ASSUME NEW n \in Nat, NEW c, Sound(c, n)
    PROVE  Sound(c, n + 1)
  BY FormedMore DEF Sound

\* So is the empty conversation.
LEMMA SoundNothing == ASSUME NEW n PROVE Sound(Nothing, n)
  BY DEF Sound, Nothing

\* So is one whose trees are relabelled.
LEMMA SoundRelabelled ==
    ASSUME NEW n \in Nat, NEW c, NEW d, Sound(c, n), DOMAIN d = DOMAIN c,
           \A x \in DOMAIN c : Relabelled(c[x], d[x])
    PROVE  Sound(d, n)
<1>1. ASSUME NEW x \in DOMAIN c
      PROVE  Formed(d[x], n) /\ Accepted(x, d[x]) /\ References(d[x]) = References(c[x])
  BY RelabelledIsSound DEF Sound
<1>2. QED BY <1>1 DEF Sound

\* The ids of the nodes of a graph, which no other node ever has
GraphBorn(g) == {g[m].born : m \in DOMAIN g}

\* What is born in a conversation is born in one of its trees.
LEMMA BornIn ==
    ASSUME NEW c, NEW x
    PROVE  x \in Born(c) <=> \E t \in DOMAIN c : x \in GraphBorn(c[t])
<1> DEFINE all == {{c[t][m].born : m \in DOMAIN c[t]} : t \in DOMAIN c}
<1>1. Born(c) = UNION all
  BY DEF Born
<1>2. ASSUME x \in Born(c) PROVE \E t \in DOMAIN c : x \in GraphBorn(c[t])
  <2>1. PICK s \in all : x \in s
    <3> HIDE DEF all
    <3>1. QED BY <1>1, <1>2
  <2>2. QED BY <2>1 DEF GraphBorn
<1>3. ASSUME NEW t \in DOMAIN c, x \in GraphBorn(c[t]) PROVE x \in Born(c)
  <2>1. GraphBorn(c[t]) \in all
    BY DEF GraphBorn
  <2> HIDE DEF all
  <2>2. QED BY <1>1, <1>3, <2>1
<1>4. QED BY <1>2, <1>3

\* All that is born was sent.
LEMMA BornBounds ==
    ASSUME NEW n \in Nat, NEW c, Sound(c, n)
    PROVE  Born(c) \subseteq Sent(n)
<1>1. ASSUME NEW x \in Born(c) PROVE x \in Sent(n)
  <2>1. PICK t \in DOMAIN c : x \in GraphBorn(c[t])
    BY <1>1, BornIn
  <2>2. QED BY <2>1 DEF GraphBorn, Sound, Formed
<1>2. QED BY <1>1

\* What is known is what some tree refers to.
LEMMA KnownIs ==
    ASSUME NEW x
    PROVE  x \in Known <=> \E t \in Trees : x \in References(trees[t])
<1> DEFINE all == {References(trees[t]) : t \in Trees}
<1>1. Known = UNION all
  BY DEF Known
<1>2. ASSUME x \in Known PROVE \E t \in Trees : x \in References(trees[t])
  <2>1. PICK s \in all : x \in s
    <3> HIDE DEF all
    <3>1. QED BY <1>1, <1>2
  <2>2. QED BY <2>1
<1>3. ASSUME NEW t \in Trees, x \in References(trees[t]) PROVE x \in Known
  <2>1. References(trees[t]) \in all
    OBVIOUS
  <2> HIDE DEF all
  <2>2. QED BY <1>1, <1>3, <2>1
<1>4. QED BY <1>2, <1>3

\* What the trees have is in the store, and the store has no more of the
\* trees that no command has still to save.
Within(g, h) == References(g) \subseteq References(h) /\ GraphBorn(g) \subseteq GraphBorn(h)

Covers(c, d, later) ==
    /\ \A t \in DOMAIN c : t \in DOMAIN d /\ Within(c[t], d[t])
    /\ \A t \in DOMAIN d :
        t \notin later => t \in DOMAIN c /\ References(d[t]) \subseteq References(c[t])

\* What covers a conversation has all its nodes.
LEMMA CoversBorn ==
    ASSUME NEW c, NEW d, NEW later, Covers(c, d, later)
    PROVE  Born(c) \subseteq Born(d)
  BY BornIn DEF Covers, Within

\* A relabelled tree has the same references and births.
LEMMA RelabelledIsWithin ==
    ASSUME NEW n \in Nat, NEW t, NEW g, NEW h, Formed(g, n), Accepted(t, g), Relabelled(g, h)
    PROVE  Within(h, g) /\ Within(g, h)
<1>1. References(h) = References(g)
  BY RelabelledIsSound
<1>2. GraphBorn(h) = GraphBorn(g)
  BY DEF GraphBorn, Relabelled
<1>3. QED BY <1>1, <1>2 DEF Within

\* What is left of a tree has no others.
LEMMA LeftIsWithin ==
    ASSUME NEW n \in Nat, NEW t, NEW g, Formed(g, n), Accepted(t, g), Replying(t, g),
           NEW r \in References(g), Left(g, r) # Nothing
    PROVE  Within(Left(g, r), g)
<1>1. References(Left(g, r)) \subseteq References(g)
  BY LeftIsSound
<1>2. Pruned(g, Subtree(g, r), Resolve(g, r), Left(g, r))
  BY LeftNodes
<1>3. GraphBorn(Left(g, r)) \subseteq GraphBorn(g)
  BY <1>2 DEF Pruned, GraphBorn
<1>4. QED BY <1>1, <1>3 DEF Within

\* Trees that are relabelled are covered as they were.
LEMMA CoversRelabelled ==
    ASSUME NEW n \in Nat, NEW c, NEW b, NEW d, NEW later, Sound(c, n), Covers(c, d, later),
           DOMAIN b = DOMAIN c, \A x \in DOMAIN c : Relabelled(c[x], b[x])
    PROVE  Covers(b, d, later)
<1>1. \A x \in DOMAIN c : Within(b[x], c[x]) /\ Within(c[x], b[x])
  BY RelabelledIsWithin DEF Sound
<1>2. QED BY <1>1 DEF Covers, Within

\* A tree is saved as it is.
LEMMA CoversSaved ==
    ASSUME NEW c, NEW d, NEW b, NEW later, NEW t \in DOMAIN c, Covers(c, d, later),
           Puts(d, b, t, c[t])
    PROVE  Covers(c, b, later)
  BY DEF Covers, Puts, Within

\* ... which leaves the store sound,
LEMMA SoundSaved ==
    ASSUME NEW n \in Nat, NEW c, NEW d, NEW b, NEW later, NEW t \in DOMAIN c,
           Sound(c, n), Sound(d, n), Covers(c, d, later), Puts(d, b, t, c[t])
    PROVE  Sound(b, n)
<1>1. t \in DOMAIN d /\ References(c[t]) \subseteq References(d[t])
  BY DEF Covers, Within
<1>2. \A x \in DOMAIN d : x # t => References(c[t]) \cap References(d[x]) = {}
  BY <1>1 DEF Sound
<1>3. QED BY <1>2, SoundPut DEF Sound

\* ... and brings nothing into it.
LEMMA BornSaved ==
    ASSUME NEW c, NEW d, NEW b, NEW later, NEW t \in DOMAIN c, Covers(c, d, later),
           Puts(d, b, t, c[t])
    PROVE  Born(b) \subseteq Born(d)
<1>1. \A x \in DOMAIN b : x \in DOMAIN d /\ GraphBorn(b[x]) \subseteq GraphBorn(d[x])
  BY DEF Covers, Within, Puts
<1>2. QED BY <1>1, BornIn

\* An old file is accepted whole.
LEMMA LegacyIsSound ==
    /\ Sound(Legacy, 2)
    /\ Born(Legacy) = {MaxPrompts + 1, MaxPrompts + 2}
<1> DEFINE s == MaxPrompts + 1
           r == MaxPrompts + 2
           g == Legacy[1]
           node(x, state, parent) ==
               [status |-> x, state |-> state, parent |-> parent, ref |-> 0, born |-> x]
<1>1. DOMAIN Legacy = {1} /\ DOMAIN g = {1, 2}
  BY DEF Legacy
<1>2. g[1] = node(s, "completed", 0) /\ g[2] = node(r, "in_progress", 1)
  BY DEF Legacy
<1>3. /\ s \in Nat /\ r \in Nat /\ s # 0 /\ r # 0 /\ s # r
      /\ s \notin {1, 2} /\ r \notin {1, 2}
      /\ s \in Sent(2) /\ r \in Sent(2)
  BY RestartAssumption DEF Sent
<1>4. /\ g[1] \in Node /\ g[1].status = s /\ g[1].state = "completed" /\ g[1].parent = 0
      /\ g[1].ref = 0 /\ g[1].born = s
  BY <1>2, <1>3 DEF Node
<1>5. /\ g[2] \in Node /\ g[2].status = r /\ g[2].state = "in_progress" /\ g[2].parent = 1
      /\ g[2].ref = 0 /\ g[2].born = r
  BY <1>2, <1>3 DEF Node
<1> HIDE DEF g, s, r
<1>6. Formed(g, 2)
  BY <1>1, <1>3, <1>4, <1>5, MaxIsNat DEF Formed
<1>7. Ids(g, 1) = {1, s} /\ Ids(g, 2) = {2, r}
  BY <1>3, <1>4, <1>5 DEF Ids
<1>8. Descendants(g, 1) = DOMAIN g
  <2>1. ASSUME NEW xs \in SUBSET DOMAIN g, 1 \in xs, KeepsChildren(g, xs)
        PROVE  2 \in xs
    BY <1>1, <1>5, <2>1 DEF KeepsChildren
  <2>2. QED BY <1>1, <2>1 DEF Descendants
<1>9. Accepted(1, g)
  BY <1>1, <1>3, <1>4, <1>5, <1>7, <1>8 DEF Accepted, Exact, Runnable
<1>10. Sound(Legacy, 2)
  BY <1>1, <1>6, <1>9 DEF Sound, g
<1>11. GraphBorn(g) = {s, r}
  BY <1>1, <1>4, <1>5 DEF GraphBorn
<1>12. \A x : x \in Born(Legacy) <=> x \in {s, r}
  BY <1>1, <1>11, BornIn DEF g
<1>13. QED BY <1>10, <1>12 DEF s, r

-----------------------------------------------------------------------------
\* The bound on what is sent, and the statuses that are shown
Counted ==
    /\ issued \in Nat /\ issued <= MaxStatuses
    /\ DOMAIN shown = Statuses

\* Memory, what it saves, and the file are each sound.
AllSound ==
    /\ Sound(trees, issued) /\ Sound(store, issued) /\ Sound(file, issued)
    /\ \A t \in Trees : Replying(t, trees[t])
    /\ Covers(trees, store, owed)

\* A command owes trees only while it has the lock, and a /clear has taken all.
Locked ==
    /\ command \in {"none", "save", "clear"}
    /\ command = "none" => owed = {}
    /\ command = "clear" => Trees = {}
    /\ ~up => command = "none" /\ doomed = {}

\* Of a tree the active prompt alone is in progress, unless it is doomed.
Claimed ==
    /\ DOMAIN active = Trees
    /\ \A t \in Trees :
        /\ \A m \in DOMAIN trees[t] : trees[t][m].state = "in_progress" => m = active[t]
        /\ active[t] = 0 => \A m \in DOMAIN trees[t] : trees[t][m].state \notin Runnable
        /\ t \in doomed =>
            /\ active[t] # 0
            /\ \A m \in DOMAIN trees[t] : trees[t][m].state # "in_progress"
    /\ doomed \subseteq Trees

\* What has left the file is nowhere else.
Buried ==
    /\ buried \subseteq Sent(issued)
    /\ Born(store) \cap buried = {}
    /\ Born(file) \cap buried = {}

\* A status that speaks of work is that of work, or will be corrected, or
\* could not be.
Truthful(n) ==
    n.status # 0 /\ shown[n.status] = "working" =>
        n.state \in Runnable \/ n.status \in texts \cup excused \cup stale

Telling == up => \A t \in Trees : \A m \in DOMAIN trees[t] : Truthful(trees[t][m])

RestoreInv ==
    /\ Counted /\ AllSound /\ Locked /\ Claimed /\ Buried /\ Telling
    /\ skipped = {}

\* An empty file, or one of an older version, is where it begins.
LEMMA RestoreInitHolds == RestoreInit => RestoreInv
<1> SUFFICES ASSUME RestoreInit PROVE RestoreInv
  OBVIOUS
<1>1. \E n \in Nat :
        issued = n /\ n <= MaxStatuses /\ Sound(file, n) /\ Born(file) \subseteq Sent(n)
  <2>1. CASE file = Nothing
    <3>1. Born(file) = {}
      BY <2>1, BornIn DEF Nothing
    <3>2. issued = 0
      BY <3>1, FS_EmptySet DEF RestoreInit
    <3>3. QED BY <2>1, <3>1, <3>2, SoundNothing, RestartAssumption
  <2>2. CASE file = Legacy
    <3>1. Born(file) = {MaxPrompts + 1, MaxPrompts + 2} /\ Sound(file, 2)
      BY <2>2, LegacyIsSound
    <3>2. Cardinality({MaxPrompts + 1}) = 1 /\ IsFiniteSet({MaxPrompts + 1})
      BY FS_Singleton
    <3>3. Cardinality({MaxPrompts + 1} \cup {MaxPrompts + 2}) = 2
      BY <3>2, FS_AddElement, MaxIsNat
    <3>4. {MaxPrompts + 1} \cup {MaxPrompts + 2} = Born(file)
      BY <3>1
    <3>5. issued = 2
      BY <3>3, <3>4 DEF RestoreInit
    <3>6. Born(file) \subseteq Sent(2)
      BY <3>1, BornBounds
    <3>7. QED BY <3>1, <3>5, <3>6, RestartAssumption
  <2>3. QED BY <2>1, <2>2 DEF RestoreInit
<1>2. trees = Nothing /\ store = Nothing /\ active = Nothing /\ Trees = {} /\ Born(store) = {}
  <2>1. trees = Nothing /\ store = Nothing /\ active = Nothing
    BY DEF RestoreInit
  <2>2. Born(store) = {}
    BY <2>1, BornIn DEF Nothing
  <2>3. QED BY <2>1, <2>2 DEF Trees, Nothing
<1>3. Counted
  BY <1>1 DEF Counted, RestoreInit
<1>4. AllSound
  BY <1>1, <1>2, SoundNothing DEF AllSound, Covers, Nothing
<1>5. Locked
  BY <1>2 DEF Locked, RestoreInit
<1>6. Claimed
  BY <1>2 DEF Claimed, RestoreInit, Nothing
<1>7. Buried
  BY <1>2 DEF Buried, RestoreInit
<1>8. Telling /\ skipped = {}
  BY DEF Telling, RestoreInit
<1>9. QED BY <1>3, <1>4, <1>5, <1>6, <1>7, <1>8 DEF RestoreInv

(***************************************************************************)
(* Transitions of claims and stops only relabel the trees.                 *)
(***************************************************************************)
\* Such trees stay sound, and covered by the store.
LEMMA RelabelKeeps ==
    ASSUME RestoreInv, DOMAIN trees' = Trees,
           \A t \in Trees : Relabelled(trees[t], (trees[t])'),
           UNCHANGED issued
    PROVE  /\ Sound(trees', issued')
           /\ \A t \in Trees' : Replying(t, (trees[t])')
           /\ Covers(trees', store, owed)
<1>1. issued \in Nat /\ Sound(trees, issued) /\ Covers(trees, store, owed)
  BY DEF RestoreInv, Counted, AllSound
<1>2. \A t \in Trees : Relabelled(trees[t], trees'[t])
  OBVIOUS
<1>3. Sound(trees', issued)
  BY <1>1, <1>2, SoundRelabelled DEF Trees
<1>4. \A t \in Trees : Replying(t, trees'[t])
  BY <1>2 DEF RestoreInv, AllSound, Replying, Relabelled
<1>5. Covers(trees', store, owed)
  BY <1>1, <1>2, CoversRelabelled DEF Trees
<1>6. QED BY <1>3, <1>4, <1>5 DEF Trees

\* h is g with those prompts in that state.
Turned(g, h, ms, state) ==
    /\ Relabelled(g, h)
    /\ \A m \in DOMAIN g : h[m].state = IF m \in ms THEN state ELSE g[m].state

\* Prompts that end are relabelled,
LEMMA EndedTurned ==
    ASSUME RestoreInv, NEW t \in Trees, NEW ms, NEW state \in {"completed", "error"}
    PROVE  Turned(trees[t], Becomes(trees[t], ms, state), ms, state)
<1>1. issued \in Nat /\ Formed(trees[t], issued)
  BY DEF RestoreInv, Counted, AllSound, Sound, Trees
<1>2. state \notin Runnable /\ state \in {"pending", "in_progress", "completed", "error"}
  BY DEF Runnable
<1>3. QED BY <1>1, <1>2, BecomesRelabels DEF Turned

\* ... as is one that is begun
LEMMA BegunTurned ==
    ASSUME RestoreInv, NEW t \in Trees, NEW m, trees[t][m].state = "pending"
    PROVE  Turned(trees[t], Becomes(trees[t], {m}, "in_progress"), {m}, "in_progress")
<1>1. issued \in Nat /\ Formed(trees[t], issued)
  BY DEF RestoreInv, Counted, AllSound, Sound, Trees
<1>2. "in_progress" \in {"pending", "in_progress", "completed", "error"}
      /\ \A x \in {m} : trees[t][x].state \in Runnable
  BY DEF Runnable
<1>3. QED BY <1>1, <1>2, BecomesRelabels DEF Turned

\* ... and a tree left as it is.
LEMMA SameIsRelabelled ==
    ASSUME RestoreInv, NEW t \in Trees
    PROVE  Relabelled(trees[t], trees[t])
  BY DEF RestoreInv, AllSound, Sound, Formed, Trees, Relabelled

\* What a claim's transition saves, and tells
LEMMA OfClaimKeeps ==
    ASSUME RestoreInv, NEW t \in Trees, NEW g, NEW told, OfClaim(t, g, told),
           Relabelled(trees[t], g),
           \A m \in DOMAIN trees[t] :
               g[m].state = "in_progress" => trees[t][m].state = "in_progress",
           \A m \in DOMAIN trees[t] :
               trees[t][m].state \in Runnable /\ g[m].state \notin Runnable /\ g[m].status # 0
                   => g[m].status \in told
    PROVE  RestoreInv'
<1>1. Puts(trees, trees', t, g)
  BY ExceptPuts DEF OfClaim, Trees
<1>2. DOMAIN trees' = Trees /\ trees'[t] = g /\ \A x \in Trees : x # t => trees'[x] = trees[x]
  BY <1>1 DEF Puts, Trees
<1>3. \A x \in Trees : Relabelled(trees[x], (trees[x])')
  BY <1>2, SameIsRelabelled
<1>4. /\ Sound(trees', issued')
      /\ \A x \in Trees' : Replying(x, (trees[x])')
      /\ Covers(trees', store, owed)
  BY <1>2, <1>3, RelabelKeeps DEF OfClaim
<1>5. Puts(store, store', t, trees'[t])
  BY <1>2, WithPuts DEF OfClaim, Saved
<1>6. AllSound'
  <2>1. Covers(trees', store', owed')
    BY <1>2, <1>4, <1>5, CoversSaved DEF OfClaim
  <2>2. Sound(store', issued')
    BY <1>2, <1>4, <1>5, SoundSaved DEF OfClaim, RestoreInv, AllSound, Counted
  <2>3. QED BY <1>4, <2>1, <2>2 DEF AllSound, OfClaim, RestoreInv
<1>7. Buried'
  <2>1. Born(store') \subseteq Born(store)
    BY <1>2, <1>4, <1>5, BornSaved
  <2>2. QED BY <2>1 DEF Buried, RestoreInv, OfClaim, history
<1>8. Counted' /\ Locked' /\ skipped' = {}
  BY <1>2 DEF OfClaim, history, RestoreInv, Counted, Locked, Trees
<1>9. Claimed'
  <2>1. UNCHANGED <<active, doomed>> /\ t \notin doomed /\ active[t] # 0
    BY DEF OfClaim
  <2>2. ASSUME NEW x \in Trees
        PROVE  /\ \A m \in DOMAIN trees'[x] : trees'[x][m].state = "in_progress" => m = active[x]
               /\ active[x] = 0 => \A m \in DOMAIN trees'[x] : trees'[x][m].state \notin Runnable
               /\ x \in doomed =>
                   /\ active[x] # 0
                   /\ \A m \in DOMAIN trees'[x] : trees'[x][m].state # "in_progress"
    <3>1. CASE x = t
      <4>1. DOMAIN g = DOMAIN trees[t]
        BY DEF Relabelled
      <4>2. QED BY <1>2, <2>1, <3>1, <4>1 DEF RestoreInv, Claimed
    <3>2. CASE x # t
      BY <1>2, <3>2 DEF RestoreInv, Claimed
    <3>3. QED BY <3>1, <3>2
  <2>3. QED BY <1>2, <2>1, <2>2 DEF RestoreInv, Claimed, Trees
<1>10. Telling'
  <2>1. UNCHANGED <<up, shown, excused, stale>> /\ texts' = texts \cup told
    BY DEF OfClaim, history
  <2>2. ASSUME up, NEW x \in Trees, NEW m \in DOMAIN trees'[x]
        PROVE  Truthful(trees[x][m])'
    <3>1. CASE x = t
      <4>1. m \in DOMAIN trees[t] /\ g[m].status = trees[t][m].status
        BY <1>2, <2>2, <3>1 DEF Relabelled
      <4>2. Truthful(trees[t][m])
        BY <2>2, <4>1 DEF RestoreInv, Telling
      <4>3. QED BY <1>2, <2>1, <3>1, <4>1, <4>2 DEF Truthful
    <3>2. CASE x # t
      <4>1. Truthful(trees[x][m])
        BY <1>2, <2>2, <3>2 DEF RestoreInv, Telling
      <4>2. QED BY <1>2, <2>1, <3>2, <4>1 DEF Truthful
    <3>3. QED BY <3>1, <3>2
  <2>3. QED BY <1>2, <2>1, <2>2 DEF Telling, Trees
<1>11. QED BY <1>6, <1>7, <1>8, <1>9, <1>10 DEF RestoreInv

\* The claim is saved.
LEMMA RecordKeeps == ASSUME RestoreInv, NEW t \in Trees, Record(t) PROVE RestoreInv'
<1>1. Relabelled(trees[t], trees[t])
  BY SameIsRelabelled
<1>2. QED BY <1>1, OfClaimKeeps DEF Record

\* A turn that completes is saved, and tells its prompt so.
LEMMA CompleteKeeps == ASSUME RestoreInv, NEW t \in Trees, Complete(t) PROVE RestoreInv'
<1> DEFINE g == Becomes(trees[t], {active[t]}, "completed")
<1>0. Turned(trees[t], g, {active[t]}, "completed")
  BY EndedTurned
<1>1. /\ Relabelled(trees[t], g)
      /\ \A m \in DOMAIN trees[t] :
           g[m].state = IF m \in {active[t]} THEN "completed" ELSE trees[t][m].state
  BY <1>0 DEF Turned
<1>2. active[t] \in DOMAIN trees[t] => Holder(t) = trees[t][active[t]]
  BY DEF Holder
<1>3. \A m \in DOMAIN trees[t] : g[m].status = trees[t][m].status
  BY <1>1 DEF Relabelled
<1>4. OfClaim(t, g, {Holder(t).status})
  BY DEF Complete
<1> HIDE DEF g
<1>5. \A m \in DOMAIN trees[t] :
        trees[t][m].state \in Runnable /\ g[m].state \notin Runnable /\ g[m].status # 0
            => g[m].status \in {Holder(t).status}
  BY <1>1, <1>2, <1>3
<1>6. QED BY <1>1, <1>4, <1>5, OfClaimKeeps

\* One that fails takes its descendants with it, and tells them all.
LEMMA FailKeeps == ASSUME RestoreInv, NEW t \in Trees, Fail(t) PROVE RestoreInv'
<1>1. PICK below : OfClaim(t, Becomes(trees[t], {active[t]} \cup below, "error"),
                    StatusesOf(trees[t], ({active[t]} \cup below) \cap In(trees[t], Runnable)))
  BY DEF Fail
<1> DEFINE failed == {active[t]} \cup below
           g == Becomes(trees[t], failed, "error")
           told == StatusesOf(trees[t], failed \cap In(trees[t], Runnable))
<1>0. Turned(trees[t], g, failed, "error")
  BY EndedTurned
<1>2. /\ Relabelled(trees[t], g)
      /\ \A m \in DOMAIN trees[t] :
           g[m].state = IF m \in failed THEN "error" ELSE trees[t][m].state
  BY <1>0 DEF Turned
<1>3. \A m \in DOMAIN trees[t] : g[m].status = trees[t][m].status
  BY <1>2 DEF Relabelled
<1>4. \A m \in failed : m \in DOMAIN trees[t] /\ trees[t][m].state \in Runnable
        /\ trees[t][m].status # 0 => trees[t][m].status \in told
  BY DEF StatusesOf, In
<1>5. OfClaim(t, g, told)
  BY <1>1
<1> HIDE DEF g, told, failed
<1>6. QED BY <1>2, <1>3, <1>4, <1>5, OfClaimKeeps

\* The transitions that leave the store alone
LEMMA StatesKeep ==
    ASSUME RestoreInv, DOMAIN trees' = Trees,
           \A t \in Trees : Relabelled(trees[t], (trees[t])'),
           UNCHANGED <<store, file, issued, shown, buried, skipped>>
    PROVE  /\ Counted' /\ Buried' /\ skipped' = {}
           /\ owed' = owed => AllSound'
           /\ command = "none" => (AllSound /\ owed = {})
           /\ Sound(trees', issued') /\ Sound(store', issued') /\ Sound(file', issued')
           /\ \A t \in Trees' : Replying(t, (trees[t])')
           /\ Covers(trees', store', owed)
<1>1. /\ Sound(trees', issued')
      /\ \A t \in Trees' : Replying(t, (trees[t])')
      /\ Covers(trees', store, owed)
  BY RelabelKeeps
<1>2. Sound(store', issued') /\ Sound(file', issued')
  BY DEF RestoreInv, AllSound
<1>3. QED BY <1>1, <1>2 DEF RestoreInv, Counted, Buried, AllSound, Locked

\* Owing more trees covers no less.
LEMMA CoversMore ==
    ASSUME NEW c, NEW d, NEW later, NEW more, Covers(c, d, later), later \subseteq more
    PROVE  Covers(c, d, more)
  BY DEF Covers

\* The end of a claim: the next prompt is begun, or the tree is idle.
LEMMA FinishKeeps == ASSUME RestoreInv, NEW t \in Trees, Finish(t) PROVE RestoreInv'
<1>1. /\ DOMAIN active = Trees
      /\ \A m \in DOMAIN trees[t] : trees[t][m].state = "in_progress" => m = active[t]
      /\ t \in doomed => \A m \in DOMAIN trees[t] : trees[t][m].state # "in_progress"
      /\ \A m \in DOMAIN trees[t] : trees[t][m] \in Node
  BY DEF RestoreInv, Claimed, AllSound, Sound, Formed, Trees
\* Nothing is in progress any more.
<1>2. \A m \in DOMAIN trees[t] : trees[t][m].state # "in_progress"
  BY <1>1 DEF Finish, Holder
<1>3. UNCHANGED <<up, command, owed, store, file, stale, texts, shown, issued, skipped,
                  excused, buried>>
      /\ doomed' = doomed \ {t}
  BY DEF Finish, history
<1> DEFINE next == In(trees[t], {"pending"})
<1>4. CASE next = {}
  <2>1. UNCHANGED trees /\ active' = [active EXCEPT ![t] = 0]
    BY <1>4 DEF Finish
  <2>2. \A m \in DOMAIN trees[t] : trees[t][m].state \notin Runnable
    BY <1>1, <1>2, <1>4 DEF In, Runnable
  <2>3. active'[t] = 0 /\ DOMAIN active' = Trees /\ \A x \in Trees : x # t => active'[x] = active[x]
    BY <1>1, <2>1
  <2>4. Claimed'
    BY <1>2, <1>3, <2>1, <2>2, <2>3 DEF RestoreInv, Claimed, Trees
  <2>5. Counted' /\ AllSound' /\ Locked' /\ Buried' /\ Telling' /\ skipped' = {}
    BY <1>3, <2>1 DEF RestoreInv, Counted, AllSound, Locked, Buried, Telling, Truthful, Trees
  <2>6. QED BY <2>4, <2>5 DEF RestoreInv
<1>5. CASE next # {}
  <2>1. PICK m \in next : /\ active' = [active EXCEPT ![t] = m]
                          /\ trees' = [trees EXCEPT ![t] = Becomes(trees[t], {m}, "in_progress")]
    BY <1>5 DEF Finish
  <2> DEFINE g == Becomes(trees[t], {m}, "in_progress")
  <2>2. m \in DOMAIN trees[t] /\ trees[t][m].state = "pending" /\ m # 0
    BY <2>1, MaxIsNat DEF In, RestoreInv, AllSound, Sound, Formed, Prompts, Trees
  <2>0. Turned(trees[t], g, {m}, "in_progress")
    BY <2>2, BegunTurned
  <2>3. /\ Relabelled(trees[t], g)
        /\ \A x \in DOMAIN trees[t] :
             g[x].state = IF x \in {m} THEN "in_progress" ELSE trees[t][x].state
    BY <2>0 DEF Turned
  <2>4. trees' = [trees EXCEPT ![t] = g]
    BY <2>1
  <2> HIDE DEF g
  <2>5. /\ DOMAIN trees' = Trees /\ trees'[t] = g
        /\ \A x \in Trees : x # t => trees'[x] = trees[x]
    BY <2>4 DEF Trees
  <2>6. active'[t] = m /\ DOMAIN active' = Trees /\ \A x \in Trees : x # t => active'[x] = active[x]
    BY <1>1, <2>1
  <2>7. \A x \in Trees : Relabelled(trees[x], (trees[x])')
    BY <2>3, <2>5, SameIsRelabelled
  <2>8. Counted' /\ AllSound' /\ Buried' /\ skipped' = {}
    BY <1>3, <2>5, <2>7, StatesKeep
  <2>9. Claimed'
    <3>1. ASSUME NEW x \in Trees
          PROVE  /\ \A y \in DOMAIN trees'[x] : trees'[x][y].state = "in_progress" => y = active'[x]
                 /\ active'[x] = 0 => \A y \in DOMAIN trees'[x] : trees'[x][y].state \notin Runnable
                 /\ x \in doomed' =>
                     /\ active'[x] # 0
                     /\ \A y \in DOMAIN trees'[x] : trees'[x][y].state # "in_progress"
      <4>1. CASE x = t
        <5>1. DOMAIN g = DOMAIN trees[t]
          BY <2>3 DEF Relabelled
        <5>2. QED BY <1>2, <1>3, <2>2, <2>3, <2>5, <2>6, <4>1, <5>1
      <4>2. CASE x # t
        BY <1>3, <2>5, <2>6, <4>2 DEF RestoreInv, Claimed
      <4>3. QED BY <4>1, <4>2
    <3>2. Trees' = Trees /\ doomed' \subseteq Trees
      BY <1>3, <2>5 DEF RestoreInv, Claimed, Trees
    <3>3. QED BY <2>6, <3>1, <3>2 DEF Claimed
  <2>10. Telling'
    <3>1. ASSUME up, NEW x \in Trees, NEW y \in DOMAIN trees'[x]
          PROVE  Truthful(trees[x][y])'
      <4>1. CASE x = t
        <5>1. y \in DOMAIN trees[t] /\ g[y].status = trees[t][y].status
              /\ (trees[t][y].state \in Runnable => g[y].state \in Runnable)
          BY <2>3, <2>5, <3>1, <4>1 DEF Relabelled, Runnable
        <5>2. Truthful(trees[t][y])
          BY <3>1, <5>1 DEF RestoreInv, Telling
        <5>3. QED BY <1>3, <2>5, <4>1, <5>1, <5>2 DEF Truthful
      <4>2. CASE x # t
        <5>1. Truthful(trees[x][y])
          BY <2>5, <3>1, <4>2 DEF RestoreInv, Telling
        <5>2. QED BY <1>3, <2>5, <4>2, <5>1 DEF Truthful
      <4>3. QED BY <4>1, <4>2
    <3>2. QED BY <1>3, <2>5, <3>1 DEF Telling, Trees
  <2>11. Locked'
    BY <1>3, <2>5 DEF RestoreInv, Locked, Trees
  <2>12. QED BY <2>8, <2>9, <2>10, <2>11 DEF RestoreInv
<1>6. QED BY <1>4, <1>5

(***************************************************************************)
(* Commands. One that stops makes errors of what is to run.                *)
(***************************************************************************)
\* It owes the trees it stopped, and tells their statuses.
LEMMA StopsKeep ==
    ASSUME RestoreInv, up, command = "none", command' = "save", DOMAIN trees' = Trees,
           \A t \in Trees : Relabelled(trees[t], (trees[t])'),
           \A t \in Trees : \A m \in DOMAIN trees[t] :
               (trees[t][m].state)' = "in_progress" => trees[t][m].state = "in_progress",
           \A t \in doomed' : t \in doomed \/
               (t \in Trees /\ active[t] # 0
                /\ \A m \in DOMAIN trees[t] : (trees[t][m].state)' # "in_progress"),
           \A t \in Trees : \A m \in DOMAIN trees[t] :
               trees[t][m].state \in Runnable /\ (trees[t][m].state)' \notin Runnable
                   /\ trees[t][m].status # 0
               => trees[t][m].status \in texts',
           texts \subseteq texts', owed' \subseteq Trees,
           UNCHANGED <<up, active, store, file, stale, shown, issued, skipped, excused, buried>>
    PROVE  RestoreInv'
<1>1. /\ Counted' /\ Buried' /\ skipped' = {} /\ owed = {}
      /\ Sound(trees', issued') /\ Sound(store', issued') /\ Sound(file', issued')
      /\ \A t \in Trees' : Replying(t, (trees[t])')
      /\ Covers(trees', store', owed)
  BY StatesKeep
<1>2. AllSound'
  BY <1>1, CoversMore DEF AllSound
<1>3. Locked'
  BY DEF Locked
<1>4. \A t \in Trees : DOMAIN trees'[t] = DOMAIN trees[t]
        /\ \A m \in DOMAIN trees[t] : /\ trees'[t][m].status = trees[t][m].status
                                      /\ trees'[t][m].state \in Runnable => trees[t][m].state \in Runnable
  BY DEF Relabelled
<1>5. Claimed'
  <2>1. ASSUME NEW t \in Trees
        PROVE  /\ \A m \in DOMAIN trees'[t] : trees'[t][m].state = "in_progress" => m = active[t]
               /\ active[t] = 0 => \A m \in DOMAIN trees'[t] : trees'[t][m].state \notin Runnable
               /\ t \in doomed' =>
                   /\ active[t] # 0
                   /\ \A m \in DOMAIN trees'[t] : trees'[t][m].state # "in_progress"
    BY <1>4 DEF RestoreInv, Claimed
  <2>2. doomed' \subseteq Trees
    BY DEF RestoreInv, Claimed
  <2>3. QED BY <2>1, <2>2 DEF RestoreInv, Claimed, Trees
<1>6. Telling'
  <2>1. ASSUME NEW t \in Trees, NEW m \in DOMAIN trees'[t]
        PROVE  Truthful(trees[t][m])'
    <3>1. m \in DOMAIN trees[t] /\ Truthful(trees[t][m])
      BY <1>4 DEF RestoreInv, Telling
    <3>2. QED BY <1>4, <3>1 DEF Truthful
  <2>2. QED BY <2>1 DEF Telling, Trees
<1>7. QED BY <1>1, <1>2, <1>3, <1>5, <1>6 DEF RestoreInv

\* A reply-/stop: the prompt's claim, or its place in the queue
LEMMA StopReplyKeeps ==
    ASSUME RestoreInv, NEW t \in Trees, NEW m \in DOMAIN trees[t], StopReply(t, m)
    PROVE  RestoreInv'
<1> DEFINE hit == In(trees[t], Runnable) \cap {m}
           g == Becomes(trees[t], hit, "error")
<1>0. Turned(trees[t], g, hit, "error")
  BY EndedTurned
<1>1. /\ Relabelled(trees[t], g)
      /\ \A x \in DOMAIN trees[t] :
           g[x].state = IF x \in hit THEN "error" ELSE trees[t][x].state
  BY <1>0 DEF Turned
<1>2. /\ trees' = [trees EXCEPT ![t] = g]
      /\ doomed' = IF active[t] = m THEN doomed \cup {t} ELSE doomed
      /\ texts' = texts \cup StatusesOf(trees[t], hit)
      /\ owed' = {t} /\ up /\ command = "none" /\ command' = "save"
      /\ UNCHANGED <<up, active, store, file, stale, shown, issued, skipped, excused, buried>>
  BY DEF StopReply, Begins, history
<1>3. \A x \in hit : trees[t][x].status # 0 => trees[t][x].status \in texts'
  BY <1>2 DEF StatusesOf
<1>4. \A x \in DOMAIN trees[t] : x \in hit <=> x = m /\ trees[t][x].state \in Runnable
  BY DEF In
<1> HIDE DEF g, hit
<1>5. DOMAIN trees' = Trees /\ trees'[t] = g /\ \A x \in Trees : x # t => trees'[x] = trees[x]
  BY <1>2 DEF Trees
<1>6. \A x \in Trees : Relabelled(trees[x], (trees[x])')
  BY <1>1, <1>5, SameIsRelabelled
<1>7. m # 0
  BY MaxIsNat DEF RestoreInv, AllSound, Sound, Formed, Prompts, Trees
<1>8. \A x \in Trees : \A y \in DOMAIN trees[x] :
        (trees[x][y].state)' = "in_progress" => trees[x][y].state = "in_progress"
  BY <1>1, <1>5
<1>9. \A x \in Trees : \A y \in DOMAIN trees[x] :
        trees[x][y].state \in Runnable /\ (trees[x][y].state)' \notin Runnable
            /\ trees[x][y].status # 0
        => trees[x][y].status \in texts'
  BY <1>1, <1>3, <1>5
<1>10. active[t] = m => \A y \in DOMAIN trees[t] : (trees[t][y].state)' # "in_progress"
  <2>1. \A y \in DOMAIN trees[t] : trees[t][y].state = "in_progress" => y = active[t]
    BY DEF RestoreInv, Claimed
  <2>2. QED BY <1>1, <1>4, <1>5, <2>1 DEF Runnable
<1>11. QED BY <1>2, <1>5, <1>6, <1>7, <1>8, <1>9, <1>10, StopsKeep

\* The /stop of the chat: every tree
LEMMA StopAllKeeps == ASSUME RestoreInv, StopAll PROVE RestoreInv'
<1> DEFINE all == {StatusesOf(trees[t], In(trees[t], Runnable)) : t \in Trees}
<1>1. /\ trees' = [t \in Trees |-> Becomes(trees[t], In(trees[t], Runnable), "error")]
      /\ doomed' = {t \in Trees : active[t] # 0}
      /\ texts' = texts \cup UNION all
      /\ owed' = Trees /\ up /\ command = "none" /\ command' = "save"
      /\ UNCHANGED <<up, active, store, file, stale, shown, issued, skipped, excused, buried>>
  BY DEF StopAll, Begins, history
<1>2. ASSUME NEW t \in Trees
      PROVE  /\ Relabelled(trees[t], trees'[t])
             /\ \A m \in DOMAIN trees[t] :
                  /\ trees'[t][m].state \notin Runnable
                  /\ trees[t][m].state \in Runnable /\ trees[t][m].status # 0
                       => trees[t][m].status \in texts'
  <2>1. /\ Relabelled(trees[t], trees'[t])
        /\ \A m \in DOMAIN trees[t] :
             trees'[t][m].state =
                 IF m \in In(trees[t], Runnable) THEN "error" ELSE trees[t][m].state
    <3>1. Turned(trees[t], trees'[t], In(trees[t], Runnable), "error")
      BY <1>1, EndedTurned
    <3>2. QED BY <3>1 DEF Turned
  <2>2. StatusesOf(trees[t], In(trees[t], Runnable)) \in all
    OBVIOUS
  <2> HIDE DEF all
  <2>3. StatusesOf(trees[t], In(trees[t], Runnable)) \subseteq texts'
    BY <1>1, <2>2
  <2>4. QED BY <2>1, <2>3 DEF StatusesOf, In, Runnable
<1> HIDE DEF all
<1>3. DOMAIN trees' = Trees /\ texts \subseteq texts'
  BY <1>1
<1>4. QED BY <1>1, <1>2, <1>3, StopsKeep DEF Runnable

(***************************************************************************)
(* A prompt that is admitted: its tree, with it, is saved at once.         *)
(***************************************************************************)
\* The tree t has got the prompt m, whose status is the next that is sent.
Grown(t, m) ==
    LET s == MaxPrompts + issued + 1 IN
    /\ Formed(trees'[t], issued + 1)
    /\ Accepted(t, trees'[t])
    /\ Replying(t, trees'[t])
    /\ m \in DOMAIN trees'[t]
    /\ trees'[t][m].status = s /\ trees'[t][m].born = s
    /\ trees'[t][m].state \in Runnable
    /\ t \in Trees =>
        /\ DOMAIN trees'[t] = DOMAIN trees[t] \cup {m}
        /\ m \notin DOMAIN trees[t]
        /\ \A x \in DOMAIN trees[t] : trees'[t][x] = trees[t][x]
        /\ References(trees'[t]) = References(trees[t]) \cup {m, s}
    /\ t \notin Trees =>
        /\ DOMAIN trees'[t] = {m}
        /\ References(trees'[t]) = {m, s}

\* A prompt joins the tree it answers, or is a tree of its own.
LEMMA AdmitGrows ==
    ASSUME RestoreInv, NEW m \in Prompts, NEW r \in Known \cup {0}, Admit(m, r)
    PROVE  \E t :
             /\ Puts(trees, trees', t, trees'[t])
             /\ Puts(store, store', t, trees'[t])
             /\ Grown(t, m)
             /\ t \in Trees \/ t = m
             /\ \/ /\ t \in Trees /\ active[t] # 0 /\ UNCHANGED active
                   /\ trees'[t][m].state = "pending"
                \/ /\ t \notin Trees \/ active[t] = 0
                   /\ Puts(active, active', t, m)
                   /\ trees'[t][m].state = "in_progress"
<1> DEFINE s == MaxPrompts + issued + 1
           reply == r # 0
           t == IF reply THEN CHOOSE x \in Trees : r \in References(trees[x]) ELSE m
           g == IF reply THEN trees[t] ELSE Nothing
           claimed == ~reply \/ active[t] = 0
           node == [status |-> s, state |-> IF claimed THEN "in_progress" ELSE "pending",
                    parent |-> IF reply THEN Resolve(g, r) ELSE 0, ref |-> r, born |-> s]
<1>1. /\ m \notin Known /\ issued < MaxStatuses
      /\ trees' = With(trees, t, With(g, m, node))
      /\ active' = IF claimed THEN With(active, t, m) ELSE active
      /\ store' = Saved(t, trees')
  BY DEF Admit
<1>2. issued \in Nat /\ \A x \in Trees : m \notin References(trees[x])
  BY <1>1, KnownIs DEF RestoreInv, Counted
<1>3. reply => t \in Trees /\ r \in References(trees[t])
  <2>1. CASE reply
    <3>1. \E x \in Trees : r \in References(trees[x])
      BY <2>1, KnownIs
    <3>2. QED BY <2>1, <3>1
  <2>2. QED BY <2>1
<1>4. ~reply => t = m /\ t \notin Trees
  <2>1. \A x \in Trees : x \in References(trees[x])
    BY OwnReferences DEF RestoreInv, AllSound, Sound, Accepted, Trees
  <2>2. QED BY <1>2, <2>1
<1>5. \A x \in Trees : Formed(trees[x], issued) /\ Accepted(x, trees[x]) /\ Replying(x, trees[x])
  BY DEF RestoreInv, AllSound, Sound, Trees
<1>6. node.state \in Runnable /\ node.status = s /\ node.born = s
      /\ node.state = IF claimed THEN "in_progress" ELSE "pending"
  BY DEF Runnable
<1> DEFINE h == With(g, m, node)
<1>7. trees' = With(trees, t, h)
  BY <1>1
<1>8. CASE reply
  <2>1. t \in Trees /\ r \in References(trees[t]) /\ g = trees[t]
    BY <1>3, <1>8
  <2>2. node = [status |-> s, state |-> node.state, parent |-> Resolve(trees[t], r),
                ref |-> r, born |-> s]
    BY <1>8
  <2> HIDE DEF node, t, g, claimed, reply
  <2>3. /\ Formed(With(trees[t], m, node), issued + 1)
        /\ Accepted(t, With(trees[t], m, node))
        /\ Replying(t, With(trees[t], m, node))
        /\ References(With(trees[t], m, node)) = References(trees[t]) \cup {m, s}
    BY <1>2, <1>5, <1>6, <2>1, <2>2, Grafted
  <2>4. Puts(trees[t], With(trees[t], m, node), m, node)
    BY WithPuts
  <2>5. Puts(trees, trees', t, h)
    BY <1>7, WithPuts
  <2> HIDE DEF h
  <2>6. trees'[t] = h /\ h = With(trees[t], m, node) /\ DOMAIN trees' = Trees
    BY <2>1, <2>5 DEF Puts, h, Trees
  <2>7. m \notin DOMAIN trees[t]
    BY <1>2, <2>1, OwnReferences
  <2>8. Grown(t, m)
    BY <1>6, <2>1, <2>3, <2>4, <2>6, <2>7 DEF Grown, Puts
  <2>9. Puts(store, store', t, trees'[t])
    BY <1>1, <2>1, <2>6, WithPuts DEF Saved
  <2>10. trees'[t][m] = node
    BY <2>4, <2>6 DEF Puts
  <2>11. CASE active[t] = 0
    <3>1. claimed
      BY <2>11 DEF claimed
    <3>2. active' = With(active, t, m) /\ node.state = "in_progress"
      BY <1>1, <1>6, <3>1
    <3>3. Puts(active, active', t, m)
      BY <3>2, WithPuts
    <3>4. QED BY <2>1, <2>5, <2>6, <2>8, <2>9, <2>10, <2>11, <3>2, <3>3
  <2>12. CASE active[t] # 0
    <3>1. ~claimed
      BY <1>8, <2>12 DEF claimed
    <3>2. UNCHANGED active /\ node.state = "pending"
      BY <1>1, <1>6, <3>1
    <3>3. QED BY <2>1, <2>5, <2>6, <2>8, <2>9, <2>10, <2>12, <3>2
  <2>13. QED BY <2>11, <2>12
<1>9. CASE ~reply
  <2>1. t = m /\ t \notin Trees /\ g = Nothing /\ claimed
    BY <1>4, <1>9
  <2>2. node = [status |-> s, state |-> node.state, parent |-> 0, ref |-> 0, born |-> s]
    BY <1>9
  <2> HIDE DEF node, t, g, claimed, reply
  <2>3. /\ Formed(With(Nothing, m, node), issued + 1)
        /\ Accepted(m, With(Nothing, m, node))
        /\ Replying(m, With(Nothing, m, node))
        /\ References(With(Nothing, m, node)) = {m, s}
    BY <1>2, <1>6, <2>2, Planted
  <2>4. Puts(Nothing, With(Nothing, m, node), m, node)
    BY WithPuts
  <2>5. Puts(trees, trees', t, h)
    BY <1>7, WithPuts
  <2> HIDE DEF h
  <2>6. trees'[t] = h /\ h = With(Nothing, m, node) /\ t \in DOMAIN trees'
    BY <2>1, <2>5 DEF Puts, h
  <2>7. Grown(t, m)
    BY <1>6, <2>1, <2>3, <2>4, <2>6 DEF Grown, Puts, Nothing
  <2>8. Puts(store, store', t, trees'[t])
    BY <1>1, <2>6, WithPuts DEF Saved
  <2>9. trees'[t][m] = node /\ node.state = "in_progress" /\ active' = With(active, t, m)
    BY <1>1, <1>6, <2>1, <2>4, <2>6 DEF Puts
  <2>10. Puts(active, active', t, m)
    BY <2>9, WithPuts
  <2>11. QED BY <2>1, <2>5, <2>6, <2>7, <2>8, <2>9, <2>10
<1>10. QED BY <1>8, <1>9

\* Its node and its status are new, and the store has them.
LEMMA AdmitKeeps ==
    ASSUME RestoreInv, NEW m \in Prompts, NEW r \in Known \cup {0}, Admit(m, r)
    PROVE  RestoreInv'
<1> DEFINE s == MaxPrompts + issued + 1
<1>1. PICK t :
        /\ Puts(trees, trees', t, trees'[t])
        /\ Puts(store, store', t, trees'[t])
        /\ Grown(t, m)
        /\ t \in Trees \/ t = m
        /\ \/ /\ t \in Trees /\ active[t] # 0 /\ UNCHANGED active
              /\ trees'[t][m].state = "pending"
           \/ /\ t \notin Trees \/ active[t] = 0
              /\ Puts(active, active', t, m)
              /\ trees'[t][m].state = "in_progress"
  BY AdmitGrows
<1>2. /\ up /\ command = "none" /\ issued < MaxStatuses /\ m \notin Known
      /\ issued' = issued + 1 /\ shown' = [shown EXCEPT ![s] = "working"]
      /\ UNCHANGED <<up, doomed, command, owed, file, stale, texts, skipped, excused, buried>>
  BY DEF Admit, history
<1>3. /\ issued \in Nat /\ issued' \in Nat /\ owed = {} /\ MaxPrompts \in Nat
      /\ s \in Sent(issued + 1) /\ s \notin Sent(issued) /\ Sent(issued) \subseteq Sent(issued + 1)
  BY <1>2, MaxIsNat DEF RestoreInv, Counted, Locked, Sent
<1>4. \A x \in Trees : /\ Formed(trees[x], issued)
                       /\ m \notin References(trees[x]) /\ s \notin References(trees[x])
                       /\ 0 \notin References(trees[x])
  <2>1. ASSUME NEW x \in Trees
        PROVE  /\ Formed(trees[x], issued)
               /\ m \notin References(trees[x]) /\ s \notin References(trees[x])
               /\ 0 \notin References(trees[x])
    <3>1. Formed(trees[x], issued)
      BY DEF RestoreInv, AllSound, Sound, Trees
    <3>2. QED BY <1>2, <1>3, <3>1, KnownIs, FormedBounds
  <2>2. QED BY <2>1
<1>5. /\ DOMAIN trees' = Trees \cup {t}
      /\ \A x \in Trees : x # t => trees'[x] = trees[x]
  BY <1>1 DEF Puts, Trees
<1>6. /\ Formed(trees'[t], issued') /\ Accepted(t, trees'[t]) /\ Replying(t, trees'[t])
      /\ \A x \in Trees : x # t => References(trees'[t]) \cap References(trees[x]) = {}
  <2>1. ASSUME NEW x \in Trees, x # t
        PROVE  References(trees'[t]) \cap References(trees[x]) = {}
    <3>1. t \in Trees => References(trees[t]) \cap References(trees[x]) = {}
      BY <2>1 DEF RestoreInv, AllSound, Sound, Trees
    <3>2. QED BY <1>1, <1>4, <2>1, <3>1 DEF Grown
  <2>2. QED BY <1>1, <1>2, <2>1 DEF Grown
<1>7. Sound(trees, issued') /\ Sound(store, issued') /\ Sound(file, issued')
  BY <1>2, <1>3, SoundMore DEF RestoreInv, AllSound
<1>8. Sound(trees', issued')
  BY <1>1, <1>3, <1>6, <1>7, SoundPut DEF Trees
\* No command has anything to save: the store has what the trees have.
<1>9. \A x \in DOMAIN store : x \in Trees /\ References(store[x]) \subseteq References(trees[x])
  BY <1>3 DEF RestoreInv, AllSound, Covers, Trees
<1>10. Sound(store', issued')
  BY <1>1, <1>3, <1>6, <1>7, <1>9, SoundPut
<1>11. Covers(trees', store', owed')
  BY <1>1, <1>2, <1>5, <1>9 DEF RestoreInv, AllSound, Covers, Within, Puts, Trees
<1>12. AllSound'
  <2>1. \A x \in Trees' : Replying(x, trees'[x])
    BY <1>5, <1>6 DEF RestoreInv, AllSound, Trees
  <2>2. QED BY <1>2, <1>7, <1>8, <1>10, <1>11, <2>1 DEF AllSound
<1>13. Counted'
  BY <1>2, <1>3, RestartAssumption DEF RestoreInv, Counted
<1>14. Locked' /\ skipped' = {}
  BY <1>2, <1>3 DEF RestoreInv, Locked
<1>15. Buried'
  <2>1. ASSUME NEW x \in GraphBorn(trees'[t])
        PROVE  x = s \/ x \in Born(store)
    <3>1. CASE t \in Trees
      <4>1. x = s \/ x \in GraphBorn(trees[t])
        BY <1>1, <2>1, <3>1 DEF Grown, GraphBorn
      <4>2. GraphBorn(trees[t]) \subseteq GraphBorn(store[t]) /\ t \in DOMAIN store
        BY <3>1 DEF RestoreInv, AllSound, Covers, Within, Trees
      <4>3. QED BY <4>1, <4>2, BornIn
    <3>2. CASE t \notin Trees
      BY <1>1, <2>1, <3>2 DEF Grown, GraphBorn
    <3>3. QED BY <3>1, <3>2
  <2>2. Born(store') \subseteq Born(store) \cup {s}
    <3>1. ASSUME NEW x \in Born(store') PROVE x \in Born(store) \cup {s}
      <4>1. PICK y \in DOMAIN store' : x \in GraphBorn(store'[y])
        BY <3>1, BornIn
      <4>2. CASE y = t
        BY <1>1, <2>1, <4>1, <4>2 DEF Puts
      <4>3. CASE y # t
        BY <1>1, <4>1, <4>3, BornIn DEF Puts
      <4>4. QED BY <4>2, <4>3
    <3>2. QED BY <3>1
  <2>3. QED BY <1>2, <1>3, <2>2 DEF RestoreInv, Buried
<1>16. Claimed'
  <2>1. DOMAIN active' = Trees' /\ doomed' \subseteq Trees'
    BY <1>1, <1>2, <1>5 DEF RestoreInv, Claimed, Puts, Trees
  <2>2. ASSUME NEW x \in Trees, x # t
        PROVE  trees'[x] = trees[x] /\ active'[x] = active[x]
    BY <1>1, <1>5, <2>2 DEF Puts, RestoreInv, Claimed
  <2>3. m # 0
    BY MaxIsNat DEF Prompts
  <2>4. /\ \A y \in DOMAIN trees'[t] : trees'[t][y].state = "in_progress" => y = active'[t]
        /\ active'[t] # 0
        /\ t \in doomed => \A y \in DOMAIN trees'[t] : trees'[t][y].state # "in_progress"
    <3>1. CASE t \in Trees /\ active[t] # 0 /\ UNCHANGED active
               /\ trees'[t][m].state = "pending"
      BY <1>1, <3>1 DEF Grown, RestoreInv, Claimed
    <3>2. CASE t \in Trees /\ active[t] = 0 /\ Puts(active, active', t, m)
      <4>1. active'[t] = m /\ t \notin doomed
        BY <3>2 DEF Puts, RestoreInv, Claimed
      <4>2. QED BY <1>1, <2>3, <3>2, <4>1 DEF Grown, RestoreInv, Claimed, Runnable
    <3>3. CASE t \notin Trees /\ Puts(active, active', t, m)
      <4>1. active'[t] = m /\ t \notin doomed
        BY <3>3 DEF Puts, RestoreInv, Claimed
      <4>2. QED BY <1>1, <2>3, <3>3, <4>1 DEF Grown
    <3>4. QED BY <1>1, <3>1, <3>2, <3>3
  <2>5. QED BY <1>2, <1>5, <2>1, <2>2, <2>4 DEF RestoreInv, Claimed, Trees
<1>17. Telling'
  <2>1. ASSUME NEW x \in Trees', NEW y \in DOMAIN trees'[x]
        PROVE  Truthful(trees[x][y])'
    <3>1. CASE x = t /\ y = m
      BY <1>1, <3>1 DEF Grown, Truthful
    <3>2. CASE ~(x = t /\ y = m)
      <4>1. x \in Trees /\ y \in DOMAIN trees[x] /\ trees'[x][y] = trees[x][y]
        BY <1>1, <1>5, <2>1, <3>2 DEF Grown, Trees
      <4>2. Truthful(trees[x][y])
        BY <1>2, <4>1 DEF RestoreInv, Telling
      <4>3. trees[x][y].status \in References(trees[x]) \/ trees[x][y].status = 0
        BY <4>1, OwnReferences
      <4>4. trees[x][y].status # s
        BY <1>3, <1>4, <4>1, <4>3
      <4>5. trees[x][y].status # 0 => trees[x][y].status \in DOMAIN shown
        BY <1>3, <1>4, <4>1, MaxIsNat, RestartAssumption
           DEF RestoreInv, Counted, Formed, Sent, Statuses
      <4>6. trees[x][y].status # 0 => shown'[trees[x][y].status] = shown[trees[x][y].status]
        BY <1>2, <4>4, <4>5
      <4>7. QED BY <1>2, <4>1, <4>2, <4>6 DEF Truthful
    <3>3. QED BY <3>1, <3>2
  <2>2. QED BY <2>1 DEF Telling
<1>18. QED BY <1>12, <1>13, <1>14, <1>15, <1>16, <1>17 DEF RestoreInv

(***************************************************************************)
(* A reply-/clear, and the /clear of the chat                              *)
(***************************************************************************)
\* What is taken from a tree is taken from the store.
LEMMA ClearReplyKeeps ==
    ASSUME RestoreInv, NEW t \in Trees, NEW r \in References(trees[t]), ClearReply(t, r)
    PROVE  RestoreInv'
<1> DEFINE g == trees[t]
           left == Left(g, r)
<1>1. /\ up /\ command = "none" /\ command' = "save" /\ owed' = {t}
      /\ UNCHANGED <<up, store, file, stale, texts, shown, issued, skipped, excused, buried>>
  BY DEF ClearReply, Begins, history
<1>2. IF left = Nothing
      THEN /\ trees' = Without(trees, {t})
           /\ active' = Without(active, {t})
           /\ doomed' = doomed \ {t}
      ELSE /\ trees' = [trees EXCEPT ![t] = left]
           /\ doomed' = IF active[t] \in Subtree(g, r) \cup {Resolve(g, r)}
                        THEN doomed \cup {t} ELSE doomed
           /\ UNCHANGED active
  BY DEF ClearReply, Left
<1>3. /\ issued \in Nat /\ owed = {} /\ Sound(trees, issued) /\ Covers(trees, store, owed)
      /\ Formed(g, issued) /\ Accepted(t, g) /\ Replying(t, g) /\ DOMAIN active = Trees
  BY <1>1 DEF RestoreInv, Counted, Locked, AllSound, Sound, Claimed, Trees
<1>4. Counted' /\ Locked' /\ Buried' /\ skipped' = {}
  BY <1>1 DEF RestoreInv, Counted, Locked, Buried
<1>5. Sound(store', issued') /\ Sound(file', issued')
  BY <1>1 DEF RestoreInv, AllSound
<1>6. CASE left = Nothing
  <2>1. /\ DOMAIN trees' = Trees \ {t}
        /\ \A x \in Trees \ {t} : trees'[x] = trees[x] /\ active'[x] = active[x]
        /\ DOMAIN active' = Trees \ {t} /\ doomed' = doomed \ {t}
    BY <1>2, <1>3, <1>6 DEF Without, Trees
  <2>2. Sound(trees', issued)
    BY <1>3, <2>1, SoundPart DEF Trees
  <2>3. Covers(trees', store', owed')
    BY <1>1, <1>3, <2>1 DEF Covers, Trees
  <2>4. AllSound'
    BY <1>1, <1>5, <2>1, <2>2, <2>3 DEF RestoreInv, AllSound, Trees
  <2>5. Claimed' /\ Telling'
    BY <1>1, <2>1 DEF RestoreInv, Claimed, Telling, Truthful, Trees
  <2>6. QED BY <1>4, <2>4, <2>5 DEF RestoreInv
<1>7. CASE left # Nothing
  <2>1. /\ Formed(left, issued) /\ Accepted(t, left) /\ Replying(t, left)
        /\ References(left) \subseteq References(g)
    BY <1>3, <1>7, LeftIsSound
  <2>2. Pruned(g, Subtree(g, r), Resolve(g, r), left)
    BY <1>3, LeftNodes
  <2>3. Within(left, g)
    BY <1>3, <1>7, LeftIsWithin
  <2>4. /\ Puts(trees, trees', t, left) /\ UNCHANGED active
        /\ doomed' = IF active[t] \in Subtree(g, r) \cup {Resolve(g, r)}
                     THEN doomed \cup {t} ELSE doomed
    BY <1>2, <1>7, ExceptPuts DEF Trees
  <2> HIDE DEF left
  <2>5. /\ DOMAIN trees' = Trees /\ trees'[t] = left
        /\ \A x \in Trees : x # t => trees'[x] = trees[x]
    BY <2>4 DEF Puts, Trees
  <2>6. Sound(trees', issued)
    <3>1. \A x \in DOMAIN trees : x # t => References(left) \cap References(trees[x]) = {}
      BY <1>3, <2>1 DEF Sound, Trees
    <3>2. QED BY <1>3, <2>1, <2>4, <3>1, SoundPut
  <2>7. Covers(trees', store', owed')
    BY <1>1, <1>3, <2>3, <2>5 DEF Covers, Within, Trees
  <2>8. AllSound'
    BY <1>1, <1>5, <2>1, <2>5, <2>6, <2>7 DEF RestoreInv, AllSound, Trees
  <2>9. DOMAIN left \subseteq DOMAIN g
        /\ \A m \in DOMAIN left :
             \/ left[m] = g[m] /\ m # Resolve(g, r)
             \/ left[m].status = 0 /\ left[m].state = "error"
             \/ left[m] = g[m] /\ left[m].state = "error"
    BY <2>2 DEF Pruned
  <2>10. Claimed'
    <3>1. /\ \A m \in DOMAIN left : left[m].state = "in_progress" => m = active[t]
          /\ active[t] = 0 => \A m \in DOMAIN left : left[m].state \notin Runnable
      BY <2>9 DEF RestoreInv, Claimed, Runnable
    <3>2. t \in doomed =>
            active[t] # 0 /\ \A m \in DOMAIN left : left[m].state # "in_progress"
      BY <2>9 DEF RestoreInv, Claimed
    <3>3. active[t] \in Subtree(g, r) \cup {Resolve(g, r)} =>
            active[t] # 0 /\ \A m \in DOMAIN left : left[m].state # "in_progress"
      <4>1. Subtree(g, r) \subseteq References(g) /\ Resolve(g, r) \in References(g)
        BY ResolveFinds, OwnReferences DEF Subtree
      <4>2. 0 \notin References(g)
        BY <1>3, FormedBounds
      <4>3. \A m \in DOMAIN left : left[m].state = "in_progress" =>
              m \notin Subtree(g, r) /\ m # Resolve(g, r)
        BY <2>2 DEF Pruned
      <4>4. QED BY <3>1, <4>1, <4>2, <4>3
    <3>4. ASSUME NEW x \in Trees
          PROVE  /\ \A m \in DOMAIN trees'[x] : trees'[x][m].state = "in_progress" => m = active[x]
                 /\ active[x] = 0 => \A m \in DOMAIN trees'[x] : trees'[x][m].state \notin Runnable
                 /\ x \in doomed' =>
                     /\ active[x] # 0
                     /\ \A m \in DOMAIN trees'[x] : trees'[x][m].state # "in_progress"
      <4>1. CASE x = t
        BY <2>4, <2>5, <3>1, <3>2, <3>3, <4>1
      <4>2. CASE x # t
        BY <2>4, <2>5, <4>2 DEF RestoreInv, Claimed
      <4>3. QED BY <4>1, <4>2
    <3>5. doomed' \subseteq Trees
      BY <2>4 DEF RestoreInv, Claimed
    <3>6. QED BY <1>3, <2>4, <2>5, <3>4, <3>5 DEF Claimed, Trees
  <2>11. Telling'
    <3>1. ASSUME NEW x \in Trees, NEW m \in DOMAIN trees'[x]
          PROVE  Truthful(trees[x][m])'
      <4>1. CASE x = t
        <5>1. m \in DOMAIN g /\ (left[m] = g[m] \/ left[m].status = 0)
          BY <2>5, <2>9, <3>1, <4>1
        <5>2. Truthful(g[m])
          BY <1>1, <5>1 DEF RestoreInv, Telling
        <5>3. QED BY <1>1, <2>5, <4>1, <5>1, <5>2 DEF Truthful
      <4>2. CASE x # t
        <5>1. Truthful(trees[x][m])
          BY <1>1, <2>5, <3>1, <4>2 DEF RestoreInv, Telling
        <5>2. QED BY <1>1, <2>5, <4>2, <5>1 DEF Truthful
      <4>3. QED BY <4>1, <4>2
    <3>2. QED BY <2>5, <3>1 DEF Telling, Trees
  <2>12. QED BY <1>4, <2>8, <2>10, <2>11 DEF RestoreInv
<1>8. QED BY <1>6, <1>7

\* Every tree goes, and the store is emptied when the command ends.
LEMMA ClearChatKeeps == ASSUME RestoreInv, ClearChat PROVE RestoreInv'
<1>1. /\ up /\ command = "none" /\ command' = "clear" /\ owed' = Trees
      /\ trees' = Nothing /\ active' = Nothing /\ doomed' = {}
      /\ UNCHANGED <<up, store, file, stale, texts, shown, issued, skipped, excused, buried>>
  BY DEF ClearChat, Begins, history
<1>2. Trees' = {} /\ DOMAIN active' = {}
  BY <1>1 DEF Trees, Nothing
<1>3. Covers(trees', store', owed')
  BY <1>1, <1>2 DEF RestoreInv, AllSound, Locked, Covers, Trees
<1>4. AllSound'
  BY <1>1, <1>2, <1>3, SoundNothing DEF RestoreInv, AllSound
<1>5. Counted' /\ Locked' /\ Buried' /\ skipped' = {} /\ Claimed' /\ Telling'
  BY <1>1, <1>2 DEF RestoreInv, Counted, Locked, Buried, Claimed, Telling
<1>6. QED BY <1>4, <1>5 DEF RestoreInv

(***************************************************************************)
(* The end of a command                                                    *)
(***************************************************************************)
\* It saves each tree it owes, as it is by then, or empties the store.
LEMMA ConcludeKeeps == ASSUME RestoreInv, Conclude PROVE RestoreInv'
<1>1. /\ up /\ command # "none" /\ command' = "none" /\ owed' = {}
      /\ UNCHANGED <<up, trees, active, doomed, stale, texts, shown, issued, skipped, excused>>
  BY DEF Conclude
<1>2. Counted' /\ Locked' /\ Claimed' /\ Telling' /\ skipped' = {}
  BY <1>1 DEF RestoreInv, Counted, Locked, Claimed, Telling, Truthful, Trees
<1>3. CASE command = "clear"
  <2>1. /\ store' = Nothing /\ file' = Nothing
        /\ buried' = buried \cup Born(store) \cup Born(file)
        /\ Trees = {}
    BY <1>3 DEF Conclude, RestoreInv, Locked
  <2>2. Born(Nothing) = {}
    BY BornIn DEF Nothing
  <2>3. Covers(trees', store', owed')
    BY <1>1, <2>1 DEF Covers, Trees, Nothing
  <2>4. AllSound'
    BY <1>1, <2>1, <2>3, SoundNothing DEF RestoreInv, AllSound, Trees
  <2>5. Born(store) \subseteq Sent(issued) /\ Born(file) \subseteq Sent(issued)
    BY BornBounds DEF RestoreInv, AllSound, Counted
  <2>6. Buried'
    BY <1>1, <2>1, <2>2, <2>5 DEF RestoreInv, Buried
  <2>7. QED BY <1>2, <2>4, <2>6 DEF RestoreInv
<1>4. CASE command # "clear"
  <2>1. /\ store' = [t \in (DOMAIN store \ owed) \cup (owed \cap Trees) |->
                       IF t \in owed THEN trees[t] ELSE store[t]]
        /\ UNCHANGED <<file, buried>>
    BY <1>4 DEF Conclude
  <2>2. Covers(trees, store, owed) /\ Sound(trees, issued) /\ Sound(store, issued)
    BY DEF RestoreInv, AllSound
  <2>3. \A t \in DOMAIN store' :
          /\ t \in Trees /\ t \in DOMAIN store
          /\ Within(store'[t], store[t])
          /\ \/ t \in owed /\ store'[t] = trees[t]
             \/ t \notin owed /\ store'[t] = store[t]
    BY <2>1, <2>2 DEF Covers, Within, Trees
  <2>4. Trees \subseteq DOMAIN store'
    BY <2>1, <2>2 DEF Covers, Trees
  <2>5. Covers(trees', store', owed')
    BY <1>1, <2>2, <2>3, <2>4 DEF Covers, Within, Trees
  <2>6. Sound(store', issued)
    <3>1. \A t \in DOMAIN store' : Formed(store'[t], issued) /\ Accepted(t, store'[t])
      BY <2>2, <2>3 DEF Sound, Trees
    <3>2. ASSUME NEW t \in DOMAIN store', NEW x \in DOMAIN store', t # x
          PROVE  References(store'[t]) \cap References(store'[x]) = {}
      BY <2>2, <2>3, <3>2 DEF Sound, Within
    <3>3. QED BY <3>1, <3>2 DEF Sound
  <2>7. AllSound'
    BY <1>1, <2>1, <2>5, <2>6 DEF RestoreInv, AllSound, Trees
  <2>8. Born(store') \subseteq Born(store)
    BY <2>3, BornIn DEF Within
  <2>9. Buried'
    BY <1>1, <2>1, <2>8 DEF RestoreInv, Buried
  <2>10. QED BY <1>2, <2>7, <2>9 DEF RestoreInv
<1>5. QED BY <1>3, <1>4

(***************************************************************************)
(* The file, the chat, the death of the process and its next life          *)
(***************************************************************************)
\* The file becomes the store; what is gone from it is buried.
LEMMA LandKeeps == ASSUME RestoreInv, Land PROVE RestoreInv'
<1>1. /\ file' = store /\ buried' = buried \cup (Born(file) \ Born(store))
      /\ UNCHANGED <<up, trees, active, doomed, command, owed, store, stale, texts, shown,
                     issued, skipped, excused>>
  BY DEF Land, Write, volatile
<1>2. Born(file) \subseteq Sent(issued)
  BY BornBounds DEF RestoreInv, AllSound, Counted
<1>3. Buried'
  BY <1>1, <1>2 DEF RestoreInv, Buried
<1>4. AllSound'
  BY <1>1 DEF RestoreInv, AllSound, Trees
<1>5. Counted' /\ Locked' /\ Claimed' /\ Telling' /\ skipped' = {}
  BY <1>1 DEF RestoreInv, Counted, Locked, Claimed, Telling, Truthful, Trees
<1>6. QED BY <1>3, <1>4, <1>5 DEF RestoreInv

\* A text shown or lost lets no status speak of work that is over.
LEMMA ShownKeeps ==
    ASSUME RestoreInv, NEW s, NEW text, text # "working",
           \/ shown' = [shown EXCEPT ![s] = text] /\ excused' = excused
           \/ UNCHANGED shown /\ excused' = excused \cup {s},
           \A x \in texts \cup stale : x = s \/ x \in texts' \cup stale',
           UNCHANGED <<up, trees, active, doomed, command, owed, store, file, issued,
                       skipped, buried>>
    PROVE  RestoreInv'
<1>1. DOMAIN shown' = Statuses
  BY DEF RestoreInv, Counted
<1>2. ASSUME NEW n, Truthful(n), n.status # 0 => n.status \in Statuses
      PROVE  Truthful(n)'
  BY <1>2 DEF Truthful, RestoreInv, Counted
<1>3. Telling'
  <2>1. ASSUME up, NEW t \in Trees, NEW m \in DOMAIN trees[t]
        PROVE  Truthful(trees[t][m])'
    <3>1. Truthful(trees[t][m])
      BY <2>1 DEF RestoreInv, Telling
    <3>2. trees[t][m].status # 0 => trees[t][m].status \in Statuses
      BY MaxIsNat, RestartAssumption
         DEF RestoreInv, Counted, AllSound, Sound, Formed, Sent, Statuses, Trees
    <3> DEFINE n == trees[t][m]
    <3> HIDE DEF n
    <3>3. Truthful(n)'
      BY <1>2, <3>1, <3>2 DEF n
    <3>4. QED BY <3>3 DEF Truthful, n
  <2>2. QED BY <2>1 DEF Telling, Trees
<1>4. AllSound' /\ Buried' /\ Locked' /\ Claimed' /\ skipped' = {} /\ Counted'
  BY <1>1 DEF RestoreInv, AllSound, Buried, Locked, Claimed, Counted, Trees
<1>5. QED BY <1>3, <1>4 DEF RestoreInv

\* Death leaves the file and the chat.
LEMMA CrashKeeps == ASSUME RestoreInv, Crash PROVE RestoreInv'
<1>1. /\ up' = FALSE /\ trees' = Nothing /\ active' = Nothing /\ doomed' = {}
      /\ command' = "none" /\ owed' = {} /\ store' = Nothing
      /\ UNCHANGED <<file, shown, issued, skipped, buried>>
  BY DEF Crash, history
<1>2. Trees' = {} /\ DOMAIN active' = {} /\ DOMAIN store' = {} /\ Born(store') = {}
  BY <1>1, BornIn DEF Trees, Nothing
<1>3. AllSound'
  BY <1>1, <1>2, SoundNothing DEF RestoreInv, AllSound, Covers, Trees
<1>4. Counted' /\ Locked' /\ Buried' /\ skipped' = {} /\ Claimed' /\ Telling'
  BY <1>1, <1>2 DEF RestoreInv, Counted, Locked, Buried, Claimed, Telling
<1>5. QED BY <1>3, <1>4 DEF RestoreInv

\* All of the file is taken; what was to run is marked for repair.
LEMMA RestartKeeps == ASSUME RestoreInv, Restart PROVE RestoreInv'
<1> DEFINE sound == {t \in DOMAIN file : Accepted(t, file[t])}
           kept == {t \in sound : \A x \in sound \ {t} :
                       References(file[t]) \cap References(file[x]) = {}}
           told == {StatusesOf(file[t], In(file[t], Runnable)) : t \in kept}
           ended == {StatusesOf(file[t], In(file[t], {"completed", "error"})) : t \in kept}
<1>1. /\ ~up /\ up' = TRUE
      /\ trees' = [t \in kept |-> Interrupted(file[t])]
      /\ active' = [t \in kept |-> 0]
      /\ store' = trees'
      /\ stale' = UNION told
      /\ skipped' = skipped \cup (DOMAIN file \ kept)
      /\ excused' = excused \cup {s \in UNION ended : shown[s] = "working"}
      /\ UNCHANGED <<doomed, command, owed, texts, file, shown, issued, buried>>
  BY DEF Restart
<1>2. Sound(file, issued) /\ issued \in Nat /\ command = "none" /\ owed = {} /\ doomed = {}
  BY <1>1 DEF RestoreInv, AllSound, Counted, Locked
<1>3. kept = DOMAIN file
  BY <1>2 DEF Sound
<1> HIDE DEF sound, kept, told, ended
<1>4. ASSUME NEW t \in DOMAIN file
      PROVE  /\ Formed(trees'[t], issued) /\ Accepted(t, trees'[t]) /\ Replying(t, trees'[t])
             /\ References(trees'[t]) = References(file[t])
             /\ DOMAIN trees'[t] = DOMAIN file[t]
             /\ \A m \in DOMAIN file[t] :
                  /\ trees'[t][m].status = file[t][m].status
                  /\ trees'[t][m].born = file[t][m].born
                  /\ trees'[t][m].state \notin Runnable
                  /\ file[t][m].state \in Runnable \/ trees'[t][m].state = file[t][m].state
  <2>1. Formed(file[t], issued) /\ Accepted(t, file[t])
    BY <1>2 DEF Sound
  <2>2. trees'[t] = Interrupted(file[t])
    BY <1>1, <1>3
  <2>3. Reset(t, file[t], trees'[t], issued)
    BY <1>2, <2>1, <2>2, InterruptedIsSound
  <2>4. QED BY <2>3 DEF Reset
<1>5. DOMAIN trees' = DOMAIN file /\ DOMAIN active' = DOMAIN file
      /\ \A t \in DOMAIN file : active'[t] = 0
  BY <1>1, <1>3
<1>6. Sound(trees', issued)
  <2>1. \A t, x \in DOMAIN file : t # x => References(file[t]) \cap References(file[x]) = {}
    BY <1>2 DEF Sound
  <2>2. QED BY <1>4, <1>5, <2>1 DEF Sound
<1>7. AllSound'
  <2>1. Covers(trees', trees', {})
    BY DEF Covers, Within
  <2>2. QED BY <1>1, <1>2, <1>4, <1>5, <1>6, <2>1 DEF AllSound, Trees
<1>8. Claimed'
  BY <1>1, <1>2, <1>4, <1>5 DEF Claimed, Trees, Runnable
<1>9. Buried'
  <2>1. \A t \in DOMAIN file : GraphBorn(trees'[t]) = GraphBorn(file[t])
    BY <1>4 DEF GraphBorn
  <2>2. Born(trees') \subseteq Born(file)
    BY <1>5, <2>1, BornIn
  <2>3. QED BY <1>1, <2>2 DEF RestoreInv, Buried
<1>10. Telling'
  <2>1. ASSUME NEW t \in DOMAIN file, NEW m \in DOMAIN file[t]
        PROVE  Truthful(trees[t][m])'
    <3> DEFINE s == file[t][m].status
    <3>1. trees'[t][m].status = s
      BY <1>4
    <3>2. CASE s = 0
      BY <3>1, <3>2 DEF Truthful
    <3>3. CASE s # 0 /\ file[t][m].state \in Runnable
      <4>1. s \in StatusesOf(file[t], In(file[t], Runnable))
        BY <3>3 DEF StatusesOf, In
      <4>2. StatusesOf(file[t], In(file[t], Runnable)) \in told
        BY <1>3 DEF told
      <4>3. s \in stale'
        BY <1>1, <4>1, <4>2
      <4>4. QED BY <3>1, <4>3 DEF Truthful
    <3>4. CASE s # 0 /\ file[t][m].state \notin Runnable
      <4>1. file[t][m].state \in {"completed", "error"}
        BY <1>2, <3>4 DEF Sound, Formed, Node, Runnable
      <4>2. s \in StatusesOf(file[t], In(file[t], {"completed", "error"}))
        BY <3>4, <4>1 DEF StatusesOf, In
      <4>3. StatusesOf(file[t], In(file[t], {"completed", "error"})) \in ended
        BY <1>3 DEF ended
      <4>4. shown'[s] = "working" => s \in excused'
        BY <1>1, <4>2, <4>3
      <4>5. QED BY <3>1, <4>4 DEF Truthful
    <3>5. QED BY <3>2, <3>3, <3>4
  <2>2. QED BY <1>4, <1>5, <2>1 DEF Telling, Trees
<1>11. Counted' /\ Locked' /\ skipped' = {}
  BY <1>1, <1>2, <1>3 DEF RestoreInv, Counted, Locked
<1>12. QED BY <1>7, <1>8, <1>9, <1>10, <1>11 DEF RestoreInv

(***************************************************************************)
(* The inductive invariant                                                 *)
(***************************************************************************)
THEOREM RestoreIsSound == RestoreSpec => []RestoreInv
<1>1. RestoreInv /\ [RestoreNext]_restoreVars => RestoreInv'
  <2> SUFFICES ASSUME RestoreInv, [RestoreNext]_restoreVars PROVE RestoreInv'
    OBVIOUS
  <2>1. ASSUME NEW m \in Prompts, NEW r \in Known \cup {0}, Admit(m, r)
        PROVE  RestoreInv'
    BY <2>1, AdmitKeeps
  <2>2. CASE Claims
    BY <2>2, RecordKeeps, CompleteKeeps, FailKeeps, FinishKeeps DEF Claims
  <2>3. CASE Commands
    BY <2>3, StopReplyKeeps, ClearReplyKeeps, StopAllKeeps, ClearChatKeeps, ConcludeKeeps
       DEF Commands
  <2>4. CASE Land \/ Crash \/ Restart
    BY <2>4, LandKeeps, CrashKeeps, RestartKeeps
  <2>5. ASSUME NEW s \in Statuses, Told(s)
        PROVE  RestoreInv'
    <3>1. /\ shown' = [shown EXCEPT ![s] = "ended"] /\ texts' = texts \ {s}
          /\ UNCHANGED <<up, trees, active, doomed, command, owed, store, file, issued,
                         skipped, buried, stale, excused>>
      BY <2>5 DEF Told, history
    <3>2. QED BY <3>1, ShownKeeps
  <2>6. ASSUME NEW s \in Statuses, Repair(s)
        PROVE  RestoreInv'
    <3>1. /\ \/ shown' = [shown EXCEPT ![s] = "interrupted"] /\ excused' = excused
             \/ UNCHANGED shown /\ excused' = excused \cup {s}
          /\ stale' = stale \ {s}
          /\ UNCHANGED <<up, trees, active, doomed, command, owed, store, file, issued,
                         skipped, buried, texts>>
      BY <2>6 DEF Repair
    <3>2. QED BY <3>1, ShownKeeps
  <2>7. CASE Idle \/ UNCHANGED restoreVars
    <3>1. UNCHANGED <<up, trees, active, doomed, command, owed, store, stale, texts, file,
                      shown, issued, skipped, excused, buried>>
      BY <2>7 DEF Idle, restoreVars, volatile, history
    <3>2. QED BY <3>1 DEF RestoreInv, Counted, AllSound, Locked, Claimed, Buried, Telling,
                          Truthful, Trees
  <2>8. QED BY <2>1, <2>2, <2>3, <2>4, <2>5, <2>6, <2>7 DEF RestoreNext
<1>2. QED BY <1>1, RestoreInitHolds, PTL DEF RestoreSpec

(***************************************************************************)
(* For any number of prompts, statuses, commands and deaths: what was in   *)
(* the file is taken whole and in its place, what a /clear removed stays   *)
(* away, and once repaired no status speaks of work that nobody does       *)
(* (messaging/trees/snapshot.py, session/store.py, workflow.restore).      *)
(***************************************************************************)
THEOREM RestartHolds == RestoreSpec => []RestartKept
<1>1. RestoreInv => RestartKept
  <2> SUFFICES ASSUME RestoreInv PROVE RestartKept
    OBVIOUS
  <2>1. RestoredWhole
    BY DEF RestoreInv, AllSound, Sound, Claimed, RestoredWhole, In, Trees
  <2>2. Born(trees) \subseteq Born(store)
    BY CoversBorn DEF RestoreInv, AllSound
  <2>3. ClearedStay
    BY <2>2 DEF ClearedStay, RestoreInv, Buried
  <2>4. StatusesTrue
    BY DEF StatusesTrue, RestoreInv, Telling, Truthful
  <2>5. QED BY <2>1, <2>3, <2>4 DEF RestartKept
<1>2. QED BY <1>1, RestoreIsSound, PTL
=============================================================================
