-------------------------- MODULE TreeQueueProofs --------------------------
(***************************************************************************)
(* What holds of TreeQueue for any prompts and any number of commands and  *)
(* stops: a tree runs one prompt at a time and forgets none, nothing is    *)
(* admitted across a stop or a clear, what was reported as stopped is not  *)
(* started, and the trees, their index and the store agree.                *)
(***************************************************************************)
EXTENDS TreeQueue, WellFoundedInduction, TLAPS

Joined == closing \in {"joining", "closed"}
Behind(g) == g[1] <= generations[1] /\ g[2] <= generations[2]

\* A turn has a place in a tree once it is admitted; a tree's root names it.
Grown ==
    /\ \A t \in Turns :
           /\ arrival[t] = "admitted" <=> tree[t] # None
           /\ tree[t] = None => ~Present(t) /\ parent[t] = None /\ task[t] = "none"
           /\ tree[t] # None => tree[tree[t]] = tree[t]
           /\ tree[t] = t => reply[t] = NoReply /\ parent[t] = None

\* Every node of a tree descends from its root.
Rooted ==
    \A t \in Turns : tree[t] # None =>
        \A S \in SUBSET Turns : tree[t] \in S /\ Descends(S) => t \in S

\* A detached tree has no nodes left, and a published one has its root.
Published ==
    /\ \A t \in Turns : Present(t) => tree[t] \in forest
    /\ \A k \in forest : tree[k] = k /\ Present(k)

\* The live tasks are those of the claims.
Claimed ==
    /\ \A k \in Turns : active[k] # None =>
           tree[active[k]] = k /\ task[active[k]] \in Live
    /\ \A t \in Turns : task[t] \in Live => tree[t] # None /\ active[tree[t]] = t
    /\ \A t \in condemned : task[t] \in Live

\* A pending node waits behind a claim, in a place of its own; a node in
\* progress is the one its tree's claim works on.
Waiting ==
    /\ \A t \in Turns :
           /\ ticket[t] # 0 <=> state[t] = "pending"
           /\ state[t] = "pending" => task[t] = "none" /\ active[tree[t]] # None
           /\ state[t] = "in_progress" =>
                  task[t] \in {"created", "running"} /\ t \notin condemned
    /\ \A t, u \in Turns :
           ticket[t] # 0 /\ ticket[t] = ticket[u] /\ tree[t] = tree[u] => t = u

\* The places have a last one.
Bounded == \E b \in Nat : \A t \in Turns : ticket[t] <= b

\* A turn in flight holds an older token than every stop since it came.
Fenced ==
    /\ \A t \in Turns : arrival[t] = "sending" =>
           Behind(token[t]) /\ (Joined => token[t] # generations)
    /\ \A t \in overtaken : arrival[t] = "sending" /\ token[t] # generations
    /\ closing = "closed" => \A t \in Turns : task[t] \notin Live

\* A node reported as stopped is at rest, or its task is being cancelled.
Reported ==
    \A t \in stopped :
        tree[t] # None /\ state[t] \notin Runnable /\ task[t] # "created"

\* The index holds the references of each node, and no others.
Resolved ==
    /\ \A t \in Turns : \A r \in RefsOf(t) : index[r] = tree[t]
    /\ \A r \in Refs : index[r] # None => \E t \in Turns : r \in RefsOf(t)
    /\ \A t, u \in Turns : \A r \in RefsOf(t) \cap RefsOf(u) : t = u

\* The store is right but for the trees a command is about to save.
Rewritten == UNION {SameIdentity(k) : k \in command.of}
Stored ==
    /\ command.kind \in {"none", "chat"} => command.of = {}
    /\ \A k \in command.of : tree[k] = k
    /\ \A k \in command.of : NodesOf(k) = {t \in SameIdentity(k) : Present(t)}
    /\ ~aborted /\ command.kind = "chat" => \A t \in Turns : ~Present(t)
    /\ ~aborted /\ command.kind # "chat" =>
           \A t \in Turns \ Rewritten : t \in stored <=> Present(t)

IInv ==
    /\ TreesTypeOK /\ Grown /\ Rooted /\ Published /\ Claimed /\ Waiting /\ Bounded
    /\ Fenced /\ Reported /\ Resolved /\ Stored

-----------------------------------------------------------------------------
(* The operators the model is built from. *)

\* A set of naturals has a least element.
LEMMA LeastNatural ==
    ASSUME NEW S \in SUBSET Nat, S # {}
    PROVE  \E m \in S : \A x \in S : m <= x
<1>1. IsWellFoundedOn(OpToRel(<, Nat), Nat)
  BY NatLessThanWellFounded
<1>2. PICK m \in S : \A x \in S : ~ (<<x, m>> \in OpToRel(<, Nat))
  BY <1>1, WFMin, Zenon
<1>3. \A x \in S : ~ (x < m)
  BY <1>2 DEF OpToRel
<1> QED BY <1>3

\* A bounded set of naturals that has 0 has a greatest element.
LEMMA GreatestNatural ==
    ASSUME NEW S \in SUBSET Nat, 0 \in S,
           NEW b \in Nat, \A x \in S : x <= b
    PROVE  Max(S) \in S /\ \A x \in S : x <= Max(S)
<1> DEFINE B == {c \in Nat : \A x \in S : x <= c}
<1>1. PICK m \in B : \A c \in B : m <= c
  BY LeastNatural, b \in B
<1>2. m \in S
  <2>1. CASE m = 0
    BY <2>1
  <2>2. CASE m # 0 /\ m \notin S
    <3>1. m - 1 \in B
      BY <2>2
    <3> QED BY <3>1, <1>1
  <2> QED BY <2>1, <2>2
<1>3. \A x \in S : m >= x
  BY <1>1
<1> QED BY <1>2, <1>3 DEF Max

\* The next place of a queue is behind all that are taken.
LEMMA LastTicketIsLast ==
    ASSUME IInv, NEW k \in Turns
    PROVE  LastTicket(k) \in Nat /\ \A u \in Queue(k) : ticket[u] <= LastTicket(k)
<1> DEFINE S == {0} \cup {ticket[u] : u \in Queue(k)}
<1>1. ticket \in [Turns -> Nat] /\ Queue(k) \subseteq Turns
  BY DEF IInv, TreesTypeOK, Queue, NodesOf
<1>2. S \in SUBSET Nat /\ 0 \in S
  BY <1>1
<1>3. PICK b \in Nat : \A t \in Turns : ticket[t] <= b
  BY DEF IInv, Bounded
<1>4. \A x \in S : x <= b
  BY <1>1, <1>3
<1>5. Max(S) \in S /\ \A x \in S : x <= Max(S)
  <2> HIDE DEF S
  <2> QED BY <1>2, <1>4, GreatestNatural
<1> QED BY <1>2, <1>5 DEF LastTicket

\* Some waiting prompt is first.
LEMMA FirstOf ==
    ASSUME IInv, NEW W \in SUBSET Turns, W # {}
    PROVE  \E u \in W : \A v \in W : ticket[u] <= ticket[v]
<1> DEFINE S == {ticket[u] : u \in W}
<1>1. ticket \in [Turns -> Nat]
  BY DEF IInv, TreesTypeOK
<1>2. S \in SUBSET Nat /\ S # {}
  BY <1>1
<1>3. PICK m \in S : \A x \in S : m <= x
  <2> HIDE DEF S
  <2> QED BY <1>2, LeastNatural
<1> QED BY <1>3

\* The references of a node.
LEMMA RefsAre ==
    ASSUME TreesTypeOK, NEW t \in Turns
    PROVE  /\ RefsOf(t) \subseteq Refs
           /\ \A r \in RefsOf(t) : Present(t)
           /\ \A r \in RefsOf(t) : r = Prompt(message[t]) \/ r = Status(t)
           /\ Present(t) => Prompt(message[t]) \in RefsOf(t)
           /\ Present(t) /\ state[t] # "bare" => Status(t) \in RefsOf(t)
  BY DEF TreesTypeOK, RefsOf, Refs, Prompt, Status, Present

\* The node a reference is resolved to has it, in the reference's tree.
LEMMA NodeIsAt ==
    ASSUME IInv, NEW r \in Indexed
    PROVE  /\ r \in Refs /\ index[r] \in forest /\ index[r] \in Turns
           /\ NodeAt(r) \in Turns /\ tree[NodeAt(r)] = index[r]
           /\ Present(NodeAt(r)) /\ r \in RefsOf(NodeAt(r))
<1>1. r \in Refs /\ index[r] # None /\ index[r] \in forest /\ index[r] \in Turns
  BY DEF Indexed, IInv, TreesTypeOK
<1>2. PICK t \in Turns : r \in RefsOf(t)
  BY <1>1 DEF IInv, Resolved
<1>3. tree[t] = index[r] /\ Present(t)
  BY <1>2, RefsAre DEF IInv, Resolved
<1>4. t \in NodesOf(index[r])
  BY <1>3 DEF NodesOf
<1>5. NodeAt(r) \in NodesOf(index[r]) /\ r \in RefsOf(NodeAt(r))
  BY <1>2, <1>4 DEF NodeAt
<1> QED BY <1>1, <1>5 DEF NodesOf

\* A node is below itself, all nodes of a tree are below its root, and the
\* root is below no other.
LEMMA BelowIs ==
    ASSUME IInv, NEW t \in Turns, tree[t] # None
    PROVE  /\ Below(t) \subseteq NodesOf(tree[t])
           /\ Present(t) => t \in Below(t)
           /\ tree[t] \in Below(t) => t = tree[t]
           /\ Below(tree[t]) = NodesOf(tree[t])
<1> DEFINE k == tree[t]
<1>1. k \in Turns /\ tree[k] = k /\ parent[k] = None
  BY DEF IInv, TreesTypeOK, Grown
<1>2. Below(t) \subseteq NodesOf(k) /\ (Present(t) => t \in Below(t))
  BY DEF Below, NodesOf
<1>3. ASSUME k \in Below(t), t # k PROVE FALSE
  <2>1. Descends(Turns \ {k})
    BY <1>1, TurnsAssumption DEF Descends
  <2>2. k \in Turns \ {k}
    BY <1>3, <2>1 DEF Below
  <2> QED BY <2>2
<1>4. NodesOf(k) \subseteq Below(k)
  <2> SUFFICES ASSUME NEW u \in NodesOf(k), NEW S \in SUBSET Turns,
                      k \in S, Descends(S)
               PROVE  u \in S
    BY <1>1 DEF Below, NodesOf
  <2> QED BY <1>1, TurnsAssumption DEF IInv, Rooted, NodesOf
<1> QED BY <1>1, <1>2, <1>3, <1>4 DEF Below

\* What a /clear in reply to a message removes are nodes of its tree; if the
\* root goes, so does the whole tree.
LEMMA SubtreeIs ==
    ASSUME IInv, NEW r \in Indexed
    PROVE  /\ Subtree(r) \subseteq NodesOf(index[r])
           /\ index[r] \in Subtree(r) => NodesOf(index[r]) \subseteq Subtree(r)
           /\ NodeAt(r) \in Subtree(r) \/ r = Status(NodeAt(r))
<1> DEFINE k == index[r]
<1> DEFINE n == NodeAt(r)
<1>1. /\ r \in Refs /\ k \in forest /\ k \in Turns /\ k # None
      /\ n \in Turns /\ tree[n] = k /\ Present(n) /\ r \in RefsOf(n)
  BY NodeIsAt, TurnsAssumption
<1>2. tree[k] = k /\ reply[k] = NoReply
  BY <1>1 DEF IInv, Published, Grown
<1>3. r = Prompt(message[n]) \/ r = Status(n)
  BY <1>1, RefsAre DEF IInv
<1>4. CASE r = Prompt(message[n])
  <2>1. Subtree(r) = Below(n)
    BY <1>4 DEF Subtree, Prompt
  <2> QED BY <2>1, <1>1, <1>2, BelowIs
<1>5. CASE r = Status(n)
  <2> DEFINE C == {c \in NodesOf(k) : reply[c] = r}
  <2>1. Subtree(r) = UNION {Below(u) : u \in C}
    BY <1>5 DEF Subtree, Status
  <2>2. \A c \in C : c \in Turns /\ tree[c] = k /\ c # k
    BY <1>1, <1>2, <1>5 DEF NodesOf, Status, NoReply
  <2>3. \A c \in C : Below(c) \subseteq NodesOf(k) /\ k \notin Below(c)
    BY <1>1, <2>2, BelowIs
  <2> QED BY <2>1, <2>3, <1>5
<1> QED BY <1>3, <1>4, <1>5

-----------------------------------------------------------------------------
(* What a step leaves alone. *)

\* How the references of a node change with its state.
LEMMA RefsKept ==
    ASSUME NEW t \in Turns, message'[t] = message[t],
           state'[t] = state[t]
             \/ {state[t], state'[t]} \cap {"absent", "bare"} = {}
    PROVE  RefsOf(t)' = RefsOf(t)
  BY DEF RefsOf, Prompt, Status

LEMMA RefsGone ==
    ASSUME NEW t \in Turns, state'[t] = "absent"
    PROVE  RefsOf(t)' = {}
  BY DEF RefsOf

LEMMA RefsBared ==
    ASSUME NEW t \in Turns, state'[t] = "bare", message'[t] = message[t]
    PROVE  RefsOf(t)' = {Prompt(message[t])}
  BY DEF RefsOf, Prompt

\* A step that adds no node to a tree.
LEMMA GraphKept ==
    ASSUME IInv, UNCHANGED <<intake, graph>>,
           \A t \in Turns : Present(t)' => Present(t),
           \A t \in Turns : task'[t] # task[t] => tree[t] # None
    PROVE  Grown' /\ Rooted'
  BY DEF IInv, Grown, Rooted, Descends, intake, graph

\* A step that removes no node, no tree and no reference.
LEMMA IndexKept ==
    ASSUME IInv, UNCHANGED <<message, repository, graph>>,
           \A t \in Turns :
               \/ state'[t] = state[t]
               \/ {state[t], state'[t]} \cap {"absent", "bare"} = {}
    PROVE  /\ Published' /\ Resolved'
           /\ \A t \in Turns : Present(t)' = Present(t)
<1>1. \A t \in Turns : RefsOf(t)' = RefsOf(t)
  BY RefsKept
<1>2. \A t \in Turns : Present(t)' = Present(t)
  BY DEF Present
<1>3. Published'
  BY <1>2 DEF IInv, TreesTypeOK, Published, graph, repository
<1>4. Resolved'
  BY <1>1 DEF IInv, Resolved, graph, repository
<1> QED BY <1>2, <1>3, <1>4

\* The nodes of a published tree are those saved under its identity.
LEMMA OneIdentity ==
    ASSUME IInv, NEW k \in forest
    PROVE  NodesOf(k) = {t \in SameIdentity(k) : Present(t)}
<1>0. k \in Turns /\ tree[k] = k /\ Present(k)
  BY DEF IInv, TreesTypeOK, Published
<1>1. ASSUME NEW t \in Turns, Present(t), tree[t] # None,
             message[tree[t]] = message[k]
      PROVE  tree[t] = k
  <2>1. tree[t] \in Turns /\ Present(tree[t])
    BY <1>1 DEF IInv, TreesTypeOK, Published
  <2>2. Prompt(message[k]) \in RefsOf(tree[t]) \cap RefsOf(k)
    BY <1>0, <1>1, <2>1, RefsAre DEF IInv
  <2> QED BY <1>0, <2>1, <2>2 DEF IInv, Resolved
<1> QED BY <1>0, <1>1, TurnsAssumption DEF NodesOf, SameIdentity

\* A snapshot of a published tree keeps the store right, and no other step
\* of a runner touches it.
LEMMA StoreKept ==
    ASSUME IInv, UNCHANGED <<message, graph, command, aborted>>,
           \A t \in Turns : Present(t)' = Present(t),
           \/ stored' = stored
           \/ \E k \in forest : stored' = Saved(k, NodesOf(k))
    PROVE  Stored'
<1>1. /\ \A k : SameIdentity(k)' = SameIdentity(k)
      /\ \A k : NodesOf(k)' = NodesOf(k)
      /\ Rewritten' = Rewritten
  BY DEF SameIdentity, NodesOf, Rewritten, graph
<1>2. ASSUME ~aborted, command.kind # "chat", NEW t \in Turns \ Rewritten
      PROVE  t \in stored' <=> Present(t)
  <2>1. t \in stored <=> Present(t)
    BY <1>2 DEF IInv, Stored
  <2>2. CASE stored' = stored
    BY <2>1, <2>2
  <2>3. ASSUME NEW k \in forest, stored' = Saved(k, NodesOf(k))
        PROVE  t \in stored' <=> Present(t)
    <3>1. NodesOf(k) = {u \in SameIdentity(k) : Present(u)}
      BY OneIdentity
    <3> QED BY <2>1, <2>3, <3>1 DEF Saved
  <2> QED BY <2>2, <2>3
<1>3. \A t \in Turns \ Rewritten' : ~aborted /\ command.kind # "chat" =>
          (t \in stored' <=> Present(t)')
  BY <1>1, <1>2
<1>4. command.of \subseteq Turns
  BY DEF IInv, TreesTypeOK
<1>5. \A k \in command.of : NodesOf(k)' = {t \in SameIdentity(k)' : Present(t)'}
  <2>1. \A k \in command.of : NodesOf(k) = {t \in SameIdentity(k) : Present(t)}
    BY DEF IInv, Stored
  <2>2. \A k : SameIdentity(k) \subseteq Turns
    BY DEF SameIdentity
  <2> QED BY <1>1, <2>1, <2>2
<1> QED BY <1>1, <1>3, <1>4, <1>5 DEF IInv, Stored, graph

\* A step of a runner that is at work.
LEMMA TasksKept ==
    ASSUME IInv, UNCHANGED <<graph, active>>, condemned' = condemned,
           \A t \in Turns : task[t] \in Live <=> task'[t] \in Live
    PROVE  Claimed'
  BY DEF IInv, TreesTypeOK, Claimed, graph

\* A step between two commands, by no turn in flight.
LEMMA FenceKept ==
    ASSUME IInv, UNCHANGED <<intake, generations, closing, overtaken>>,
           \A t \in Turns : closing = "closed" /\ task'[t] \in Live => task[t] \in Live
    PROVE  Fenced'
  BY DEF IInv, Fenced, Joined, Behind, intake

\* What an interruption makes of a task.
LEMMA InterruptIs ==
    ASSUME NEW C, NEW t \in Turns
    PROVE  /\ t \notin C => Interrupt(C)[t] = task[t]
           /\ t \in C /\ task[t] = "created" => Interrupt(C)[t] = "killed"
           /\ t \in C /\ task[t] = "running" => Interrupt(C)[t] = "cancelled"
           /\ t \in C /\ task[t] = "cancelled" => Interrupt(C)[t] = "ending"
           /\ task[t] \notin {"created", "running", "cancelled"} =>
                  Interrupt(C)[t] = task[t]
<1>1. CASE t \notin C
  <2>1. Interrupt(C)[t] = task[t]
    BY <1>1 DEF Interrupt
  <2> QED BY <1>1, <2>1
<1>2. CASE t \in C /\ task[t] = "created"
  BY <1>2 DEF Interrupt
<1>3. CASE t \in C /\ task[t] = "running"
  BY <1>3 DEF Interrupt
<1>4. CASE t \in C /\ task[t] = "cancelled"
  BY <1>4 DEF Interrupt
<1>5. CASE t \in C /\ task[t] # "created" /\ task[t] # "running" /\ task[t] # "cancelled"
  BY <1>5 DEF Interrupt
<1> QED BY <1>1, <1>2, <1>3, <1>4, <1>5

\* Cancelling the nodes A, the tasks C among them or at work in their tree.
LEMMA CancelKeeps ==
    ASSUME IInv, UNCHANGED <<graph, active>>,
           NEW A \in SUBSET Turns, NEW C \in SUBSET Turns,
           \A t \in C : task[t] \in Live,
           \A t \in A : state[t] = "in_progress" => t \in C,
           condemned' = condemned \cup C,
           task' = Interrupt(C),
           ticket' = Dequeue(A),
           \A t \in Turns \ A : state'[t] = state[t],
           \A t \in A \cup C : state'[t] \notin Runnable,
           stopped' \subseteq stopped \cup RunnableIn(A)
                                  \cup {t \in C : state[t] = "error"}
    PROVE  /\ Claimed' /\ Waiting' /\ Bounded' /\ Reported'
           /\ ticket' \in [Turns -> Nat]
           /\ task' \in [Turns -> Live \cup {"none", "finished"}]
           /\ \A t \in Turns : task'[t] \in Live <=> task[t] \in Live
           /\ \A t \in Turns : task'[t] # task[t] => tree[t] # None
<1>0. /\ task \in [Turns -> Live \cup {"none", "finished"}]
      /\ ticket \in [Turns -> Nat] /\ condemned \subseteq Turns
      /\ active \in [Turns -> Turns \cup {None}] /\ stopped \subseteq Turns
      /\ tree \in [Turns -> Turns \cup {None}] /\ None \notin Turns
  BY TurnsAssumption DEF IInv, TreesTypeOK
<1>1. \A t \in Turns : task'[t] \in Live <=> task[t] \in Live
  BY InterruptIs, <1>0 DEF Live
<1>2. \A t \in Turns : task'[t] # task[t] => t \in C
  BY InterruptIs
<1>3. task' \in [Turns -> Live \cup {"none", "finished"}]
  <2>1. \A t \in Turns : task'[t] \in Live \cup {"none", "finished"}
    BY <1>0, <1>1, <1>2
  <2>2. task' = [t \in Turns |-> task'[t]]
    BY DEF Interrupt
  <2> QED BY <2>1, <2>2
<1>4. \A t \in Turns : ticket'[t] = IF t \in A THEN 0 ELSE ticket[t]
  BY DEF Dequeue
<1>5. ticket' \in [Turns -> Nat]
  BY <1>0 DEF Dequeue
<1>6. \A t \in Turns : task'[t] # task[t] => tree[t] # None
  BY <1>2 DEF IInv, Claimed
<1>7. Claimed'
  BY <1>0, <1>1 DEF IInv, Claimed, graph
<1>8. Waiting'
  <2>1. ASSUME NEW t \in Turns
        PROVE  /\ ticket'[t] # 0 <=> state'[t] = "pending"
               /\ state'[t] = "pending" => task'[t] = "none" /\ active[tree[t]] # None
    <3>1. CASE t \in A
      BY <3>1, <1>4 DEF Runnable
    <3>2. CASE t \notin A
      <4>1. t \in C => state[t] # "pending"
        BY <3>2 DEF Runnable
      <4> QED BY <3>2, <4>1, <1>2, <1>4 DEF IInv, Waiting
    <3> QED BY <3>1, <3>2
  <2>2. ASSUME NEW t \in Turns, state'[t] = "in_progress"
        PROVE  task'[t] \in {"created", "running"} /\ t \notin condemned'
    <3>1. t \notin A /\ t \notin C
      BY <2>2 DEF Runnable
    <3> QED BY <2>2, <3>1, <1>2 DEF IInv, Waiting
  <2>3. ASSUME NEW t \in Turns, NEW u \in Turns,
               ticket'[t] # 0, ticket'[t] = ticket'[u], tree[t] = tree[u]
        PROVE  t = u
    BY <2>3, <1>4 DEF IInv, Waiting
  <2> QED BY <2>1, <2>2, <2>3 DEF Waiting, graph
<1>9. Bounded'
  BY <1>0, <1>4 DEF IInv, Bounded
<1>10. Reported'
  <2> SUFFICES ASSUME NEW t \in stopped'
               PROVE  tree[t] # None /\ state'[t] \notin Runnable /\ task'[t] # "created"
    BY DEF Reported, graph
  <2>0. t \in Turns
    BY <1>0 DEF RunnableIn
  <2>1. task'[t] = "created" => task[t] = "created" /\ t \notin C
    BY <2>0, <1>0, <1>2, InterruptIs DEF Live
  <2>2. CASE t \in stopped
    <3>1. tree[t] # None /\ state[t] \notin Runnable /\ task[t] # "created"
      BY <2>2 DEF IInv, Reported
    <3> QED BY <3>1, <2>0, <2>1
  <2>3. CASE t \in C
    <3> QED BY <2>0, <2>1, <2>3 DEF IInv, Claimed
  <2>4. CASE t \in RunnableIn(A) /\ t \notin C
    <3>1. t \in A /\ state[t] = "pending"
      BY <2>4 DEF RunnableIn, Runnable
    <3>2. task[t] = "none"
      BY <2>0, <3>1 DEF IInv, Waiting
    <3>3. tree[t] # None
      BY <2>0, <3>1 DEF IInv, Grown, Present
    <3> QED BY <2>0, <2>1, <3>1, <3>2, <3>3
  <2> QED BY <2>2, <2>3, <2>4
<1> QED BY <1>1, <1>3, <1>5, <1>6, <1>7, <1>8, <1>9, <1>10

-----------------------------------------------------------------------------
(* Turns. *)

LEMMA InitIInv == TreesInit => IInv
<1> SUFFICES ASSUME TreesInit PROVE IInv
  OBVIOUS
<1>0. None \notin Turns
  BY TurnsAssumption
<1>1. \A t \in Turns : ~Present(t) /\ RefsOf(t) = {}
  BY DEF TreesInit, Present, RefsOf
<1>2. TreesTypeOK
  BY <1>0 DEF TreesInit, TreesTypeOK, Refs, NoReply, Prompt, Unlocked, Live
<1>3. Grown /\ Rooted /\ Published
  BY <1>0, <1>1 DEF TreesInit, Grown, Rooted, Published
<1>4. Claimed /\ Waiting /\ Bounded
  <2>0. ticket = [t \in Turns |-> 0]
    BY DEF TreesInit
  <2>1. \A t \in Turns : ticket[t] <= 0
    <3> TAKE t \in Turns
    <3>1. ticket[t] = 0
      BY <2>0
    <3> QED BY <3>1
  <2>2. Bounded
    BY <2>1 DEF Bounded
  <2> QED BY <1>0, <2>2 DEF TreesInit, Claimed, Waiting, Live
<1>5. Fenced /\ Reported
  BY DEF TreesInit, Fenced, Reported, Joined
<1>6. Resolved
  BY <1>1 DEF TreesInit, Resolved
<1>7. Stored
  BY <1>1 DEF TreesInit, Stored, Unlocked
<1> QED BY <1>2, <1>3, <1>4, <1>5, <1>6, <1>7 DEF IInv

\* A turn that is not in a tree may change what it says of itself.
LEMMA OutsideKeeps ==
    ASSUME IInv, NEW t \in Turns, tree[t] = None,
           \A u \in Turns \ {t} : message'[u] = message[u] /\ reply'[u] = reply[u],
           \A u \in Turns : arrival'[u] = "admitted" <=> arrival[u] = "admitted",
           UNCHANGED <<command, aborted, repository, graph, scheduling, stored, stopped>>
    PROVE  /\ Grown' /\ Rooted' /\ Published' /\ Claimed' /\ Waiting'
           /\ Bounded' /\ Reported' /\ Resolved' /\ Stored'
<1>0. /\ tree \in [Turns -> Turns \cup {None}] /\ None \notin Turns
      /\ command.of \subseteq Turns
  BY TurnsAssumption DEF IInv, TreesTypeOK
<1>1. \A u \in Turns : Present(u)' = Present(u)
  BY DEF Present, scheduling
<1>2. \A u \in Turns : RefsOf(u)' = RefsOf(u)
  <2>1. state'[t] = "absent" /\ state[t] = "absent"
    BY DEF IInv, Grown, Present, scheduling
  <2> QED BY <2>1, RefsKept, RefsGone DEF scheduling, RefsOf
<1>3. Grown'
  BY <1>0, <1>1 DEF IInv, Grown, graph, scheduling
<1>4. Rooted' /\ Published'
  BY <1>1 DEF IInv, TreesTypeOK, Rooted, Published, Descends, graph, repository
<1>5. Claimed' /\ Waiting' /\ Bounded' /\ Reported'
  BY DEF IInv, Claimed, Waiting, Bounded, Reported, graph, scheduling
<1>6. Resolved'
  BY <1>2 DEF IInv, Resolved, graph, repository
<1>7. Stored'
  <2>1. \A u \in Turns : tree[u] # None => tree[u] \in Turns \ {t}
    BY <1>0 DEF IInv, Grown
  <2>2. \A k \in command.of : k \in Turns \ {t}
    BY <1>0 DEF IInv, Stored
  <2>3. \A k \in command.of : SameIdentity(k)' = SameIdentity(k)
    BY <2>1, <2>2 DEF SameIdentity, graph
  <2>4. Rewritten' = Rewritten
    BY <2>3 DEF Rewritten
  <2>5. \A k : NodesOf(k)' = NodesOf(k)
    BY <1>1 DEF NodesOf, graph
  <2>6. \A k \in command.of : SameIdentity(k) \subseteq Turns
    BY DEF SameIdentity
  <2> QED BY <1>0, <1>1, <2>3, <2>4, <2>5, <2>6 DEF IInv, Stored, graph
<1> QED BY <1>3, <1>4, <1>5, <1>6, <1>7

LEMMA ReceiveKeeps == ASSUME IInv, NEW t \in Turns, Receive(t) PROVE IInv'
<1>0. arrival[t] = "new" /\ tree[t] = None /\ closing = "no"
  BY DEF Receive, IInv, TreesTypeOK, Grown
<1>1. PICK m \in {t} \cup {message[u] : u \in {v \in Turns : arrival[v] # "new"}} :
        /\ message' = [message EXCEPT ![t] = m]
        /\ \E r \in {NoReply} \cup (Indexed \ {Prompt(m)}) :
               reply' = [reply EXCEPT ![t] = r]
  BY DEF Receive
<1>2. PICK r \in {NoReply} \cup (Indexed \ {Prompt(m)}) :
        reply' = [reply EXCEPT ![t] = r]
  BY <1>1
<1>3. m \in Turns /\ r \in Refs \cup {NoReply}
  BY <1>1, <1>2 DEF IInv, TreesTypeOK, Indexed
<1>4. TreesTypeOK'
  BY <1>1, <1>2, <1>3 DEF Receive, IInv, TreesTypeOK, workflow, repository, graph, scheduling
<1>5. /\ Grown' /\ Rooted' /\ Published' /\ Claimed' /\ Waiting'
      /\ Bounded' /\ Reported' /\ Resolved' /\ Stored'
  <2>1. \A u \in Turns \ {t} : message'[u] = message[u] /\ reply'[u] = reply[u]
    BY <1>1, <1>2 DEF IInv, TreesTypeOK
  <2>2. \A u \in Turns : arrival'[u] = "admitted" <=> arrival[u] = "admitted"
    BY <1>0 DEF Receive, IInv, TreesTypeOK
  <2> QED BY <1>0, <2>1, <2>2, OutsideKeeps DEF Receive, workflow
<1>6. Fenced'
  BY <1>0 DEF Receive, IInv, TreesTypeOK, Fenced, Joined, Behind, workflow, scheduling
<1> QED BY <1>4, <1>5, <1>6 DEF IInv

LEMMA DropKeeps ==
    ASSUME IInv, NEW t \in Turns, arrival[t] = "sending", Drop(t) PROVE IInv'
<1>0. tree[t] = None
  BY DEF IInv, Grown
<1>1. TreesTypeOK'
  BY DEF Drop, IInv, TreesTypeOK, workflow, repository, graph, scheduling
<1>2. /\ Grown' /\ Rooted' /\ Published' /\ Claimed' /\ Waiting'
      /\ Bounded' /\ Reported' /\ Resolved' /\ Stored'
  <2>1. \A u \in Turns \ {t} : message'[u] = message[u] /\ reply'[u] = reply[u]
    BY DEF Drop, IInv, TreesTypeOK
  <2>2. \A u \in Turns : arrival'[u] = "admitted" <=> arrival[u] = "admitted"
    BY DEF Drop, IInv, TreesTypeOK
  <2> QED BY <1>0, <2>1, <2>2, OutsideKeeps DEF Drop, workflow
<1>3. Fenced'
  BY DEF Drop, IInv, TreesTypeOK, Fenced, Joined, Behind, workflow, scheduling
<1> QED BY <1>1, <1>2, <1>3 DEF IInv

LEMMA AdmitKeeps == ASSUME IInv, NEW t \in Turns, Admit(t) PROVE IInv'
<1> DEFINE k == IF reply[t] = NoReply THEN t ELSE index[reply[t]]
<1> DEFINE p == IF reply[t] = NoReply THEN None ELSE NodeAt(reply[t])
<1>0. /\ LockFree /\ arrival[t] = "sending" /\ token[t] = generations
      /\ ~Duplicate(t) /\ ~ParentRemoved(t) /\ Accept(t)
  BY DEF Admit
<1>n. None \notin Turns
  BY TurnsAssumption
<1>t. /\ tree \in [Turns -> Turns \cup {None}] /\ tree[t] = None
      /\ parent \in [Turns -> Turns \cup {None}] /\ parent[t] = None
      /\ ~Present(t) /\ task[t] = "none" /\ t \notin condemned /\ ticket[t] = 0
      /\ active \in [Turns -> Turns \cup {None}] /\ ticket \in [Turns -> Nat]
      /\ state[t] = "absent" /\ message[t] \in Turns /\ t \notin forest
  <2>1. tree[t] = None /\ parent[t] = None /\ ~Present(t) /\ task[t] = "none"
    BY <1>0 DEF IInv, TreesTypeOK, Grown
  <2>2. t \notin condemned /\ ticket[t] = 0
    BY <2>1 DEF IInv, TreesTypeOK, Claimed, Waiting, Present, Live
  <2>3. t \notin forest
    BY <2>1 DEF IInv, Published
  <2> QED BY <2>1, <2>2, <2>3 DEF IInv, TreesTypeOK, Present
<1>r. /\ k \in Turns /\ p \in Turns \cup {None}
      /\ reply[t] # NoReply =>
             /\ k \in forest /\ k # t /\ tree[k] = k /\ p \in Turns \ {t}
             /\ tree[p] = k /\ p # None
      /\ reply[t] = NoReply => k = t /\ p = None /\ active[t] = None
  <2>1. CASE reply[t] = NoReply
    <3>1. active[t] = None
      BY <1>n, <1>t DEF IInv, Claimed, Grown
    <3> QED BY <2>1, <3>1
  <2>2. CASE reply[t] # NoReply
    <3>1. reply[t] \in Indexed
      BY <1>0, <2>2 DEF IInv, TreesTypeOK, ParentRemoved, Indexed
    <3>2. /\ k \in forest /\ k \in Turns /\ p \in Turns
          /\ tree[p] = k /\ Present(p)
      BY <2>2, <3>1, NodeIsAt
    <3>3. tree[k] = k
      BY <3>2 DEF IInv, Published
    <3> QED BY <1>n, <1>t, <2>2, <3>2, <3>3
  <2> QED BY <2>1, <2>2
<1>a. /\ arrival' = [arrival EXCEPT ![t] = "admitted"]
      /\ token' = [token EXCEPT ![t] = <<0, 0>>]
      /\ tree' = [tree EXCEPT ![t] = k]
      /\ parent' = [parent EXCEPT ![t] = p]
      /\ forest' = forest \cup {k}
      /\ index' = [index EXCEPT ![Prompt(message[t])] = k, ![Status(t)] = k]
      /\ stored' = Saved(k, NodesOf(k) \cup {t})
      /\ UNCHANGED <<message, reply, workflow, condemned, overtaken, stopped>>
  BY <1>0 DEF Accept
<1>b. \/ /\ active[k] = None
         /\ state' = [state EXCEPT ![t] = "in_progress"]
         /\ active' = [active EXCEPT ![k] = t]
         /\ task' = [task EXCEPT ![t] = "created"]
         /\ ticket' = ticket
      \/ /\ active[k] # None /\ k # t
         /\ state' = [state EXCEPT ![t] = "pending"]
         /\ ticket' = [ticket EXCEPT ![t] = LastTicket(k) + 1]
         /\ UNCHANGED <<active, task>>
  BY <1>0, <1>r DEF Accept
<1> HIDE DEF k, p
<1>c. /\ \A u \in Turns \ {t} : /\ state'[u] = state[u] /\ task'[u] = task[u]
                                /\ tree'[u] = tree[u] /\ ticket'[u] = ticket[u]
                                /\ parent'[u] = parent[u]
      /\ state'[t] \in Runnable /\ tree'[t] = k /\ parent'[t] = p
      /\ \A u \in Turns \ {t} : Present(u)' = Present(u)
      /\ Present(t)'
  BY <1>a, <1>b, <1>t DEF IInv, TreesTypeOK, Runnable, Present
<1>l. LastTicket(k) \in Nat /\ \A u \in Queue(k) : ticket[u] <= LastTicket(k)
  BY <1>r, LastTicketIsLast
<1>i. /\ Prompt(message[t]) \in Refs /\ Status(t) \in Refs
      /\ \A r \in Refs :
            index'[r] = IF r \in {Prompt(message[t]), Status(t)} THEN k ELSE index[r]
      /\ index' \in [Refs -> forest' \cup {None}]
  <2>1. Prompt(message[t]) \in Refs /\ Status(t) \in Refs
    BY <1>t DEF Prompt, Status, Refs
  <2>2. index \in [Refs -> forest \cup {None}]
    BY DEF IInv, TreesTypeOK
  <2> QED BY <1>a, <2>1, <2>2
<1>1. TreesTypeOK'
  <2>1. state' \in [Turns -> {"absent", "pending", "in_progress", "completed",
                              "error", "bare"}]
    BY <1>b DEF IInv, TreesTypeOK
  <2>2. task' \in [Turns -> Live \cup {"none", "finished"}]
    BY <1>b DEF IInv, TreesTypeOK, Live
  <2>3. active' \in [Turns -> Turns \cup {None}] /\ ticket' \in [Turns -> Nat]
    BY <1>b, <1>t, <1>r, <1>l
  <2>4. stored' \in SUBSET Turns
    BY <1>a DEF IInv, TreesTypeOK, Saved, NodesOf
  <2> QED BY <1>a, <1>r, <1>i, <2>1, <2>2, <2>3, <2>4 DEF IInv, TreesTypeOK, workflow
<1>2. Grown'
  BY <1>a, <1>c, <1>r, <1>t, <1>n DEF IInv, TreesTypeOK, Grown
<1>3. Rooted'
  <2> SUFFICES ASSUME NEW u \in Turns, tree'[u] # None, NEW S \in SUBSET Turns,
                      tree'[u] \in S, Descends(S)'
               PROVE  u \in S
    BY DEF Rooted
  <2>1. Descends(S)
    <3> SUFFICES ASSUME NEW c \in Turns, parent[c] \in S PROVE c \in S
      BY DEF Descends
    <3>1. c # t
      BY <1>t, <1>n
    <3> QED BY <3>1, <1>c DEF Descends
  <2>2. \A v \in Turns \ {t} : tree[v] # None /\ tree[v] \in S => v \in S
    BY <2>1 DEF IInv, Rooted
  <2>3. CASE u # t
    BY <2>2, <2>3, <1>c
  <2>4. CASE u = t /\ reply[t] = NoReply
    BY <2>4, <1>c, <1>r
  <2>5. CASE u = t /\ reply[t] # NoReply
    <3>1. p \in S
      BY <2>2, <2>5, <1>c, <1>r, <1>n
    <3> QED BY <3>1, <2>5, <1>c DEF Descends
  <2> QED BY <2>3, <2>4, <2>5
<1>4. Published'
  <2>1. \A u \in Turns : Present(u)' => tree'[u] \in forest'
    BY <1>a, <1>c DEF IInv, Published
  <2>2. \A j \in forest' : tree'[j] = j /\ Present(j)'
    BY <1>a, <1>c, <1>r, <1>t DEF IInv, TreesTypeOK, Published
  <2> QED BY <2>1, <2>2 DEF Published
<1>5. Claimed'
  <2>1. \A j \in Turns : active[j] # None => active[j] # t
    BY <1>t, <1>n DEF IInv, Claimed
  <2>2. CASE active[k] = None
    <3>1. /\ active'[k] = t /\ task'[t] = "created"
          /\ \A j \in Turns \ {k} : active'[j] = active[j]
      BY <2>2, <1>b, <1>t, <1>r DEF IInv, TreesTypeOK
    <3>2. \A j \in Turns : active'[j] # None =>
              tree'[active'[j]] = j /\ task'[active'[j]] \in Live
      <4> TAKE j \in Turns
      <4>1. CASE j = k
        BY <4>1, <3>1, <1>c DEF Live
      <4>2. CASE j # k
        BY <4>2, <3>1, <2>1, <1>c, <1>t DEF IInv, Claimed
      <4> QED BY <4>1, <4>2
    <3>3. \A u \in Turns : task'[u] \in Live => tree'[u] # None /\ active'[tree'[u]] = u
      <4> TAKE u \in Turns
      <4>1. CASE u = t
        BY <4>1, <3>1, <1>c, <1>r, <1>n
      <4>2. ASSUME u # t, task[u] \in Live
            PROVE  tree[u] # None /\ active'[tree[u]] = u
        BY <4>2, <3>1, <2>2, <1>n, <1>t DEF IInv, Claimed
      <4> QED BY <4>1, <4>2, <1>c
    <3> QED BY <3>2, <3>3, <1>a, <1>c, <1>t DEF IInv, TreesTypeOK, Claimed
  <2>3. CASE active[k] # None
    <3>1. active' = active /\ task' = task
      BY <2>3, <1>b
    <3> QED BY <3>1, <2>1, <1>a, <1>c, <1>t DEF IInv, TreesTypeOK, Claimed, Live
  <2> QED BY <2>2, <2>3
<1>6. Waiting'
  <2>1. ASSUME NEW u \in Turns
        PROVE  /\ ticket'[u] # 0 <=> state'[u] = "pending"
               /\ state'[u] = "pending" => task'[u] = "none" /\ active'[tree'[u]] # None
               /\ state'[u] = "in_progress" =>
                      task'[u] \in {"created", "running"} /\ u \notin condemned'
    <3>1. CASE u = t
      BY <3>1, <1>a, <1>b, <1>c, <1>l, <1>r, <1>t DEF IInv, TreesTypeOK
    <3>2. CASE u # t
      <4>1. \A j \in Turns : active[j] # None => active'[j] # None
        BY <1>b, <1>t, <1>n, <1>r
      <4>2. state[u] = "pending" => tree[u] \in Turns
        BY DEF IInv, TreesTypeOK, Published, Present
      <4> QED BY <3>2, <4>1, <4>2, <1>a, <1>c DEF IInv, Waiting
    <3> QED BY <3>1, <3>2
  <2>2. ASSUME NEW u \in Turns, NEW v \in Turns,
               ticket'[u] # 0, ticket'[u] = ticket'[v], tree'[u] = tree'[v]
        PROVE  u = v
    <3>1. ASSUME NEW w \in Turns \ {t}, tree[w] = k, ticket'[t] # 0
          PROVE  ticket[w] # ticket'[t]
      <4>1. ticket'[t] = LastTicket(k) + 1
        BY <3>1, <1>b, <1>t
      <4>2. CASE w \in Queue(k)
        BY <4>1, <4>2, <1>l, <1>t
      <4>3. CASE w \notin Queue(k)
        <5>1. ticket[w] = 0
          BY <3>1, <4>3 DEF Queue, NodesOf, IInv, Waiting, Present
        <5> QED BY <5>1, <3>1
      <4> QED BY <4>2, <4>3
    <3>2. CASE u # t /\ v # t
      BY <2>2, <3>2, <1>c DEF IInv, Waiting
    <3> QED BY <2>2, <3>1, <3>2, <1>c
  <2> QED BY <2>1, <2>2 DEF Waiting
<1>7. Bounded'
  <2>1. PICK b \in Nat : \A u \in Turns : ticket[u] <= b
    BY DEF IInv, Bounded
  <2>2. PICK c \in Nat : b <= c /\ LastTicket(k) + 1 <= c
    <3>1. b <= b + LastTicket(k) + 1 /\ LastTicket(k) + 1 <= b + LastTicket(k) + 1
          /\ b + LastTicket(k) + 1 \in Nat
      BY <1>l
    <3> QED BY <3>1
  <2>3. \A u \in Turns : ticket'[u] <= c
    <3> TAKE u \in Turns
    <3>1. ticket'[u] = ticket[u] \/ ticket'[u] = LastTicket(k) + 1
      BY <1>b, <1>t
    <3>2. ticket[u] \in Nat /\ ticket[u] <= b
      BY <1>t, <2>1
    <3> QED BY <3>1, <3>2, <2>2, <1>l
  <2> QED BY <2>3 DEF Bounded
<1>8. Fenced'
  <2>1. closing # "closed" /\ t \notin overtaken /\ ~Joined
    BY <1>0 DEF IInv, Fenced, Joined
  <2> QED BY <2>1, <1>a, <1>0 DEF IInv, TreesTypeOK, Fenced, Joined, Behind, workflow
<1>9. Reported'
  <2>1. t \notin stopped
    BY <1>t DEF IInv, Reported
  <2> QED BY <2>1, <1>a, <1>c DEF IInv, TreesTypeOK, Reported
<1>10. Resolved'
  <2>1. RefsOf(t)' = {Prompt(message[t]), Status(t)}
    <3>1. state'[t] # "absent" /\ state'[t] # "bare" /\ message'[t] = message[t]
      BY <1>a, <1>c DEF Runnable
    <3> QED BY <3>1 DEF RefsOf, Prompt, Status
  <2>2. \A u \in Turns \ {t} : RefsOf(u)' = RefsOf(u)
    BY <1>a, <1>c, RefsKept
  <2>3. \A u \in Turns \ {t} :
            Prompt(message[t]) \notin RefsOf(u) /\ Status(t) \notin RefsOf(u)
    <3> TAKE u \in Turns \ {t}
    <3>1. Prompt(message[t]) \notin RefsOf(u)
      <4>1. index[Prompt(message[t])] = None
        BY <1>0 DEF Duplicate
      <4>2. Present(u) => tree[u] # None
        BY DEF IInv, Grown
      <4> QED BY <4>1, <4>2, RefsAre DEF IInv, Resolved
    <3>2. Status(t) \notin RefsOf(u)
      BY RefsAre DEF IInv, Status, Prompt
    <3> QED BY <3>1, <3>2
  <2>4. \A u \in Turns : \A r \in RefsOf(u)' : index'[r] = tree'[u]
    <3> TAKE u \in Turns
    <3>1. CASE u = t
      BY <3>1, <2>1, <1>c, <1>i
    <3>2. CASE u # t
      <4>1. \A r \in RefsOf(u) : r \in Refs /\ index[r] = tree[u]
        BY RefsAre DEF IInv, Resolved
      <4> QED BY <3>2, <4>1, <2>2, <2>3, <1>c, <1>i
    <3> QED BY <3>1, <3>2
  <2>5. \A r \in Refs : index'[r] # None => \E u \in Turns : r \in RefsOf(u)'
    <3> SUFFICES ASSUME NEW r \in Refs, index'[r] # None
                 PROVE  \E u \in Turns : r \in RefsOf(u)'
      OBVIOUS
    <3>1. CASE r \in {Prompt(message[t]), Status(t)}
      BY <3>1, <2>1
    <3>2. CASE r \notin {Prompt(message[t]), Status(t)}
      <4>1. PICK u \in Turns : r \in RefsOf(u)
        BY <3>2, <1>i DEF IInv, Resolved
      <4>2. u # t
        BY <4>1, <1>t, RefsAre DEF IInv
      <4> QED BY <4>1, <4>2, <2>2
    <3> QED BY <3>1, <3>2
  <2>6. \A u, v \in Turns : \A r \in RefsOf(u)' \cap RefsOf(v)' : u = v
    BY <2>1, <2>2, <2>3 DEF IInv, Resolved
  <2> QED BY <2>4, <2>5, <2>6 DEF Resolved
<1>11. Stored'
  <2>1. command.kind = "none" /\ command.of = {} /\ command' = command
        /\ aborted' = aborted /\ Rewritten' = {}
    BY <1>0, <1>a DEF LockFree, Unlocked, workflow, Rewritten
  <2>2. ASSUME NEW u \in Turns, Present(u), u \in SameIdentity(k)
        PROVE  u \in NodesOf(k)
    <3>1. CASE k \in forest
      BY <2>2, <3>1, OneIdentity
    <3>2. CASE k \notin forest
      <4>1. k = t /\ tree[u] \in Turns /\ Present(tree[u]) /\ message[tree[u]] = message[t]
        BY <2>2, <3>2, <1>r DEF SameIdentity, IInv, TreesTypeOK, Published
      <4>2. Prompt(message[t]) \in RefsOf(tree[u])
        BY <4>1, RefsAre DEF IInv
      <4>3. index[Prompt(message[t])] # None
        BY <4>1, <4>2, <1>n DEF IInv, TreesTypeOK, Resolved, Grown
      <4> QED BY <4>3, <1>0 DEF Duplicate
    <3> QED BY <3>1, <3>2
  <2>3. ~aborted => \A u \in Turns : u \in stored <=> Present(u)
    BY <2>1 DEF IInv, Stored, Rewritten
  <2>4. ~aborted => \A u \in Turns : u \in stored' <=> Present(u)'
    <3> SUFFICES ASSUME ~aborted, NEW u \in Turns
                 PROVE  u \in stored' <=> Present(u)'
      OBVIOUS
    <3>1. u \in stored' <=>
             (u \in stored /\ u \notin SameIdentity(k)) \/ u \in NodesOf(k) \/ u = t
      BY <1>a DEF Saved
    <3>2. u \in NodesOf(k) => Present(u)
      BY DEF NodesOf
    <3> QED BY <3>1, <3>2, <2>2, <2>3, <1>c
  <2> QED BY <2>1, <2>4 DEF Stored
<1> QED BY <1>1, <1>2, <1>3, <1>4, <1>5, <1>6, <1>7, <1>8, <1>9, <1>10, <1>11 DEF IInv

-----------------------------------------------------------------------------
(* A claim's task. *)

\* A node in progress is the one its published tree's claim works on.
LEMMA WorksOn ==
    ASSUME IInv, NEW t \in Turns, state[t] = "in_progress"
    PROVE  Holds(t) /\ Present(t)
<1>1. Present(t) /\ tree[t] \in forest
  BY DEF IInv, Published, Present
<1>2. task[t] \in Live /\ t \notin condemned
  BY DEF IInv, Waiting, Live
<1> QED BY <1>1, <1>2 DEF IInv, Claimed, Holds

\* A step of the task of t, which may end its node and fail the nodes H.
LEMMA RunnerKeeps ==
    ASSUME IInv, NEW t \in Turns, NEW place \in Live \ {"created"},
           NEW H \in SUBSET Turns,
           UNCHANGED <<intake, workflow, repository, graph, active, condemned,
                       overtaken, stopped>>,
           task[t] \in Live, Become(t, place),
           \A u \in H : state[u] = "pending",
           ticket' = Dequeue(H),
           \A u \in Turns \ (H \cup {t}) : state'[u] = state[u],
           \A u \in H : state'[u] = "error",
           \/ state'[t] = state[t]
           \/ {state[t], state'[t]} \cap {"absent", "bare"} = {}
              /\ state'[t] \in {"completed", "error"},
           state' \in [Turns -> {"absent", "pending", "in_progress", "completed",
                                 "error", "bare"}],
           state'[t] = "in_progress" => place = "running",
           \/ stored' = stored
           \/ \E k \in forest : stored' = Saved(k, NodesOf(k))
    PROVE  IInv'
<1>0. /\ task \in [Turns -> Live \cup {"none", "finished"}]
      /\ ticket \in [Turns -> Nat] /\ t \notin H
      /\ active \in [Turns -> Turns \cup {None}] /\ condemned \subseteq Turns
      /\ stopped \subseteq Turns
  BY DEF IInv, TreesTypeOK, Waiting, Live
<1>1. /\ task'[t] = place /\ \A u \in Turns \ {t} : task'[u] = task[u]
      /\ task' \in [Turns -> Live \cup {"none", "finished"}]
      /\ \A u \in Turns : task[u] \in Live <=> task'[u] \in Live
  BY <1>0 DEF Become
<1>2. \A u \in Turns : ticket'[u] = IF u \in H THEN 0 ELSE ticket[u]
  BY DEF Dequeue
<1>3. \A u \in Turns : \/ state'[u] = state[u]
                       \/ {state[u], state'[u]} \cap {"absent", "bare"} = {}
  OBVIOUS
<1>4. /\ Published' /\ Resolved'
      /\ \A u \in Turns : Present(u)' = Present(u)
  BY <1>3, IndexKept DEF intake
<1>5. Grown' /\ Rooted'
  <2>1. \A u \in Turns : task'[u] # task[u] => tree[u] # None
    BY <1>1 DEF IInv, Claimed
  <2> QED BY <2>1, <1>4, GraphKept
<1>6. TreesTypeOK'
  <2>1. ticket' \in [Turns -> Nat]
    BY <1>0 DEF Dequeue
  <2>2. stored' \in SUBSET Turns
    BY DEF IInv, TreesTypeOK, Saved, NodesOf
  <2> QED BY <1>1, <2>1, <2>2 DEF IInv, TreesTypeOK, intake, workflow, repository, graph
<1>7. Claimed'
  BY <1>1, TasksKept
<1>8. Waiting'
  <2>1. ASSUME NEW u \in Turns
        PROVE  /\ ticket'[u] # 0 <=> state'[u] = "pending"
               /\ state'[u] = "pending" => task'[u] = "none" /\ active[tree[u]] # None
               /\ state'[u] = "in_progress" =>
                      task'[u] \in {"created", "running"} /\ u \notin condemned
    <3>1. CASE u \in H
      BY <3>1, <1>2
    <3>2. CASE u = t
      <4>1. state[t] # "pending"
        BY DEF IInv, Waiting, Live
      <4>2. state'[t] # "pending" /\ ticket'[t] = 0
        BY <4>1, <1>0, <1>2 DEF IInv, Waiting
      <4>3. state'[t] = "in_progress" => state[t] = "in_progress"
        OBVIOUS
      <4> QED BY <3>2, <4>2, <4>3, <1>1 DEF IInv, Waiting
    <3>3. CASE u # t /\ u \notin H
      BY <3>3, <1>1, <1>2 DEF IInv, Waiting
    <3> QED BY <3>1, <3>2, <3>3
  <2>2. ASSUME NEW u \in Turns, NEW v \in Turns,
               ticket'[u] # 0, ticket'[u] = ticket'[v], tree[u] = tree[v]
        PROVE  u = v
    BY <2>2, <1>2 DEF IInv, Waiting
  <2> QED BY <2>1, <2>2 DEF Waiting, graph
<1>9. Bounded'
  BY <1>0, <1>2 DEF IInv, Bounded
<1>10. Fenced'
  BY <1>1, FenceKept DEF workflow
<1>11. Reported'
  <2> SUFFICES ASSUME NEW u \in stopped
               PROVE  tree[u] # None /\ state'[u] \notin Runnable /\ task'[u] # "created"
    BY DEF Reported, graph
  <2>1. u \in Turns /\ tree[u] # None /\ state[u] \notin Runnable /\ task[u] # "created"
    BY <1>0 DEF IInv, Reported
  <2>2. state'[u] = state[u] \/ state'[u] \in {"completed", "error"}
    BY <2>1
  <2> QED BY <2>1, <2>2, <1>1 DEF Runnable
<1>12. Stored'
  BY <1>4, StoreKept DEF intake, workflow
<1> QED BY <1>4, <1>5, <1>6, <1>7, <1>8, <1>9, <1>10, <1>11, <1>12 DEF IInv

\* Such a step that leaves the other nodes and the queue alone.
LEMMA RunnerKeepsQueue ==
    ASSUME IInv, NEW t \in Turns, NEW place \in Live \ {"created"},
           UNCHANGED <<intake, workflow, repository, graph, active, condemned,
                       overtaken, stopped, ticket>>,
           task[t] \in Live, Become(t, place),
           \/ state' = state
           \/ state[t] \notin {"absent", "bare"}
              /\ state' = [state EXCEPT ![t] = "completed"],
           state'[t] = "in_progress" => place = "running",
           \/ stored' = stored
           \/ \E k \in forest : stored' = Saved(k, NodesOf(k))
    PROVE  IInv'
<1>1. ticket' = Dequeue({})
  BY DEF IInv, TreesTypeOK, Dequeue
<1>2. /\ \A u \in Turns \ {t} : state'[u] = state[u]
      /\ state' \in [Turns -> {"absent", "pending", "in_progress", "completed",
                               "error", "bare"}]
      /\ \/ state'[t] = state[t]
         \/ {state[t], state'[t]} \cap {"absent", "bare"} = {}
            /\ state'[t] \in {"completed", "error"}
  BY DEF IInv, TreesTypeOK
<1> DEFINE H == {}
<1>3. H \in SUBSET Turns /\ (\A u \in H : state[u] = "pending" /\ state'[u] = "error")
      /\ ticket' = Dequeue(H) /\ \A u \in Turns \ (H \cup {t}) : state'[u] = state[u]
  BY <1>1, <1>2
<1> HIDE DEF H
<1> QED BY <1>2, <1>3, RunnerKeeps

LEMMA EnterKeeps == ASSUME IInv, NEW t \in Turns, Enter(t) PROVE IInv'
<1>1. "running" \in Live \ {"created"} /\ task[t] \in Live
  BY DEF Enter, Live
<1> QED BY <1>1, RunnerKeepsQueue DEF Enter

LEMMA RecordKeeps == ASSUME IInv, NEW t \in Turns, Record(t) PROVE IInv'
<1>1. "running" \in Live \ {"created"} /\ task[t] \in Live
  BY DEF Record, Live
<1>2. Become(t, "running")
  BY DEF Record, scheduling, Become, IInv, TreesTypeOK
<1>3. \E k \in forest : stored' = Saved(k, NodesOf(k))
  BY DEF Record, Holds
<1> QED BY <1>1, <1>2, <1>3, RunnerKeepsQueue DEF Record, scheduling

LEMMA CompleteKeeps == ASSUME IInv, NEW t \in Turns, Complete(t) PROVE IInv'
<1>1. "ending" \in Live \ {"created"} /\ task[t] \in Live
  BY DEF Complete, Live
<1>3. CASE Holds(t) /\ state[t] \in {"in_progress", "error"}
  <2>1. state' = [state EXCEPT ![t] = "completed"]
    BY <1>3 DEF Complete
  <2>2. \E k \in forest : stored' = Saved(k, NodesOf(k))
    BY <1>3 DEF Complete, Holds
  <2>3. state'[t] = "completed"
    BY <2>1 DEF IInv, TreesTypeOK
  <2> QED BY <1>1, <1>3, <2>1, <2>2, <2>3, RunnerKeepsQueue DEF Complete
<1>4. CASE ~(Holds(t) /\ state[t] \in {"in_progress", "error"})
  <2>1. state' = state /\ stored' = stored
    BY <1>4 DEF Complete
  <2>2. state[t] # "in_progress"
    BY <1>4, WorksOn
  <2> QED BY <1>1, <2>1, <2>2, RunnerKeepsQueue DEF Complete
<1> QED BY <1>3, <1>4

LEMMA FailKeeps ==
    ASSUME IInv, NEW t \in Turns, NEW before, NEW after, NEW propagate,
           Fail(t, before, after, propagate),
           <<before, after>> \in {<<"running", "running">>, <<"running", "ending">>,
                                  <<"cancelled", "ending">>}
    PROVE  IInv'
<1> DEFINE H == IF propagate THEN {u \in Below(t) \ {t} : state[u] = "pending"} ELSE {}
<1>1. /\ after \in Live \ {"created"} /\ task[t] \in Live /\ task[t] = before
      /\ Become(t, after) /\ FailClaim(t, propagate)
      /\ UNCHANGED <<intake, workflow, repository, graph, active, condemned,
                     overtaken, stopped>>
  BY DEF Fail, Live
<1>2. state[t] = "in_progress" => before = "running"
  BY <1>1 DEF IInv, Waiting
<1>3. H \in SUBSET Turns /\ \A u \in H : state[u] = "pending" /\ u # t
  BY DEF Below, NodesOf
<1>4. CASE Holds(t) /\ Present(t) /\ state[t] # "completed"
  <2>1. /\ state' = [u \in Turns |->
                       CASE u \in H -> "error"
                         [] u = t /\ state[t] # "bare" -> "error"
                         [] OTHER -> state[u]]
        /\ ticket' = Dequeue(H)
        /\ stored' = Saved(tree[t], NodesOf(tree[t]))
    BY <1>1, <1>4 DEF FailClaim
  <2>2. \E k \in forest : stored' = Saved(k, NodesOf(k))
    BY <1>4, <2>1 DEF Holds
  <2> HIDE DEF H
  <2>3. \A u \in H : state'[u] = "error"
    BY <1>3, <2>1
  <2>4. \A u \in Turns \ (H \cup {t}) : state'[u] = state[u]
    BY <2>1
  <2>5. state'[t] = IF state[t] = "bare" THEN state[t] ELSE "error"
    <3>1. CASE state[t] = "bare"
      BY <3>1, <2>1, <1>3
    <3>2. CASE state[t] # "bare"
      BY <3>2, <2>1, <1>3
    <3> QED BY <3>1, <3>2
  <2>6. state' \in [Turns -> {"absent", "pending", "in_progress", "completed",
                              "error", "bare"}]
    <3>1. \A u \in Turns : state'[u] \in {"absent", "pending", "in_progress",
                                          "completed", "error", "bare"}
      BY <2>3, <2>4, <2>5 DEF IInv, TreesTypeOK
    <3>2. state' = [u \in Turns |-> state'[u]]
      BY <2>1
    <3> QED BY <3>1, <3>2
  <2>7. \/ state'[t] = state[t]
        \/ {state[t], state'[t]} \cap {"absent", "bare"} = {}
           /\ state'[t] \in {"completed", "error"}
    BY <2>5, <1>4 DEF Present
  <2> QED BY <1>1, <1>3, <2>1, <2>2, <2>3, <2>4, <2>5, <2>6, <2>7, RunnerKeeps
<1>5. CASE Holds(t) /\ Present(t) /\ state[t] = "completed"
  <2>1. /\ state' = state /\ ticket' = ticket
        /\ stored' = Saved(tree[t], NodesOf(tree[t]))
    BY <1>1, <1>5 DEF FailClaim
  <2>2. \E k \in forest : stored' = Saved(k, NodesOf(k))
    BY <1>5, <2>1 DEF Holds
  <2> QED BY <1>1, <1>5, <2>1, <2>2, RunnerKeepsQueue
<1>6. CASE ~(Holds(t) /\ Present(t))
  <2>1. state' = state /\ ticket' = ticket /\ stored' = stored
    BY <1>1, <1>6 DEF FailClaim
  <2>2. state[t] # "in_progress"
    BY <1>6, WorksOn
  <2> QED BY <1>1, <2>1, <2>2, RunnerKeepsQueue
<1> QED BY <1>4, <1>5, <1>6

LEMMA FinishKeeps ==
    ASSUME IInv, NEW t \in Turns, task[t] \in {"ending", "killed"}, FinishClaim(t)
    PROVE  IInv'
<1> DEFINE k == tree[t]
<1> DEFINE waiting == {u \in Queue(k) : state[u] = "pending"}
<1> DEFINE next == CHOOSE u \in waiting : \A v \in waiting : ticket[u] <= ticket[v]
<1>n. None \notin Turns
  BY TurnsAssumption
<1>t. /\ task[t] \in Live /\ k \in Turns /\ active[k] = t
      /\ active \in [Turns -> Turns \cup {None}] /\ ticket \in [Turns -> Nat]
      /\ task \in [Turns -> Live \cup {"none", "finished"}]
      /\ tree \in [Turns -> Turns \cup {None}] /\ condemned \subseteq Turns
      /\ state[t] \notin {"pending", "in_progress"}
      /\ UNCHANGED <<intake, workflow, repository, graph, stored,
                     overtaken, stopped>>
      /\ condemned' = condemned \ {t}
  BY DEF IInv, TreesTypeOK, Claimed, Waiting, Live, FinishClaim
<1>q. waiting = Queue(k) /\ waiting \subseteq Turns
  BY DEF Queue, NodesOf, IInv, Waiting
<1>o. \A u \in Turns \ {t} : task[u] \in Live => tree[u] # k
  BY <1>t DEF IInv, Claimed
<1>f. closing # "closed"
  BY <1>t DEF IInv, Fenced
<1>5. CASE waiting = {}
  <2>1. /\ active' = [active EXCEPT ![k] = None]
        /\ ticket' = Dequeue({})
        /\ Become(t, "finished") /\ state' = state
    BY <1>5, <1>t, <1>q DEF FinishClaim
  <2>2. /\ task'[t] = "finished" /\ \A u \in Turns \ {t} : task'[u] = task[u]
        /\ task' \in [Turns -> Live \cup {"none", "finished"}]
        /\ active'[k] = None /\ \A j \in Turns \ {k} : active'[j] = active[j]
        /\ active' \in [Turns -> Turns \cup {None}] /\ ticket' = ticket
    BY <2>1, <1>t DEF Become, Dequeue
  <2>3. Published' /\ Resolved' /\ \A u \in Turns : Present(u)' = Present(u)
    BY <2>1, <1>t, IndexKept DEF intake
  <2>4. Grown' /\ Rooted'
    BY <2>2, <2>3, <1>t, <1>n, GraphKept
  <2>5. Stored'
    BY <2>3, <1>t, StoreKept DEF intake, workflow
  <2>6. TreesTypeOK'
    BY <2>1, <2>2, <1>t DEF IInv, TreesTypeOK, intake, workflow, repository, graph
  <2>7. Claimed'
    <3>1. \A j \in Turns : active'[j] # None =>
              tree[active'[j]] = j /\ task'[active'[j]] \in Live
      <4> TAKE j \in Turns
      <4>1. CASE j = k
        BY <4>1, <2>2
      <4>2. ASSUME j # k, active[j] # None
            PROVE  tree[active[j]] = j /\ task[active[j]] \in Live /\ active[j] \in Turns \ {t}
        BY <4>2, <1>t DEF IInv, Claimed
      <4> QED BY <4>1, <4>2, <2>2
    <3>2. \A u \in Turns : task'[u] \in Live => tree[u] # None /\ active'[tree[u]] = u
      <4> TAKE u \in Turns
      <4>1. CASE u = t
        BY <4>1, <2>2 DEF Live
      <4>2. CASE u # t
        BY <4>2, <2>2, <1>o, <1>t DEF IInv, Claimed
      <4> QED BY <4>1, <4>2
    <3> QED BY <3>1, <3>2, <2>2, <1>t DEF IInv, Claimed, graph
  <2>8. Waiting'
    <3>1. \A u \in Turns : state[u] = "pending" => tree[u] \in Turns \ {k}
      <4> SUFFICES ASSUME NEW u \in Turns, state[u] = "pending"
                   PROVE  tree[u] \in Turns \ {k}
        OBVIOUS
      <4>1. Present(u) /\ ticket[u] # 0 /\ tree[u] \in Turns
        BY DEF IInv, TreesTypeOK, Waiting, Published, Present
      <4>2. u \notin Queue(k)
        BY <1>5
      <4> QED BY <4>1, <4>2 DEF Queue, NodesOf
    <3> QED BY <3>1, <2>1, <2>2, <1>t DEF IInv, Waiting, graph
  <2>9. Bounded' /\ Reported'
    BY <2>1, <2>2, <1>t DEF IInv, TreesTypeOK, Bounded, Reported, graph
  <2>10. Fenced'
    BY <1>f, <1>t, FenceKept DEF workflow
  <2> QED BY <2>3, <2>4, <2>5, <2>6, <2>7, <2>8, <2>9, <2>10 DEF IInv
<1>6. CASE waiting # {}
  <2>0. next \in waiting /\ \A v \in waiting : ticket[next] <= ticket[v]
    <3> HIDE DEF waiting
    <3> QED BY <1>6, <1>q, FirstOf
  <2>1. /\ next \in Turns \ {t} /\ state[next] = "pending" /\ tree[next] = k
        /\ task[next] = "none" /\ k \in forest /\ next \notin condemned
    BY <2>0, <1>t DEF Queue, NodesOf, IInv, Waiting, Published, Claimed, Live
  <2>2. /\ active' = [active EXCEPT ![k] = next]
        /\ state' = [state EXCEPT ![next] = "in_progress"]
        /\ ticket' = Dequeue({u \in Queue(k) : ticket[u] <= ticket[next]})
        /\ task' = [task EXCEPT ![t] = "finished", ![next] = "created"]
    BY <1>6, <1>t, <2>1 DEF FinishClaim
  <2>3. {u \in Queue(k) : ticket[u] <= ticket[next]} = {next}
    <3>1. \A u \in Queue(k) : u \in Turns /\ tree[u] = k /\ ticket[u] # 0
      BY DEF Queue, NodesOf
    <3>2. \A u \in Queue(k) : ticket[u] <= ticket[next] => ticket[u] = ticket[next]
      BY <2>0, <2>1, <3>1, <1>q, <1>t
    <3>3. \A u \in Queue(k) : ticket[u] = ticket[next] => u = next
      BY <2>1, <3>1 DEF IInv, Waiting
    <3> QED BY <2>0, <2>1, <3>2, <3>3, <1>q, <1>t
  <2> HIDE DEF next, waiting
  <2>4. /\ task'[t] = "finished" /\ task'[next] = "created"
        /\ \A u \in Turns \ {t, next} : task'[u] = task[u]
        /\ task' \in [Turns -> Live \cup {"none", "finished"}]
        /\ active'[k] = next /\ \A j \in Turns \ {k} : active'[j] = active[j]
        /\ active' \in [Turns -> Turns \cup {None}]
        /\ ticket'[next] = 0 /\ \A u \in Turns \ {next} : ticket'[u] = ticket[u]
        /\ ticket' \in [Turns -> Nat]
        /\ state'[next] = "in_progress" /\ \A u \in Turns \ {next} : state'[u] = state[u]
    BY <2>1, <2>2, <2>3, <1>t DEF Dequeue, Live, IInv, TreesTypeOK
  <2>5. Published' /\ Resolved' /\ \A u \in Turns : Present(u)' = Present(u)
    <3>1. \A u \in Turns : \/ state'[u] = state[u]
                           \/ {state[u], state'[u]} \cap {"absent", "bare"} = {}
      BY <2>1, <2>4
    <3> QED BY <3>1, <1>t, IndexKept DEF intake
  <2>6. Grown' /\ Rooted'
    <3>1. \A u \in Turns : task'[u] # task[u] => tree[u] # None
      BY <2>1, <2>4, <1>t, <1>n
    <3> QED BY <3>1, <2>5, <1>t, GraphKept
  <2>7. Stored'
    BY <2>5, <1>t, StoreKept DEF intake, workflow
  <2>8. TreesTypeOK'
    BY <2>2, <2>4, <1>t DEF IInv, TreesTypeOK, intake, workflow, repository, graph
  <2>9. Claimed'
    <3>1. \A j \in Turns : active'[j] # None =>
              tree[active'[j]] = j /\ task'[active'[j]] \in Live
      <4> TAKE j \in Turns
      <4>1. CASE j = k
        BY <4>1, <2>1, <2>4 DEF Live
      <4>2. ASSUME j # k, active[j] # None
            PROVE  /\ tree[active[j]] = j /\ task[active[j]] \in Live
                   /\ active[j] \in Turns \ {t, next}
        BY <4>2, <1>t, <2>1 DEF IInv, Claimed
      <4> QED BY <4>1, <4>2, <2>4
    <3>2. \A u \in Turns : task'[u] \in Live => tree[u] # None /\ active'[tree[u]] = u
      <4> TAKE u \in Turns
      <4>1. CASE u = t
        BY <4>1, <2>4 DEF Live
      <4>2. CASE u = next
        BY <4>2, <2>1, <2>4, <1>t, <1>n
      <4>3. CASE u # t /\ u # next
        BY <4>3, <2>4, <1>o, <1>t DEF IInv, Claimed
      <4> QED BY <4>1, <4>2, <4>3
    <3>3. \A u \in condemned' : task'[u] \in Live
      BY <2>1, <2>4, <1>t DEF IInv, Claimed
    <3> QED BY <3>1, <3>2, <3>3, <1>t DEF Claimed, graph
  <2>10. Waiting'
    <3>1. ASSUME NEW u \in Turns
          PROVE  /\ ticket'[u] # 0 <=> state'[u] = "pending"
                 /\ state'[u] = "pending" => task'[u] = "none" /\ active'[tree[u]] # None
                 /\ state'[u] = "in_progress" =>
                        task'[u] \in {"created", "running"} /\ u \notin condemned'
      <4>1. CASE u = next
        BY <4>1, <2>1, <2>4, <1>t
      <4>2. CASE u = t
        BY <4>2, <2>1, <2>4, <1>t DEF IInv, Waiting
      <4>3. CASE u # t /\ u # next
        <5>1. state[u] = "pending" => tree[u] \in Turns
          BY DEF IInv, TreesTypeOK, Published, Present
        <5>2. \A j \in Turns : active[j] # None => active'[j] # None
          BY <2>1, <2>4, <1>n
        <5> QED BY <4>3, <5>1, <5>2, <2>4, <1>t DEF IInv, Waiting
      <4> QED BY <4>1, <4>2, <4>3
    <3>2. ASSUME NEW u \in Turns, NEW v \in Turns,
                 ticket'[u] # 0, ticket'[u] = ticket'[v], tree[u] = tree[v]
          PROVE  u = v
      BY <3>2, <2>4 DEF IInv, Waiting
    <3> QED BY <3>1, <3>2, <1>t DEF Waiting, graph
  <2>11. Bounded'
    BY <2>4, <1>t DEF IInv, Bounded
  <2>12. Fenced'
    BY <1>f, <1>t, FenceKept DEF workflow
  <2>13. Reported'
    <3>1. next \notin stopped
      BY <2>1 DEF IInv, Reported, Runnable
    <3>2. stopped \subseteq Turns
      BY DEF IInv, TreesTypeOK
    <3> QED BY <3>1, <3>2, <2>4, <1>t DEF IInv, Reported, graph
  <2> QED BY <2>5, <2>6, <2>7, <2>8, <2>9, <2>10, <2>11, <2>12, <2>13 DEF IInv
<1> QED BY <1>5, <1>6

-----------------------------------------------------------------------------
(* Commands. *)

\* The claims of some trees are tasks of theirs, and live.
LEMMA ActiveOf ==
    ASSUME IInv, NEW K \in SUBSET Turns
    PROVE  /\ ActiveIn(K) \in SUBSET Turns
           /\ \A t \in ActiveIn(K) : task[t] \in Live /\ tree[t] \in K
           /\ \A t \in Turns : state[t] = "in_progress" /\ tree[t] \in K => t \in ActiveIn(K)
<1>1. \A t \in ActiveIn(K) : \E k \in Turns :
          k \in K /\ t = active[k] /\ active[k] # None
  BY DEF ActiveIn
<1>2. ActiveIn(K) \in SUBSET Turns
  BY <1>1 DEF IInv, TreesTypeOK
<1>3. \A t \in ActiveIn(K) : task[t] \in Live /\ tree[t] \in K
  <2> TAKE t \in ActiveIn(K)
  <2>1. PICK k \in Turns : k \in K /\ t = active[k] /\ active[k] # None
    BY <1>1
  <2> QED BY <2>1 DEF IInv, Claimed
<1>4. \A t \in Turns : state[t] = "in_progress" /\ tree[t] \in K => t \in ActiveIn(K)
  BY WorksOn, TurnsAssumption DEF Holds, ActiveIn
<1> QED BY <1>2, <1>3, <1>4

\* A command that took the lock will save the trees it changed.
LEMMA TakenIsStored ==
    ASSUME IInv, LockFree, NEW K \in SUBSET forest,
           command' = [kind |-> "trees", of |-> K],
           UNCHANGED <<message, graph, aborted, stored>>,
           \A t \in Turns : Present(t)' => Present(t),
           \A t \in Turns : Present(t) /\ ~Present(t)' => tree[t] \in K
    PROVE  Stored'
<1>1. \A k : SameIdentity(k)' = SameIdentity(k) /\ SameIdentity(k) \subseteq Turns
  BY DEF SameIdentity, graph
<1>2. command'.kind = "trees" /\ command'.of = K
  OBVIOUS
<1>3. Rewritten' = UNION {SameIdentity(k) : k \in K}
  BY <1>1, <1>2 DEF Rewritten
<1>4. \A k \in K : NodesOf(k) = {t \in SameIdentity(k) : Present(t)}
  BY OneIdentity
<1>5. \A k \in K : NodesOf(k)' = {t \in SameIdentity(k)' : Present(t)'}
  BY <1>1, <1>4 DEF NodesOf, graph
<1>6. \A k \in K : tree'[k] = k
  BY DEF IInv, Published, graph
<1>7. ~aborted => \A t \in Turns : t \in stored <=> Present(t)
  BY DEF IInv, Stored, LockFree, Unlocked, Rewritten
<1>8. ~aborted' => \A t \in Turns \ Rewritten' : t \in stored' <=> Present(t)'
  <2> SUFFICES ASSUME ~aborted, NEW t \in Turns \ Rewritten'
               PROVE  Present(t) => Present(t)'
    BY <1>7
  <2>1. tree[t] \in K /\ Present(t) => t \in NodesOf(tree[t])
    BY DEF NodesOf
  <2> QED BY <2>1, <1>3, <1>4
<1> QED BY <1>2, <1>5, <1>6, <1>8 DEF Stored

\* Trees that leave the repository with all their nodes.
LEMMA DetachKeeps ==
    ASSUME IInv, NEW K \in SUBSET forest, Detach(K), UNCHANGED <<message, graph>>,
           \A t \in Turns : state'[t] = IF tree[t] \in K /\ Present(t) THEN "absent"
                                        ELSE state[t]
    PROVE  /\ Published' /\ Resolved'
           /\ forest' \in SUBSET Turns /\ index' \in [Refs -> forest' \cup {None}]
           /\ \A t \in Turns : Present(t)' <=> Present(t) /\ tree[t] \notin K
<1>0. /\ forest \in SUBSET Turns /\ index \in [Refs -> forest \cup {None}]
      /\ None \notin Turns /\ forest' = forest \ K
      /\ \A r \in Refs : index'[r] = IF index[r] \in K THEN None ELSE index[r]
      /\ DOMAIN index' = Refs /\ index' = [r \in Refs |-> index'[r]]
  BY TurnsAssumption DEF IInv, TreesTypeOK, Detach
<1>1. \A t \in Turns : Present(t)' <=> Present(t) /\ tree[t] \notin K
  BY DEF Present
<1>2. index' \in [Refs -> forest' \cup {None}]
  BY <1>0
<1>3. Published'
  BY <1>0, <1>1 DEF IInv, Published, graph
<1>4. \A t \in Turns : RefsOf(t)' = IF tree[t] \in K THEN {} ELSE RefsOf(t)
  <2> TAKE t \in Turns
  <2>1. CASE tree[t] \in K
    <3>1. state'[t] = "absent"
      BY <2>1 DEF Present
    <3> QED BY <2>1, <3>1, RefsGone
  <2>2. CASE tree[t] \notin K
    BY <2>2, RefsKept
  <2> QED BY <2>1, <2>2
<1>5. Resolved'
  <2>1. \A t \in Turns : \A r \in RefsOf(t)' : index'[r] = tree'[t]
    <3> TAKE t \in Turns
    <3>1. \A r \in RefsOf(t) : r \in Refs /\ index[r] = tree[t]
      BY RefsAre DEF IInv, Resolved
    <3> QED BY <3>1, <1>0, <1>4 DEF graph
  <2>2. \A r \in Refs : index'[r] # None => \E t \in Turns : r \in RefsOf(t)'
    <3> SUFFICES ASSUME NEW r \in Refs, index'[r] # None
                 PROVE  \E t \in Turns : r \in RefsOf(t)'
      OBVIOUS
    <3>1. index[r] # None /\ index[r] \notin K
      BY <1>0
    <3>2. PICK t \in Turns : r \in RefsOf(t)
      BY <3>1 DEF IInv, Resolved
    <3>3. tree[t] = index[r]
      BY <3>2 DEF IInv, Resolved
    <3> QED BY <3>1, <3>2, <3>3, <1>4
  <2>3. \A t, u \in Turns : \A r \in RefsOf(t)' \cap RefsOf(u)' : t = u
    BY <1>4 DEF IInv, Resolved
  <2> QED BY <2>1, <2>2, <2>3 DEF Resolved
<1> QED BY <1>0, <1>1, <1>2, <1>3, <1>5

\* What is errored is still there.
LEMMA ErroredIs ==
    ASSUME IInv, NEW A \in SUBSET Turns, state' = Errored(RunnableIn(A))
    PROVE  /\ \A t \in Turns \ A : state'[t] = state[t]
           /\ \A t \in A : state'[t] \notin Runnable
           /\ \A t \in Turns : \/ state'[t] = state[t]
                               \/ {state[t], state'[t]} \cap {"absent", "bare"} = {}
           /\ state' \in [Turns -> {"absent", "pending", "in_progress", "completed",
                                    "error", "bare"}]
  BY DEF Errored, RunnableIn, Runnable, IInv, TreesTypeOK

LEMMA StopReplyKeeps == ASSUME IInv, NEW r \in Refs, StopReply(r) PROVE IInv'
<1> DEFINE n == NodeAt(r)
<1> DEFINE A == {n}
<1> DEFINE C == {n} \cap ActiveIn({tree[n]})
<1>1. /\ index[r] \in forest /\ index[r] \in Turns /\ n \in Turns
      /\ tree[n] = index[r]
  BY NodeIsAt DEF StopReply
<1>2. /\ LockFree /\ Issue
      /\ condemned' = condemned \cup C /\ task' = Interrupt(C) /\ ticket' = Dequeue(A)
      /\ state' = Errored(RunnableIn(A)) /\ active' = active
      /\ stopped' = stopped \cup RunnableIn(A) \cup {t \in C : state[t] = "error"}
      /\ command' = [kind |-> "trees", of |-> {index[r]}]
      /\ UNCHANGED <<intake, generations, closing, aborted, repository, graph,
                     stored, overtaken>>
  BY DEF StopReply, CancelNode
<1>3. /\ A \in SUBSET Turns /\ C \in SUBSET Turns
      /\ \A t \in C : task[t] \in Live
      /\ \A t \in A : state[t] = "in_progress" => t \in C
  BY <1>1, ActiveOf
<1> HIDE DEF A, C, n
<1>4. /\ \A t \in Turns \ A : state'[t] = state[t]
      /\ \A t \in A : state'[t] \notin Runnable
      /\ \A t \in Turns : \/ state'[t] = state[t]
                          \/ {state[t], state'[t]} \cap {"absent", "bare"} = {}
      /\ state' \in [Turns -> {"absent", "pending", "in_progress", "completed",
                               "error", "bare"}]
  BY <1>2, <1>3, ErroredIs
<1>5. /\ Claimed' /\ Waiting' /\ Bounded' /\ Reported'
      /\ ticket' \in [Turns -> Nat]
      /\ task' \in [Turns -> Live \cup {"none", "finished"}]
      /\ \A t \in Turns : task'[t] \in Live <=> task[t] \in Live
      /\ \A t \in Turns : task'[t] # task[t] => tree[t] # None
  <2>1. C \subseteq A
    BY DEF A, C
  <2> QED BY <1>2, <1>3, <1>4, <2>1, CancelKeeps
<1>6. Published' /\ Resolved' /\ \A t \in Turns : Present(t)' = Present(t)
  BY <1>2, <1>4, IndexKept DEF intake
<1>7. Grown' /\ Rooted'
  BY <1>2, <1>5, <1>6, GraphKept
<1>8. Stored'
  <2> DEFINE K == {index[r]}
  <2>1. K \in SUBSET forest
    BY <1>1
  <2>2. command' = [kind |-> "trees", of |-> K]
    BY <1>2
  <2> HIDE DEF K
  <2> QED BY <1>2, <1>6, <2>1, <2>2, TakenIsStored DEF intake
<1>9. Fenced'
  BY <1>2, <1>5, FenceKept
<1>10. TreesTypeOK'
  <2>1. stopped' \subseteq Turns /\ condemned' \subseteq Turns
    BY <1>2, <1>3 DEF IInv, TreesTypeOK, RunnableIn
  <2>2. commands' \in Nat
    BY <1>2 DEF IInv, TreesTypeOK, Issue
  <2>3. command' \in [kind : {"none", "trees", "chat"}, of : SUBSET Turns]
    BY <1>1, <1>2
  <2> QED BY <1>2, <1>4, <1>5, <2>1, <2>2, <2>3
          DEF IInv, TreesTypeOK, intake, repository, graph
<1> QED BY <1>5, <1>6, <1>7, <1>8, <1>9, <1>10 DEF IInv

\* The nodes and the claims of some published trees.
LEMMA TreesHave ==
    ASSUME IInv, NEW K \in SUBSET forest
    PROVE  LET A == UNION {NodesOf(k) : k \in K} IN
           /\ A \in SUBSET Turns /\ ActiveIn(K) \in SUBSET Turns
           /\ \A t \in Turns : t \in A <=> Present(t) /\ tree[t] \in K
           /\ \A t \in ActiveIn(K) : task[t] \in Live
           /\ \A t \in A : state[t] = "in_progress" => t \in ActiveIn(K)
           /\ \A t \in ActiveIn(K) \ A : state[t] = "absent"
<1> DEFINE A == UNION {NodesOf(k) : k \in K}
<1>1. K \in SUBSET Turns
  BY DEF IInv, TreesTypeOK
<1>2. \A t \in Turns : t \in A <=> Present(t) /\ tree[t] \in K
  BY DEF NodesOf
<1>3. A \in SUBSET Turns
  BY DEF NodesOf
<1> HIDE DEF A
<1>4. /\ ActiveIn(K) \in SUBSET Turns
      /\ \A t \in ActiveIn(K) : task[t] \in Live
      /\ \A t \in A : state[t] = "in_progress" => t \in ActiveIn(K)
      /\ \A t \in ActiveIn(K) \ A : state[t] = "absent"
  BY <1>1, <1>2, <1>3, ActiveOf DEF Present
<1> QED BY <1>2, <1>3, <1>4 DEF A

\* The next generation is behind that of every turn in flight.
LEMMA NextGeneration ==
    ASSUME IInv, UNCHANGED <<intake>>,
           \/ generations' = [generations EXCEPT ![1] = @ + 1]
           \/ generations' = [generations EXCEPT ![2] = @ + 1],
           Overtake, closing' # "closed"
    PROVE  /\ Fenced' /\ generations' \in Nat \X Nat /\ overtaken' \in SUBSET Turns
<1>1. generations \in Nat \X Nat /\ token \in [Turns -> Nat \X Nat] /\ overtaken \in SUBSET Turns
  BY DEF IInv, TreesTypeOK
<1>2. /\ generations' \in Nat \X Nat
      /\ \/ generations'[1] = generations[1] + 1 /\ generations'[2] = generations[2]
         \/ generations'[2] = generations[2] + 1 /\ generations'[1] = generations[1]
  BY <1>1
<1>3. \A t \in Turns : arrival[t] = "sending" =>
          /\ token[t][1] <= generations[1] /\ token[t][2] <= generations[2]
          /\ token[t] \in Nat \X Nat
  BY <1>1 DEF IInv, Fenced, Behind
<1>4. \A t \in Turns : arrival[t] = "sending" => Behind(token[t])' /\ token[t] # generations'
  <2> SUFFICES ASSUME NEW t \in Turns, arrival[t] = "sending"
               PROVE  Behind(token[t])' /\ token[t] # generations'
    OBVIOUS
  <2>1. /\ token[t][1] \in Nat /\ token[t][2] \in Nat
        /\ generations[1] \in Nat /\ generations[2] \in Nat
    BY <1>1
  <2>2. token'[t] = token[t]
    BY DEF intake
  <2> QED BY <1>2, <1>3, <2>1, <2>2 DEF Behind
<1>5. /\ \A t \in overtaken' : t \in Turns /\ arrival[t] = "sending"
      /\ overtaken' \in SUBSET Turns
  BY <1>1 DEF Overtake, IInv, Fenced
<1> QED BY <1>2, <1>4, <1>5 DEF Fenced, intake

LEMMA StopAllKeeps ==
    ASSUME IInv, StopAll, closing' \in {closing, "closing", "joining"}
    PROVE  IInv'
<1>1. PICK K \in SUBSET forest :
        /\ CancelTrees(K)
        /\ state' = Errored(RunnableIn(UNION {NodesOf(k) : k \in K}))
        /\ \/ command' = [kind |-> "trees", of |-> K] /\ aborted' = aborted
           \/ command' = command /\ aborted' = TRUE
  <2>1. CASE Stuck = {}
    BY <2>1 DEF StopAll
  <2>2. CASE Stuck # {}
    BY <2>2 DEF StopAll
  <2> QED BY <2>1, <2>2
<1> DEFINE A == UNION {NodesOf(k) : k \in K}
<1> DEFINE C == ActiveIn(K)
<1>2. /\ LockFree /\ closing \in {"no", "closing"}
      /\ generations' = [generations EXCEPT ![1] = @ + 1] /\ Overtake
      /\ condemned' = condemned \cup C /\ task' = Interrupt(C) /\ ticket' = Dequeue(A)
      /\ state' = Errored(RunnableIn(A)) /\ active' = active
      /\ stopped' = stopped \cup RunnableIn(A) \cup {t \in C : state[t] = "error"}
      /\ UNCHANGED <<intake, commands, repository, graph, stored>>
  BY <1>1 DEF StopAll, CancelTrees
<1>3. /\ A \in SUBSET Turns /\ C \in SUBSET Turns
      /\ \A t \in C : task[t] \in Live
      /\ \A t \in A : state[t] = "in_progress" => t \in C
      /\ \A t \in C \ A : state[t] = "absent"
  BY TreesHave
<1> HIDE DEF A, C
<1>4. /\ \A t \in Turns \ A : state'[t] = state[t]
      /\ \A t \in A : state'[t] \notin Runnable
      /\ \A t \in Turns : \/ state'[t] = state[t]
                          \/ {state[t], state'[t]} \cap {"absent", "bare"} = {}
      /\ state' \in [Turns -> {"absent", "pending", "in_progress", "completed",
                               "error", "bare"}]
  BY <1>2, <1>3, ErroredIs
<1>5. /\ Claimed' /\ Waiting' /\ Bounded' /\ Reported'
      /\ ticket' \in [Turns -> Nat]
      /\ task' \in [Turns -> Live \cup {"none", "finished"}]
      /\ \A t \in Turns : task'[t] # task[t] => tree[t] # None
  <2>1. \A t \in A \cup C : state'[t] \notin Runnable
    BY <1>3, <1>4 DEF Runnable
  <2> QED BY <1>2, <1>3, <1>4, <2>1, CancelKeeps
<1>6. Published' /\ Resolved' /\ \A t \in Turns : Present(t)' = Present(t)
  BY <1>2, <1>4, IndexKept DEF intake
<1>7. Grown' /\ Rooted'
  BY <1>2, <1>5, <1>6, GraphKept
<1>8. Stored'
  <2>1. CASE command' = command /\ aborted' = TRUE
    <3>1. command'.kind = "none" /\ command'.of = {}
      BY <2>1, <1>2 DEF LockFree, Unlocked
    <3> QED BY <2>1, <3>1 DEF Stored
  <2>2. CASE command' = [kind |-> "trees", of |-> K] /\ aborted' = aborted
    BY <1>2, <1>6, <2>2, TakenIsStored DEF intake
  <2> QED BY <1>1, <2>1, <2>2
<1>9. Fenced' /\ generations' \in Nat \X Nat /\ overtaken' \in SUBSET Turns
  BY <1>2, NextGeneration
<1>10. TreesTypeOK'
  <2>1. stopped' \subseteq Turns /\ condemned' \subseteq Turns
    BY <1>2, <1>3 DEF IInv, TreesTypeOK, RunnableIn
  <2>2. /\ command' \in [kind : {"none", "trees", "chat"}, of : SUBSET Turns]
        /\ aborted' \in BOOLEAN
    <3>1. K \in SUBSET Turns /\ aborted \in BOOLEAN
          /\ command \in [kind : {"none", "trees", "chat"}, of : SUBSET Turns]
      BY DEF IInv, TreesTypeOK
    <3>2. [kind |-> "trees", of |-> K] \in [kind : {"none", "trees", "chat"}, of : SUBSET Turns]
      BY <3>1
    <3> QED BY <1>1, <3>1, <3>2
  <2>3. closing' \in {"no", "closing", "joining", "closed"}
    BY DEF IInv, TreesTypeOK
  <2> QED BY <1>2, <1>4, <1>5, <1>9, <2>1, <2>2, <2>3
          DEF IInv, TreesTypeOK, intake, repository, graph
<1> QED BY <1>5, <1>6, <1>7, <1>8, <1>9, <1>10 DEF IInv

LEMMA ClearChatKeeps == ASSUME IInv, ClearChat PROVE IInv'
<1>1. PICK K \in SUBSET forest :
        /\ CancelTrees(K) /\ Detach(K)
        /\ state' = [t \in Turns |-> IF t \in UNION {NodesOf(k) : k \in K}
                                     THEN "absent" ELSE state[t]]
        /\ \/ /\ K = forest /\ command' = [kind |-> "chat", of |-> {}]
              /\ aborted' = aborted /\ stored' = stored
           \/ aborted' = TRUE /\ stored' = {} /\ command' = command
  BY DEF ClearChat
<1> DEFINE A == UNION {NodesOf(k) : k \in K}
<1> DEFINE C == ActiveIn(K)
<1>2. /\ LockFree /\ Issue
      /\ generations' = [generations EXCEPT ![2] = @ + 1] /\ Overtake
      /\ condemned' = condemned \cup C /\ task' = Interrupt(C) /\ ticket' = Dequeue(A)
      /\ active' = active
      /\ stopped' = stopped \cup RunnableIn(A) \cup {t \in C : state[t] = "error"}
      /\ UNCHANGED <<intake, closing, graph>>
  BY <1>1 DEF ClearChat, CancelTrees
<1>3. /\ A \in SUBSET Turns /\ C \in SUBSET Turns
      /\ \A t \in C : task[t] \in Live
      /\ \A t \in A : state[t] = "in_progress" => t \in C
      /\ \A t \in C \ A : state[t] = "absent"
      /\ \A t \in Turns : t \in A <=> Present(t) /\ tree[t] \in K
  BY TreesHave
<1>s. state' = [t \in Turns |-> IF t \in A THEN "absent" ELSE state[t]]
  BY <1>1
<1> HIDE DEF A, C
<1>4. /\ \A t \in Turns : state'[t] = IF t \in A THEN "absent" ELSE state[t]
      /\ state' \in [Turns -> {"absent", "pending", "in_progress", "completed",
                               "error", "bare"}]
  BY <1>s DEF IInv, TreesTypeOK
<1>5. /\ Claimed' /\ Waiting' /\ Bounded' /\ Reported'
      /\ ticket' \in [Turns -> Nat]
      /\ task' \in [Turns -> Live \cup {"none", "finished"}]
      /\ \A t \in Turns : task'[t] # task[t] => tree[t] # None
  <2>1. \A t \in A \cup C : state'[t] \notin Runnable
    BY <1>3, <1>4 DEF Runnable
  <2>2. \A t \in Turns \ A : state'[t] = state[t]
    BY <1>4
  <2> QED BY <1>2, <1>3, <2>1, <2>2, CancelKeeps
<1>6. /\ Published' /\ Resolved'
      /\ forest' \in SUBSET Turns /\ index' \in [Refs -> forest' \cup {None}]
      /\ \A t \in Turns : Present(t)' <=> Present(t) /\ tree[t] \notin K
  <2>1. \A t \in Turns : state'[t] = IF tree[t] \in K /\ Present(t) THEN "absent"
                                     ELSE state[t]
    BY <1>3, <1>4
  <2> QED BY <1>1, <1>2, <2>1, DetachKeeps DEF intake
<1>7. Grown' /\ Rooted'
  BY <1>2, <1>5, <1>6, GraphKept
<1>8. Stored'
  <2>1. CASE command' = command /\ aborted' = TRUE
    <3>1. command'.kind = "none" /\ command'.of = {}
      BY <2>1, <1>2 DEF LockFree, Unlocked
    <3> QED BY <2>1, <3>1 DEF Stored
  <2>2. CASE K = forest /\ command' = [kind |-> "chat", of |-> {}]
    <3>1. \A t \in Turns : ~Present(t)'
      BY <2>2, <1>6 DEF IInv, Published
    <3>2. command'.kind = "chat" /\ command'.of = {}
      BY <2>2
    <3> QED BY <3>1, <3>2 DEF Stored
  <2> QED BY <1>1, <2>1, <2>2
<1>9. Fenced' /\ generations' \in Nat \X Nat /\ overtaken' \in SUBSET Turns
  <2>1. closing' # "closed"
    BY <1>2 DEF Issue
  <2> QED BY <1>2, <2>1, NextGeneration
<1>10. TreesTypeOK'
  <2>1. stopped' \subseteq Turns /\ condemned' \subseteq Turns
    BY <1>2, <1>3 DEF IInv, TreesTypeOK, RunnableIn
  <2>2. /\ command' \in [kind : {"none", "trees", "chat"}, of : SUBSET Turns]
        /\ aborted' \in BOOLEAN /\ stored' \in SUBSET Turns
    <3>1. /\ stored \in SUBSET Turns /\ aborted \in BOOLEAN
          /\ command \in [kind : {"none", "trees", "chat"}, of : SUBSET Turns]
      BY DEF IInv, TreesTypeOK
    <3>2. [kind |-> "chat", of |-> {}] \in [kind : {"none", "trees", "chat"}, of : SUBSET Turns]
      OBVIOUS
    <3> QED BY <1>1, <3>1, <3>2
  <2>3. commands' \in Nat
    BY <1>2 DEF IInv, TreesTypeOK, Issue
  <2> QED BY <1>2, <1>4, <1>5, <1>6, <1>9, <2>1, <2>2, <2>3
          DEF IInv, TreesTypeOK, intake, graph
<1> QED BY <1>5, <1>6, <1>7, <1>8, <1>9, <1>10 DEF IInv

LEMMA ClearReplyKeeps == ASSUME IInv, NEW r \in Refs, ClearReply(r) PROVE IInv'
<1> DEFINE k == index[r]
<1> DEFINE n == NodeAt(r)
<1> DEFINE gone == Subtree(r)
<1> DEFINE A == gone \cup {n}
<1> DEFINE C == A \cap ActiveIn({k})
<1>1. /\ r \in Indexed /\ k \in forest /\ k \in Turns /\ n \in Turns
      /\ tree[n] = k /\ Present(n) /\ r \in RefsOf(n)
      /\ gone \subseteq NodesOf(k)
      /\ k \in gone => NodesOf(k) \subseteq gone
      /\ n \in gone \/ r = Status(n)
  BY NodeIsAt, SubtreeIs DEF ClearReply
<1>2. /\ LockFree /\ Issue
      /\ condemned' = condemned \cup C /\ task' = Interrupt(C) /\ ticket' = Dequeue(A)
      /\ stopped' = stopped \cup RunnableIn(A) \cup {t \in C : state[t] = "error"}
      /\ state' = [t \in Turns |->
                     CASE t \in gone -> "absent"
                       [] t = n /\ n \notin gone -> "bare"
                       [] OTHER -> state[t]]
      /\ IF k \in gone
         THEN Detach({k})
         ELSE /\ index' = [q \in Refs |->
                             IF q = r \/ \E t \in gone : q \in RefsOf(t)
                             THEN None ELSE index[q]]
              /\ UNCHANGED forest
      /\ command' = [kind |-> "trees", of |-> {k}]
      /\ UNCHANGED <<intake, generations, closing, aborted, active,
                     graph, stored, overtaken>>
  BY DEF ClearReply
<1>3. /\ A \in SUBSET Turns /\ C \in SUBSET Turns /\ gone \subseteq Turns
      /\ \A t \in gone : Present(t) /\ tree[t] = k
      /\ \A t \in C : task[t] \in Live
      /\ \A t \in A : state[t] = "in_progress" => t \in C
  <2>1. gone \subseteq Turns /\ \A t \in gone : Present(t) /\ tree[t] = k
    BY <1>1 DEF NodesOf
  <2> QED BY <1>1, <2>1, ActiveOf
<1>a. C \subseteq A /\ n \in A /\ gone \subseteq A /\ A \subseteq gone \cup {n}
  OBVIOUS
<1> HIDE DEF A, C, n, gone
<1>4. /\ \A t \in Turns : state'[t] = IF t \in gone THEN "absent"
                                      ELSE IF t = n THEN "bare" ELSE state[t]
      /\ state' \in [Turns -> {"absent", "pending", "in_progress", "completed",
                               "error", "bare"}]
  <2>1. ASSUME NEW t \in Turns
        PROVE  state'[t] = IF t \in gone THEN "absent"
                           ELSE IF t = n THEN "bare" ELSE state[t]
    <3>1. CASE t \in gone
      BY <3>1, <1>2
    <3>2. CASE t \notin gone /\ t = n
      BY <3>2, <1>2
    <3>3. CASE t \notin gone /\ t # n
      BY <3>3, <1>2
    <3> QED BY <3>1, <3>2, <3>3
  <2>2. state' = [t \in Turns |-> state'[t]]
    BY <1>2
  <2>3. \A t \in Turns : state'[t] \in {"absent", "pending", "in_progress",
                                        "completed", "error", "bare"}
    BY <2>1 DEF IInv, TreesTypeOK
  <2> QED BY <2>1, <2>2, <2>3
<1>5. /\ Claimed' /\ Waiting' /\ Bounded' /\ Reported'
      /\ ticket' \in [Turns -> Nat]
      /\ task' \in [Turns -> Live \cup {"none", "finished"}]
      /\ \A t \in Turns : task'[t] \in Live <=> task[t] \in Live
      /\ \A t \in Turns : task'[t] # task[t] => tree[t] # None
  <2>1. \A t \in A \cup C : state'[t] \notin Runnable
    BY <1>3, <1>4, <1>a DEF Runnable
  <2>2. \A t \in Turns \ A : state'[t] = state[t]
    BY <1>4, <1>a
  <2> QED BY <1>2, <1>3, <2>1, <2>2, CancelKeeps
<1>6. \A t \in Turns : Present(t)' <=> Present(t) /\ t \notin gone
  BY <1>1, <1>4 DEF Present
<1>7. Grown' /\ Rooted'
  BY <1>2, <1>5, <1>6, GraphKept
<1>8. /\ Published' /\ Resolved'
      /\ forest' \in SUBSET Turns /\ index' \in [Refs -> forest' \cup {None}]
  <2>1. CASE k \in gone
    <3> DEFINE K == {k}
    <3>1. \A t \in Turns : t \in gone <=> Present(t) /\ tree[t] \in K
      BY <1>1, <1>3, <2>1 DEF NodesOf
    <3>2. \A t \in Turns : state'[t] = IF tree[t] \in K /\ Present(t) THEN "absent"
                                       ELSE state[t]
      BY <1>1, <1>4, <3>1
    <3>3. K \in SUBSET forest /\ Detach(K)
      BY <1>1, <1>2, <2>1
    <3> HIDE DEF K
    <3> QED BY <1>2, <3>2, <3>3, DetachKeeps DEF intake
  <2>2. CASE k \notin gone
    <3>0. /\ forest' = forest /\ forest \in SUBSET Turns
          /\ index \in [Refs -> forest \cup {None}]
          /\ index' = [q \in Refs |->
                         IF q = r \/ \E t \in gone : q \in RefsOf(t)
                         THEN None ELSE index[q]]
      BY <1>2, <2>2 DEF IInv, TreesTypeOK
    <3>1. index' \in [Refs -> forest' \cup {None}]
      BY <3>0
    <3>2. Published'
      <4>1. \A t \in Turns : Present(t)' => tree[t] \in forest
        BY <1>6 DEF IInv, Published
      <4>2. \A j \in forest : tree[j] = j /\ Present(j)'
        BY <1>3, <1>6, <2>2, <3>0 DEF IInv, Published
      <4> QED BY <4>1, <4>2, <3>0, <1>2 DEF Published, graph
    <3>3. ASSUME NEW t \in Turns
          PROVE  RefsOf(t)' = {q \in RefsOf(t) : q # r /\ \A u \in gone : q \notin RefsOf(u)}
      <4>1. \A u \in Turns : \A q \in RefsOf(t) \cap RefsOf(u) : t = u
        BY DEF IInv, Resolved
      <4>2. CASE t \in gone
        <5>1. RefsOf(t)' = {}
          BY <4>2, <1>4, RefsGone
        <5> QED BY <4>2, <5>1
      <4>3. CASE t \notin gone /\ t = n
        <5>1. r = Status(t) /\ state'[t] = "bare" /\ Present(t) /\ message'[t] = message[t]
          BY <4>3, <1>1, <1>2, <1>4 DEF intake
        <5>2. RefsOf(t)' = {Prompt(message[t])}
          BY <5>1, RefsBared
        <5>3. \A q \in RefsOf(t) : q = Prompt(message[t]) \/ q = Status(t)
          BY RefsAre DEF IInv
        <5>4. Prompt(message[t]) \in RefsOf(t) /\ Prompt(message[t]) # Status(t)
          BY <5>1, RefsAre DEF IInv, Prompt, Status
        <5>5. \A q : q \in RefsOf(t) /\ q # r <=> q = Prompt(message[t])
          BY <5>1, <5>3, <5>4
        <5>6. \A q \in RefsOf(t) : \A u \in gone : q \notin RefsOf(u)
          BY <4>1, <4>3, <1>3
        <5> QED BY <5>2, <5>5, <5>6
      <4>4. CASE t \notin gone /\ t # n
        <5>1. RefsOf(t)' = RefsOf(t)
          <6>1. state'[t] = state[t] /\ message'[t] = message[t]
            BY <4>4, <1>2, <1>4 DEF intake
          <6> QED BY <6>1, RefsKept
        <5>2. r \notin RefsOf(t)
          BY <4>1, <4>4, <1>1
        <5> QED BY <4>1, <4>4, <5>1, <5>2, <1>3
      <4> QED BY <4>2, <4>3, <4>4
    <3>4. \A t \in Turns : \A q \in RefsOf(t)' : index'[q] = tree'[t]
      <4> SUFFICES ASSUME NEW t \in Turns, NEW q \in RefsOf(t)'
                   PROVE  index'[q] = tree'[t]
        OBVIOUS
      <4>1. q \in RefsOf(t) /\ q # r /\ \A u \in gone : q \notin RefsOf(u)
        BY <3>3
      <4>2. q \in Refs /\ index[q] = tree[t]
        BY <4>1, RefsAre DEF IInv, Resolved
      <4> QED BY <4>1, <4>2, <3>0, <1>2 DEF graph
    <3>5. \A q \in Refs : index'[q] # None => \E t \in Turns : q \in RefsOf(t)'
      <4> SUFFICES ASSUME NEW q \in Refs, index'[q] # None
                   PROVE  \E t \in Turns : q \in RefsOf(t)'
        OBVIOUS
      <4>1. index[q] # None /\ q # r /\ \A u \in gone : q \notin RefsOf(u)
        BY <3>0
      <4>2. PICK t \in Turns : q \in RefsOf(t)
        BY <4>1 DEF IInv, Resolved
      <4> QED BY <4>1, <4>2, <3>3
    <3>6. \A t, u \in Turns : \A q \in RefsOf(t)' \cap RefsOf(u)' : t = u
      BY <3>3 DEF IInv, Resolved
    <3> QED BY <3>0, <3>1, <3>2, <3>4, <3>5, <3>6 DEF Resolved
  <2> QED BY <2>1, <2>2
<1>9. Stored'
  <2> DEFINE K == {k}
  <2>1. /\ K \in SUBSET forest
        /\ \A t \in Turns : Present(t)' => Present(t)
        /\ \A t \in Turns : Present(t) /\ ~Present(t)' => tree[t] \in K
    BY <1>1, <1>3, <1>6
  <2>2. command' = [kind |-> "trees", of |-> K]
    BY <1>2
  <2> HIDE DEF K
  <2> QED BY <1>2, <2>1, <2>2, TakenIsStored DEF intake
<1>10. Fenced'
  BY <1>2, <1>5, FenceKept
<1>11. TreesTypeOK'
  <2>1. stopped' \subseteq Turns /\ condemned' \subseteq Turns
    BY <1>2, <1>3 DEF IInv, TreesTypeOK, RunnableIn
  <2>2. commands' \in Nat
    BY <1>2 DEF IInv, TreesTypeOK, Issue
  <2>3. command' \in [kind : {"none", "trees", "chat"}, of : SUBSET Turns]
    BY <1>1, <1>2
  <2> QED BY <1>2, <1>4, <1>5, <1>8, <2>1, <2>2, <2>3 DEF IInv, TreesTypeOK, intake, graph
<1> QED BY <1>5, <1>7, <1>8, <1>9, <1>10, <1>11 DEF IInv

LEMMA ClearReplyRaisesKeeps ==
    ASSUME IInv, NEW r \in Refs, ClearReplyRaises(r) PROVE IInv'
<1> DEFINE k == index[r]
<1> DEFINE n == NodeAt(r)
<1> DEFINE affected == Subtree(r) \cup {n}
<1> DEFINE claimed == affected \cap ActiveIn({k})
<1>1. /\ k \in Turns /\ n \in Turns /\ tree[n] = k
      /\ Subtree(r) \subseteq NodesOf(k)
  BY NodeIsAt, SubtreeIs DEF ClearReplyRaises
<1>2. PICK S \in SUBSET (affected \ claimed) :
        ticket' = Dequeue(S \cup claimed) /\ state' = Errored(RunnableIn(S))
  BY DEF ClearReplyRaises
<1> DEFINE A == S \cup claimed
<1> DEFINE C == {}
<1>3. /\ LockFree /\ Issue /\ aborted' = TRUE
      /\ \E t \in claimed : Unnameable(t)
      /\ UNCHANGED <<intake, generations, command, closing, repository, graph,
                     active, condemned, task, stored, overtaken, stopped>>
  BY DEF ClearReplyRaises
<1>4. PICK b \in claimed : state[b] = "bare"
  BY <1>3 DEF Unnameable
<1>5. \A t \in ActiveIn({k}) : t = active[k]
  BY DEF ActiveIn
<1>6. affected \in SUBSET Turns /\ \A t \in affected : tree[t] = k
  BY <1>1 DEF NodesOf
<1>7. claimed = {b}
  BY <1>4, <1>5
<1>8. \A t \in affected : state[t] # "in_progress"
  <2> SUFFICES ASSUME NEW t \in affected, state[t] = "in_progress" PROVE FALSE
    OBVIOUS
  <2>1. t \in claimed
    <3>1. {k} \in SUBSET Turns /\ tree[t] \in {k} /\ t \in Turns
      BY <1>1, <1>6
    <3> QED BY <3>1, ActiveOf
  <2> QED BY <2>1, <1>4, <1>7
<1>9. A \in SUBSET Turns /\ C \in SUBSET Turns /\ S \in SUBSET Turns
      /\ \A t \in A : state[t] # "in_progress"
  BY <1>6, <1>8
<1>10. /\ \A t \in Turns \ S : state'[t] = state[t]
       /\ \A t \in S : state'[t] \notin Runnable
       /\ \A t \in Turns : \/ state'[t] = state[t]
                           \/ {state[t], state'[t]} \cap {"absent", "bare"} = {}
       /\ state' \in [Turns -> {"absent", "pending", "in_progress", "completed",
                                "error", "bare"}]
  BY <1>2, <1>9, ErroredIs
<1>11. task' = Interrupt(C) /\ ticket' = Dequeue(A)
  BY <1>2, <1>3 DEF Interrupt, IInv, TreesTypeOK
<1>12. /\ \A t \in A : state'[t] \notin Runnable
       /\ \A t \in Turns \ A : state'[t] = state[t]
  <2>1. b \in Turns /\ b \notin S /\ A = S \cup {b}
    BY <1>7, <1>9
  <2>2. state'[b] = "bare"
    BY <2>1, <1>4, <1>10
  <2> HIDE DEF A
  <2> QED BY <2>1, <2>2, <1>10 DEF Runnable
<1> HIDE DEF A, C, claimed, affected
<1>13. /\ Claimed' /\ Waiting' /\ Bounded' /\ Reported' /\ ticket' \in [Turns -> Nat]
       /\ \A t \in Turns : task'[t] # task[t] => tree[t] # None
  <2>1. /\ \A t \in C : task[t] \in Live
        /\ \A t \in A : state[t] = "in_progress" => t \in C
        /\ condemned' = condemned \cup C
        /\ \A t \in A \cup C : state'[t] \notin Runnable
        /\ stopped' \subseteq stopped \cup RunnableIn(A) \cup {t \in C : state[t] = "error"}
    BY <1>3, <1>9, <1>12 DEF C
  <2> QED BY <1>3, <1>9, <1>11, <1>12, <2>1, CancelKeeps
<1>14. Published' /\ Resolved' /\ \A t \in Turns : Present(t)' = Present(t)
  BY <1>3, <1>10, IndexKept DEF intake
<1>15. Grown' /\ Rooted'
  BY <1>3, <1>13, <1>14, GraphKept
<1>16. Stored'
  BY <1>3 DEF Stored, LockFree, Unlocked
<1>17. Fenced'
  BY <1>3, FenceKept
<1>18. TreesTypeOK'
  BY <1>3, <1>10, <1>13 DEF IInv, TreesTypeOK, Issue, intake, repository, graph
<1> QED BY <1>13, <1>14, <1>15, <1>16, <1>17, <1>18 DEF IInv

\* Between two steps of a command, the store alone changes.
LEMMA ConcludeKeeps == ASSUME IInv, Conclude PROVE IInv'
<1>1. /\ UNCHANGED <<intake, generations, closing, aborted, commands, repository,
                     graph, scheduling, overtaken, stopped>>
      /\ command' = Unlocked /\ command.kind # "none"
      /\ stored' = IF command.kind = "chat" THEN {}
                   ELSE (stored \ UNION {SameIdentity(k) : k \in command.of})
                            \cup UNION {NodesOf(k) : k \in command.of}
  <2>1. command.kind = "none" => command.of = {}
    BY DEF IInv, Stored
  <2>2. command = [kind |-> command.kind, of |-> command.of]
    BY DEF IInv, TreesTypeOK
  <2>3. command.kind # "none"
    BY <2>1, <2>2 DEF Conclude, LockFree, Unlocked
  <2> QED BY <2>3 DEF Conclude
<1>2. Grown' /\ Rooted'
  BY <1>1, GraphKept DEF scheduling, Present
<1>3. Published' /\ Resolved' /\ \A t \in Turns : Present(t)' = Present(t)
  BY <1>1, IndexKept DEF scheduling, intake
<1>4. Claimed' /\ Waiting' /\ Bounded' /\ Reported'
  BY <1>1 DEF IInv, Claimed, Waiting, Bounded, Reported, scheduling, graph
<1>5. Fenced'
  BY <1>1, FenceKept DEF scheduling
<1>6. TreesTypeOK'
  <2>1. stored' \in SUBSET Turns
    BY <1>1 DEF IInv, TreesTypeOK, NodesOf
  <2> QED BY <1>1, <2>1 DEF IInv, TreesTypeOK, intake, repository, graph, scheduling, Unlocked
<1>7. Stored'
  <2>1. command'.kind = "none" /\ command'.of = {} /\ Rewritten' = {}
    BY <1>1 DEF Unlocked, Rewritten
  <2>2. ~aborted => \A t \in Turns : t \in stored' <=> Present(t)
    <3> SUFFICES ASSUME ~aborted, NEW t \in Turns PROVE t \in stored' <=> Present(t)
      OBVIOUS
    <3>1. CASE command.kind = "chat"
      BY <3>1, <1>1 DEF IInv, Stored
    <3>2. CASE command.kind # "chat"
      <4>1. stored' = (stored \ Rewritten) \cup UNION {NodesOf(k) : k \in command.of}
        BY <3>2, <1>1 DEF Rewritten
      <4>2. \A k \in command.of : NodesOf(k) = {u \in SameIdentity(k) : Present(u)}
        BY DEF IInv, Stored
      <4>3. CASE t \in Rewritten
        <5>1. PICK k \in command.of : t \in SameIdentity(k)
          BY <4>3 DEF Rewritten
        <5>2. Present(t) => t \in NodesOf(k)
          BY <4>2, <5>1
        <5>3. \A j \in command.of : t \in NodesOf(j) => Present(t)
          BY <4>2
        <5> QED BY <4>1, <4>3, <5>1, <5>2, <5>3
      <4>4. CASE t \notin Rewritten
        <5>1. t \in stored <=> Present(t)
          BY <3>2, <4>4 DEF IInv, Stored
        <5>2. \A j \in command.of : t \in NodesOf(j) => Present(t)
          BY <4>2
        <5> QED BY <4>1, <4>4, <5>1, <5>2
      <4> QED BY <4>3, <4>4
    <3> QED BY <3>1, <3>2
  <2> QED BY <1>1, <1>3, <2>1, <2>2 DEF Stored
<1> QED BY <1>2, <1>3, <1>4, <1>5, <1>6, <1>7 DEF IInv

LEMMA ClosedKeeps == ASSUME IInv, Closed PROVE IInv'
<1>1. /\ UNCHANGED <<intake, generations, command, aborted, commands, repository,
                     graph, scheduling, stored, overtaken, stopped>>
      /\ closing = "joining" /\ closing' = "closed"
      /\ \A t \in Turns : task[t] \notin Live
  BY DEF Closed
<1>2. Grown' /\ Rooted'
  BY <1>1, GraphKept DEF scheduling, Present
<1>3. Published' /\ Resolved' /\ \A t \in Turns : Present(t)' = Present(t)
  BY <1>1, IndexKept DEF scheduling, intake
<1>4. Claimed' /\ Waiting' /\ Bounded' /\ Reported'
  BY <1>1 DEF IInv, Claimed, Waiting, Bounded, Reported, scheduling, graph
<1>5. Fenced'
  BY <1>1 DEF IInv, Fenced, Joined, Behind, intake, scheduling
<1>6. TreesTypeOK'
  BY <1>1 DEF IInv, TreesTypeOK, intake, repository, graph, scheduling
<1>7. Stored'
  BY <1>1, <1>3, StoreKept DEF intake
<1> QED BY <1>2, <1>3, <1>4, <1>5, <1>6, <1>7 DEF IInv

LEMMA StutterKeeps == ASSUME IInv, UNCHANGED treeVars PROVE IInv'
<1>1. UNCHANGED <<intake, workflow, repository, graph, scheduling, stored,
                  overtaken, stopped>>
  BY DEF treeVars
<1>2. Grown' /\ Rooted'
  BY <1>1, GraphKept DEF scheduling, Present
<1>3. Published' /\ Resolved' /\ \A t \in Turns : Present(t)' = Present(t)
  BY <1>1, IndexKept DEF scheduling, intake
<1>4. Claimed' /\ Waiting' /\ Bounded' /\ Reported'
  BY <1>1 DEF IInv, Claimed, Waiting, Bounded, Reported, scheduling, graph
<1>5. Fenced'
  BY <1>1, FenceKept DEF scheduling, workflow
<1>6. TreesTypeOK'
  BY <1>1 DEF IInv, TreesTypeOK, intake, workflow, repository, graph, scheduling
<1>7. Stored'
  BY <1>1, <1>3, StoreKept DEF intake, workflow
<1> QED BY <1>2, <1>3, <1>4, <1>5, <1>6, <1>7 DEF IInv

LEMMA StepKeeps == ASSUME IInv, [TreesNext]_treeVars PROVE IInv'
<1>1. ASSUME NEW t \in Turns, Intake(t) PROVE IInv'
  <2>1. CASE Receive(t)
    BY <2>1, ReceiveKeeps
  <2>2. CASE GiveUp(t)
    BY <2>2, DropKeeps DEF GiveUp
  <2>3. CASE Reject(t)
    BY <2>3, DropKeeps DEF Reject
  <2>4. CASE Admit(t)
    BY <2>4, AdmitKeeps
  <2> QED BY <1>1, <2>1, <2>2, <2>3, <2>4 DEF Intake
<1>2. ASSUME NEW t \in Turns, Run(t) PROVE IInv'
  <2>1. CASE Enter(t)
    BY <2>1, EnterKeeps
  <2>2. CASE Record(t)
    BY <2>2, RecordKeeps
  <2>3. CASE Complete(t)
    BY <2>3, CompleteKeeps
  <2>4. CASE ReportError(t) \/ LimitReached(t) \/ ExitWithError(t)
    BY <2>4, FailKeeps DEF ReportError, LimitReached, ExitWithError
  <2>5. CASE Unwind(t)
    BY <2>5, FailKeeps DEF Unwind
  <2>6. CASE Finish(t) \/ Recover(t)
    BY <2>6, FinishKeeps DEF Finish, Recover
  <2> QED BY <1>2, <2>1, <2>2, <2>3, <2>4, <2>5, <2>6 DEF Run
<1>3. CASE Command
  <2>1. ASSUME NEW r \in Refs, StopReply(r) \/ ClearReply(r) \/ ClearReplyRaises(r)
        PROVE  IInv'
    BY <2>1, StopReplyKeeps, ClearReplyKeeps, ClearReplyRaisesKeeps
  <2>2. CASE Stop
    BY <2>2, StopAllKeeps DEF Stop
  <2>3. CASE ClearChat
    BY <2>3, ClearChatKeeps
  <2>4. CASE Conclude
    BY <2>4, ConcludeKeeps
  <2>5. CASE Close
    BY <2>5, StopAllKeeps DEF Close
  <2>6. CASE Closed
    BY <2>6, ClosedKeeps
  <2> QED BY <1>3, <2>1, <2>2, <2>3, <2>4, <2>5, <2>6 DEF Command
<1>4. CASE UNCHANGED treeVars
  BY <1>4, StutterKeeps
<1> QED BY <1>1, <1>2, <1>3, <1>4 DEF TreesNext

\* Every state of the trees satisfies the inductive invariant.
THEOREM TreesAreSound == TreesSpec => []IInv
<1>1. TreesInit => IInv
  BY InitIInv
<1>2. IInv /\ [TreesNext]_treeVars => IInv'
  BY StepKeeps
<1> QED BY <1>1, <1>2, PTL DEF TreesSpec

-----------------------------------------------------------------------------
(* What the invariant means. *)

\* Of any number of prompts, one of a tree runs at a time and none waits
\* where nothing runs.
THEOREM ServingHolds == TreesSpec => []Serving
<1>1. IInv => Serving
  <2> SUFFICES ASSUME IInv PROVE Serving
    OBVIOUS
  <2>1. \A t, u \in Turns :
            task[t] \in Live /\ task[u] \in Live /\ tree[t] = tree[u] => t = u
    BY DEF IInv, Claimed
  <2>2. ASSUME NEW t \in Turns, state[t] = "pending"
        PROVE  /\ ticket[t] # 0
               /\ active[tree[t]] # None /\ task[active[tree[t]]] \in Live
    <3>1. tree[t] \in Turns
      BY <2>2 DEF IInv, TreesTypeOK, Published, Present
    <3> QED BY <2>2, <3>1 DEF IInv, Waiting, Claimed
  <2>3. ASSUME NEW t \in Turns, state[t] = "in_progress"
        PROVE  active[tree[t]] = t /\ task[t] \in Live
    BY <2>3, WorksOn DEF IInv, Waiting, Holds, Live
  <2> QED BY <2>1, <2>2, <2>3 DEF Serving
<1> QED BY <1>1, TreesAreSound, PTL

\* Whatever the order in which prompts, stops, clears and close() are handled,
\* no prompt is admitted across one of them, and nothing runs after close().
THEOREM BoundariesHold == TreesSpec => []Boundaries
<1>1. IInv => Boundaries
  BY DEF IInv, Fenced, Boundaries
<1> QED BY <1>1, TreesAreSound, PTL

\* The trees, the index of their references and the store's snapshots agree,
\* whatever is removed and whoever saves meanwhile.
THEOREM BookkeepingHolds == TreesSpec => []Bookkeeping
<1>1. IInv => IndexMatches
  <2> SUFFICES ASSUME IInv, NEW r \in Refs
               PROVE  LET owners == {t \in Turns : r \in RefsOf(t)} IN
                      IF index[r] = None THEN owners = {}
                      ELSE \E t \in owners : owners = {t} /\ tree[t] = index[r]
    BY DEF IndexMatches
  <2>1. \A t \in Turns : r \in RefsOf(t) => tree[t] = index[r] /\ tree[t] # None
    BY RefsAre DEF IInv, Resolved, Grown
  <2> QED BY <2>1 DEF IInv, Resolved
<1>2. IInv => StoreMatches
  <2> SUFFICES ASSUME IInv, LockFree, ~aborted
               PROVE  stored = {t \in Turns : Present(t)}
    BY DEF StoreMatches
  <2>1. command.kind = "none" /\ Rewritten = {} /\ stored \subseteq Turns
    BY DEF LockFree, Unlocked, Rewritten, IInv, TreesTypeOK
  <2> QED BY <2>1 DEF IInv, Stored
<1>3. IInv => Bookkeeping
  BY <1>1, <1>2 DEF IInv, Bookkeeping
<1> QED BY <1>3, TreesAreSound, PTL

\* No task of a node that a command reported as stopped is ever started.
THEOREM StoppedNeverStartHolds == TreesSpec => StoppedNeverStart
<1>1. IInv /\ [TreesNext]_treeVars =>
          \A t \in stopped : task[t] # "running" => task'[t] # "running"
  <2> SUFFICES ASSUME IInv, [TreesNext]_treeVars, NEW t \in stopped, task'[t] = "running"
               PROVE  task[t] = "running"
    OBVIOUS
  <2>1. IInv'
    BY StepKeeps
  <2>2. t \in Turns /\ task[t] # "created"
    BY DEF IInv, TreesTypeOK, Reported
  <2>3. ASSUME NEW u \in Turns, Intake(u) PROVE task[t] = "running"
    BY <2>2, <2>3 DEF Intake, Receive, GiveUp, Reject, Drop, Admit, Accept,
                      scheduling, IInv, TreesTypeOK
  <2>4. ASSUME NEW u \in Turns, Run(u) PROVE task[t] = "running"
    <3>1. CASE Enter(u)
      BY <2>2, <3>1 DEF Enter, Become, IInv, TreesTypeOK
    <3>2. CASE Record(u)
      BY <3>2 DEF Record, scheduling
    <3>3. CASE Complete(u) \/ LimitReached(u) \/ ExitWithError(u) \/ Unwind(u)
      <4>1. Become(u, "ending")
        BY <3>3 DEF Complete, LimitReached, ExitWithError, Unwind, Fail
      <4> QED BY <2>2, <4>1 DEF Become, IInv, TreesTypeOK
    <3>4. CASE ReportError(u)
      BY <2>2, <3>4 DEF ReportError, Fail, Become, IInv, TreesTypeOK
    <3>5. CASE Finish(u) \/ Recover(u)
      <4>1. FinishClaim(u)
        BY <3>5 DEF Finish, Recover
      <4>2. \/ task' = [task EXCEPT ![u] = "finished"]
            \/ \E next :
                   task' = [task EXCEPT ![u] = "finished",
                              ![next] = IF tree[u] \in forest THEN "created" ELSE @]
        BY <4>1 DEF FinishClaim, Become
      <4> QED BY <2>2, <4>2 DEF IInv, TreesTypeOK
    <3> QED BY <2>4, <3>1, <3>2, <3>3, <3>4, <3>5 DEF Run
  <2>5. CASE Command
    <3>1. ASSUME NEW C, task' = Interrupt(C) PROVE task[t] = "running"
      BY <2>2, <3>1, InterruptIs DEF IInv, TreesTypeOK, Live
    <3>2. CASE task' = task
      BY <3>2
    <3> QED BY <2>5, <3>1, <3>2
            DEF Command, StopReply, CancelNode, ClearReply, ClearReplyRaises, Stop,
                StopAll, CancelTrees, ClearChat, Conclude, Close, Closed, scheduling
  <2>6. CASE UNCHANGED treeVars
    BY <2>6 DEF treeVars, scheduling
  <2> QED BY <2>3, <2>4, <2>5, <2>6 DEF TreesNext
<1> QED BY <1>1, TreesAreSound, PTL DEF TreesSpec, StoppedNeverStart
=============================================================================
