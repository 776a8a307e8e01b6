--------------------------- MODULE DeliveryProofs ---------------------------
(***************************************************************************)
(* What holds, for any number of calls, tries, voice notes and commands,   *)
(* of what the run "delivery" checks: of the delivery of messages, of the  *)
(* sliding window that paces it, and of the voice notes that arrive.       *)
(***************************************************************************)
EXTENDS SlidingWindow, Delivery, VoiceNotes, FiniteSetTheorems, TLAPS

(***************************************************************************)
(* Delivery: a caller told that its edit is done finds it, or a later one, *)
(* on the message; the message only moves forward; and a platform that has *)
(* closed has left nobody waiting.                                         *)
(***************************************************************************)
Operations == [op : Calls, futures : SUBSET Calls]

DeliveryTypeOK ==
    /\ outcome \in [Calls -> {"unissued", "hopping", "ready", "waiting", "backoff"}
                                 \cup Ended]
    /\ kind \in [Calls -> {"edit", "send"}]
    /\ entered \in [Calls -> Nat]
    /\ ready \in Seq(Keys)
    /\ queueList \in Seq(Keys)
    /\ queueMap \in [Keys -> Operations \cup {None}]
    /\ worker \in {"idle", "woken", "looping", "waiting", "calling", "ended"}
    /\ active \in Operations \cup {None}
    /\ platform \in {"open", "outbox closed", "settling", "reaping", "closed"}
    /\ shown \in Nat /\ gone \in BOOLEAN /\ clock \in Nat

\* An operation of a key is the last of its callers to have entered the queue;
\* the others entered before it, and none of them has an answer, unless it has
\* been cancelled itself.
Sound(o, k) ==
    /\ o.op \in o.futures
    /\ \A f \in o.futures :
          /\ Key(f) = k
          /\ outcome[f] \in {"waiting", "cancelled"}
          /\ entered[f] <= entered[o.op]

Queued == \A k \in Keys : queueMap[k] # None => Sound(queueMap[k], k)

\* The operation the worker has taken shares no caller with those queued.
Taken ==
    /\ active # None <=> worker \in {"waiting", "calling"}
    /\ active # None =>
          /\ Sound(active, Key(active.op))
          /\ \A k \in Keys : queueMap[k] # None =>
                active.futures \cap queueMap[k].futures = {}

\* The list and the map of the queue have the same keys, each of them once.
Listed ==
    /\ \A i \in 1..Len(queueList) : queueMap[queueList[i]] # None
    /\ \A i, j \in 1..Len(queueList) : queueList[i] = queueList[j] => i = j
    /\ \A k \in Keys : queueMap[k] # None =>
          \E i \in 1..Len(queueList) : queueList[i] = k

\* Who waits for an answer waits for an operation queued or taken.
Kept ==
    \A c \in Calls : outcome[c] = "waiting" =>
        \/ queueMap[Key(c)] # None /\ c \in queueMap[Key(c)].futures
        \/ active # None /\ c \in active.futures

\* The message shows nothing later than the edit taken, nor that than the edit
\* queued.
Ordered ==
    /\ shown <= clock /\ \A c \in Calls : entered[c] <= clock
    /\ active # None /\ kind[active.op] = "edit" => shown <= entered[active.op]
    /\ queueMap[0] # None =>
          /\ shown <= entered[queueMap[0].op]
          /\ active # None /\ kind[active.op] = "edit" =>
                entered[active.op] <= entered[queueMap[0].op]

Told ==
    \A c \in Calls :
        outcome[c] = "done" /\ kind[c] = "edit" /\ ~gone => shown >= entered[c]

\* What has ended by each stage of closing.
Closing ==
    /\ platform # "open" => \A c \in Calls : outcome[c] # "hopping"
    /\ Refused => queueList = <<>> /\ \A c \in Calls : outcome[c] # "waiting"
    /\ platform \in {"reaping", "closed"} => worker = "ended"
    /\ platform = "closed" => \A c \in Calls : outcome[c] \notin {"ready", "backoff"}

DeliveryInv ==
    DeliveryTypeOK /\ Queued /\ Taken /\ Listed /\ Kept /\ Ordered /\ Told /\ Closing

-----------------------------------------------------------------------------
\* None is no operation.
LEMMA NoOperation == None \notin Operations
BY CallsAssumption DEF Operations, Calls

\* A call is a key, and a key other than 0 is a call.
LEMMA CallsAndKeys ==
    /\ Calls \subseteq Keys /\ 0 \in Keys /\ 0 \notin Calls
    /\ \A k \in Keys : k # 0 => k \in Calls
BY CallsAssumption DEF Calls, Keys

\* A sequence of keys with one more at its end.
LEMMA Longer ==
    ASSUME NEW s \in Seq(Keys), NEW k \in Keys
    PROVE  /\ Append(s, k) \in Seq(Keys)
           /\ Len(s) \in Nat /\ Len(Append(s, k)) = Len(s) + 1
           /\ \A i \in 1..Len(s) : Append(s, k)[i] = s[i]
           /\ Append(s, k)[Len(s) + 1] = k
OBVIOUS

\* A sequence of keys without its first.
LEMMA Shorter ==
    ASSUME NEW s \in Seq(Keys), s # <<>>
    PROVE  /\ Head(s) \in Keys /\ Head(s) = s[1]
           /\ Tail(s) \in Seq(Keys)
           /\ Len(s) \in Nat \ {0} /\ Len(Tail(s)) = Len(s) - 1
           /\ \A i \in 1..Len(s) - 1 : Tail(s)[i] = s[i + 1]
OBVIOUS

\* A call of the platform shows the edit it carries out, or nothing yet.
Shows ==
    \/ shown' = shown
    \/ active # None /\ kind[active.op] = "edit" /\ shown' = entered[active.op]

\* The worker is at work on an operation, as before.
WorkerKeeps ==
    worker' \in {"waiting", "calling"} <=> worker \in {"waiting", "calling"}

LEMMA ShowShows ==
    ASSUME DeliveryInv, worker = "calling", Show \/ UNCHANGED shown
    PROVE  Shows /\ active # None /\ shown' \in Nat
<1>1. active # None /\ active \in Operations
  BY DEF DeliveryInv, Taken, DeliveryTypeOK
<1>2. active.op \in Calls
  BY <1>1 DEF Operations
<1> QED BY <1>1, <1>2 DEF Show, Shows, DeliveryInv, DeliveryTypeOK

\* What the message shows moves forward, as far as the edit taken.
LEMMA ShowKeeps ==
    ASSUME DeliveryInv, Shows
    PROVE  /\ shown <= shown' /\ shown' <= clock
           /\ active # None /\ kind[active.op] = "edit" => shown' <= entered[active.op]
           /\ queueMap[0] # None => shown' <= entered[queueMap[0].op]
<1>1. shown \in Nat /\ clock \in Nat /\ shown <= clock /\ entered \in [Calls -> Nat]
  BY DEF DeliveryInv, DeliveryTypeOK, Ordered
<1>2. CASE shown' = shown
  BY <1>1, <1>2 DEF DeliveryInv, Ordered
<1>3. CASE active # None /\ kind[active.op] = "edit" /\ shown' = entered[active.op]
  <2>1. active.op \in Calls
    BY <1>3 DEF DeliveryInv, DeliveryTypeOK, Operations
  <2>2. entered[active.op] \in Nat
    BY <2>1, <1>1
  <2> QED BY <1>1, <1>3, <2>1, <2>2 DEF DeliveryInv, Ordered
<1> QED BY <1>2, <1>3 DEF Shows

\* An operation stays sound while its callers get no answer.
LEMMA SoundKept ==
    ASSUME NEW o \in Operations, NEW k, Sound(o, k),
           \A f \in o.futures : /\ kind'[f] = kind[f] /\ entered'[f] = entered[f]
                                /\ outcome'[f] \in {"waiting", "cancelled"}
    PROVE  Sound(o, k)'
<1>1. o.op \in o.futures /\ entered'[o.op] = entered[o.op]
  BY DEF Sound
<1> QED BY <1>1 DEF Sound, Key

\* Steps that leave the queue and the operation taken alone, give no answer and
\* put no call into the queue.
LEMMA QuietKeeps ==
    ASSUME DeliveryInv, DeliveryTypeOK', Closing', Shows, WorkerKeeps,
           UNCHANGED <<queueList, queueMap, active, entered, clock, gone>>,
           \A c \in Calls :
               /\ outcome[c] # "unissued" => kind'[c] = kind[c]
               /\ \/ outcome'[c] = outcome[c]
                  \/ outcome[c] = "waiting" /\ outcome'[c] = "cancelled"
                  \/ outcome[c] \notin {"waiting", "done", "cancelled"}
                     /\ outcome'[c] \notin {"waiting", "done"}
    PROVE  DeliveryInv'
<1>1. \A o \in Operations : \A k : Sound(o, k) => Sound(o, k)'
  <2> SUFFICES ASSUME NEW o \in Operations, NEW k, Sound(o, k) PROVE Sound(o, k)'
    OBVIOUS
  <2>1. \A f \in o.futures : /\ f \in Calls /\ outcome[f] \in {"waiting", "cancelled"}
    BY DEF Operations, Sound
  <2>2. \A f \in o.futures : kind'[f] = kind[f] /\ outcome'[f] \in {"waiting", "cancelled"}
    BY <2>1
  <2> QED BY <2>2, SoundKept
<1>2. Queued'
  BY <1>1, NoOperation DEF DeliveryInv, DeliveryTypeOK, Queued
<1>3. active # None => Key(active.op)' = Key(active.op) /\ kind'[active.op] = kind[active.op]
  <2> HAVE active # None
  <2>1. active.op \in Calls /\ outcome[active.op] \in {"waiting", "cancelled"}
    BY DEF DeliveryInv, DeliveryTypeOK, Taken, Sound, Operations
  <2> QED BY <2>1 DEF Key
<1>4. Taken'
  <2>1. active # None => Sound(active, Key(active.op))'
    BY <1>1, <1>3 DEF DeliveryInv, DeliveryTypeOK, Taken
  <2> QED BY <2>1 DEF DeliveryInv, Taken, WorkerKeeps
<1>5. Listed'
  BY DEF DeliveryInv, Listed
<1>6. Kept'
  <2> SUFFICES ASSUME NEW c \in Calls, outcome'[c] = "waiting"
               PROVE  \/ queueMap[Key(c)'] # None /\ c \in queueMap[Key(c)'].futures
                      \/ active # None /\ c \in active.futures
    BY DEF Kept
  <2>1. outcome[c] = "waiting" /\ Key(c)' = Key(c)
    BY DEF Key
  <2> QED BY <2>1 DEF DeliveryInv, Kept
<1>7. Ordered'
  BY <1>3, ShowKeeps DEF DeliveryInv, Ordered
<1>8. Told'
  <2> SUFFICES ASSUME NEW c \in Calls, outcome'[c] = "done", kind'[c] = "edit", ~gone
               PROVE  shown' >= entered[c]
    BY DEF Told
  <2>1. outcome[c] = "done" /\ kind[c] = "edit"
    OBVIOUS
  <2>2. shown >= entered[c] /\ shown \in Nat /\ shown' \in Nat /\ entered[c] \in Nat
    BY <2>1 DEF DeliveryInv, DeliveryTypeOK, Told
  <2> QED BY <2>2, ShowKeeps
<1> QED BY <1>2, <1>4, <1>5, <1>6, <1>7, <1>8 DEF DeliveryInv

\* Steps that end the operation taken: all who still waited for it are answered,
\* and who is told that an edit is done finds it.
LEMMA FinishKeeps ==
    ASSUME DeliveryInv, DeliveryTypeOK', Closing', Shows, active # None, active' = None,
           worker' \notin {"waiting", "calling"},
           UNCHANGED <<kind, queueList, queueMap, entered, clock>>, gone => gone',
           \A c \in Calls :
               \/ outcome'[c] = outcome[c]
               \/ c \in active.futures /\ outcome[c] = "waiting",
           \A c \in active.futures :
               /\ outcome'[c] # "waiting"
               /\ outcome'[c] = "done" /\ kind[active.op] = "edit" /\ ~gone' =>
                      shown' = entered[active.op]
    PROVE  DeliveryInv'
<1>1. /\ active \in Operations /\ active.futures \subseteq Calls /\ active.op \in Calls
      /\ Sound(active, Key(active.op))
  BY DEF DeliveryInv, DeliveryTypeOK, Taken, Operations
<1>2. Queued'
  <2> SUFFICES ASSUME NEW k \in Keys, queueMap[k] # None PROVE Sound(queueMap[k], k)'
    BY DEF Queued
  <2>1. queueMap[k] \in Operations /\ Sound(queueMap[k], k)
        /\ active.futures \cap queueMap[k].futures = {}
    BY DEF DeliveryInv, DeliveryTypeOK, Queued, Taken
  <2>2. \A f \in queueMap[k].futures : f \in Calls /\ f \notin active.futures
    BY <2>1 DEF Operations
  <2>3. \A f \in queueMap[k].futures : outcome'[f] \in {"waiting", "cancelled"}
    BY <2>1, <2>2 DEF Sound
  <2> QED BY <2>1, <2>3, SoundKept
<1>3. Taken'
  BY DEF Taken
<1>4. Listed'
  BY DEF DeliveryInv, Listed
<1>5. Kept'
  <2> SUFFICES ASSUME NEW c \in Calls, outcome'[c] = "waiting"
               PROVE  queueMap[Key(c)] # None /\ c \in queueMap[Key(c)].futures
    BY DEF Kept, Key
  <2>1. outcome[c] = "waiting" /\ c \notin active.futures
    OBVIOUS
  <2> QED BY <2>1 DEF DeliveryInv, Kept
<1>6. Ordered'
  BY ShowKeeps DEF DeliveryInv, Ordered
<1>7. Told'
  <2> SUFFICES ASSUME NEW c \in Calls, outcome'[c] = "done", kind[c] = "edit", ~gone'
               PROVE  shown' >= entered[c]
    BY DEF Told
  <2>1. shown \in Nat /\ shown' \in Nat /\ entered[c] \in Nat
    BY DEF DeliveryInv, DeliveryTypeOK
  <2>2. CASE outcome[c] = "done"
    <3>1. shown >= entered[c]
      BY <2>2 DEF DeliveryInv, Told
    <3> QED BY <2>1, <3>1, ShowKeeps
  <2>3. CASE outcome[c] # "done"
    <3>1. c \in active.futures
      BY <2>3
    <3>2. Key(c) = Key(active.op) /\ entered[c] <= entered[active.op]
      BY <1>1, <3>1 DEF Sound
    <3>3. kind[active.op] = "edit"
      BY <1>1, <3>2, CallsAndKeys DEF Key, DeliveryInv, DeliveryTypeOK
    <3> QED BY <2>1, <3>1, <3>2, <3>3
  <2> QED BY <2>2, <2>3
<1> QED BY <1>2, <1>3, <1>4, <1>5, <1>6, <1>7 DEF DeliveryInv

\* Who has no answer and does not wait is in no operation.
LEMMA Outside ==
    ASSUME DeliveryInv, NEW c \in Calls, outcome[c] \notin {"waiting", "cancelled"}
    PROVE  /\ active # None => c \notin active.futures
           /\ \A k \in Keys : queueMap[k] # None => c \notin queueMap[k].futures
<1>1. active # None => c \notin active.futures
  BY DEF DeliveryInv, Taken, Sound
<1>2. \A k \in Keys : queueMap[k] # None => c \notin queueMap[k].futures
  BY DEF DeliveryInv, Queued, Sound
<1> QED BY <1>1, <1>2

\* A call enters the queue: it replaces the operation queued for its key and
\* joins its callers.
LEMMA EnqueueKeeps ==
    ASSUME DeliveryInv, NEW c \in Calls, NEW k \in Keys, NEW rest \in Seq(Keys),
           outcome[c] \in {"unissued", "ready", "backoff"}, ~Refused,
           kind' \in [Calls -> {"edit", "send"}],
           \A d \in Calls \ {c} : kind'[d] = kind[d],
           outcome' = [outcome EXCEPT ![c] = "waiting"],
           k = Key(c)', Enqueue(c, k, rest),
           UNCHANGED <<active, platform, shown, gone>>
    PROVE  DeliveryInv'
<1>1. /\ outcome \in [Calls -> {"unissued", "hopping", "ready", "waiting", "backoff"}
                                 \cup Ended]
      /\ entered \in [Calls -> Nat] /\ clock \in Nat /\ shown \in Nat
      /\ queueMap \in [Keys -> Operations \cup {None}] /\ active \in Operations \cup {None}
      /\ queueList \in Seq(Keys)
  BY DEF DeliveryInv, DeliveryTypeOK
<1>2. /\ active # None => c \notin active.futures
      /\ \A j \in Keys : queueMap[j] # None => c \notin queueMap[j].futures
  BY Outside
<1>3. /\ outcome'[c] = "waiting"
      /\ \A d \in Calls \ {c} : outcome'[d] = outcome[d] /\ entered'[d] = entered[d]
      /\ entered'[c] = clock + 1 /\ clock' = clock + 1
      /\ \A d \in Calls : entered[d] <= clock
  BY <1>1 DEF Enqueue, DeliveryInv, Ordered
<1>4. PICK new \in Operations :
          /\ new = Compacted(k, c) /\ new.op = c
          /\ new.futures = IF queueMap[k] = None THEN {c} ELSE queueMap[k].futures \cup {c}
  <2> DEFINE o == Compacted(k, c)
  <2>1. /\ o \in Operations /\ o.op = c
        /\ o.futures = IF queueMap[k] = None THEN {c} ELSE queueMap[k].futures \cup {c}
    BY <1>1 DEF Compacted, Operations
  <2> QED BY <2>1, Zenon
<1>5. /\ queueMap'[k] = new
      /\ \A j \in Keys \ {k} : queueMap'[j] = queueMap[j]
      /\ queueMap' \in [Keys -> Operations \cup {None}]
  <2>1. queueMap' = [queueMap EXCEPT ![k] = new]
    BY <1>4 DEF Enqueue
  <2> QED BY <2>1, <1>1, <1>4
<1>6. new # None /\ c \in new.futures
  BY <1>4, NoOperation
<1>7. /\ queueList' \in Seq(Keys)
      /\ queueList' = IF queueMap[k] = None THEN Append(queueList, k) ELSE queueList
  BY <1>1, Longer DEF Enqueue
<1>8. \A o \in Operations, j \in Keys : Sound(o, j) /\ c \notin o.futures => Sound(o, j)'
  <2> SUFFICES ASSUME NEW o \in Operations, NEW j \in Keys, Sound(o, j), c \notin o.futures
               PROVE  Sound(o, j)'
    OBVIOUS
  <2>1. \A f \in o.futures : f \in Calls \ {c}
    BY DEF Operations
  <2>2. \A f \in o.futures : /\ kind'[f] = kind[f] /\ entered'[f] = entered[f]
                             /\ outcome'[f] \in {"waiting", "cancelled"}
    BY <2>1, <1>3 DEF Sound
  <2> QED BY <2>2, SoundKept
<1>9. DeliveryTypeOK'
  <2>1. outcome' \in [Calls -> {"unissued", "hopping", "ready", "waiting", "backoff"}
                                 \cup Ended]
    BY <1>1
  <2>2. entered' \in [Calls -> Nat] /\ clock' \in Nat
    BY <1>1 DEF Enqueue
  <2>3. ready' \in Seq(Keys)
    <3>1. ready' = rest \/ ready' = Append(rest, 0)
      BY DEF Enqueue
    <3> QED BY <3>1, Longer, CallsAndKeys
  <2>4. worker' \in {"idle", "woken", "looping", "waiting", "calling", "ended"}
    BY DEF Enqueue, DeliveryInv, DeliveryTypeOK
  <2> QED BY <2>1, <2>2, <2>3, <2>4, <1>5, <1>7 DEF DeliveryInv, DeliveryTypeOK
<1>10. Queued'
  <2> SUFFICES ASSUME NEW j \in Keys, queueMap'[j] # None
               PROVE  Sound(queueMap[j], j)'
    BY DEF Queued
  <2>1. CASE j # k
    <3>1. queueMap'[j] = queueMap[j] /\ queueMap[j] # None
      BY <2>1, <1>5
    <3>2. \A o \in Operations : o = queueMap[j] => Sound(o, j) /\ c \notin o.futures
      BY <3>1, <1>2 DEF DeliveryInv, Queued
    <3>3. \A o \in Operations : o = queueMap[j] => Sound(o, j)'
      BY <3>2, <1>8
    <3>4. \A o \in Operations : o = queueMap'[j] => Sound(o, j)'
      BY <3>1, <3>3
    <3> QED BY <3>1, <3>4, <1>1 DEF Sound
  <2>2. CASE j = k
    <3>1. ASSUME NEW f \in new.futures
          PROVE  Key(f)' = k /\ outcome'[f] \in {"waiting", "cancelled"}
                 /\ entered'[f] <= clock + 1
      <4>1. CASE f = c
        BY <4>1, <1>1, <1>3
      <4>2. CASE f # c
        <5>1. queueMap[k] # None /\ f \in queueMap[k].futures
          BY <4>2, <1>4
        <5>2. f \in Calls \ {c} /\ Sound(queueMap[k], k)
          BY <4>2, <5>1, <1>1 DEF Operations, DeliveryInv, Queued
        <5>3. Key(f) = k /\ outcome[f] \in {"waiting", "cancelled"}
          BY <5>1, <5>2 DEF Sound
        <5>4. Key(f)' = Key(f)
          BY <5>2 DEF Key
        <5>5. entered[f] \in Nat /\ entered[f] <= clock
          BY <5>2, <1>1, <1>3
        <5> QED BY <5>2, <5>3, <5>4, <5>5, <1>1, <1>3
      <4> QED BY <4>1, <4>2
    <3>2. Sound(new, k)'
      BY <3>1, <1>3, <1>4, <1>6, <1>5 DEF Sound
    <3> QED BY <2>2, <3>2, <1>5 DEF Sound
  <2> QED BY <2>1, <2>2
<1>11. active # None => /\ Sound(active, Key(active.op))' /\ active.op \in Calls \ {c}
                        /\ Key(active.op)' = Key(active.op)
  <2> HAVE active # None
  <2>1. active \in Operations /\ Sound(active, Key(active.op))
    BY <1>1 DEF DeliveryInv, Taken
  <2>2. active.op \in Calls \ {c}
    BY <2>1, <1>2 DEF Sound, Operations
  <2>3. Key(active.op)' = Key(active.op) /\ Key(active.op) \in Keys
    BY <2>2, CallsAndKeys DEF Key
  <2> QED BY <2>1, <2>2, <2>3, <1>2, <1>8
<1>12. Taken'
  <2>1. active # None <=> worker' \in {"waiting", "calling"}
    BY DEF Enqueue, DeliveryInv, Taken
  <2>2. ASSUME active # None, NEW j \in Keys, queueMap'[j] # None
        PROVE  active.futures \cap queueMap'[j].futures = {}
    <3>1. CASE j # k
      BY <2>2, <3>1, <1>5 DEF DeliveryInv, Taken
    <3>2. CASE j = k
      <4>1. queueMap[k] # None => active.futures \cap queueMap[k].futures = {}
        BY <2>2 DEF DeliveryInv, Taken
      <4> QED BY <2>2, <3>2, <4>1, <1>2, <1>4, <1>5
    <3> QED BY <3>1, <3>2
  <2> QED BY <2>1, <2>2, <1>11 DEF Taken
<1>13. Listed'
  <2>1. CASE queueMap[k] # None
    <3>1. queueList' = queueList /\ \A j \in Keys : queueMap'[j] # None <=> queueMap[j] # None
      BY <2>1, <1>5, <1>6, <1>7
    <3>2. \A i \in 1..Len(queueList) : queueList[i] \in Keys
      BY <1>1
    <3> QED BY <3>1, <3>2 DEF DeliveryInv, Listed
  <2>2. CASE queueMap[k] = None
    <3>1. queueList' = Append(queueList, k)
      BY <2>2, <1>7
    <3>2. /\ Len(queueList) \in Nat /\ Len(queueList') = Len(queueList) + 1
          /\ \A i \in 1..Len(queueList) : queueList'[i] = queueList[i]
          /\ queueList'[Len(queueList) + 1] = k
      BY <3>1, <1>1, Longer
    <3>3. \A i \in 1..Len(queueList) : /\ queueList[i] \in Keys /\ queueList[i] # k
                                       /\ queueMap[queueList[i]] # None
      BY <2>2, <1>1 DEF DeliveryInv, Listed
    <3>4. ASSUME NEW i \in 1..Len(queueList') PROVE queueMap'[queueList'[i]] # None
      BY <3>2, <3>3, <1>5, <1>6
    <3>5. ASSUME NEW i \in 1..Len(queueList'), NEW j \in 1..Len(queueList'),
                 queueList'[i] = queueList'[j]
          PROVE  i = j
      BY <3>2, <3>3, <3>5 DEF DeliveryInv, Listed
    <3>6. ASSUME NEW j \in Keys, queueMap'[j] # None
          PROVE  \E i \in 1..Len(queueList') : queueList'[i] = j
      <4>1. CASE j = k
        BY <4>1, <3>2
      <4>2. CASE j # k
        <5>1. PICK i \in 1..Len(queueList) : queueList[i] = j
          BY <3>6, <4>2, <1>5 DEF DeliveryInv, Listed
        <5> QED BY <5>1, <3>2
      <4> QED BY <4>1, <4>2
    <3> QED BY <3>4, <3>5, <3>6 DEF Listed
  <2> QED BY <2>1, <2>2
<1>14. Kept'
  <2> SUFFICES ASSUME NEW d \in Calls, outcome'[d] = "waiting"
               PROVE  \/ queueMap'[Key(d)'] # None /\ d \in queueMap'[Key(d)'].futures
                      \/ active # None /\ d \in active.futures
    BY DEF Kept
  <2>1. CASE d = c
    BY <2>1, <1>5, <1>6
  <2>2. CASE d # c
    <3>1. outcome[d] = "waiting" /\ Key(d)' = Key(d) /\ Key(d) \in Keys
      BY <2>2, <1>3, CallsAndKeys DEF Key
    <3>2. CASE queueMap[Key(d)] # None /\ d \in queueMap[Key(d)].futures
      BY <3>1, <3>2, <1>4, <1>5, <1>6
    <3>3. CASE active # None /\ d \in active.futures
      BY <3>3
    <3> QED BY <3>1, <3>2, <3>3 DEF DeliveryInv, Kept
  <2> QED BY <2>1, <2>2
<1>15. Ordered'
  <2>1. shown <= clock' /\ \A d \in Calls : entered'[d] <= clock'
    <3>1. \A d \in Calls : entered[d] \in Nat
      BY <1>1
    <3> QED BY <3>1, <1>1, <1>3 DEF DeliveryInv, Ordered
  <2>2. active # None => /\ kind'[active.op] = kind[active.op]
                         /\ entered'[active.op] = entered[active.op]
                         /\ entered'[active.op] <= clock /\ entered[active.op] \in Nat
    BY <1>1, <1>3, <1>11
  <2>3. ASSUME queueMap'[0] # None
        PROVE  /\ shown <= entered'[queueMap'[0].op]
               /\ active # None /\ kind'[active.op] = "edit" =>
                     entered'[active.op] <= entered'[queueMap'[0].op]
    <3>1. CASE k = 0
      <4>1. entered'[queueMap'[0].op] = clock + 1
        BY <3>1, <1>3, <1>4, <1>5
      <4> QED BY <4>1, <2>2, <1>1 DEF DeliveryInv, Ordered
    <3>2. CASE k # 0
      <4>1. queueMap'[0] = queueMap[0] /\ queueMap[0] # None
        BY <2>3, <3>2, <1>5, CallsAndKeys
      <4>2. queueMap[0].op \in Calls \ {c}
        <5>1. Sound(queueMap[0], 0) /\ queueMap[0] \in Operations
          BY <4>1, <1>1, CallsAndKeys DEF DeliveryInv, Queued
        <5> QED BY <4>1, <5>1, <1>2, CallsAndKeys DEF Sound, Operations
      <4> QED BY <4>1, <4>2, <2>2, <1>3 DEF DeliveryInv, Ordered
    <3> QED BY <3>1, <3>2
  <2> QED BY <2>1, <2>2, <2>3 DEF DeliveryInv, Ordered
<1>16. Told'
  <2> SUFFICES ASSUME NEW d \in Calls, outcome'[d] = "done", kind'[d] = "edit", ~gone
               PROVE  shown >= entered'[d]
    BY DEF Told
  <2>1. d # c
    BY <1>3
  <2> QED BY <2>1, <1>3 DEF DeliveryInv, Told
<1>17. Closing'
  <2>1. ~Refused' /\ platform \notin {"reaping", "closed"}
    BY DEF Refused
  <2> QED BY <2>1, <1>3 DEF DeliveryInv, Closing
<1> QED BY <1>9, <1>10, <1>12, <1>13, <1>14, <1>15, <1>16, <1>17 DEF DeliveryInv

\* The worker takes the operation that the queue began with.
LEMMA TakeKeeps ==
    ASSUME DeliveryInv, Take PROVE DeliveryInv'
<1> DEFINE k == queueList[1]
<1>1. /\ queueMap \in [Keys -> Operations \cup {None}] /\ entered \in [Calls -> Nat]
      /\ queueList \in Seq(Keys) /\ queueList # <<>> /\ Head(queueList) = k /\ k \in Keys
      /\ Len(queueList) \in Nat \ {0}
      /\ queueList' = Tail(queueList) /\ queueList' \in Seq(Keys)
      /\ Len(queueList') = Len(queueList) - 1
      /\ \A i \in 1..Len(queueList) - 1 : queueList'[i] = queueList[i + 1]
  BY Shorter DEF Take, DeliveryInv, DeliveryTypeOK
<1>2. PICK h \in Keys : h = k
  BY <1>1
<1>3. /\ active' = queueMap[h] /\ worker' = "waiting"
      /\ queueMap' = [queueMap EXCEPT ![h] = None]
      /\ UNCHANGED <<outcome, kind, entered, platform, shown, gone, clock>>
  BY <1>1, <1>2 DEF Take
<1>4. /\ queueMap[h] # None /\ queueMap[h] \in Operations /\ Sound(queueMap[h], h)
      /\ queueMap[h].op \in Calls
  BY <1>1, <1>2 DEF DeliveryInv, Queued, Listed, Operations
<1>5. PICK o \in Operations : o = queueMap[h] /\ o # None /\ Sound(o, h) /\ o.op \in Calls
  BY <1>4
<1>6. active' = o /\ active = None /\ \A j \in Keys \ {h} : queueMap'[j] = queueMap[j]
  BY <1>1, <1>3, <1>5 DEF Take, DeliveryInv, Taken
<1>7. queueMap'[h] = None
  BY <1>1, <1>3
<1>8. DeliveryTypeOK'
  <2>1. ready' \in Seq(Keys)
    BY Shorter DEF Take, DeliveryInv, DeliveryTypeOK
  <2>2. queueMap' \in [Keys -> Operations \cup {None}]
    BY <1>1, <1>3
  <2> QED BY <2>1, <2>2, <1>1, <1>3, <1>5, <1>6 DEF DeliveryInv, DeliveryTypeOK
<1>9. \A p \in Operations, j \in Keys : Sound(p, j) => Sound(p, j)'
  BY <1>3 DEF Sound, Key
<1>10. Queued'
  <2> SUFFICES ASSUME NEW j \in Keys, queueMap'[j] # None
               PROVE  \A p \in Operations : p = queueMap'[j] => Sound(p, j)'
    BY <1>1, <1>6, <1>7 DEF Queued, Sound, Key
  <2>1. j # h /\ queueMap'[j] = queueMap[j]
    BY <1>6, <1>7
  <2>2. \A p \in Operations : p = queueMap[j] => Sound(p, j)
    BY <2>1 DEF DeliveryInv, Queued
  <2> QED BY <2>1, <2>2, <1>9
<1>11. Key(o.op)' = h /\ (kind'[o.op] = "edit" <=> h = 0)
  <2>1. Key(o.op) = h
    BY <1>5 DEF Sound
  <2> QED BY <2>1, <1>3, <1>5, CallsAndKeys DEF Key
<1>12. Taken'
  <2>1. Sound(o, h)'
    BY <1>5, <1>9
  <2>2. ASSUME NEW j \in Keys, queueMap'[j] # None
        PROVE  o.futures \cap queueMap'[j].futures = {}
    <3>1. j # h /\ queueMap'[j] = queueMap[j] /\ Sound(queueMap[j], j)
      BY <2>2, <1>6, <1>7 DEF DeliveryInv, Queued
    <3>2. \A f \in o.futures \cap queueMap[j].futures : Key(f) = h /\ Key(f) = j
      BY <3>1, <1>5 DEF Sound
    <3> QED BY <3>1, <3>2
  <2> QED BY <2>1, <2>2, <1>3, <1>5, <1>6, <1>11 DEF Taken, Sound, Key
<1>13. Listed'
  <2>1. \A i \in 1..Len(queueList) : queueList[i] \in Keys /\ queueMap[queueList[i]] # None
    BY <1>1 DEF DeliveryInv, Listed
  <2>2. \A i, j \in 1..Len(queueList) : queueList[i] = queueList[j] => i = j
    BY DEF DeliveryInv, Listed
  <2>3. ASSUME NEW i \in 1..Len(queueList') PROVE queueMap'[queueList'[i]] # None
    <3>1. i + 1 \in 1..Len(queueList) /\ queueList'[i] = queueList[i + 1]
      BY <1>1
    <3>2. queueList[i + 1] # h
      BY <3>1, <2>2, <1>1, <1>2
    <3> QED BY <3>1, <3>2, <2>1, <1>6
  <2>4. ASSUME NEW i \in 1..Len(queueList'), NEW j \in 1..Len(queueList'),
               queueList'[i] = queueList'[j]
        PROVE  i = j
    <3>1. i + 1 \in 1..Len(queueList) /\ j + 1 \in 1..Len(queueList)
      BY <1>1
    <3>2. i + 1 = j + 1
      BY <3>1, <2>2, <2>4, <1>1
    <3> QED BY <3>2, <1>1
  <2>5. ASSUME NEW j \in Keys, queueMap'[j] # None
        PROVE  \E i \in 1..Len(queueList') : queueList'[i] = j
    <3>1. j # h /\ queueMap[j] # None
      BY <2>5, <1>6, <1>7
    <3>2. PICK i \in 1..Len(queueList) : queueList[i] = j
      BY <3>1 DEF DeliveryInv, Listed
    <3>3. i # 1
      BY <3>1, <3>2, <1>2
    <3>4. i - 1 \in 1..Len(queueList') /\ queueList'[i - 1] = j
      BY <3>2, <3>3, <1>1
    <3> QED BY <3>4
  <2> QED BY <2>3, <2>4, <2>5 DEF Listed
<1>14. Kept'
  <2> SUFFICES ASSUME NEW c \in Calls, outcome[c] = "waiting"
               PROVE  \/ queueMap'[Key(c)] # None /\ c \in queueMap'[Key(c)].futures
                      \/ c \in o.futures
    BY <1>3, <1>5, <1>6 DEF Kept, Key
  <2>1. queueMap[Key(c)] # None /\ c \in queueMap[Key(c)].futures /\ Key(c) \in Keys
    BY <1>6, CallsAndKeys DEF DeliveryInv, Kept, Key
  <2> QED BY <2>1, <1>5, <1>6
<1>15. Ordered'
  <2>1. queueMap'[0] # None => h # 0 /\ queueMap'[0] = queueMap[0]
    BY <1>6, <1>7, CallsAndKeys
  <2>2. h = 0 => shown <= entered[o.op]
    BY <1>5 DEF DeliveryInv, Ordered
  <2> QED BY <2>1, <2>2, <1>3, <1>6, <1>11 DEF DeliveryInv, Ordered
<1>16. Told'
  BY <1>3 DEF DeliveryInv, Told
<1>17. Closing'
  <2>1. ~Refused
    BY DEF Take
  <2> QED BY <2>1, <1>3 DEF DeliveryInv, Closing, Refused
<1> QED BY <1>8, <1>10, <1>12, <1>13, <1>14, <1>15, <1>16, <1>17 DEF DeliveryInv

\* The empty sequence of keys.
LEMMA Nothing == <<>> \in Seq(Keys) /\ Len(<<>>) = 0
OBVIOUS

\* The limiter's shutdown: all who wait are cancelled, and the queue is cleared.
LEMMA ShutDownKeeps ==
    ASSUME DeliveryInv, ShutDown PROVE DeliveryInv'
<1>1. /\ platform = "outbox closed" /\ platform' = "settling"
      /\ queueList' = <<>> /\ queueMap' = [k \in Keys |-> None]
      /\ UNCHANGED <<kind, entered, ready, worker, active, shown, gone, clock>>
  BY DEF ShutDown
<1> DEFINE S == (UNION {queueMap[k].futures : k \in {j \in Keys : queueMap[j] # None}})
                  \cup (IF active = None THEN {} ELSE active.futures)
<1>2. \A c \in Calls : outcome[c] = "waiting" => c \in S
  <2> SUFFICES ASSUME NEW c \in Calls, outcome[c] = "waiting" PROVE c \in S
    OBVIOUS
  <2>1. Key(c) \in Keys
    BY CallsAndKeys DEF Key
  <2> QED BY <2>1 DEF DeliveryInv, Kept
<1>3. outcome' = [c \in Calls |-> IF c \in S /\ outcome[c] = "waiting" THEN "cancelled"
                                                                      ELSE outcome[c]]
  BY DEF ShutDown, Settle
<1> HIDE DEF S
<1>4. \A c \in Calls : outcome'[c] = IF outcome[c] = "waiting" THEN "cancelled" ELSE outcome[c]
  BY <1>2, <1>3
<1>5. DeliveryTypeOK'
  <2>1. outcome' \in [Calls -> {"unissued", "hopping", "ready", "waiting", "backoff"}
                                 \cup Ended]
    BY <1>3 DEF DeliveryInv, DeliveryTypeOK, Ended
  <2>2. queueMap' \in [Keys -> Operations \cup {None}]
    BY <1>1
  <2>3. queueList' \in Seq(Keys)
    BY <1>1, Nothing
  <2> QED BY <2>1, <2>2, <2>3, <1>1 DEF DeliveryInv, DeliveryTypeOK
<1>6. \A k \in Keys : queueMap'[k] = None
  BY <1>1
<1>7. active # None => Sound(active, Key(active.op))'
  <2> HAVE active # None
  <2>1. active \in Operations /\ Sound(active, Key(active.op))
    BY DEF DeliveryInv, DeliveryTypeOK, Taken
  <2>2. \A f \in active.futures : f \in Calls /\ outcome'[f] \in {"waiting", "cancelled"}
    BY <2>1, <1>4 DEF Operations, Sound
  <2>3. Sound(active, Key(active.op)) => \A f \in active.futures : Key(f) = Key(active.op)
    BY DEF Sound
  <2> QED BY <2>1, <2>2, <2>3, <1>1 DEF Sound, Key
<1>8. Queued' /\ Taken' /\ Listed' /\ Kept'
  <2>1. Queued'
    BY <1>6 DEF Queued
  <2>2. Taken'
    BY <1>1, <1>6, <1>7 DEF DeliveryInv, Taken
  <2>3. Listed'
    <3>1. queueList' = <<>> /\ Len(queueList') = 0
      BY <1>1, Nothing
    <3> QED BY <3>1, <1>6 DEF Listed
  <2>4. Kept'
    BY <1>4 DEF Kept
  <2> QED BY <2>1, <2>2, <2>3, <2>4
<1>9. Ordered'
  BY <1>1, <1>6, CallsAndKeys DEF DeliveryInv, Ordered
<1>10. Told'
  BY <1>1, <1>4 DEF DeliveryInv, Told
<1>11. Closing'
  BY <1>1, <1>4 DEF DeliveryInv, Closing
<1> QED BY <1>5, <1>8, <1>9, <1>10, <1>11 DEF DeliveryInv

-----------------------------------------------------------------------------
LEMMA Begins ==
    ASSUME DeliveryInit PROVE DeliveryInv
<1>1. DeliveryTypeOK
  BY Nothing DEF DeliveryInit, DeliveryTypeOK
<1>2. Queued /\ Taken /\ Kept
  BY DEF DeliveryInit, Queued, Taken, Kept
<1>3. Listed
  <2>1. Len(queueList) = 0
    BY Nothing DEF DeliveryInit
  <2> QED BY <2>1 DEF DeliveryInit, Listed
<1>4. Ordered /\ Told /\ Closing
  BY CallsAndKeys DEF DeliveryInit, Ordered, Told, Closing, Refused
<1> QED BY <1>1, <1>2, <1>3, <1>4 DEF DeliveryInv

LEMMA IssueKeeps ==
    ASSUME DeliveryInv, NEW c \in Calls, NEW k \in {"edit", "send"},
           NEW r \in {"await", "background", "task"}, Issue(c, k, r)
    PROVE  DeliveryInv'
<1>1. /\ outcome[c] = "unissued" /\ kind' = [kind EXCEPT ![c] = k]
      /\ UNCHANGED <<active, platform, shown, gone>>
  BY DEF Issue
<1>2. CASE platform = "open" /\ r = "await"
  <2>1. /\ outcome' = [outcome EXCEPT ![c] = "waiting"]
        /\ Enqueue(c, IF k = "edit" THEN 0 ELSE c, ready)
    BY <1>2 DEF Issue
  <2>2. kind'[c] = k /\ kind' \in [Calls -> {"edit", "send"}]
        /\ \A d \in Calls \ {c} : kind'[d] = kind[d]
    BY <1>1 DEF DeliveryInv, DeliveryTypeOK
  <2>3. Key(c)' = (IF k = "edit" THEN 0 ELSE c) /\ Key(c)' \in Keys
    BY <2>2, CallsAndKeys DEF Key
  <2>4. Enqueue(c, Key(c)', ready)
    BY <2>1, <2>3
  <2>5. ready \in Seq(Keys) /\ ~Refused
    BY <1>2 DEF DeliveryInv, DeliveryTypeOK, Refused
  <2>6. PICK j \in Keys : j = Key(c)'
    BY <2>3
  <2> QED BY <1>1, <2>1, <2>2, <2>4, <2>5, <2>6, EnqueueKeeps
<1>3. CASE platform # "open" \/ r # "await"
  <2>1. /\ UNCHANGED <<queueList, queueMap, worker, active, entered, clock, gone>>
        /\ outcome' \in [Calls -> {"unissued", "hopping", "ready", "waiting", "backoff"}
                                      \cup Ended]
        /\ \A d \in Calls \ {c} : outcome'[d] = outcome[d]
        /\ outcome'[c] \in {"refused", "hopping", "ready"}
        /\ platform # "open" => outcome'[c] = "refused"
    BY <1>1, <1>3 DEF Issue, DeliveryInv, DeliveryTypeOK, Ended
  <2>2. ready' \in Seq(Keys)
    <3>1. ready' = ready \/ ready' = Append(ready, c)
      BY <1>3 DEF Issue
    <3>2. ready \in Seq(Keys) /\ c \in Keys
      BY CallsAndKeys DEF DeliveryInv, DeliveryTypeOK
    <3>3. Append(ready, c) \in Seq(Keys)
      BY <3>2, Longer
    <3> QED BY <3>1, <3>2, <3>3
  <2>3. DeliveryTypeOK'
    BY <1>1, <2>1, <2>2 DEF DeliveryInv, DeliveryTypeOK
  <2>4. Closing'
    BY <1>1, <2>1 DEF DeliveryInv, Closing, Refused
  <2>5. Shows /\ WorkerKeeps
    BY <1>1, <2>1 DEF Shows, WorkerKeeps
  <2>6. \A d \in Calls : outcome[d] # "unissued" => kind'[d] = kind[d]
    BY <1>1 DEF DeliveryInv, DeliveryTypeOK
  <2> QED BY <1>1, <2>1, <2>3, <2>4, <2>5, <2>6, QuietKeeps
<1> QED BY <1>2, <1>3 DEF Issue

LEMMA OutboxTaskKeeps ==
    ASSUME DeliveryInv, RunOutboxTask PROVE DeliveryInv'
<1>1. PICK c \in Calls : c = Head(ready) /\ outcome[c] = "hopping"
  BY Shorter, CallsAndKeys DEF RunOutboxTask, DeliveryInv, DeliveryTypeOK
<1>2. ready \in Seq(Keys) /\ ready # <<>> /\ platform = "open"
  BY <1>1 DEF RunOutboxTask, DeliveryInv, DeliveryTypeOK, Closing
<1>3. /\ outcome' = [outcome EXCEPT ![c] = "ready"] /\ ready' = Append(Tail(ready), c)
      /\ UNCHANGED <<kind, entered, queueList, queueMap, worker, active, platform,
                     shown, gone, clock>>
  BY <1>1, <1>2 DEF RunOutboxTask
<1>4. ready' \in Seq(Keys)
  <2>1. Tail(ready) \in Seq(Keys) /\ c \in Keys
    BY <1>2, Shorter, CallsAndKeys
  <2> QED BY <1>3, <2>1, Longer
<1>5. /\ outcome'[c] = "ready" /\ \A d \in Calls \ {c} : outcome'[d] = outcome[d]
      /\ DeliveryTypeOK'
  BY <1>3, <1>4 DEF DeliveryInv, DeliveryTypeOK
<1>6. Closing'
  BY <1>2, <1>3 DEF Closing, Refused
<1>7. Shows /\ WorkerKeeps
  BY <1>3 DEF Shows, WorkerKeeps
<1> QED BY <1>1, <1>3, <1>5, <1>6, <1>7, QuietKeeps

LEMMA TaskKeeps ==
    ASSUME DeliveryInv, NEW c \in Calls, outcome[c] \in {"ready", "backoff"},
           NEW rest \in Seq(Keys), TaskEnqueues(c, rest)
    PROVE  DeliveryInv'
<1>1. UNCHANGED <<kind, active, platform, shown, gone>>
  BY DEF TaskEnqueues
<1>2. CASE ~Refused
  <2>1. outcome' = [outcome EXCEPT ![c] = "waiting"] /\ Enqueue(c, Key(c), rest)
    BY <1>2 DEF TaskEnqueues
  <2>2. Key(c) \in Keys /\ Key(c)' = Key(c) /\ kind' \in [Calls -> {"edit", "send"}]
    BY <1>1, CallsAndKeys DEF Key, DeliveryInv, DeliveryTypeOK
  <2>3. PICK j \in Keys : j = Key(c)
    BY <2>2
  <2> QED BY <1>1, <1>2, <2>1, <2>2, <2>3, EnqueueKeeps
<1>3. CASE Refused
  <2>1. /\ outcome' = [outcome EXCEPT ![c] = "failed"] /\ ready' = rest
        /\ UNCHANGED <<queueList, queueMap, worker, clock, entered>>
    BY <1>3 DEF TaskEnqueues
  <2>2. /\ outcome'[c] = "failed" /\ \A d \in Calls \ {c} : outcome'[d] = outcome[d]
        /\ DeliveryTypeOK'
    BY <1>1, <2>1 DEF DeliveryInv, DeliveryTypeOK, Ended
  <2>3. Closing'
    BY <1>1, <2>1, <2>2 DEF DeliveryInv, Closing, Refused
  <2>4. Shows /\ WorkerKeeps
    BY <1>1, <2>1 DEF Shows, WorkerKeeps
  <2> QED BY <1>1, <2>1, <2>2, <2>3, <2>4, QuietKeeps
<1> QED BY <1>2, <1>3

\* The steps of the loop and of the callers that leave the queue alone.
LEMMA LoopKeeps ==
    ASSUME DeliveryInv, Skip \/ Admitted \/ \E c \in Calls : CallerCancelled(c)
    PROVE  DeliveryInv'
<1>1. /\ UNCHANGED <<kind, entered, queueList, queueMap, active, platform, shown, gone, clock>>
      /\ worker' = worker \/ (worker = "waiting" /\ worker' = "calling" /\ ~Refused)
  BY DEF Skip, Admitted, CallerCancelled
<1>2. ready' \in Seq(Keys)
  BY Shorter DEF Skip, Admitted, CallerCancelled, DeliveryInv, DeliveryTypeOK
<1>3. /\ \A c \in Calls : \/ outcome'[c] = outcome[c]
                          \/ outcome[c] = "waiting" /\ outcome'[c] = "cancelled"
      /\ outcome' \in [Calls -> {"unissued", "hopping", "ready", "waiting", "backoff"}
                                    \cup Ended]
  BY DEF Skip, Admitted, CallerCancelled, DeliveryInv, DeliveryTypeOK, Ended
<1>4. DeliveryTypeOK'
  BY <1>1, <1>2, <1>3 DEF DeliveryInv, DeliveryTypeOK
<1>5. Closing'
  BY <1>1, <1>3 DEF DeliveryInv, Closing, Refused
<1>6. Shows /\ WorkerKeeps
  BY <1>1 DEF Shows, WorkerKeeps
<1> QED BY <1>1, <1>3, <1>4, <1>5, <1>6, QuietKeeps

\* Every way a call of the platform ends.
LEMMA CallKeeps ==
    ASSUME DeliveryInv, Succeeds \/ Suppressed \/ ConnectionError \/ OtherError
    PROVE  DeliveryInv'
<1>1. /\ worker = "calling" /\ UNCHANGED <<kind, entered, ready, queueList, queueMap,
                                           platform, clock>>
      /\ Show \/ UNCHANGED shown
      /\ gone' \in BOOLEAN /\ (gone => gone')
  BY DEF Succeeds, Suppressed, ConnectionError, OtherError, Calling, DeliveryInv, DeliveryTypeOK
<1>2. Shows /\ active # None /\ shown' \in Nat
  BY <1>1, ShowShows
<1>3. platform \notin {"reaping", "closed"}
  BY <1>1 DEF DeliveryInv, Closing
<1>4. CASE ConnectionError /\ UNCHANGED <<outcome, attempt, worker, active>>
  <2>1. UNCHANGED <<outcome, worker, active, gone>>
    BY <1>4 DEF ConnectionError
  <2>2. DeliveryTypeOK'
    BY <1>1, <1>2, <2>1 DEF DeliveryInv, DeliveryTypeOK
  <2>3. Closing' /\ WorkerKeeps
    BY <1>1, <2>1 DEF DeliveryInv, Closing, Refused, WorkerKeeps
  <2> QED BY <1>1, <1>2, <2>1, <2>2, <2>3, QuietKeeps
<1>5. CASE ~(ConnectionError /\ UNCHANGED <<outcome, attempt, worker, active>>)
  <2>1. Finish
    BY <1>5 DEF Succeeds, Suppressed, ConnectionError, OtherError
  <2>2. active' = None /\ worker' \in {"idle", "looping"}
    BY <2>1 DEF Finish
  <2>3. /\ \A c \in Calls : \/ outcome'[c] = outcome[c]
                            \/ /\ c \in active.futures /\ outcome[c] = "waiting"
                               /\ outcome'[c] \in {"done", "failed", "cancelled", "backoff"}
        /\ \A c \in active.futures : outcome'[c] # "waiting"
        /\ outcome' \in [Calls -> {"unissued", "hopping", "ready", "waiting", "backoff"}
                                      \cup Ended]
    <3>0. active.futures \subseteq Calls
      BY <1>2 DEF DeliveryInv, DeliveryTypeOK, Operations
    <3>1. CASE Succeeds \/ Suppressed
      BY <3>0, <3>1 DEF Succeeds, Suppressed, Settle, DeliveryInv, DeliveryTypeOK, Ended
    <3>2. CASE OtherError
      BY <3>0, <3>2 DEF OtherError, Settle, DeliveryInv, DeliveryTypeOK, Ended
    <3>3. CASE ConnectionError
      <4>1. outcome' = [c \in Calls |->
                IF c \notin active.futures \/ outcome[c] # "waiting" THEN outcome[c]
                ELSE IF route[c] # "await" /\ attempt[c] < 2 THEN "backoff"
                ELSE "failed"]
        BY <1>5, <3>3 DEF ConnectionError
      <4> QED BY <3>0, <4>1 DEF DeliveryInv, DeliveryTypeOK, Ended
    <3> QED BY <3>1, <3>2, <3>3
  <2>4. DeliveryTypeOK'
    BY <1>1, <1>2, <2>2, <2>3 DEF DeliveryInv, DeliveryTypeOK
  <2>5. Closing'
    BY <1>1, <1>3, <2>2, <2>3 DEF DeliveryInv, Closing, Refused
  <2>6. \A c \in active.futures :
            outcome'[c] = "done" /\ kind[active.op] = "edit" /\ ~gone' =>
                shown' = entered[active.op]
    <3>1. CASE Succeeds
      BY <3>1 DEF Succeeds, Show
    <3>2. CASE Suppressed
      BY <3>2 DEF Suppressed
    <3>3. CASE ConnectionError \/ OtherError
      <4>1. \A c \in active.futures : c \in Calls /\ outcome[c] # "done"
        BY <1>2 DEF DeliveryInv, DeliveryTypeOK, Taken, Sound, Operations
      <4>2. \A c \in active.futures : outcome'[c] # "done"
        BY <3>3, <4>1, <1>5 DEF ConnectionError, OtherError, Settle
      <4> QED BY <4>2
    <3> QED BY <3>1, <3>2, <3>3
  <2> QED BY <1>1, <1>2, <2>2, <2>3, <2>4, <2>5, <2>6, FinishKeeps
<1> QED BY <1>4, <1>5

\* Closing, step by step.
LEMMA CloseKeeps ==
    ASSUME DeliveryInv, Close PROVE DeliveryInv'
<1>1. CASE ShutDown
  BY <1>1, ShutDownKeeps
<1>2. CASE CloseOutbox \/ Reap
  <2>1. /\ UNCHANGED <<kind, entered, queueList, queueMap, worker, active, shown, gone, clock>>
        /\ \A c \in Calls : \/ outcome'[c] = outcome[c]
                            \/ outcome[c] \in {"hopping", "ready", "backoff"}
                               /\ outcome'[c] = "cancelled"
        /\ outcome' \in [Calls -> {"unissued", "hopping", "ready", "waiting", "backoff"}
                                      \cup Ended]
    BY <1>2 DEF CloseOutbox, Reap, DeliveryInv, DeliveryTypeOK, Ended
  <2>2. ready' \in Seq(Keys) /\ platform' \in {"outbox closed", "closed"}
    BY <1>2, Nothing DEF CloseOutbox, Reap, DeliveryInv, DeliveryTypeOK
  <2>3. DeliveryTypeOK'
    BY <2>1, <2>2 DEF DeliveryInv, DeliveryTypeOK
  <2>4. Closing'
    <3>1. CASE CloseOutbox
      BY <3>1, <2>1 DEF CloseOutbox, DeliveryInv, Closing, Refused
    <3>2. CASE Reap
      BY <3>2, <2>1 DEF Reap, DeliveryInv, Closing, Refused
    <3> QED BY <1>2, <3>1, <3>2
  <2>5. Shows /\ WorkerKeeps
    BY <2>1 DEF Shows, WorkerKeeps
  <2> QED BY <2>1, <2>3, <2>4, <2>5, QuietKeeps
<1>3. CASE WorkerEnds
  <2>1. /\ platform = "settling" /\ platform' = "reaping"
        /\ worker' = "ended" /\ active' = None
        /\ UNCHANGED <<outcome, kind, entered, ready, queueList, queueMap, gone, clock>>
        /\ IF worker = "calling" THEN Show \/ UNCHANGED shown ELSE UNCHANGED shown
    BY <1>3 DEF WorkerEnds
  <2>2. Shows /\ shown' \in Nat
    BY <2>1, ShowShows DEF Shows, DeliveryInv, DeliveryTypeOK
  <2>3. DeliveryTypeOK'
    BY <2>1, <2>2 DEF DeliveryInv, DeliveryTypeOK
  <2>4. Closing' /\ \A c \in Calls : outcome[c] # "waiting"
    BY <2>1 DEF DeliveryInv, Closing, Refused
  <2>5. CASE active = None
    BY <2>1, <2>2, <2>3, <2>4, <2>5, QuietKeeps DEF WorkerKeeps, DeliveryInv, Taken
  <2>6. CASE active # None
    <3>1. \A c \in active.futures : c \in Calls /\ outcome[c] = "cancelled"
      BY <2>4, <2>6 DEF DeliveryInv, DeliveryTypeOK, Taken, Sound, Operations
    <3> QED BY <2>1, <2>2, <2>3, <2>4, <2>6, <3>1, FinishKeeps
  <2> QED BY <2>5, <2>6
<1> QED BY <1>1, <1>2, <1>3 DEF Close

LEMMA StutterKeeps ==
    ASSUME DeliveryInv, UNCHANGED deliveryVars PROVE DeliveryInv'
<1>1. /\ UNCHANGED <<outcome, kind, entered, ready, queueList, queueMap, worker, active,
                     platform, shown, gone, clock>>
  BY DEF deliveryVars
<1>2. DeliveryTypeOK'
  BY <1>1 DEF DeliveryInv, DeliveryTypeOK
<1>3. Closing' /\ Shows /\ WorkerKeeps
  BY <1>1 DEF DeliveryInv, Closing, Refused, Shows, WorkerKeeps
<1> QED BY <1>1, <1>2, <1>3, QuietKeeps

LEMMA StepKeeps ==
    ASSUME DeliveryInv, [DeliveryNext]_deliveryVars PROVE DeliveryInv'
<1>1. CASE \E c \in Calls, k \in {"edit", "send"}, r \in {"await", "background", "task"} :
               Issue(c, k, r)
  BY <1>1, IssueKeeps
<1>2. CASE RunOutboxTask
  BY <1>2, OutboxTaskKeeps
<1>3. CASE StartBackground
  <2>1. PICK c \in Calls : c = Head(ready) /\ outcome[c] = "ready"
    BY <1>3, Shorter, CallsAndKeys DEF StartBackground, DeliveryInv, DeliveryTypeOK
  <2>2. Tail(ready) \in Seq(Keys) /\ TaskEnqueues(c, Tail(ready))
    BY <1>3, <2>1, Shorter DEF StartBackground, DeliveryInv, DeliveryTypeOK
  <2> QED BY <2>1, <2>2, TaskKeeps
<1>4. CASE \E c \in Calls : Retry(c)
  BY <1>4, TaskKeeps, Nothing DEF Retry
<1>5. CASE Skip \/ Admitted \/ \E c \in Calls : CallerCancelled(c)
  BY <1>5, LoopKeeps
<1>6. CASE Take
  BY <1>6, TakeKeeps
<1>7. CASE Succeeds \/ Suppressed \/ ConnectionError \/ OtherError
  BY <1>7, CallKeeps
<1>8. CASE Close
  BY <1>8, CloseKeeps
<1>9. CASE AllAnswered \/ UNCHANGED deliveryVars
  BY <1>9, StutterKeeps DEF AllAnswered
<1> QED
  BY <1>1, <1>2, <1>3, <1>4, <1>5, <1>6, <1>7, <1>8, <1>9 DEF DeliveryNext, Worker

\* Whatever is compacted, fails, is retried or cancelled, in any order of the
\* loop: an operation queued or taken is the newest of its callers', and they
\* are all who wait.
THEOREM DeliveryIsSound == DeliverySpec => []DeliveryInv
<1>1. DeliveryInit => DeliveryInv
  BY Begins
<1>2. DeliveryInv /\ [DeliveryNext]_deliveryVars => DeliveryInv'
  BY StepKeeps
<1> QED BY <1>1, <1>2, PTL DEF DeliverySpec

\* A caller told that its edit is done finds it, or one that entered the queue
\* later, on the message; and a closed platform has left nothing behind.
THEOREM CurrentAnswers == DeliverySpec => []AnswersAreCurrent
<1>1. DeliveryInv => AnswersAreCurrent
  <2> SUFFICES ASSUME DeliveryInv PROVE AnswersAreCurrent
    OBVIOUS
  <2>1. \A c \in Calls :
            outcome[c] = "done" /\ kind[c] = "edit" /\ ~gone => shown >= entered[c]
    BY DEF DeliveryInv, Told
  <2>2. ASSUME platform = "closed"
        PROVE  /\ worker = "ended" /\ queueList = <<>>
               /\ \A c \in Issued : outcome[c] \in Ended
    <3>1. \A c \in Calls : outcome[c] \notin {"hopping", "waiting", "ready", "backoff"}
      BY <2>2 DEF DeliveryInv, Closing, Refused
    <3>2. worker = "ended" /\ queueList = <<>>
      BY <2>2 DEF DeliveryInv, Closing, Refused
    <3> QED BY <3>1, <3>2 DEF DeliveryInv, DeliveryTypeOK, Issued, Ended
  <2> QED BY <2>1, <2>2 DEF AnswersAreCurrent
<1> QED BY <1>1, DeliveryIsSound, PTL

-----------------------------------------------------------------------------
\* The woken worker stands in what the loop has to run.
Called(tasks) == \E i \in 1..Len(tasks) : tasks[i] = 0

\* No wake-up is lost: a worker that sleeps has nothing to do, one that does not
\* is about to run, and none has ended before the limiter closes.
Awake ==
    /\ worker = "idle" => queueList = <<>>
    /\ worker = "woken" /\ ~Refused => queueList # <<>> /\ Called(ready)
    /\ worker = "looping" => queueList # <<>> \/ Refused
    /\ worker = "ended" => Refused

LEMMA CalledBefore ==
    ASSUME NEW s \in Seq(Keys), NEW k \in Keys, Called(s) PROVE Called(Append(s, k))
<1>1. PICK i \in 1..Len(s) : s[i] = 0
  BY DEF Called
<1>2. i \in 1..Len(Append(s, k)) /\ Append(s, k)[i] = 0
  BY <1>1, Longer
<1> QED BY <1>2 DEF Called

LEMMA CalledAfter ==
    ASSUME NEW s \in Seq(Keys), s # <<>>, Head(s) # 0, Called(s) PROVE Called(Tail(s))
<1>1. PICK i \in 1..Len(s) : s[i] = 0
  BY DEF Called
<1>2. i # 1
  BY <1>1, Shorter
<1>3. i - 1 \in 1..Len(Tail(s)) /\ Tail(s)[i - 1] = 0
  BY <1>1, <1>2, Shorter
<1> QED BY <1>3 DEF Called

LEMMA EnqueueWakes ==
    ASSUME DeliveryInv, Awake, NEW c \in Calls, NEW k \in Keys, NEW rest \in Seq(Keys),
           ~Refused, platform' = platform, Enqueue(c, k, rest),
           Called(ready) => Called(rest)
    PROVE  Awake'
<1>1. queueList \in Seq(Keys)
  BY DEF DeliveryInv, DeliveryTypeOK
<1>2. queueList' # <<>>
  <2>1. CASE queueMap[k] = None
    <3>1. queueList' = Append(queueList, k)
      BY <2>1 DEF Enqueue
    <3> QED BY <3>1, <1>1
  <2>2. CASE queueMap[k] # None
    <3>1. queueList' = queueList /\ Len(queueList) # 0
      BY <2>2 DEF Enqueue, DeliveryInv, Listed
    <3> QED BY <3>1, <1>1
  <2> QED BY <2>1, <2>2
<1>3. worker' # "idle" /\ (worker' = "ended" => worker = "ended")
  BY DEF Enqueue
<1>4. worker' = "woken" => Called(ready')
  <2>1. CASE worker = "idle"
    <3>1. ready' = Append(rest, 0)
      BY <2>1 DEF Enqueue
    <3>2. Len(rest) + 1 \in 1..Len(Append(rest, 0)) /\ Append(rest, 0)[Len(rest) + 1] = 0
      BY Longer, CallsAndKeys
    <3> QED BY <3>1, <3>2 DEF Called
  <2>2. CASE worker # "idle"
    <3>1. ready' = rest /\ worker' = worker
      BY <2>2 DEF Enqueue
    <3> QED BY <3>1 DEF Awake
  <2> QED BY <2>1, <2>2
<1> QED BY <1>2, <1>3, <1>4 DEF Awake, Refused, Called

\* Steps that leave the queue and the worker alone keep the worker called.
LEMMA QuietWakes ==
    ASSUME Awake, UNCHANGED <<queueList, worker>>, Refused => Refused',
           worker = "woken" /\ ~Refused' /\ Called(ready) => Called(ready')
    PROVE  Awake'
BY DEF Awake, Called

LEMMA StepWakes ==
    ASSUME DeliveryInv, Awake, [DeliveryNext]_deliveryVars PROVE Awake'
<1>0. ready \in Seq(Keys) /\ queueList \in Seq(Keys)
  BY DEF DeliveryInv, DeliveryTypeOK
<1>1. ASSUME NEW c \in Calls, NEW k \in {"edit", "send"},
             NEW r \in {"await", "background", "task"}, Issue(c, k, r)
      PROVE  Awake'
  <2>1. CASE platform = "open" /\ r = "await"
    <3>1. Enqueue(c, IF k = "edit" THEN 0 ELSE c, ready) /\ platform' = platform
      BY <1>1, <2>1 DEF Issue
    <3>2. PICK j \in Keys : j = IF k = "edit" THEN 0 ELSE c
      BY CallsAndKeys
    <3> QED BY <1>0, <2>1, <3>1, <3>2, EnqueueWakes DEF Refused
  <2>2. CASE platform # "open" \/ r # "await"
    <3>1. UNCHANGED <<queueList, worker, platform>>
          /\ (ready' = ready \/ ready' = Append(ready, c))
      BY <1>1, <2>2 DEF Issue
    <3>2. Called(ready) => Called(ready')
      BY <1>0, <3>1, CalledBefore, CallsAndKeys
    <3> QED BY <3>1, <3>2, QuietWakes DEF Refused
  <2> QED BY <2>1, <2>2
<1>2. CASE RunOutboxTask
  <2>1. /\ ready # <<>> /\ Head(ready) # 0 /\ UNCHANGED <<queueList, worker>>
        /\ (ready' = Tail(ready) \/ ready' = Append(Tail(ready), Head(ready)))
        /\ platform' = platform
    BY <1>2 DEF RunOutboxTask
  <2>2. Tail(ready) \in Seq(Keys) /\ Head(ready) \in Keys
    BY <1>0, <2>1, Shorter
  <2>3. Called(ready) => Called(ready')
    BY <1>0, <2>1, <2>2, CalledAfter, CalledBefore
  <2> QED BY <2>1, <2>3, QuietWakes DEF Refused
<1>3. ASSUME NEW c \in Calls, NEW rest \in Seq(Keys), TaskEnqueues(c, rest),
             Called(ready) => Called(rest)
      PROVE  Awake'
  <2>1. platform' = platform
    BY <1>3 DEF TaskEnqueues
  <2>2. CASE ~Refused
    <3>1. Enqueue(c, Key(c), rest)
      BY <1>3, <2>2 DEF TaskEnqueues
    <3>2. PICK j \in Keys : j = Key(c)
      BY CallsAndKeys DEF Key
    <3> QED BY <1>3, <2>1, <2>2, <3>1, <3>2, EnqueueWakes
  <2>3. CASE Refused
    <3>1. UNCHANGED <<queueList, worker>>
      BY <1>3, <2>3 DEF TaskEnqueues
    <3> QED BY <2>1, <2>3, <3>1, QuietWakes DEF Refused
  <2> QED BY <2>2, <2>3
<1>4. CASE StartBackground
  <2>1. PICK c \in Calls : c = Head(ready) /\ outcome[c] = "ready"
    BY <1>4, Shorter, CallsAndKeys DEF StartBackground, DeliveryInv, DeliveryTypeOK
  <2>2. /\ ready # <<>> /\ Head(ready) # 0 /\ Tail(ready) \in Seq(Keys)
        /\ TaskEnqueues(c, Tail(ready))
    BY <1>0, <1>4, <2>1, Shorter DEF StartBackground
  <2>3. Called(ready) => Called(Tail(ready))
    BY <1>0, <2>2, CalledAfter
  <2> QED BY <2>2, <2>3, <1>3
<1>5. ASSUME NEW c \in Calls, Retry(c) PROVE Awake'
  <2>1. ready = <<>> /\ TaskEnqueues(c, <<>>) /\ <<>> \in Seq(Keys)
    BY <1>5, Nothing DEF Retry
  <2> QED BY <2>1, <1>3
<1>6. CASE Skip
  <2>1. /\ ready # <<>> /\ ready' = Tail(ready) /\ UNCHANGED <<queueList, worker, platform>>
        /\ Head(ready) # 0 \/ worker = "ended"
    BY <1>6 DEF Skip
  <2>2. worker = "woken" /\ Called(ready) => Called(ready')
    BY <1>0, <2>1, CalledAfter
  <2> QED BY <2>1, <2>2, QuietWakes DEF Refused
<1>7. CASE \E c \in Calls : CallerCancelled(c)
  BY <1>7, QuietWakes DEF CallerCancelled, Refused
<1>8. CASE Take \/ Admitted
  BY <1>8 DEF Take, Admitted, Awake, Refused
<1>9. CASE Succeeds \/ Suppressed \/ ConnectionError \/ OtherError
  <2>1. /\ UNCHANGED <<queueList, ready, platform>>
        /\ \/ worker' = IF queueList = <<>> THEN "idle" ELSE "looping"
           \/ worker' = worker
    BY <1>9 DEF Succeeds, Suppressed, ConnectionError, OtherError, Finish
  <2>2. Called(ready)' = Called(ready) /\ Refused' = Refused
    BY <2>1 DEF Called, Refused
  <2> QED BY <2>1, <2>2 DEF Awake
<1>10. CASE Close
  <2>1. CASE CloseOutbox
    BY <2>1, QuietWakes DEF CloseOutbox, Refused
  <2>2. CASE ShutDown \/ WorkerEnds \/ Reap
    <3>1. Refused' /\ (worker' = worker \/ worker' = "ended") /\ queueList' = <<>>
      BY <2>2 DEF ShutDown, WorkerEnds, Reap, Refused, DeliveryInv, Closing
    <3> QED BY <3>1 DEF Awake
  <2> QED BY <1>10, <2>1, <2>2 DEF Close
<1>11. CASE AllAnswered \/ UNCHANGED deliveryVars
  BY <1>11, QuietWakes DEF AllAnswered, deliveryVars, Refused
<1> QED
  BY <1>1, <1>2, <1>4, <1>5, <1>6, <1>7, <1>8, <1>9, <1>10, <1>11
     DEF DeliveryNext, Worker

\* While the limiter is open, a call that waits for its answer is in the hands of
\* the worker, or in its queue; and then the worker is at work or called to it.
NobodyForgotten ==
    \A c \in Calls : outcome[c] = "waiting" =>
        \/ active # None /\ c \in active.futures
        \/ /\ \E i \in 1..Len(queueList) : c \in queueMap[queueList[i]].futures
           /\ worker \in {"waiting", "calling", "looping"} \/ (worker = "woken" /\ Called(ready))

\* enqueue and _worker never lose a caller nor a wake-up, whichever of them the
\* loop runs first.
THEOREM WaitersAreRemembered == DeliverySpec => []NobodyForgotten
<1>1. DeliveryInit => Awake
  BY DEF DeliveryInit, Awake
<1>2. DeliveryInv /\ Awake /\ [DeliveryNext]_deliveryVars => Awake'
  BY StepWakes
<1>3. DeliveryInv /\ Awake => NobodyForgotten
  <2> SUFFICES ASSUME DeliveryInv, Awake, NEW c \in Calls, outcome[c] = "waiting",
                      ~(active # None /\ c \in active.futures)
               PROVE  /\ \E i \in 1..Len(queueList) : c \in queueMap[queueList[i]].futures
                      /\ \/ worker \in {"waiting", "calling", "looping"}
                         \/ worker = "woken" /\ Called(ready)
    BY DEF NobodyForgotten
  <2>1. queueMap[Key(c)] # None /\ c \in queueMap[Key(c)].futures /\ Key(c) \in Keys
    BY CallsAndKeys DEF DeliveryInv, Kept, Key
  <2>2. PICK i \in 1..Len(queueList) : queueList[i] = Key(c)
    BY <2>1 DEF DeliveryInv, Listed
  <2>3. queueList # <<>> /\ ~Refused
    BY <2>2 DEF DeliveryInv, Closing
  <2>4. worker \in {"waiting", "calling", "looping"} \/ (worker = "woken" /\ Called(ready))
    BY <2>3 DEF Awake, DeliveryInv, DeliveryTypeOK
  <2> QED BY <2>1, <2>2, <2>4
<1> QED BY <1>1, <1>2, <1>3, DeliveryIsSound, PTL DEF DeliverySpec

\* A call is answered once, and the message never goes back to an edit that
\* entered the queue earlier.
OnceAndForward ==
    /\ shown <= shown'
    /\ \A c \in Calls : outcome[c] \in Ended =>
           outcome'[c] = outcome[c] /\ entered'[c] = entered[c]

\* Futures are only set while they are not done, and no retry, compaction or
\* shutdown brings an older text back.
THEOREM AnswersAreFinal == DeliverySpec => [][OnceAndForward]_deliveryVars
<1>1. ASSUME DeliveryInv, DeliveryNext PROVE OnceAndForward
  <2>0. /\ shown \in Nat /\ outcome \in [Calls -> {"unissued", "hopping", "ready", "waiting",
                                                   "backoff"} \cup Ended]
        /\ entered \in [Calls -> Nat]
        /\ \A c \in Calls : outcome[c] \in Ended =>
               outcome[c] \notin {"unissued", "hopping", "ready", "waiting", "backoff"}
    BY <1>1 DEF DeliveryInv, DeliveryTypeOK, Ended
  <2>1. shown <= shown'
    <3>1. Shows
      <4>1. CASE Worker
        <5>1. \/ UNCHANGED shown
              \/ worker = "calling" /\ (Show \/ UNCHANGED shown)
          BY <4>1 DEF Worker, Take, Admitted, Succeeds, Suppressed, ConnectionError,
                      OtherError, Calling
        <5> QED BY <1>1, <5>1, ShowShows DEF Shows
      <4>2. CASE Close
        <5>1. \/ UNCHANGED shown
              \/ worker = "calling" /\ (Show \/ UNCHANGED shown)
          BY <4>2 DEF Close, CloseOutbox, ShutDown, WorkerEnds, Reap
        <5> QED BY <1>1, <5>1, ShowShows DEF Shows
      <4>3. CASE ~Worker /\ ~Close
        BY <1>1, <4>3 DEF DeliveryNext, Shows, Issue, RunOutboxTask, StartBackground, Retry,
                          TaskEnqueues, Skip, CallerCancelled, AllAnswered, deliveryVars
      <4> QED BY <4>1, <4>2, <4>3
    <3> QED BY <1>1, <3>1, ShowKeeps
  <2>2. ASSUME NEW c \in Calls, outcome[c] \in Ended PROVE outcome'[c] = outcome[c]
    <3>1. CASE Worker \/ Close
      BY <1>1, <2>0, <2>2, <3>1
         DEF Worker, Take, Admitted, Succeeds, Suppressed, ConnectionError, OtherError,
             Settle, Close, CloseOutbox, ShutDown, WorkerEnds, Reap
    <3>2. CASE ~Worker /\ ~Close
      BY <1>1, <2>0, <2>2, <3>2
         DEF DeliveryNext, Issue, RunOutboxTask, StartBackground, Retry,
             TaskEnqueues, Skip, CallerCancelled, AllAnswered, deliveryVars
    <3> QED BY <3>1, <3>2
  <2>3. ASSUME NEW c \in Calls, outcome[c] \in Ended PROVE entered'[c] = entered[c]
    <3>1. CASE \E d \in Calls, k \in {"edit", "send"}, r \in {"await", "background", "task"} :
                   Issue(d, k, r)
      BY <2>0, <2>3, <3>1 DEF Issue, Enqueue
    <3>2. CASE StartBackground \/ \E d \in Calls : Retry(d)
      <4>1. PICK d, rest : TaskEnqueues(d, rest) /\ outcome[d] \in {"ready", "backoff"}
        BY <3>2 DEF StartBackground, Retry
      <4>2. d # c
        BY <2>0, <2>3, <4>1
      <4> QED BY <2>0, <4>1, <4>2 DEF TaskEnqueues, Enqueue
    <3>3. CASE Worker \/ Close
      BY <3>3 DEF Worker, Take, Admitted, Succeeds, Suppressed, ConnectionError, OtherError,
                  Close, CloseOutbox, ShutDown, WorkerEnds, Reap
    <3>4. CASE RunOutboxTask \/ Skip \/ AllAnswered \/ \E d \in Calls : CallerCancelled(d)
      BY <3>4 DEF RunOutboxTask, Skip, AllAnswered, CallerCancelled, deliveryVars
    <3> QED BY <1>1, <3>1, <3>2, <3>3, <3>4 DEF DeliveryNext
  <2> QED BY <2>1, <2>2, <2>3 DEF OnceAndForward
<1> QED BY <1>1, DeliveryIsSound, PTL DEF DeliverySpec
-----------------------------------------------------------------------------
(***************************************************************************)
(* SlidingWindow: the limiter holds for any callers, limit and window.     *)
(***************************************************************************)
\* How many acquisitions are no longer remembered, if `remembered` are.
Forgotten(remembered) == Len(granted) - Len(remembered)

\* What is remembered are the newest acquisitions, and the others have expired.
Remembers(remembered) ==
    /\ remembered \in Seq(Nat)
    /\ Forgotten(remembered) \in Nat
    /\ \A i \in 1..Len(remembered) : remembered[i] = granted[Forgotten(remembered) + i]
    /\ \A i \in 1..Forgotten(remembered) : Expired(granted[i])

\* No acquisition is in the future.
Past == \A i \in 1..Len(granted) : granted[i] <= now

WindowInv == TypeOK /\ Remembers(times) /\ Past /\ Windowed

-----------------------------------------------------------------------------
\* Dropping what has expired keeps the newest acquisitions, and drops nothing
\* while the oldest has not expired.
LEMMA PrunesRemembers ==
    ASSUME WindowInv, NEW kept, Prunes(kept)
    PROVE  /\ Remembers(kept)
           /\ times # <<>> /\ ~Expired(times[1]) => kept = times
<1>1. PICK dropped \in 0..Len(times) :
        /\ \A i \in 1..dropped : Expired(times[i])
        /\ kept = SubSeq(times, dropped + 1, Len(times))
  BY DEF Prunes
<1>t. times \in Seq(Nat) /\ granted \in Seq(Nat) /\ now \in Nat
  BY DEF WindowInv, TypeOK
<1>w. WindowAssumption
  BY WindowAssumption
<1>2. kept \in Seq(Nat) /\ Len(kept) = Len(times) - dropped
  BY <1>1, <1>t
<1>3. \A i \in 1..Len(kept) : kept[i] = times[dropped + i]
  BY <1>1, <1>2, <1>t
<1>4. Forgotten(times) \in Nat /\ Forgotten(kept) = Forgotten(times) + dropped
  BY <1>2, <1>t DEF WindowInv, Remembers, Forgotten
<1>5. \A i \in 1..Len(kept) : kept[i] = granted[Forgotten(kept) + i]
  <2> TAKE i \in 1..Len(kept)
  <2>1. dropped + i \in 1..Len(times)
    BY <1>2, <1>t
  <2>2. times[dropped + i] = granted[Forgotten(times) + (dropped + i)]
    BY <2>1 DEF WindowInv, Remembers
  <2>3. Forgotten(times) + (dropped + i) = Forgotten(kept) + i
    BY <1>4
  <2> QED BY <2>2, <2>3, <1>3
<1>6. \A i \in 1..Forgotten(kept) : Expired(granted[i])
  <2> TAKE i \in 1..Forgotten(kept)
  <2>1. CASE i \in 1..Forgotten(times)
    BY <2>1 DEF WindowInv, Remembers
  <2>2. CASE i \notin 1..Forgotten(times)
    <3>1. i - Forgotten(times) \in 1..dropped
      BY <2>2, <1>4
    <3>2. i - Forgotten(times) \in 1..Len(times)
      BY <3>1, <1>1, <1>t
    <3>3. times[i - Forgotten(times)] = granted[Forgotten(times) + (i - Forgotten(times))]
      BY <3>2 DEF WindowInv, Remembers
    <3> QED BY <3>1, <3>3, <1>1, <1>4
  <2> QED BY <2>1, <2>2
<1>7. ASSUME times # <<>>, ~Expired(times[1]) PROVE kept = times
  <2>1. dropped = 0
    BY <1>1, <1>7, <1>t
  <2> QED BY <2>1, <1>1, <1>t
<1> QED BY <1>2, <1>4, <1>5, <1>6, <1>7 DEF Remembers

-----------------------------------------------------------------------------
LEMMA WindowBegins == Init => WindowInv
  BY WindowAssumption DEF Init, WindowInv, TypeOK, Remembers, Forgotten, Past, Windowed,
     StrictWindow, NoOversleep

LEMMA AcquireKeeps ==
    ASSUME WindowInv, NEW c \in Callers, Acquire(c)
    PROVE  WindowInv'
<1>1. PICK kept \in Suffixes, later \in now..MaxTime :
        /\ Prunes(kept)
        /\ Len(kept) < RateLimit
        /\ now' = later
        /\ times' = Append(kept, later)
        /\ granted' = Append(granted, later)
  BY DEF Acquire
<1>t. /\ times \in Seq(Nat) /\ granted \in Seq(Nat) /\ now \in Nat /\ later \in Nat
      /\ now <= later
  BY <1>1, WindowAssumption DEF WindowInv, TypeOK
<1>w. RateLimit \in Nat \ {0} /\ Window \in Nat \ {0}
  BY WindowAssumption
<1>2. Remembers(kept) /\ (times # <<>> /\ ~Expired(times[1]) => kept = times)
  BY <1>1, PrunesRemembers
<1>3. TypeOK'
  <2>1. now' \in Nat /\ times' \in Seq(Nat) /\ granted' \in Seq(Nat)
    BY <1>1, <1>t, <1>2 DEF Remembers
  <2>2. /\ place' \in [Callers -> {"outside", "asleep", "through", "refused"}]
        /\ wake' \in [Callers -> Nat]
    BY DEF WindowInv, TypeOK, Acquire
  <2> QED BY <2>1, <2>2 DEF TypeOK
<1>4. /\ Len(granted') = Len(granted) + 1 /\ Len(times') = Len(kept) + 1
      /\ \A i \in 1..Len(granted) : granted'[i] = granted[i]
      /\ granted'[Len(granted) + 1] = later
      /\ \A i \in 1..Len(kept) : times'[i] = kept[i]
      /\ times'[Len(kept) + 1] = later
  BY <1>1, <1>t, <1>2 DEF Remembers
<1>5. Forgotten(times)' = Forgotten(kept) /\ Forgotten(kept) \in Nat
  BY <1>4, <1>t, <1>2 DEF Forgotten, Remembers
<1>6. \A i \in 1..Forgotten(kept) : granted[i] + Window <= now /\ granted[i] \in Nat
  <2> TAKE i \in 1..Forgotten(kept)
  <2>1. Len(kept) \in Nat /\ Forgotten(kept) = Len(granted) - Len(kept)
    BY <1>2 DEF Remembers, Forgotten
  <2>2. i \in 1..Len(granted)
    BY <2>1, <1>5, <1>t
  <2>3. Expired(granted[i])
    BY <1>2 DEF Remembers
  <2> QED BY <2>2, <2>3, <1>t DEF Expired
<1>7. Remembers(times)'
  <2>1. \A i \in 1..Len(times') : times'[i] = granted'[Forgotten(kept) + i]
    <3> TAKE i \in 1..Len(times')
    <3>1. CASE i \in 1..Len(kept)
      <4>1. kept[i] = granted[Forgotten(kept) + i]
        BY <3>1, <1>2 DEF Remembers
      <4>2. Forgotten(kept) + i \in 1..Len(granted)
        BY <3>1, <1>2, <1>t DEF Remembers, Forgotten
      <4> QED BY <4>1, <4>2, <3>1, <1>4
    <3>2. CASE i = Len(kept) + 1
      <4>1. Forgotten(kept) + i = Len(granted) + 1
        BY <3>2, <1>2, <1>t DEF Remembers, Forgotten
      <4> QED BY <4>1, <3>2, <1>4
    <3> QED BY <3>1, <3>2, <1>4, <1>2 DEF Remembers
  <2>2. \A i \in 1..Forgotten(kept) : granted'[i] + Window <= now'
    <3> TAKE i \in 1..Forgotten(kept)
    <3>1. i \in 1..Len(granted)
      BY <1>2, <1>t DEF Remembers, Forgotten
    <3> QED BY <3>1, <1>4, <1>6, <1>1, <1>t, <1>w
  <2> QED BY <2>1, <2>2, <1>5, <1>3 DEF Remembers, Expired, TypeOK
<1>8. Past'
  <2> SUFFICES ASSUME NEW i \in 1..Len(granted') PROVE granted'[i] <= now'
    BY DEF Past
  <2>1. CASE i \in 1..Len(granted)
    BY <2>1, <1>4, <1>1, <1>t DEF WindowInv, Past
  <2>2. CASE i = Len(granted) + 1
    BY <2>2, <1>4, <1>1, <1>t
  <2> QED BY <2>1, <2>2, <1>4, <1>t
<1>9. StrictWindow'
  <2> SUFFICES ASSUME NEW i \in 1..Len(granted'), NEW j \in 1..Len(granted'),
                      i + RateLimit <= j
               PROVE  granted'[i] + Window <= granted'[j]
    BY <1>3 DEF StrictWindow, TypeOK
  <2>0. i \in Nat /\ j \in Nat /\ i + RateLimit <= j
    BY <1>4, <1>t
  <2>1. CASE j \in 1..Len(granted)
    <3>1. i \in 1..Len(granted)
      BY <2>1, <1>4, <1>t, <1>w
    <3>2. granted[i] + Window <= granted[j]
      BY <2>1, <2>0, <3>1, <1>t DEF WindowInv, Windowed, StrictWindow
    <3> QED BY <2>1, <3>1, <3>2, <1>4
  <2>2. CASE j = Len(granted) + 1
    <3>1. i \in 1..Forgotten(kept)
      BY <2>2, <1>1, <1>2, <1>t, <1>w DEF Remembers, Forgotten
    <3>2. i \in 1..Len(granted)
      BY <3>1, <1>2, <1>t DEF Remembers, Forgotten
    <3>3. granted[i] + Window <= now /\ granted[i] \in Nat
      BY <3>1, <1>6
    <3> QED BY <3>2, <3>3, <2>2, <1>4, <1>t, <1>w
  <2> QED BY <2>1, <2>2, <1>4, <1>t
<1>10. NoOversleep'
  <2> SUFFICES ASSUME NEW d \in Callers, place'[d] = "asleep", wake'[d] > now'
               PROVE  times' # <<>> /\ wake'[d] <= times'[1] + Window
    BY DEF NoOversleep
  <2>1. place[d] = "asleep" /\ wake[d] > now /\ wake'[d] = wake[d] /\ wake[d] \in Nat
    BY <1>1, <1>t DEF Acquire, WindowInv, TypeOK
  <2>2. times # <<>> /\ wake[d] <= times[1] + Window
    BY <2>1 DEF WindowInv, Windowed, NoOversleep
  <2>3. times[1] \in Nat /\ ~Expired(times[1])
    BY <2>1, <2>2, <1>t, <1>w DEF Expired
  <2>4. kept = times /\ 1 \in 1..Len(kept)
    BY <1>2, <2>2, <2>3, <1>t
  <2>5. times'[1] = times[1] /\ times' # <<>>
    BY <2>4, <1>4, <1>3 DEF TypeOK
  <2> QED BY <2>1, <2>2, <2>5
<1> QED BY <1>3, <1>7, <1>8, <1>9, <1>10 DEF WindowInv, Windowed

LEMMA RefuseKeeps ==
    ASSUME WindowInv, NEW c \in Callers, Refuse(c)
    PROVE  WindowInv'
<1>1. PICK kept \in Suffixes : Prunes(kept) /\ times' = kept
  BY DEF Refuse
<1>2. Remembers(kept) /\ (times # <<>> /\ ~Expired(times[1]) => kept = times)
  BY <1>1, PrunesRemembers
<1>3. UNCHANGED <<now, wake, granted>>
  BY DEF Refuse
<1>4. TypeOK' /\ Remembers(times)' /\ Past' /\ StrictWindow'
  BY <1>1, <1>2, <1>3 DEF WindowInv, TypeOK, Refuse, Remembers, Forgotten, Expired, Past,
     Windowed, StrictWindow
<1>5. NoOversleep'
  <2> SUFFICES ASSUME NEW d \in Callers, place'[d] = "asleep", wake'[d] > now'
               PROVE  times' # <<>> /\ wake'[d] <= times'[1] + Window
    BY DEF NoOversleep
  <2>1. place[d] = "asleep" /\ wake[d] > now /\ wake'[d] = wake[d]
    BY <1>3 DEF Refuse, WindowInv, TypeOK
  <2>2. times # <<>> /\ wake[d] <= times[1] + Window
    BY <2>1 DEF WindowInv, Windowed, NoOversleep
  <2>3. ~Expired(times[1])
    BY <2>1, <2>2, WindowAssumption DEF Expired, WindowInv, TypeOK
  <2> QED BY <2>1, <2>2, <2>3, <1>1, <1>2
<1> QED BY <1>4, <1>5 DEF WindowInv, Windowed

LEMMA SleepKeeps ==
    ASSUME WindowInv, NEW c \in Callers, Sleep(c)
    PROVE  WindowInv'
<1>1. PICK kept \in Suffixes :
        /\ Prunes(kept) /\ Len(kept) >= RateLimit /\ times' = kept
        /\ wake' = [wake EXCEPT ![c] = kept[1] + Window]
  BY DEF Sleep
<1>w. RateLimit \in Nat \ {0} /\ Window \in Nat \ {0}
  BY WindowAssumption
<1>2. Remembers(kept) /\ (times # <<>> /\ ~Expired(times[1]) => kept = times)
  BY <1>1, PrunesRemembers
<1>3. UNCHANGED <<now, granted>>
  BY DEF Sleep
<1>k. kept \in Seq(Nat) /\ kept # <<>> /\ kept[1] \in Nat
  BY <1>1, <1>2, <1>w DEF Remembers
<1>4. TypeOK'
  BY <1>1, <1>3, <1>k, <1>w DEF WindowInv, TypeOK, Sleep
<1>5. Remembers(times)' /\ Past' /\ StrictWindow'
  BY <1>1, <1>2, <1>3 DEF WindowInv, TypeOK, Remembers, Forgotten, Expired, Past, Windowed,
     StrictWindow
<1>6. NoOversleep'
  <2> SUFFICES ASSUME NEW d \in Callers, place'[d] = "asleep", wake'[d] > now'
               PROVE  times' # <<>> /\ wake'[d] <= times'[1] + Window
    BY DEF NoOversleep
  <2>1. CASE d = c
    BY <2>1, <1>1, <1>k, <1>w DEF WindowInv, TypeOK
  <2>2. CASE d # c
    <3>1. place[d] = "asleep" /\ wake[d] > now /\ wake'[d] = wake[d]
      BY <2>2, <1>1, <1>3 DEF Sleep, WindowInv, TypeOK
    <3>2. times # <<>> /\ wake[d] <= times[1] + Window
      BY <3>1 DEF WindowInv, Windowed, NoOversleep
    <3>3. ~Expired(times[1])
      BY <3>1, <3>2, <1>w DEF Expired, WindowInv, TypeOK
    <3> QED BY <3>1, <3>2, <3>3, <1>1, <1>2
  <2> QED BY <2>1, <2>2
<1> QED BY <1>4, <1>5, <1>6 DEF WindowInv, Windowed

LEMMA TickKeeps ==
    ASSUME WindowInv, Tick
    PROVE  WindowInv'
<1>1. TypeOK' /\ StrictWindow' /\ Past'
  BY WindowAssumption DEF WindowInv, TypeOK, Tick, Windowed, StrictWindow, Past
<1>2. Remembers(times)'
  BY WindowAssumption DEF WindowInv, TypeOK, Tick, Remembers, Forgotten, Expired
<1>3. NoOversleep'
  BY DEF WindowInv, TypeOK, Tick, Windowed, NoOversleep
<1> QED BY <1>1, <1>2, <1>3 DEF WindowInv, Windowed

LEMMA OthersKeep ==
    ASSUME WindowInv,
           UNCHANGED vars \/ \E c \in Callers : Leave(c) \/ Again(c)
    PROVE  WindowInv'
<1>1. UNCHANGED <<now, times, wake, granted>>
  BY DEF vars, Leave, Again
<1>2. /\ place' \in [Callers -> {"outside", "asleep", "through", "refused"}]
      /\ \A c \in Callers : place'[c] = "asleep" => place[c] = "asleep"
  BY DEF vars, Leave, Again, WindowInv, TypeOK
<1>3. TypeOK' /\ Remembers(times)' /\ Past' /\ StrictWindow'
  BY <1>1, <1>2 DEF WindowInv, TypeOK, Remembers, Forgotten, Expired, Past, Windowed,
     StrictWindow
<1>4. NoOversleep'
  BY <1>1, <1>2 DEF WindowInv, Windowed, NoOversleep
<1> QED BY <1>3, <1>4 DEF WindowInv, Windowed

\* The inductive invariant: what the limiter remembers is exactly what has not
\* left the window, so that a full window is never taken for one with room.
THEOREM WindowIsSound == Spec => []WindowInv
<1>1. WindowInv /\ [Next]_vars => WindowInv'
  BY AcquireKeeps, RefuseKeeps, SleepKeeps, TickKeeps, OthersKeep DEF Next
<1> QED BY WindowBegins, <1>1, PTL DEF Spec

\* No interval of the window's length has more than RateLimit acquisitions,
\* and no caller sleeps past the end of a full window.
THEOREM WindowHolds == Spec => []Windowed
<1>1. WindowInv => Windowed
  BY DEF WindowInv
<1> QED BY WindowIsSound, <1>1, PTL
-----------------------------------------------------------------------------
(***************************************************************************)
(* VoiceNotes: each note and each status message has one owner, for any    *)
(* handles, commands and messages.                                         *)
(***************************************************************************)
\* Between its reservation and its end.
Underway == {"sending", "working", "handing", "cleaning"}
Cancellations ==
    [stage : {"idle", "requested", "draining", "returned"},
     waits : SUBSET Handles, released : SUBSET Handles]

VoiceTypeOK ==
    /\ phase \in [Handles -> {"new", "ended"} \cup Underway]
    /\ voice \in [Handles -> Messages \cup {None}]
    /\ pending \in [Messages -> Handles \cup {None}]
    /\ bound \in [Handles -> BOOLEAN]
    /\ task \in [Handles -> {"none", "created", "running", "done"}]
    /\ killed \in [Handles -> BOOLEAN]
    /\ handed \in [Handles -> BOOLEAN]
    /\ cancellation \in [Cancellers -> Cancellations]
    /\ status \in [Handles ->
                      {"none", "posted", "turn", "canceller", "deleted", "lost"}]

\* A cancellation has released the note.
Released(h) == \E c \in Cancellers : h \in cancellation[c].released

\* The registry has notes that are under way, each at its own message.
Registered ==
    \A m \in Messages : pending[m] # None =>
        voice[pending[m]] = m /\ phase[pending[m]] \in Underway

\* What a note has by the phase it is in.
Staged ==
    \A h \in Handles :
        /\ phase[h] \in {"new", "sending"} => ~bound[h] /\ status[h] = "none"
        /\ phase[h] \in {"new", "sending", "working"} => task[h] = "none"
        /\ phase[h] \in {"working", "handing"} => bound[h]
        /\ phase[h] = "handing" => task[h] # "none"
        /\ phase[h] \in Underway => voice[h] # None
        /\ status[h] = "deleted" => phase[h] = "ended"

\* What its hand-off has done.
Running ==
    \A h \in Handles :
        /\ task[h] # "none" => bound[h]
        /\ task[h] \in {"none", "created"} => ~handed[h]
        /\ task[h] = "running" => handed[h]
        /\ killed[h] => task[h] # "none"
        /\ handed[h] => status[h] # "posted"

\* What each cancellation has released, and which hand-offs it waits for.
Drained ==
    \A c \in Cancellers :
        /\ cancellation[c].stage \in {"idle", "requested"} => cancellation[c].released = {}
        /\ cancellation[c].waits \subseteq cancellation[c].released
        /\ \A h \in cancellation[c].released \ cancellation[c].waits : task[h] = "none"
        /\ cancellation[c].stage = "returned" =>
              \A h \in cancellation[c].waits : task[h] = "done"

\* A released note has left the registry, to one cancellation, which has its
\* status message when it returns.
Singly ==
    \A c \in Cancellers : \A h \in cancellation[c].released :
        /\ phase[h] # "new" /\ ~Owned(h)
        /\ \A d \in Cancellers : h \in cancellation[d].released => c = d
        /\ status[h] = "posted" /\ bound[h] => cancellation[c].stage # "returned"
        /\ ~(status[h] = "deleted" /\ bound[h])

\* A note that has left the registry without being handed over was released.
Explained ==
    \A h \in Handles :
        /\ phase[h] \in Underway /\ ~Owned(h) /\ ~handed[h] => Released(h)
        /\ killed[h] /\ task[h] = "created" => Released(h)
        /\ task[h] = "done" /\ ~handed[h] => Released(h)
        /\ phase[h] = "ended" /\ status[h] = "posted" => bound[h] /\ Released(h)

VoiceInv ==
    VoiceTypeOK /\ Registered /\ Staged /\ Running /\ Drained /\ Singly /\ Explained

LEMMA VoiceBegins == VoiceInit => VoiceInv
<1> SUFFICES ASSUME VoiceInit PROVE VoiceInv
  OBVIOUS
<1>1. VoiceTypeOK
  BY DEF VoiceInit, VoiceTypeOK, Cancellations, Idle
<1>2. Registered /\ Staged /\ Running
  BY DEF VoiceInit, Registered, Staged, Running, Underway
<1>3. Drained /\ Singly
  BY DEF VoiceInit, Drained, Singly, Idle
<1>4. Explained
  BY DEF VoiceInit, Explained, Underway
<1> QED BY <1>1, <1>2, <1>3, <1>4 DEF VoiceInv

LEMMA StartKeeps ==
    ASSUME VoiceInv, NEW h \in Handles, NEW m \in Messages, NEW s \in {"prompt", "stop"},
           Start(h, m, s)
    PROVE  VoiceInv'
<1>1. VoiceTypeOK'
  BY DEF VoiceInv, VoiceTypeOK, Underway, Start
<1>2. Registered'
  BY DEF VoiceInv, VoiceTypeOK, Registered, Underway, Start
<1>3. Staged'
  BY VoiceAssumption DEF VoiceInv, VoiceTypeOK, Staged, Start
<1>4. Running'
  BY DEF VoiceInv, Running, Start
<1>5. Drained'
  BY DEF VoiceInv, Drained, Start
<1>6. Singly'
  BY DEF VoiceInv, VoiceTypeOK, Singly, Owned, Cancellations, Start
<1>7. Explained'
  BY VoiceAssumption DEF VoiceInv, VoiceTypeOK, Explained, Staged, Released, Owned,
                         Underway, Start
<1> QED BY <1>1, <1>2, <1>3, <1>4, <1>5, <1>6, <1>7 DEF VoiceInv

LEMMA StatusSentKeeps ==
    ASSUME VoiceInv, NEW h \in Handles, StatusSent(h)
    PROVE  VoiceInv'
<1>1. VoiceTypeOK'
  BY DEF VoiceInv, VoiceTypeOK, Underway, Owned, StatusSent
<1>2. Registered'
  BY DEF VoiceInv, Registered, Underway, StatusSent
<1>3. Staged'
  BY DEF VoiceInv, VoiceTypeOK, Staged, StatusSent
<1>4. Running'
  BY DEF VoiceInv, Running, Staged, StatusSent
<1>5. Drained'
  BY DEF VoiceInv, Drained, StatusSent
<1>6. Singly'
  BY DEF VoiceInv, VoiceTypeOK, Singly, Staged, Owned, StatusSent
<1>7. Explained'
  BY DEF VoiceInv, Explained, Released, Owned, Underway, StatusSent
<1> QED BY <1>1, <1>2, <1>3, <1>4, <1>5, <1>6, <1>7 DEF VoiceInv

LEMMA WorkFailsKeeps ==
    ASSUME VoiceInv, NEW h \in Handles, WorkFails(h)
    PROVE  VoiceInv'
<1>1. VoiceTypeOK'
  BY DEF VoiceInv, VoiceTypeOK, Underway, WorkFails
<1>2. Registered'
  BY DEF VoiceInv, Registered, Underway, WorkFails
<1>3. Staged'
  BY DEF VoiceInv, Staged, Underway, WorkFails
<1>4. Running'
  BY DEF VoiceInv, Running, WorkFails
<1>5. Drained'
  BY DEF VoiceInv, Drained, WorkFails
<1>6. Singly'
  BY DEF VoiceInv, Singly, Owned, WorkFails
<1>7. Explained'
  BY DEF VoiceInv, Explained, Released, Owned, Underway, WorkFails
<1> QED BY <1>1, <1>2, <1>3, <1>4, <1>5, <1>6, <1>7 DEF VoiceInv

LEMMA HandoffKeeps ==
    ASSUME VoiceInv, NEW h \in Handles, Handoff(h)
    PROVE  VoiceInv'
<1>1. VoiceTypeOK'
  BY DEF VoiceInv, VoiceTypeOK, Underway, Handoff
<1>2. Registered'
  BY DEF VoiceInv, VoiceTypeOK, Registered, Underway, Handoff
<1>3. Staged'
  BY DEF VoiceInv, VoiceTypeOK, Staged, Handoff
<1>4. Running'
  BY DEF VoiceInv, VoiceTypeOK, Running, Staged, Handoff
<1>5. Drained'
  BY DEF VoiceInv, VoiceTypeOK, Drained, Singly, Cancellations, Handoff
<1>6. Singly'
  BY DEF VoiceInv, VoiceTypeOK, Singly, Owned, Cancellations, Handoff
<1>7. Explained'
  BY DEF VoiceInv, VoiceTypeOK, Explained, Staged, Running, Released, Owned, Handoff
<1> QED BY <1>1, <1>2, <1>3, <1>4, <1>5, <1>6, <1>7 DEF VoiceInv

LEMMA TaskStartsKeeps ==
    ASSUME VoiceInv, NEW h \in Handles, TaskStarts(h)
    PROVE  VoiceInv'
<1>1. VoiceTypeOK'
  <2>1. CASE killed[h]
    BY <2>1 DEF VoiceInv, VoiceTypeOK, TaskStarts
  <2>2. CASE ~killed[h]
    BY <2>2 DEF VoiceInv, VoiceTypeOK, TaskStarts
  <2> QED BY <2>1, <2>2
<1>2. Registered'
  BY DEF VoiceInv, Registered, TaskStarts
<1>3. Staged'
  BY DEF VoiceInv, VoiceTypeOK, Staged, TaskStarts
<1>4. Running'
  BY DEF VoiceInv, VoiceTypeOK, Running, TaskStarts
<1>5. Drained'
  BY DEF VoiceInv, VoiceTypeOK, Drained, Cancellations, TaskStarts
<1>6. Singly'
  BY DEF VoiceInv, VoiceTypeOK, Singly, Owned, Cancellations, TaskStarts
<1>7. Explained'
  BY DEF VoiceInv, VoiceTypeOK, Explained, Released, Owned, TaskStarts
<1> QED BY <1>1, <1>2, <1>3, <1>4, <1>5, <1>6, <1>7 DEF VoiceInv

LEMMA RequestKeeps ==
    ASSUME VoiceInv, NEW h \in Handles, Request(h)
    PROVE  VoiceInv'
<1>1. VoiceTypeOK'
  BY DEF VoiceInv, VoiceTypeOK, Cancellations, Request, Idle
<1>2. Registered'
  BY DEF VoiceInv, Registered, Request
<1>3. Staged'
  BY DEF VoiceInv, Staged, Request
<1>4. Running'
  BY DEF VoiceInv, Running, Request
<1>5. Drained'
  BY DEF VoiceInv, Drained, Request, Idle
<1>6. Singly'
  BY DEF VoiceInv, Singly, Owned, Request
<1>7. Explained'
  BY DEF VoiceInv, Explained, Released, Owned, Request
<1> QED BY <1>1, <1>2, <1>3, <1>4, <1>5, <1>6, <1>7 DEF VoiceInv

LEMMA TaskEndsKeeps ==
    ASSUME VoiceInv, NEW h \in Handles, TaskEnds(h)
    PROVE  VoiceInv'
<1>1. VoiceTypeOK'
  BY DEF VoiceInv, VoiceTypeOK, TaskEnds
<1>2. Registered'
  BY DEF VoiceInv, Registered, TaskEnds
<1>3. Staged'
  BY DEF VoiceInv, Staged, TaskEnds
<1>4. Running'
  BY DEF VoiceInv, Running, TaskEnds
<1>5. Drained'
  BY DEF VoiceInv, Drained, TaskEnds
<1>6. Singly'
  BY DEF VoiceInv, Singly, Owned, TaskEnds
<1>7. Explained'
  BY DEF VoiceInv, Explained, Running, Released, Owned, TaskEnds
<1> QED BY <1>1, <1>2, <1>3, <1>4, <1>5, <1>6, <1>7 DEF VoiceInv

LEMMA FinishOwnershipKeeps ==
    ASSUME VoiceInv, NEW h \in Handles, FinishOwnership(h)
    PROVE  VoiceInv'
<1>1. VoiceTypeOK'
  BY DEF VoiceInv, VoiceTypeOK, Underway, Without, FinishOwnership
<1>2. Registered'
  BY DEF VoiceInv, VoiceTypeOK, Registered, Without, FinishOwnership
<1>3. Staged'
  BY DEF VoiceInv, VoiceTypeOK, Staged, FinishOwnership
<1>4. Running'
  BY DEF VoiceInv, Running, FinishOwnership
<1>5. Drained'
  BY DEF VoiceInv, Drained, FinishOwnership
<1>6. Singly'
  BY VoiceAssumption DEF VoiceInv, VoiceTypeOK, Singly, Owned, Without, Cancellations,
                         FinishOwnership
<1>7. Explained'
  BY DEF VoiceInv, VoiceTypeOK, Explained, Running, Released, Owned, Without,
         FinishOwnership
<1> QED BY <1>1, <1>2, <1>3, <1>4, <1>5, <1>6, <1>7 DEF VoiceInv

LEMMA HandleCancelledKeeps ==
    ASSUME VoiceInv, NEW h \in Handles, HandleCancelled(h)
    PROVE  VoiceInv'
<1>1. VoiceTypeOK'
  BY DEF VoiceInv, VoiceTypeOK, Cancellations, Underway, Without, HandleCancelled
<1>2. Registered'
  BY DEF VoiceInv, VoiceTypeOK, Registered, Underway, HandleCancelled
<1>3. Staged'
  BY DEF VoiceInv, VoiceTypeOK, Staged, HandleCancelled
<1>4. Running'
  BY DEF VoiceInv, VoiceTypeOK, Running, HandleCancelled
<1>5. Drained'
  BY DEF VoiceInv, Drained, HandleCancelled
<1>6. Singly'
  BY DEF VoiceInv, VoiceTypeOK, Singly, Owned, Cancellations, HandleCancelled
<1>7. Explained'
  BY DEF VoiceInv, VoiceTypeOK, Explained, Released, Owned, HandleCancelled
<1> QED BY <1>1, <1>2, <1>3, <1>4, <1>5, <1>6, <1>7 DEF VoiceInv

LEMMA CleanKeeps ==
    ASSUME VoiceInv, NEW h \in Handles, Clean(h)
    PROVE  VoiceInv'
<1>1. VoiceTypeOK'
  BY DEF VoiceInv, VoiceTypeOK, Without, Clean
<1>2. Registered'
  BY DEF VoiceInv, Registered, Without, Clean
<1>3. Staged'
  BY DEF VoiceInv, VoiceTypeOK, Staged, Clean
<1>4. Running'
  BY DEF VoiceInv, Running, Clean
<1>5. Drained'
  BY DEF VoiceInv, Drained, Clean
<1>6. Singly'
  BY VoiceAssumption DEF VoiceInv, VoiceTypeOK, Singly, Owned, Without, Cancellations,
                         Clean, Deletes
<1>7. Explained'
  BY DEF VoiceInv, VoiceTypeOK, Explained, Running, Released, Owned, Without, Underway,
         Clean, Deletes
<1> QED BY <1>1, <1>2, <1>3, <1>4, <1>5, <1>6, <1>7 DEF VoiceInv
\* The notes that a cancellation finds in the registry.
Found(c, targets) == {h \in targets : Owned(h) /\ ~Excluded(h, c)}

LEMMA CancelKeeps ==
    ASSUME VoiceInv, NEW c \in Cancellers, NEW targets \in SUBSET Handles,
           Cancel(c, targets)
    PROVE  VoiceInv'
<1> DEFINE R == Found(c, targets)
<1>r. R \subseteq Handles /\ \A h \in R : Owned(h)
  BY DEF Found
<1>c. /\ cancellation[c].stage \in {"idle", "requested"}
      /\ pending' = Without(R)
      /\ killed' = [h \in Handles |-> killed[h] \/ (h \in R /\ task[h] # "none")]
      /\ cancellation' = [cancellation EXCEPT ![c] =
            [stage |-> "draining", released |-> R,
             waits |-> {h \in R : task[h] # "none"}]]
      /\ UNCHANGED <<phase, voice, bound, task, handed, status>>
  BY DEF Cancel, Found
<1>o. cancellation[c].released = {}
  BY <1>c DEF VoiceInv, Drained
<1>d. /\ cancellation'[c].stage = "draining" /\ cancellation'[c].released = R
      /\ cancellation'[c].waits = {h \in R : task[h] # "none"}
      /\ \A d \in Cancellers : d # c => cancellation'[d] = cancellation[d]
  BY <1>c DEF VoiceInv, VoiceTypeOK
<1> HIDE DEF R
<1>p. \A m \in Messages : pending'[m] = IF pending[m] \in R THEN None ELSE pending[m]
  BY <1>c DEF Without
<1>w. \A h \in Handles : Owned(h)' <=> Owned(h) /\ h \notin R
  BY VoiceAssumption, <1>p, <1>c DEF VoiceInv, VoiceTypeOK, Owned
<1>1. VoiceTypeOK'
  BY <1>c, <1>r DEF VoiceInv, VoiceTypeOK, Without, Cancellations
<1>2. Registered'
  BY <1>p, <1>c DEF VoiceInv, Registered
<1>3. Staged'
  BY <1>c DEF VoiceInv, Staged
<1>4. Running'
  BY <1>c DEF VoiceInv, Running
<1>5. Drained'
  <2> SUFFICES ASSUME NEW d \in Cancellers
               PROVE  /\ cancellation'[d].stage \in {"idle", "requested"} =>
                            cancellation'[d].released = {}
                      /\ cancellation'[d].waits \subseteq cancellation'[d].released
                      /\ \A h \in cancellation'[d].released \ cancellation'[d].waits :
                            task'[h] = "none"
                      /\ cancellation'[d].stage = "returned" =>
                           \A h \in cancellation'[d].waits : task'[h] = "done"
    BY DEF Drained
  <2>1. CASE d = c
    BY <2>1, <1>d, <1>c
  <2>2. CASE d # c
    BY <2>2, <1>d, <1>c DEF VoiceInv, Drained
  <2> QED BY <2>1, <2>2
<1>u. \A h \in R :
        /\ h \in Handles /\ phase[h] \in Underway
        /\ \A d \in Cancellers : h \notin cancellation[d].released
  BY VoiceAssumption, <1>r DEF VoiceInv, VoiceTypeOK, Registered, Singly, Owned
<1>6. Singly'
  <2> SUFFICES ASSUME NEW d \in Cancellers, NEW h \in cancellation'[d].released
               PROVE  /\ phase'[h] # "new" /\ ~Owned(h)'
                      /\ \A e \in Cancellers : h \in cancellation'[e].released => d = e
                      /\ status'[h] = "posted" /\ bound'[h] =>
                            cancellation'[d].stage # "returned"
                      /\ ~(status'[h] = "deleted" /\ bound'[h])
    BY DEF Singly
  <2>1. CASE d = c
    <3>1. h \in R
      BY <2>1, <1>d
    <3>2. status[h] # "deleted"
      BY <3>1, <1>u DEF VoiceInv, Staged, Underway
    <3> QED BY <3>1, <3>2, <2>1, <1>u, <1>w, <1>d, <1>c DEF Underway
  <2>2. CASE d # c
    <3>1. h \in cancellation[d].released /\ h \in Handles /\ h \notin R
      BY <2>2, <1>d, <1>u DEF VoiceInv, VoiceTypeOK, Cancellations
    <3> QED BY <3>1, <2>2, <1>d, <1>w, <1>c DEF VoiceInv, Singly
  <2> QED BY <2>1, <2>2
<1>e. \A h \in Handles : Released(h)' <=> Released(h) \/ h \in R
  BY <1>d, <1>o DEF Released
<1>7. Explained'
  BY <1>e, <1>w, <1>c DEF VoiceInv, Explained
<1> QED BY <1>1, <1>2, <1>3, <1>4, <1>5, <1>6, <1>7 DEF VoiceInv

LEMMA ReportKeeps ==
    ASSUME VoiceInv, NEW c \in Cancellers, NEW how \in {"canceller", "lost"},
           cancellation[c].stage = "draining",
           \A h \in cancellation[c].waits : task[h] = "done",
           Report(c, how),
           UNCHANGED <<phase, voice, pending, bound, task, killed, handed>>
    PROVE  VoiceInv'
<1>d. /\ cancellation'[c].stage = "returned"
      /\ \A d \in Cancellers :
            /\ cancellation'[d].released = cancellation[d].released
            /\ cancellation'[d].waits = cancellation[d].waits
            /\ d # c => cancellation'[d] = cancellation[d]
  BY DEF VoiceInv, VoiceTypeOK, Report
<1>s. \A h \in Handles :
        status'[h] = IF h \in cancellation[c].released /\ bound[h] /\ ~handed[h]
                     THEN how ELSE status[h]
  BY DEF Report
<1>1. VoiceTypeOK'
  BY DEF VoiceInv, VoiceTypeOK, Report, Cancellations
<1>2. Registered'
  BY DEF VoiceInv, Registered
<1>3. Staged'
  BY <1>s DEF VoiceInv, Staged
<1>4. Running'
  BY <1>s DEF VoiceInv, Running
<1>5. Drained'
  <2> SUFFICES ASSUME NEW d \in Cancellers
               PROVE  /\ cancellation'[d].stage \in {"idle", "requested"} =>
                            cancellation'[d].released = {}
                      /\ cancellation'[d].waits \subseteq cancellation'[d].released
                      /\ \A h \in cancellation'[d].released \ cancellation'[d].waits :
                            task'[h] = "none"
                      /\ cancellation'[d].stage = "returned" =>
                           \A h \in cancellation'[d].waits : task'[h] = "done"
    BY DEF Drained
  <2>1. CASE d = c
    BY <2>1, <1>d DEF VoiceInv, Drained
  <2>2. CASE d # c
    BY <2>2, <1>d DEF VoiceInv, Drained
  <2> QED BY <2>1, <2>2
<1>6. Singly'
  <2> SUFFICES ASSUME NEW d \in Cancellers, NEW h \in cancellation[d].released
               PROVE  /\ phase[h] # "new" /\ ~Owned(h)
                      /\ \A e \in Cancellers : h \in cancellation[e].released => d = e
                      /\ status'[h] = "posted" /\ bound[h] =>
                            cancellation'[d].stage # "returned"
                      /\ ~(status'[h] = "deleted" /\ bound[h])
    BY <1>d DEF Singly, Owned
  <2>1. h \in Handles
    BY DEF VoiceInv, VoiceTypeOK, Cancellations
  <2>2. CASE d = c
    BY <2>1, <2>2, <1>s DEF VoiceInv, Singly, Running
  <2>3. CASE d # c
    <3>1. h \notin cancellation[c].released
      BY <2>3 DEF VoiceInv, Singly
    <3> QED BY <2>1, <2>3, <3>1, <1>s, <1>d DEF VoiceInv, Singly
  <2> QED BY <2>2, <2>3
<1>e. \A h \in Handles : (Released(h)' <=> Released(h)) /\ (Owned(h)' <=> Owned(h))
  BY <1>d DEF Released, Owned
<1>7. Explained'
  BY <1>e, <1>s DEF VoiceInv, Explained
<1> QED BY <1>1, <1>2, <1>3, <1>4, <1>5, <1>6, <1>7 DEF VoiceInv

LEMMA VoiceStepKeeps == VoiceInv /\ [VoiceNext]_voiceVars => VoiceInv'
<1> SUFFICES ASSUME VoiceInv, [VoiceNext]_voiceVars PROVE VoiceInv'
  OBVIOUS
<1>1. CASE UNCHANGED voiceVars
  BY <1>1 DEF voiceVars, VoiceInv, VoiceTypeOK, Registered, Staged, Running, Drained,
              Singly, Explained, Released, Owned
<1>2. ASSUME NEW h \in Handles,
             Flow(h) \/ TaskStarts(h) \/ Request(h) \/ TaskEnds(h) \/ HandleCancelled(h)
      PROVE  VoiceInv'
  <2>1. CASE Flow(h)
    BY <2>1, StatusSentKeeps, WorkFailsKeeps, HandoffKeeps, FinishOwnershipKeeps,
       CleanKeeps DEF Flow
  <2> QED BY <1>2, <2>1, TaskStartsKeeps, RequestKeeps, TaskEndsKeeps, HandleCancelledKeeps
<1>3. ASSUME NEW h \in Handles, NEW m \in Messages, NEW s \in {"prompt", "stop"},
             Start(h, m, s)
      PROVE  VoiceInv'
  BY <1>3, StartKeeps
<1>4. ASSUME NEW c \in Cancellers, Cancels(c) PROVE VoiceInv'
  <2>1. \A h \in Handles : {h} \in SUBSET Handles
    OBVIOUS
  <2>2. Handles \in SUBSET Handles
    OBVIOUS
  <2> QED BY <1>4, <2>1, <2>2, CancelKeeps DEF Cancels
<1>5. ASSUME NEW c \in Cancellers, CancelReturns(c) \/ CancelReturnsCancelled(c)
      PROVE  VoiceInv'
  <2>1. CASE CancelReturns(c)
    BY <2>1, ReportKeeps DEF CancelReturns
  <2>2. CASE CancelReturnsCancelled(c)
    BY <2>2, ReportKeeps DEF CancelReturnsCancelled
  <2> QED BY <1>5, <2>1, <2>2
<1>6. CASE AllEnded
  BY <1>6, <1>1 DEF AllEnded
<1> QED BY <1>1, <1>2, <1>3, <1>4, <1>5, <1>6 DEF VoiceNext

\* The inductive invariant of the voice notes.
THEOREM VoiceIsSound == VoiceSpec => []VoiceInv
<1> QED BY VoiceBegins, VoiceStepKeeps, PTL DEF VoiceSpec

LEMMA OwnedOnce == VoiceInv => OneOwner
<1> SUFFICES ASSUME VoiceInv PROVE OneOwner
  OBVIOUS
<1>1. ASSUME NEW h \in Handles
      PROVE  Cardinality({c \in Cancellers : h \in cancellation[c].released}) <= 1
  <2> DEFINE S == {c \in Cancellers : h \in cancellation[c].released}
  <2>1. CASE S = {}
    <3>1. Cardinality(S) = 0
      BY <2>1, FS_EmptySet
    <3> QED BY <3>1
  <2>2. CASE S # {}
    <3>1. PICK c \in S : TRUE
      BY <2>2
    <3>2. S = {c}
      BY <3>1 DEF VoiceInv, Singly
    <3>3. Cardinality(S) = 1
      BY <3>2, FS_Singleton
    <3> QED BY <3>3
  <2> QED BY <2>1, <2>2
<1>2. ASSUME NEW h \in Handles
      PROVE  /\ status[h] = "deleted" /\ bound[h] =>
                   \A c \in Cancellers : h \notin cancellation[c].released
             /\ phase[h] = "ended" => ~Owned(h)
             /\ phase[h] = "ended" /\ status[h] = "posted" =>
                   \E c \in Cancellers :
                      h \in cancellation[c].released /\ cancellation[c].stage # "returned"
  <2>1. status[h] = "deleted" /\ bound[h] =>
           \A c \in Cancellers : h \notin cancellation[c].released
    BY DEF VoiceInv, Singly
  <2>2. phase[h] = "ended" => ~Owned(h)
    BY VoiceAssumption DEF VoiceInv, VoiceTypeOK, Registered, Owned, Underway
  <2>3. phase[h] = "ended" /\ status[h] = "posted" =>
           \E c \in Cancellers :
              h \in cancellation[c].released /\ cancellation[c].stage # "returned"
    BY DEF VoiceInv, Explained, Released, Singly
  <2> QED BY <2>1, <2>2, <2>3
<1>3. ASSUME NEW c \in Cancellers, cancellation[c].stage = "returned",
             NEW h \in cancellation[c].released
      PROVE  task[h] \in {"none", "done"}
  BY <1>3 DEF VoiceInv, Drained
<1> QED BY <1>1, <1>2, <1>3 DEF OneOwner

\* Whatever the handles, commands and messages: a voice note and its status
\* message have one owner (messaging/voice.py, platforms/voice_flow.py).
THEOREM VoiceNotesHaveOneOwner == VoiceSpec => []OneOwner
<1> QED BY VoiceIsSound, OwnedOnce, PTL
=============================================================================
