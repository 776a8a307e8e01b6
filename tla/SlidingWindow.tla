---------------------------- MODULE SlidingWindow ----------------------------
(***************************************************************************)
(* The rate limiter of the providers and of the chat platforms             *)
(* (core/rate_limit.py): acquisitions are remembered for a window of time, *)
(* a caller that finds it full sleeps until the oldest one leaves it, and  *)
(* then competes again with whoever has come meanwhile.                    *)
(*                                                                         *)
(* Nothing is awaited under the lock, so a caller's look at the window is   *)
(* one step; but the clock goes on meanwhile, and is read twice.           *)
(***************************************************************************)
EXTENDS Naturals, Sequences

CONSTANTS
    Callers,
    RateLimit, Window,
    MaxTime       \* bound of the clock

ASSUME WindowAssumption ==
    RateLimit \in Nat \ {0} /\ Window \in Nat \ {0} /\ MaxTime \in Nat

VARIABLES
    now,          \* time.monotonic()
    times,        \* _times, the oldest first
    place,        \* of each caller: "outside", "asleep", "through", "refused"
    wake,         \* when its sleep ends
    granted       \* (history) the times of all acquisitions

vars == <<now, times, place, wake, granted>>

Tick ==
    /\ now < MaxTime
    /\ now' = now + 1
    /\ UNCHANGED <<times, place, wake, granted>>

\* Mutant of Expired: the window is closed at its end.
ExpiredEarly(time) == time + Window <= now + 1

(* `time <= cutoff`: the acquisition has left the window. *)
Expired(time) == time + Window <= now

(* The loop that drops what has expired, from the left, leaves `kept`. *)
Prunes(kept) ==
    \E dropped \in 0..Len(times) :
        /\ \A i \in 1..dropped : Expired(times[i])
        /\ dropped < Len(times) => ~Expired(times[dropped + 1])
        /\ kept = SubSeq(times, dropped + 1, Len(times))

Looks(c) == place[c] = "outside" \/ (place[c] = "asleep" /\ wake[c] <= now)

Suffixes == {SubSeq(times, i, Len(times)) : i \in 1..Len(times) + 1}

(***************************************************************************)
(* There is room: the acquisition is remembered with the time at which it  *)
(* is, which is later than the one the window was looked at.               *)
(***************************************************************************)
Acquire(c) ==
    /\ Looks(c)
    /\ \E kept \in Suffixes, later \in now..MaxTime :
        /\ Prunes(kept)
        /\ Len(kept) < RateLimit
        /\ now' = later
        /\ times' = Append(kept, later)
        /\ granted' = Append(granted, later)
    /\ place' = [place EXCEPT ![c] = "through"]
    /\ UNCHANGED wake

(* acquire_if: the condition no longer holds, and nothing is used up. *)
Refuse(c) ==
    /\ Looks(c)
    /\ \E kept \in Suffixes :
        /\ Prunes(kept)
        /\ Len(kept) < RateLimit
        /\ times' = kept
    /\ place' = [place EXCEPT ![c] = "refused"]
    /\ UNCHANGED <<now, wake, granted>>

(* No room: the caller sleeps until the oldest acquisition expires. *)
Sleep(c) ==
    /\ Looks(c)
    /\ \E kept \in Suffixes :
        /\ Prunes(kept)
        /\ Len(kept) >= RateLimit
        /\ times' = kept
        /\ wake' = [wake EXCEPT ![c] = kept[1] + Window]
    /\ place' = [place EXCEPT ![c] = "asleep"]
    /\ UNCHANGED <<now, granted>>

Leave(c) ==
    /\ place[c] = "asleep"
    /\ place' = [place EXCEPT ![c] = "refused"]
    /\ UNCHANGED <<now, times, wake, granted>>

(* A caller comes again. *)
Again(c) ==
    /\ place[c] \in {"through", "refused"}
    /\ place' = [place EXCEPT ![c] = "outside"]
    /\ UNCHANGED <<now, times, wake, granted>>
-----------------------------------------------------------------------------
Init ==
    /\ now = 0
    /\ times = <<>>
    /\ place = [c \in Callers |-> "outside"]
    /\ wake = [c \in Callers |-> 0]
    /\ granted = <<>>

Next ==
    \/ Tick
    \/ \E c \in Callers : Acquire(c) \/ Refuse(c) \/ Sleep(c) \/ Leave(c) \/ Again(c)

Spec == Init /\ [][Next]_vars
-----------------------------------------------------------------------------
TypeOK ==
    /\ now \in Nat
    /\ times \in Seq(Nat)
    /\ place \in [Callers -> {"outside", "asleep", "through", "refused"}]
    /\ wake \in [Callers -> Nat]
    /\ granted \in Seq(Nat)

(***************************************************************************)
(* "At most rate_limit acquisitions in any interval of length rate_window" *)
(* (rate_limit.py:11): of RateLimit + 1 acquisitions, whoever made them,   *)
(* the last is at least a window later than the first.                     *)
(***************************************************************************)
StrictWindow ==
    \A i \in DOMAIN granted, j \in DOMAIN granted :
        i + RateLimit <= j => granted[i] + Window <= granted[j]

(***************************************************************************)
(* Nobody sleeps longer than the window is full, although it is others who *)
(* drop what has expired: a caller that is due later than now is due when  *)
(* the oldest acquisition leaves, or before.                               *)
(***************************************************************************)
NoOversleep ==
    \A c \in Callers : place[c] = "asleep" /\ wake[c] > now =>
        times # <<>> /\ wake[c] <= times[1] + Window

(* The window is never overfull, and never waited for longer than needed.  *)
Windowed == StrictWindow /\ NoOversleep
=============================================================================
