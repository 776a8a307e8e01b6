----------------------------- MODULE MCDelivery -----------------------------
(***************************************************************************)
(* What goes between a chat platform and the workflow, in one run: a       *)
(* behaviour is one of the delivery queue's, one of the rate limiter's, or *)
(* one of the voice notes'. The fairness of the others asks nothing: no    *)
(* step it is about is enabled in an initial state.                        *)
(***************************************************************************)
EXTENDS SlidingWindow, Delivery, VoiceNotes

VARIABLE component

PlatformInit ==
    /\ Init /\ DeliveryInit /\ VoiceInit
    /\ component \in {"delivery", "voice", "window"}

PlatformNext ==
    \/ component = "delivery" /\ DeliveryNext /\ UNCHANGED <<component, voiceVars, vars>>
    \/ component = "voice" /\ VoiceNext /\ UNCHANGED <<component, deliveryVars, vars>>
    \/ component = "window" /\ Next /\ UNCHANGED <<component, deliveryVars, voiceVars>>

PlatformSpec ==
    /\ PlatformInit
    /\ [][PlatformNext]_<<component, deliveryVars, voiceVars, vars>>
    /\ DeliveryFairness
    /\ VoiceFairness
=============================================================================
