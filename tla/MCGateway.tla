----------------------------- MODULE MCGateway -----------------------------
(***************************************************************************)
(* What answers a request or a prompt, in one run without fairness: a      *)
(* behaviour is one of the routing, of the egress, of the chat stream, of  *)
(* the Codex credentials, of the messages of a chat, or of what            *)
(* MCTranslation lists.                                                    *)
(***************************************************************************)
EXTENDS MCTranslation, CodexAuth, Egress, ManagedMessages, ChatStream, Routing

(* The configurations, and what clients say *)
RouteSettings ==
    {[model |-> <<"p", "a">>, tier |-> tier, reasoning |-> reasoning,
      tierReasoning |-> "inherit", classifier |-> classifier, image |-> image,
      fallbacks |-> <<RefName(<<"p", "b">>), RefName(<<"q", "a">>)>>,
      webTools |-> TRUE, on |-> {"quota", "title"},
      discovered |-> {<<"p", "b">>, <<"q", "b">>}, thoughtless |-> {<<"p", "b">>},
      million |-> {<<"q", "a">>, <<"p", "b">>}] :
        tier \in {None, <<"q", "a">>}, reasoning \in {"client", "high"},
        classifier \in {None, <<"p", "b">>}, image \in {None, <<"q", "b">>}}

RouteNames == {RefName(<<"q", "b">>), [RefName(<<"x", "a">>) EXCEPT !.tier = TRUE]}
RouteThinking ==
    {[type |-> "", budget |-> 0, effort |-> ""],
     [type |-> "enabled", budget |-> 4096, effort |-> ""],
     [type |-> "adaptive", budget |-> 0, effort |-> "low"]}

gatewayVars == <<chatVars, accountVars, egressVars, routingVars, messagesVars>>

(* What is not chosen stands at one of its initial states. *)
GatewayInit ==
    /\ component \in {"chat", "codex", "egress", "routing", "messages"} \cup Translations
    /\ component # "egress" => request = CHOOSE r \in Requests : TRUE
    /\ component # "routing" => settings = CHOOSE s \in Settings : TRUE
    /\ ChatInit /\ AccountInit /\ EgressInit /\ RouteInit /\ MessagesInit
    /\ TranslationInit

GatewayNext ==
    /\ UNCHANGED component
    /\ \/ /\ component = "chat" /\ ChatNext
          /\ UNCHANGED <<accountVars, egressVars, routingVars, messagesVars, translationVars>>
       \/ /\ component = "codex" /\ AccountNext
          /\ UNCHANGED <<chatVars, egressVars, routingVars, messagesVars, translationVars>>
       \/ /\ component = "egress" /\ EgressNext
          /\ UNCHANGED <<chatVars, accountVars, routingVars, messagesVars, translationVars>>
       \/ /\ component = "routing" /\ RouteNext
          /\ UNCHANGED <<chatVars, accountVars, egressVars, messagesVars, translationVars>>
       \/ /\ component = "messages" /\ MessagesNext
          /\ UNCHANGED <<chatVars, accountVars, egressVars, routingVars, translationVars>>
       \/ component \in Translations /\ TranslationNext /\ UNCHANGED gatewayVars

GatewaySpec == GatewayInit /\ [][GatewayNext]_<<component, gatewayVars, translationVars>>
=============================================================================
