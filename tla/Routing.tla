------------------------------ MODULE Routing ------------------------------
(***************************************************************************)
(* Where a Messages request goes, and with which reasoning: the router and *)
(* the reasoning policy (application/routing.py, reasoning.py), the        *)
(* reroute of safety classifiers and of images and the fallbacks           *)
(* (api/handlers/messages.py, core/anthropic/image_detection.py), what is  *)
(* answered without a provider (optimization_handlers.py, web_tools), and  *)
(* the ids that the gateway advertises (model_catalog.py,                  *)
(* core/gateway_model_ids.py).                                             *)
(*                                                                         *)
(* A ref is a provider with a model. A name is what a client sends: bare,  *)
(* a ref, or an id of this gateway, of which one turns thinking off; it    *)
(* may carry [1m], and the word of a tier. One tier stands for four. Of a  *)
(* conversation there are the images of the last user turn, and older      *)
(* ones. Reasoning is a control with a budget, 0 for none; an effort is    *)
(* its budget.                                                             *)
(***************************************************************************)
EXTENDS Naturals, Sequences, NoValue

CONSTANTS
    Providers,    \* the ids of the catalog
    Models,
    Settings,     \* configurations
    Names,        \* what clients ask for, besides what is advertised
    AnswerLimits, \* values of max_tokens, 0 for none
    Thinking      \* what clients say of thinking: [type, budget, effort]

VARIABLES settings, asked, plan

routingVars == <<settings, asked, plan>>

Refs == Providers \X Models

(* Settings.validate_model_format, parse_route: a model that is configured *)
(* has a provider of the catalog, and so has one that a provider listed.   *)
ASSUME RoutingAssumption ==
    \A s \in Settings :
        /\ s.model \in Refs
        /\ s.discovered \subseteq Refs
        /\ {s.tier, s.classifier, s.image} \subseteq Refs \cup {None}

Bare(tier) == [form |-> "bare", ref |-> None, tier |-> tier, oneM |-> FALSE]
RefName(ref) == [form |-> "ref", ref |-> ref, tier |-> FALSE, oneM |-> FALSE]
Gateway(ref) == [RefName(ref) EXCEPT !.form = "gateway"]
NoThinking(ref) == [RefName(ref) EXCEPT !.form = "no_thinking"]
OneM(name) == [name EXCEPT !.oneM = TRUE]
-----------------------------------------------------------------------------
Off == [control |-> "off", budget |-> 0]
On(budget) == [control |-> "on", budget |-> budget]
MinBudget == 1024
EffortBudget == [low |-> 512, medium |-> 1024, high |-> 2048, max |-> 8192]

(* client_reasoning_policy; t.effort is "", "none" or an effort *)
ClientPolicy(t) ==
    LET effort == IF t.effort \in DOMAIN EffortBudget THEN EffortBudget[t.effort] ELSE 0
    IN  IF t.effort = "none" \/ t.type = "disabled" THEN Off
        ELSE IF t.budget > 0 THEN On(t.budget)
        ELSE IF t.type \in {"adaptive", "enabled"} THEN On(effort)
        ELSE [control |-> "default", budget |-> effort]

(* _reasoning_fits *)
Fits(policy, max) ==
    max = 0 \/ (IF policy.budget = 0 THEN MinBudget ELSE policy.budget) < max

(* resolve_reasoning_policy *)
Policy(r, preference) ==
    LET policy == CASE preference = "off" -> Off
                    [] preference = "client" -> ClientPolicy(r.thinking)
                    [] OTHER -> On(EffortBudget[preference])
    IN  IF Fits(policy, r.max) THEN policy ELSE Off
-----------------------------------------------------------------------------
(* _direct_provider_model, decode_gateway_model_id: the name tells the     *)
(* provider and the model; [1m] is no part of them.                        *)
Direct(name) == name.form # "bare" /\ name.ref[1] \in Providers

(* ModelRouter.resolve *)
RouteOf(s, name) ==
    IF Direct(name)
    THEN [ref |-> name.ref,
          preference |-> IF name.form = "no_thinking" THEN "off" ELSE s.reasoning]
    ELSE [ref |-> IF name.tier /\ s.tier # None THEN s.tier ELSE s.model,
          preference |-> IF name.tier /\ s.tierReasoning # "inherit"
                         THEN s.tierReasoning ELSE s.reasoning]

(* A candidate: where, with which reasoning, with which images. *)
Candidate(s, r, name, images) ==
    LET resolved == RouteOf(s, name) IN
    [ref |-> resolved.ref, reasoning |-> Policy(r, resolved.preference),
     images |-> images]
-----------------------------------------------------------------------------
(* is_safety_classifier_request *)
Classifier(r) ==
    /\ r.tools = "none"
    /\ "transcript" \in r.signals
    /\ r.signals \cap {"security_monitor", "verdict_block"} # {}

(* The reroute makes a new request of the target, with its own reasoning.  *)
Reroute(s, r, c, target) ==
    IF c.ref = target THEN c ELSE Candidate(s, r, RefName(target), c.images)

ForClassifier(s, r, c) ==
    IF s.classifier # None /\ Classifier(r) THEN Reroute(s, r, c, s.classifier) ELSE c

(* has_image_in_last_user_turn *)
CurrentImage(c) == "current" \in c.images

(* strip_to_placeholders: an image becomes a text that names it. *)
Stripped(c) == [c EXCEPT !.images = {}]

(* _maybe_reroute_for_images: the last user turn decides; older images     *)
(* alone are stripped to placeholders.                                     *)
ForImages(s, r, c) ==
    IF s.image = None THEN c
    ELSE IF CurrentImage(c) THEN Reroute(s, r, c, s.image)
    ELSE Stripped(c)

\* Mutant of Policies: the classifier's reroute comes last.
PoliciesSwapped(s, r, c) ==
    LET d == ForClassifier(s, r, ForImages(s, r, c)) IN
    IF Classifier(r) THEN [d EXCEPT !.reasoning = Off] ELSE d

(* _apply_message_routing_policies *)
Policies(s, r, c) ==
    LET d == ForImages(s, r, ForClassifier(s, r, c)) IN
    IF Classifier(r) THEN [d EXCEPT !.reasoning = Off] ELSE d

(* _fallback_candidates: the primary's payload, the fallback's reasoning.  *)
(* A fallback keeps its place in the configuration.                        *)
Fallbacks(s, r, primary) ==
    [i \in {k \in DOMAIN s.fallbacks :
              \/ primary.images = {}
              \/ s.image = None
              \/ RouteOf(s, s.fallbacks[k]).ref[1] = s.image[1]} |->
        Candidate(s, r, s.fallbacks[i], primary.images)]
-----------------------------------------------------------------------------
(* unsupported_server_tool_error, is_web_server_tool_request *)
Unsupported(s, r) == r.tools = "listed" \/ (r.tools = "forced" /\ ~s.webTools)

(* try_optimizations: a handler that is on and knows the request. *)
Optimizations == {"quota", "prefix", "title", "suggestion", "filepath"}
Optimized(s, r) == Optimizations \cap s.on \cap r.shapes # {}

(* MessagesHandler.create, up to the executor: 0 is the primary.           *)
NoCandidates == [i \in {} |-> None]

PlanFor(s, r) ==
    LET primary == Policies(s, r, Candidate(s, r, r.name, r.images))
        fallbacks == Fallbacks(s, r, primary)
    IN  IF Unsupported(s, r) THEN [kind |-> "rejected", candidates |-> NoCandidates]
        ELSE IF r.tools = "forced" THEN [kind |-> "web_tool", candidates |-> NoCandidates]
        ELSE IF Optimized(s, r) THEN [kind |-> "optimized", candidates |-> NoCandidates]
        ELSE [kind |-> "provider",
              candidates |-> [i \in {0} \cup DOMAIN fallbacks |->
                                IF i = 0 THEN primary ELSE fallbacks[i]]]
-----------------------------------------------------------------------------
(* build_models_list_response. Of a model its list may say that it does    *)
(* not think, and that it has a context of a million.                      *)
Variants(s, ref) ==
    (IF ref \in s.thoughtless THEN {} ELSE {Gateway(ref)})
    \cup {NoThinking(ref)}
    \cup (IF ref \in s.million THEN {OneM(Gateway(ref))} ELSE {})

Configured(s) == {s.model} \cup ({s.tier} \ {None})

Catalog(s) ==
    (UNION {Variants(s, ref) : ref \in Configured(s) \cup s.discovered})
    \cup (IF s.tier # None /\ s.tier \in s.million THEN {OneM(Bare(TRUE))} ELSE {})
    \cup {Bare(TRUE)}
-----------------------------------------------------------------------------
Asks(s) ==
    [name : Names \cup Catalog(s), images : SUBSET {"old", "current"}, max : AnswerLimits,
     thinking : Thinking, tools : {"none", "listed", "forced"},
     signals : {{}, {"transcript"}, {"transcript", "verdict_block"}},
     shapes : {{}, {"title"}}]

RouteInit == settings \in Settings /\ asked = None /\ plan = None

Ask ==
    /\ asked = None
    /\ \E r \in Asks(settings) : asked' = r /\ plan' = PlanFor(settings, r)
    /\ UNCHANGED settings

Planned == asked # None /\ UNCHANGED routingVars

RouteNext == Ask \/ Planned

RouteSpec == RouteInit /\ [][RouteNext]_routingVars
-----------------------------------------------------------------------------
(* The candidates of the plan that there is *)
Candidates == IF plan = None THEN {} ELSE {plan.candidates[i] : i \in DOMAIN plan.candidates}

(* With an image route, an image of the current turn is seen by its        *)
(* provider and by no other, and older images by none: not by the primary, *)
(* rerouted once or twice, and not by a fallback.                          *)
SeenByVision ==
    settings.image # None =>
        \A c \in Candidates :
            c.images # {} => "current" \in c.images /\ c.ref[1] = settings.image[1]

(* No model is asked to think more than its answer may be long, whichever  *)
(* of the configuration, the client and the reroutes decided.              *)
ThinkingFits ==
    \A c \in Candidates : c.reasoning # Off => Fits(c.reasoning, asked.max)

(* A model that is advertised is the one that is asked when nothing is     *)
(* rerouted, and its variant without thinking does not think.              *)
CatalogIsHonest ==
    plan # None /\ asked.name \in Catalog(settings) /\ 0 \in DOMAIN plan.candidates
        /\ settings.image = None /\ ~Classifier(asked)
    => LET first == plan.candidates[0] IN
       /\ asked.name.form # "bare" => first.ref = asked.name.ref
       /\ asked.name.oneM => first.ref \in settings.million
       /\ asked.name.form = "no_thinking" => first.reasoning = Off

(* Requests go where they should. *)
Routed == SeenByVision /\ ThinkingFits /\ CatalogIsHonest

(* ARCHITECTURE.md:1044-1045: a safety classifier's request is made with   *)
(* reasoning off "so Claude Code receives a parser-readable" verdict.      *)
ClassifierNeverThinks ==
    plan # None /\ Classifier(asked) => \A c \in Candidates : c.reasoning = Off
=============================================================================
