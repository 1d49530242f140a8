------------------------------- MODULE Router -------------------------------
(***************************************************************************)
(* The model router (crates/gateway/src/router.rs) in the request handler  *)
(* (proxy.rs): it picks a model for the request's task class, the body is  *)
(* rewritten, and what follows estimates, reserves, forwards and settles   *)
(* under one model.                                                        *)
(***************************************************************************)
EXTENDS Prices, Sequences

CONSTANTS
  RuleFiles,    \* what TOKENFUSE_ROUTER_RULES may name: rules, or {} for broken or unset
  Modes,        \* of {"off", "shadow", "on"}
  Requests,     \* [model, class, bodyLen, maxTokens, json]
  Growth        \* how much longer the body may get when it is written again

(* What an instance must satisfy.                                          *)
RouterConstants == Growth \subseteq Nat

VARIABLES
  mode, rules,
  tierIndex,   \* the flattened table
  req,         \* the request as it came
  model,       \* parsed.model
  sent,        \* [model, bodyLen] in the outgoing body
  decision,    \* RouteDecision's chosen_model
  reserved,    \* the estimate that is reserved
  phase

vars == <<mode, rules, tierIndex, req, model, sent, decision, reserved, phase>>

Tier(t) == CASE t = "haiku" -> 1 [] t = "sonnet" -> 2 [] t = "opus" -> 3

Candidate(m, t) == [model |-> m, tier |-> t]

(* default_rules *)
DefaultRules ==
  LET cheap == [required |-> "haiku", candidates |-> <<Candidate("claude-haiku-4-5", "haiku")>>]
      hard == [required |-> "sonnet", candidates |-> <<Candidate("claude-sonnet-4-5", "sonnet"),
                                                       Candidate("claude-opus-4-5", "opus")>>]
  IN [default |-> "default",
      classes |-> "cheap" :> cheap @@ "default" :> cheap @@ "hard" :> hard @@ "reasoning" :> hard]

Listed(r) == UNION {{r.classes[c].candidates[i] : i \in DOMAIN r.classes[c].candidates} : c \in DOMAIN r.classes}

(* Router::new: one tier per model; the table is a hash map, so that of a  *)
(* model listed with two tiers either may win.                             *)
TierIndexes(r) ==
  {f \in [{c.model : c \in Listed(r)} -> {"haiku", "sonnet", "opus"}] :
     \A m \in DOMAIN f : \E c \in Listed(r) : c.model = m /\ c.tier = f[m]}

(* from_env, and a request at the door.                                    *)
Init ==
  /\ mode \in Modes
  /\ \E file \in RuleFiles : rules = IF file = {} THEN DefaultRules ELSE CHOOSE r \in file : TRUE
  /\ tierIndex \in TierIndexes(rules)
  /\ req \in Requests
  /\ model = req.model /\ sent = [model |-> req.model, bodyLen |-> req.bodyLen]
  /\ decision = req.model /\ reserved = 0 /\ phase = "route"

-----------------------------------------------------------------------------
CostOf(m) == EstimateCost(m, req.bodyLen, req.maxTokens)

(* resolve_class: the class, else the default one, else none.              *)
Rule(class) ==
  LET names == {class, rules.default} \cap DOMAIN rules.classes
  IN IF names = {} THEN {} ELSE {rules.classes[IF class \in names THEN class ELSE rules.default]}

Eligible(rule) == SelectSeq(rule.candidates, LAMBDA c : Tier(c.tier) >= Tier(rule.required))

(* min_by_key: the first of the cheapest.                                  *)
Cheapest(cs) ==
  cs[CHOOSE i \in DOMAIN cs : \A j \in DOMAIN cs :
       CostOf(cs[i].model) < CostOf(cs[j].model) \/ (CostOf(cs[i].model) = CostOf(cs[j].model) /\ i <= j)].model

MustUpgrade(rule) == req.model \in DOMAIN tierIndex /\ Tier(tierIndex[req.model]) < Tier(rule.required)

(* route: the cheapest eligible candidate, if it is cheaper than the model *)
(* asked for or that model's tier is known to fall short.                  *)
Chosen(rule) ==
  LET pool == IF MustUpgrade(rule) THEN Eligible(rule)
              ELSE SelectSeq(Eligible(rule), LAMBDA c : CostOf(c.model) < CostOf(req.model))
  IN IF pool = <<>> THEN req.model ELSE Cheapest(pool)

\* Mutant of Apply: the name is changed before the body is.
ApplyNameFirst(chosen) ==
  /\ model' = chosen
  /\ IF req.json THEN \E g \in Growth : sent' = [model |-> chosen, bodyLen |-> req.bodyLen + g] ELSE UNCHANGED sent

(* rewrite_model_field; a body that is no JSON object stays as it is.      *)
Apply(chosen) ==
  IF req.json
  THEN /\ model' = chosen
       /\ \E g \in Growth : sent' = [model |-> chosen, bodyLen |-> req.bodyLen + g]
  ELSE UNCHANGED <<model, sent>>

Route ==
  /\ phase = "route" /\ phase' = "reserve"
  /\ decision' = IF mode = "off" \/ Rule(req.class) = {} THEN req.model
                 ELSE Chosen(CHOOSE r \in Rule(req.class) : TRUE)
  /\ IF mode = "on" /\ decision' # req.model THEN Apply(decision') ELSE UNCHANGED <<model, sent>>
  /\ UNCHANGED <<mode, rules, tierIndex, req, reserved>>

(* The estimate of what is sent, for the model it is billed under.         *)
Reserve ==
  /\ phase = "reserve" /\ phase' = "sent"
  /\ reserved' = EstimateCost(model, sent.bodyLen, req.maxTokens)
  /\ UNCHANGED <<mode, rules, tierIndex, req, model, sent, decision>>

Next == Route \/ Reserve

Spec == Init /\ [][Next]_vars

-----------------------------------------------------------------------------
(* "Picks the cheapest model that still meets a task's required quality    *)
(* tier": a routed request goes to a candidate of its class that meets the *)
(* tier, no such candidate is cheaper, and it costs more than the model    *)
(* asked for only if every tier the rules give that model falls short.     *)
CheapestThatMeetsTheTier ==
  phase # "route" /\ decision # req.model =>
    \E r \in Rule(req.class) :
      LET meets == {c \in {r.candidates[i] : i \in DOMAIN r.candidates} : Tier(c.tier) >= Tier(r.required)}
      IN /\ \E c \in meets : c.model = decision
         /\ \A c \in meets : CostOf(decision) <= CostOf(c.model)
         /\ CostOf(decision) > CostOf(req.model) =>
              \E c \in Listed(rules) : c.model = req.model /\ Tier(c.tier) < Tier(r.required)

(* "Leave the request untouched rather than forward a body/estimate        *)
(* mismatch": the model that is reserved and billed for is the model in    *)
(* the body, whatever the body was, and in shadow mode the one asked for.  *)
BilledModelIsSent ==
  /\ model = sent.model
  /\ phase = "sent" => reserved = EstimateCost(sent.model, sent.bodyLen, req.maxTokens)
  /\ mode # "on" => sent = [model |-> req.model, bodyLen |-> req.bodyLen]

(* ADR-8: a model that is not in the book is never reserved for less than  *)
(* a known model would be.                                                 *)
UnknownNeverUnderReserved ==
  phase = "sent" /\ model \notin DOMAIN DefaultBook =>
    \A m \in DOMAIN DefaultBook : reserved >= EstimateCost(m, sent.bodyLen, req.maxTokens)
=============================================================================
