----------------------------- MODULE MarketRules -----------------------------
(***************************************************************************)
(* The market rule of one province (services/market_rule_service.py,       *)
(* repositories/market_rule.py, schemas/market_rule.py) and the deviation  *)
(* costs that rules/guangdong.py and rules/gansu.py compute with its       *)
(* parameters.                                                             *)
(*                                                                         *)
(* An upsert selects the row FOR UPDATE and writes the columns in which    *)
(* the request differs from it; a deletion clears is_active.               *)
(*                                                                         *)
(* Ratios are whole numbers of 1/Unit.  A cost is Unit times the cost.     *)
(***************************************************************************)
EXTENDS Integers, Sequences, FiniteSetsExt

CONSTANTS
  Contents,     \* contents of rules that administrators enter
  Unit,         \* the ratio 1
  RuleRequests, \* requests that write the rule
  NoRule

Fields == {"price_cap_upper", "price_cap_lower", "deviation_formula_type", "deviation_formula_params"}

(* MarketRuleCreate and the schema of each formula type: a step is         *)
(* SteppedStep, and neither gaps, overlaps nor the order of steps matter.  *)
(* What BandwidthParams holds is left out.                                 *)
Step == [lower : 0 .. Unit - 1, upper : 1 .. Unit, rate : Nat \ {0}]
Fits(type, params) ==
  /\ type \in {"stepped", "proportional", "bandwidth"}
  /\ type # "bandwidth" => params.exemption \in 0 .. Unit - 1
  /\ type = "stepped" =>
       /\ params.steps \in Seq(Step) \ {<<>>}
       /\ \A i \in DOMAIN params.steps : params.steps[i].lower < params.steps[i].upper
  /\ type = "proportional" => params.rate \in Nat \ {0}

ASSUME MarketRulesAssumption ==
  /\ Unit \in Nat \ {0}
  /\ NoRule \notin Contents
  /\ \A c \in Contents :
       /\ c = [f \in Fields |-> c[f]]
       /\ c.price_cap_upper \in Nat /\ c.price_cap_lower \in Nat
       /\ c.price_cap_lower < c.price_cap_upper
       /\ Fits(c.deviation_formula_type, c.deviation_formula_params)

VARIABLES
  rule,     \* the row of the province
  inForce,  \* its is_active
  ruleReq,  \* what each request is about to do
  latest    \* history: the content of the last upsert that was committed

ruleVars == <<rule, inForce, ruleReq, latest>>

NoRequest == [op |-> "none"]
RuleFree == \A r \in RuleRequests : ruleReq[r].op \notin {"update", "delete"}
RuleStep(r, step) == ruleReq' = [ruleReq EXCEPT ![r] = step]

RuleInit ==
  /\ rule = NoRule
  /\ inForce = FALSE
  /\ ruleReq = [r \in RuleRequests |-> NoRequest]
  /\ latest = NoRule

-----------------------------------------------------------------------------
(* Slip: the row is loaded without FOR UPDATE.                             *)
LoadUnlocked(r, c) ==
  /\ ruleReq[r] = NoRequest
  /\ RuleStep(r, IF rule = NoRule THEN [op |-> "create", content |-> c]
                 ELSE [op |-> "update", content |-> c, loaded |-> rule])
  /\ UNCHANGED <<rule, inForce, latest>>

(* get_by_province_for_update: without a row, nothing is locked.           *)
Load(r, c) ==
  /\ ruleReq[r] = NoRequest
  /\ RuleFree
  /\ RuleStep(r, IF rule = NoRule THEN [op |-> "create", content |-> c]
                 ELSE [op |-> "update", content |-> c, loaded |-> rule])
  /\ UNCHANGED <<rule, inForce, latest>>

(* The INSERT fails (409) where another request has been faster.           *)
CreateRule(r) ==
  /\ ruleReq[r].op = "create"
  /\ IF rule = NoRule
     THEN rule' = ruleReq[r].content /\ inForce' = TRUE /\ latest' = ruleReq[r].content
     ELSE UNCHANGED <<rule, inForce, latest>>
  /\ RuleStep(r, NoRequest)

(* The UPDATE names the columns that differ; a deleted rule is back.       *)
UpdateRule(r) ==
  /\ ruleReq[r].op = "update"
  /\ LET c == ruleReq[r].content  old == ruleReq[r].loaded IN
     /\ rule' = [f \in Fields |-> IF c[f] = old[f] THEN rule[f] ELSE c[f]]
     /\ latest' = c
  /\ inForce' = TRUE
  /\ RuleStep(r, NoRequest)

(* delete_market_rule, in the same way.                                    *)
LoadToDelete(r) ==
  /\ ruleReq[r] = NoRequest
  /\ RuleFree
  /\ rule # NoRule /\ inForce
  /\ RuleStep(r, [op |-> "delete"])
  /\ UNCHANGED <<rule, inForce, latest>>

DeleteRule(r) ==
  /\ ruleReq[r].op = "delete"
  /\ inForce' = FALSE
  /\ RuleStep(r, NoRequest)
  /\ UNCHANGED <<rule, latest>>

RuleRollBack(r) ==
  /\ ruleReq[r] # NoRequest
  /\ RuleStep(r, NoRequest)
  /\ UNCHANGED <<rule, inForce, latest>>

RuleNext ==
  \E r \in RuleRequests :
    \/ \E c \in Contents : Load(r, c)
    \/ CreateRule(r) \/ UpdateRule(r)
    \/ LoadToDelete(r) \/ DeleteRule(r)
    \/ RuleRollBack(r)

-----------------------------------------------------------------------------
(* calculate_deviation_cost, for the deviation |actual - forecast|.        *)

Exempt(params, deviation, forecast) ==
  forecast = 0 \/ deviation * Unit <= params.exemption * forecast

(* Slip: a step is charged with the whole deviation once it is reached.    *)
StepCostWhole(step, deviation, forecast, price) == deviation * Unit * price * step.rate

(* What the loop of GuangdongRule adds for a step, times Unit.             *)
StepCost(step, deviation, forecast, price) ==
  LET upTo == IF deviation * Unit < step.upper * forecast
              THEN deviation * Unit ELSE step.upper * forecast
  IN  (upTo - step.lower * forecast) * price * step.rate

(* The steps before the first one that the deviation does not exceed.      *)
Charged(steps, deviation, forecast) ==
  {i \in DOMAIN steps : \A j \in 1 .. i : deviation * Unit > steps[j].lower * forecast}

SteppedCost(params, deviation, forecast, price) ==
  IF Exempt(params, deviation, forecast) THEN 0
  ELSE SumFunction([i \in Charged(params.steps, deviation, forecast) |->
                      StepCost(params.steps[i], deviation, forecast, price)])

(* GansuRule: the whole deviation at one rate.                             *)
ProportionalCost(params, deviation, forecast, price) ==
  IF Exempt(params, deviation, forecast) THEN 0
  ELSE Unit * deviation * price * params.rate

(* evaluate, for a rule of either formula.                                 *)
Cost(r, deviation, forecast, price) ==
  IF r.deviation_formula_type = "stepped"
  THEN SteppedCost(r.deviation_formula_params, deviation, forecast, price)
  ELSE ProportionalCost(r.deviation_formula_params, deviation, forecast, price)

-----------------------------------------------------------------------------
(* Properties.                                                             *)

(* Every variable stays in the set the code and the schema give it, and at *)
(* most one request is writing the row.                                    *)
RuleTypeOK ==
  /\ rule \in Contents \cup {NoRule}
  /\ inForce \in BOOLEAN
  /\ ruleReq \in [RuleRequests ->
            {NoRequest} \cup [op : {"delete"}] \cup [op : {"create"}, content : Contents]
       \cup [op : {"update"}, content : Contents, loaded : Contents]]
  /\ latest \in Contents \cup {NoRule}
  /\ inForce => rule # NoRule
  /\ \A r, q \in RuleRequests :
       ruleReq[r].op \in {"update", "delete"} /\ ruleReq[q].op \in {"update", "delete"} => r = q

(* The rule is the latest: it holds what one administrator entered, never  *)
(* the caps of one and the formula of another, although an update writes   *)
(* only the columns that differ from what it loaded.                       *)
RuleIsLatest == rule = latest

(* The rates of the steps that contain unit k of a deviation.              *)
RateOfUnit(steps, forecast, k) ==
  SumFunction([i \in {i \in DOMAIN steps : /\ steps[i].lower * forecast < k
                                           /\ k <= steps[i].upper * forecast}
                 |-> steps[i].rate])

InOrder(steps) == \A i, j \in DOMAIN steps : i < j => steps[i].lower <= steps[j].lower

(* Costs add up: a larger deviation never costs less than a smaller one,   *)
(* and where the steps of a rule are in order, every unit of the deviation *)
(* costs the rates of the steps that contain it, so that the break of the  *)
(* loop leaves none of them out and no unit is charged outside its step.   *)
AddsUp(r, deviation, forecast) ==
  LET p == r.deviation_formula_params
  IN  /\ Cost(r, deviation, forecast, 1) <= Cost(r, deviation + 1, forecast, 1)
      /\ r.deviation_formula_type = "stepped" /\ InOrder(p.steps) =>
           Cost(r, deviation, forecast, 1) =
             IF Exempt(p, deviation, forecast) THEN 0
             ELSE SumFunction([k \in 1 .. deviation * Unit |-> RateOfUnit(p.steps, forecast, k)])

(* They do for the rule as it is stored, here for two forecasts.  Nothing  *)
(* computes the costs of a bandwidth.                                      *)
CostsAddUp ==
  rule # NoRule /\ rule.deviation_formula_type # "bandwidth" =>
    \A forecast \in {0, 2} : \A deviation \in 0 .. forecast + 1 : AddsUp(rule, deviation, forecast)
=============================================================================
