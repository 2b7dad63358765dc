------------------------------ MODULE Planner ------------------------------
(***************************************************************************)
(* The planner: eligibility rules over facts, and the plan of a template.  *)
(*                                                                         *)
(* A fact map is a function from the facts that are present to values: JSON *)
(* as Python reads it.  A value is <<"str", s>>; <<"date", d>> for a string *)
(* in the format of dates; <<"num", n>>; True or False, which are not the   *)
(* numbers 1 and 0 but equal and compare like them; Null; or               *)
(* <<"container", c>> for a list or an object.  Fractions are left out.    *)
(* What the planner raises is the name of the exception.                   *)
(***************************************************************************)
EXTENDS Integers, Sequences, FiniteSets

CONSTANTS
  MaxDate,   \* BOUND: dates are 0..MaxDate; the last one stands for 9999-12-31
  MaxFloat,  \* BOUND: the largest integer that can be made a float
  Depth      \* Depth[rule]: how deep a rule of the templates is nested, or a rule within it

ASSUME DateAssumption == MaxDate \in Nat
ASSUME FloatAssumption == MaxFloat \in Nat \ {0}

-----------------------------------------------------------------------------
(* Predicates: [fact, op, value]                                           *)

Null == <<"null">>
True == <<"bool", 1>>
False == <<"bool", 0>>

IsNumber(value) == value[1] \in {"num", "bool"}
IsContainer(value) == value[1] = "container"

\* Equality of Python: 1 = True.
Same(left, right) ==
  left = right \/ (IsNumber(left) /\ IsNumber(right) /\ left[2] = right[2])

Verdict(b) == IF b THEN "true" ELSE "false"

Compared(op, left, right) ==
  CASE op = ">"  -> left > right
    [] op = ">=" -> left >= right
    [] op = "<"  -> left < right
    [] op = "<=" -> left <= right

FitsFloat(value) == -MaxFloat <= value[2] /\ value[2] <= MaxFloat

\* Only numbers are compared, as floats.
Compare(op, left, right) ==
  IF ~IsNumber(left) \/ ~IsNumber(right) THEN "false"
  ELSE IF ~FitsFloat(left) \/ ~FitsFloat(right) THEN "OverflowError"
  ELSE Verdict(Compared(op, left[2], right[2]))

Comparisons == {">", ">=", "<", "<="}
Ops == {"exists", "=", "!=", "in"} \cup Comparisons

\* What the operator of a predicate says of a fact that is there.
Applied(p, fact) ==
  CASE p.op = "="           -> Verdict(Same(fact, p.value))
    [] p.op = "!="          -> Verdict(~Same(fact, p.value))
    [] p.op = "in"          -> Verdict(\E value \in p.value : Same(fact, value))
    [] p.op \in Comparisons -> Compare(p.op, fact, p.value)
    [] OTHER                -> "PlannerRuleError"

\* Mutant: a fact that is missing is different from every value.
EvalPredicateMissingDiffers(p, facts) ==
  IF p.op = "exists" THEN Verdict(p.fact \in DOMAIN facts)
  ELSE IF p.fact \notin DOMAIN facts THEN Verdict(p.op = "!=")
  ELSE Applied(p, facts[p.fact])

\* A predicate on a missing fact is false, before its operator is looked at.
EvalPredicate(p, facts) ==
  IF p.op = "exists" THEN Verdict(p.fact \in DOMAIN facts)
  ELSE IF p.fact \notin DOMAIN facts THEN "false"
  ELSE Applied(p, facts[p.fact])

-----------------------------------------------------------------------------
(* Rules: [all |-> clauses], [any |-> clauses], [not |-> rule], a          *)
(* predicate, or [invalid |-> what]: null, no object, no list of clauses   *)

Rules == DOMAIN Depth

\* A rule with several of the keys is read by the first of them.
Kind(rule) ==
  IF "invalid" \in DOMAIN rule THEN "invalid"
  ELSE IF "all" \in DOMAIN rule THEN "all"
  ELSE IF "any" \in DOMAIN rule THEN "any"
  ELSE IF "not" \in DOMAIN rule THEN "not"
  ELSE "predicate"

Clauses(rule) ==
  CASE Kind(rule) = "all" -> rule.all
    [] Kind(rule) = "any" -> rule.any
    [] Kind(rule) = "not" -> <<rule.not>>
    [] OTHER              -> << >>

\* Rules come from JSON: they are nested, but no rule is a part of itself.
ASSUME RuleAssumption ==
  /\ Depth \in [Rules -> Nat]
  /\ \A rule \in Rules :
       /\ Clauses(rule) \in Seq(Rules)
       /\ \A i \in DOMAIN Clauses(rule) : Depth[Clauses(rule)[i]] < Depth[rule]

Negated(verdict) ==
  CASE verdict = "true" -> "false" [] verdict = "false" -> "true" [] OTHER -> verdict

\* Clauses are evaluated in turn, up to the first that is not neutral.
FirstNot(verdicts, neutral) ==
  IF \E i \in DOMAIN verdicts : verdicts[i] # neutral
  THEN verdicts[CHOOSE i \in DOMAIN verdicts :
                  verdicts[i] # neutral /\ \A j \in 1..(i - 1) : verdicts[j] = neutral]
  ELSE neutral

\* The verdict on a rule, from the verdicts on its clauses.
Combined(rule, verdicts, facts) ==
  CASE Kind(rule) = "invalid"   -> "PlannerRuleError"
    [] Kind(rule) = "all"       -> FirstNot(verdicts, "true")
    [] Kind(rule) = "any"       -> FirstNot(verdicts, "false")
    [] Kind(rule) = "not"       -> Negated(verdicts[1])
    [] Kind(rule) = "predicate" -> EvalPredicate(rule, facts)

EvalRule(rule, facts) ==
  LET verdict[r \in Rules] ==
        Combined(r, [i \in DOMAIN Clauses(r) |-> verdict[Clauses(r)[i]]], facts)
  IN  verdict[rule]

-----------------------------------------------------------------------------
(* Templates: [event_date_key, tasks, edges]; tasks[k] has eligibility,     *)
(* days (offset and grace) and reference, a fact; edges are pairs           *)

Always == [all |-> << >>]

Eligible(template, facts) ==
  [k \in DOMAIN template.tasks |-> EvalRule(template.tasks[k].eligibility, facts)]

\* Mutant: dependencies on tasks that are not eligible stay.
DependsOnUnpruned(template, active, k) == {e[1] : e \in {x \in template.edges : x[2] = k}}

DependsOn(template, active, k) ==
  {e[1] : e \in {x \in template.edges : x[2] = k /\ x[1] \in active}}

Dates == 0..MaxDate
IsDate(value) == value[1] = "date"

\* The date arithmetic of Python ends in the year 9999.
Deadline(template, facts, k) == facts[template.event_date_key][2] + template.tasks[k].days

\* generate_plan: the items by task key, or the exceptions of which it raises
\* one: the rules are evaluated in the order of the task keys, which is left open.
\* A template has no cycle (Toposort), and its deadlines are well formed.
GeneratePlan(template, facts) ==
  LET eligible == Eligible(template, facts)
      active == {k \in DOMAIN eligible : eligible[k] = "true"}
      raised == {eligible[k] : k \in DOMAIN eligible} \ {"true", "false"}
  IN  IF template.event_date_key \notin DOMAIN facts \/ ~IsDate(facts[template.event_date_key])
      THEN [raises |-> {"PlannerInputError"}]
      ELSE IF raised # {}
      THEN [raises |-> raised]
      ELSE IF \E k \in active : Deadline(template, facts, k) \notin Dates
      THEN [raises |-> {"OverflowError"}]
      ELSE [items |-> [k \in active |->
              [depends_on |-> DependsOn(template, active, k),
               deadline |-> Deadline(template, facts, k)]]]

PlannerErrors == {"PlannerInputError", "PlannerRuleError"}

-----------------------------------------------------------------------------
(* The runner of the test cases beside a template: what it expects of the  *)
(* planner.  It counts from the fact each deadline names.                  *)

BlockedBy(template, active, k) ==
  {e[1] : e \in {x \in template.edges : x[1] \in active /\ x[2] \in active /\ x[2] = k}}

RunTemplate(template, facts) ==
  LET active == {k \in DOMAIN template.tasks : EvalRule(template.tasks[k].eligibility, facts) = "true"}
      Dated(k) == template.tasks[k].reference \in DOMAIN facts
  IN  [active |-> active,
       blocked_by |-> [k \in active |-> BlockedBy(template, active, k)],
       deadlines |-> [k \in {x \in active : Dated(x)} |->
                        facts[template.tasks[k].reference][2] + template.tasks[k].days]]

=============================================================================
