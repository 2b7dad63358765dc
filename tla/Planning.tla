------------------------------ MODULE Planning ------------------------------
(***************************************************************************)
(* One plan and the requests that plan it, one at a time: what the planner *)
(* makes of facts that clients send.  PlanStore has the tasks, the rows    *)
(* and the requests that overlap, and leaves the planner open.             *)
(***************************************************************************)
EXTENDS BirthTemplates

CONSTANTS
  Templates,   \* the templates a plan may be created from
  Bodies(_),   \* Bodies(t): the facts a client creates a plan of template t with
  Patches(_)   \* Patches(t): the facts a client patches it with

\* The rules of every template are among the rules.
ASSUME TemplateAssumption ==
  \A t \in Templates \cup BirthDe : \A k \in DOMAIN t.tasks : t.tasks[k].eligibility \in Rules

VARIABLES
  template,    \* plan.template_key, and what it loads
  facts,       \* plan.facts
  planned,     \* the facts of snapshot["facts_hash"]
  plan,        \* the items of the snapshot; no items before the plan exists
  answer       \* the answer to the last request

vars == <<template, facts, planned, plan, answer>>

NoPlan == << >>
Exists == planned # NoPlan

FactSchema(t) == IF "fact_schema_version" \in DOMAIN t THEN t.fact_schema_version ELSE 1

\* Only facts of birth_de are migrated and normalised.
PrepareFacts(t, f, schema) ==
  IF t \notin BirthDe THEN f
  ELSE IF schema < FactSchema(t) THEN NormalizeBirth(MigrateBirth(f))
  ELSE NormalizeBirth(f)

\* Membership in a set needs a hash, which lists and objects do not have.
Unhashable(t, f) ==
  /\ t \in BirthDe
  /\ "child_insurance_kind" \in DOMAIN f /\ IsContainer(f["child_insurance_kind"])

\* ValueErrors become a 400, anything else a 500; nothing is stored.
Fail(exception) ==
  /\ answer' = IF exception \in PlannerErrors THEN "400" ELSE "500"
  /\ UNCHANGED <<template, facts, planned, plan>>

\* Prepared facts become a plan of template t.
Plan(t, f) ==
  LET result == GeneratePlan(t, f)
  IN  IF "raises" \in DOMAIN result
      THEN \E exception \in result.raises : Fail(exception)
      ELSE /\ answer' = "200"
           /\ plan' = result.items
           /\ facts' = f
           /\ planned' = f
           /\ template' = t

PrepareAndPlan(t, f) ==
  IF Unhashable(t, f) THEN Fail("TypeError")
  ELSE Plan(t, PrepareFacts(t, f, FactSchema(t)))

CreatePlan(body) ==
  /\ ~Exists
  /\ PrepareAndPlan(template, body)

\* Unchanged facts keep their snapshot, which is what the planner would return.
UpdateFacts(patch, recompute) ==
  LET merged == ExtendedBy(facts, patch)
  IN  /\ Exists
      /\ CASE recompute                    -> PrepareAndPlan(template, merged)
           [] ~recompute /\ Unhashable(template, merged) -> Fail("TypeError")
           [] OTHER ->
                /\ facts' = PrepareFacts(template, merged, FactSchema(template))
                /\ answer' = "200"
                /\ UNCHANGED <<template, planned, plan>>

RecomputePlan ==
  /\ Exists
  /\ PrepareAndPlan(template, facts)

\* The new plan takes the place of the old one.  create_plan does not know from
\* which schema the facts come, and takes them for those of the new template.
UpgradePlan ==
  /\ Exists
  /\ template = BirthV1
  /\ PrepareAndPlan(BirthV2, facts)

Init ==
  /\ template \in Templates
  /\ facts = NoPlan /\ planned = NoPlan /\ plan = NoPlan
  /\ answer = "200"

Next ==
  \/ \E body \in Bodies(template) : CreatePlan(body)
  \/ \E patch \in Patches(template), recompute \in BOOLEAN : UpdateFacts(patch, recompute)
  \/ RecomputePlan
  \/ UpgradePlan

Spec == Init /\ [][Next]_vars

-----------------------------------------------------------------------------
(* Properties                                                              *)

\* A task waits only for tasks of the plan that a person can complete: the two
\* ways to insure the child never wait for the decision between them, whatever
\* order the facts came in.
DependenciesCanBeMet ==
  \A k \in DOMAIN plan :
    /\ plan[k].depends_on \subseteq DOMAIN plan
    /\ template \in BirthDe => "decide_child_insurance" \notin plan[k].depends_on

InsuranceTasks ==
  {"decide_child_insurance", "add_child_insurance_gkv", "add_child_insurance_pkv"}

\* Version 2 plans one task of the child's insurance, never none, never two,
\* whatever the client wrote into the facts.
OneInsuranceTask ==
  Exists /\ template = BirthV2 => \E k \in InsuranceTasks : DOMAIN plan \cap InsuranceTasks = {k}

\* Nobody is asked to decide what the parents' insurance settles: one of them
\* insured, the other way not, as booleans and not as 1 and 0.
ParentsDecide ==
  Exists /\ template = BirthV2 /\ "decide_child_insurance" \in DOMAIN plan =>
    ~\E public \in {True, False} :
       /\ HasValue(planned, "public_insurance", public)
       /\ HasValue(planned, "private_insurance", IF public = True THEN False ELSE True)

\* The regression tests of the templates judge the plan that is stored.
RunnerAgrees ==
  Exists =>
    LET expected == RunTemplate(template, planned)
    IN  /\ DOMAIN plan = expected.active
        /\ \A k \in DOMAIN plan : plan[k].depends_on = expected.blocked_by[k]
        /\ [k \in DOMAIN plan |-> plan[k].deadline] = expected.deadlines

\* A decision about the child's insurance survives every patch of other facts,
\* those of the parents' insurance included, and the upgrade to version 2.
ChoicesStay ==
  [][HasKindIn(facts, {Str("gkv"), Str("pkv")}) /\ template \in BirthDe
       /\ \/ UpgradePlan
          \/ \E patch \in Patches(template), recompute \in BOOLEAN :
               "child_insurance_kind" \notin DOMAIN patch /\ UpdateFacts(patch, recompute)
     => facts'["child_insurance_kind"] = facts["child_insurance_kind"]]_vars

\* Every operator within a rule is one of those the planner knows.
Valid(rule) ==
  LET valid[r \in Rules] ==
        /\ Kind(r) # "invalid"
        /\ \A i \in DOMAIN Clauses(r) : valid[Clauses(r)[i]]
        /\ Kind(r) = "predicate" => r.op \in Ops
  IN  valid[rule]

Related(op, left, right) ==
  CASE op = "="  -> Same(left, right)
    [] op = "!=" -> ~Same(left, right)
    [] op = "in" -> \E value \in right : Same(left, value)
    [] op \in Comparisons ->
         IsNumber(left) /\ IsNumber(right) /\ Compared(op, left[2], right[2])
    [] OTHER     -> FALSE

\* What a rule means: Boolean logic over predicates, which no missing fact
\* satisfies.
Means(rule, f) ==
  LET means[r \in Rules] ==
        CASE Kind(r) = "all" -> \A i \in DOMAIN Clauses(r) : means[Clauses(r)[i]]
          [] Kind(r) = "any" -> \E i \in DOMAIN Clauses(r) : means[Clauses(r)[i]]
          [] Kind(r) = "not" -> ~means[Clauses(r)[1]]
          [] OTHER -> /\ r.fact \in DOMAIN f
                      /\ r.op # "exists" => Related(r.op, f[r.fact], r.value)
  IN  means[rule]

\* A plan has the tasks whose rules are true of its facts, and those alone;
\* short-circuits, negations and missing facts included.
RulesMean ==
  Exists => \A k \in DOMAIN template.tasks :
    LET rule == template.tasks[k].eligibility
    IN  Valid(rule) => (k \in DOMAIN plan <=> Means(rule, planned))

\* planner/errors.py: "Base class for planner failures."  Whatever facts a client
\* sends, a plan that fails is a failure of the planner, answered with 400.  Not
\* true of deadlines after the last date, of a list as the kind of insurance, and
\* of integers too large for a float.
FailuresArePlannerErrors == answer # "500"

\* Not true: the way to insure the child is the same before and after an
\* upgrade.  A kind derived from the parents' insurance when the plan was made
\* outlives a change of their insurance, version 1 plans by the latter, version
\* 2 by the former.
UpgradeKeepsInsurance ==
  [][UpgradePlan /\ answer' = "200" =>
       DOMAIN plan \cap InsuranceTasks \subseteq DOMAIN plan']_vars

=============================================================================
