----------------------------- MODULE MCPlanStore -----------------------------
(* A small birth_de: the parents decide how the child is insured, register    *)
(* the child unless it is privately insured, and need a certificate for that. *)
(* Dates follow the birth date.                                               *)
EXTENDS PlanStore, TLC

Birth == INSTANCE BirthFacts WITH
  Yes <- "true", No <- "false", Unknown <- "unknown", Gkv <- "gkv", Pkv <- "pkv"

MCFacts ==
  [child_insurance_kind : {"unknown", "gkv", "pkv"},
   public_insurance : {"true", "false", "text"},
   private_insurance : {"false"},
   birth_date : {"d1", "d2"}]

\* A client decides either way, withdraws it, mistypes the parents' insurance,
\* moves the date.
MCPatches ==
  {[child_insurance_kind |-> "unknown"], [child_insurance_kind |-> "gkv"],
   [child_insurance_kind |-> "pkv"], [public_insurance |-> "text"], [birth_date |-> "d2"]}

\* The same without the withdrawal, for requests that overlap.
MCOverlappingPatches == MCPatches \ {[child_insurance_kind |-> "unknown"]}

\* Two patches of different facts.
MCTwoPatches == {[child_insurance_kind |-> "gkv"], [birth_date |-> "d2"]}

\* A decision made either way.
MCDecisionPatches == {[child_insurance_kind |-> "pkv"], [child_insurance_kind |-> "gkv"]}

MCNormalize == [f \in MCFacts |-> Birth!NormalizeBirth(f)]

Item(deps, date) == [depends_on |-> deps, deadline |-> date]

MCPlanner ==
  [f \in {g \in MCFacts : g.public_insurance # "text"} |->
     CASE f.child_insurance_kind = "unknown" ->
            [certificate |-> Item({}, f.birth_date),
             decide      |-> Item({}, f.birth_date),
             register    |-> Item({"certificate", "decide"}, f.birth_date)]
       [] f.child_insurance_kind = "gkv" ->
            [certificate |-> Item({}, f.birth_date),
             register    |-> Item({"certificate"}, f.birth_date)]
       [] OTHER ->
            [certificate |-> Item({}, f.birth_date)]]

MCSymmetry == Permutations(Requests)

==============================================================================
