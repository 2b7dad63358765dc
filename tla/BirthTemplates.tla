--------------------------- MODULE BirthTemplates ---------------------------
(***************************************************************************)
(* The templates birth_de/v1 and birth_de/v2 as the planner reads them.    *)
(* Titles, categories, effort, cost, links, texts and recommendations are  *)
(* left out.                                                               *)
(***************************************************************************)
EXTENDS Planner

Str(s) == <<"str", s>>

\* The facts' values as JSON has them.
INSTANCE BirthFacts WITH
  Yes <- True, No <- False, Unknown <- Str("unknown"), Gkv <- Str("gkv"), Pkv <- Str("pkv")

Equals(fact, value) == [all |-> << [fact |-> fact, op |-> "=", value |-> value] >>]
OneOf(fact, values) == [fact |-> fact, op |-> "in", value |-> {Str(s) : s \in values}]

Due(days, rule) == [eligibility |-> rule, days |-> days, reference |-> "birth_date"]

Paternity == Due(30, Equals("married", False))

CommonTasks ==
  [birth_certificate |-> Due(7, Always),
   child_benefit |-> Due(90, Always),
   parental_allowance |-> Due(90,
     [any |-> << OneOf("employment_type",
                       {"employed", "self_employed", "mixed", "student", "unemployed"}),
                 [fact |-> "employment_type", op |-> "exists"] >>]),
   parental_leave_employer |-> Due(7, [all |-> << OneOf("employment_type", {"employed", "mixed"}) >>]),
   paternity_acknowledgement |-> Paternity]

AfterCertificate ==
  {"birth_certificate"} \X
    {"child_benefit", "parental_allowance", "add_child_insurance_gkv", "add_child_insurance_pkv"}

ExtendedBy(f, g) == [k \in DOMAIN f \cup DOMAIN g |-> IF k \in DOMAIN g THEN g[k] ELSE f[k]]

BirthV1 ==
  [event_date_key |-> "birth_date",
   fact_schema_version |-> 1,
   edges |-> AfterCertificate,
   tasks |-> ExtendedBy(CommonTasks,
     [add_child_insurance_gkv |-> Due(30, Equals("public_insurance", True)),
      add_child_insurance_pkv |-> Due(30, Equals("private_insurance", True))])]

\* Version 2 asks the parents to decide when their insurance does not.
BirthV2 ==
  [event_date_key |-> "birth_date",
   fact_schema_version |-> 2,
   edges |-> AfterCertificate \cup
     ({"decide_child_insurance"} \X {"add_child_insurance_gkv", "add_child_insurance_pkv"}),
   tasks |-> ExtendedBy(CommonTasks,
     [decide_child_insurance |-> Due(14, Equals("child_insurance_kind", Str("unknown"))),
      add_child_insurance_gkv |-> Due(30, Equals("child_insurance_kind", Str("gkv"))),
      add_child_insurance_pkv |-> Due(30, Equals("child_insurance_kind", Str("pkv")))])]

BirthDe == {BirthV1, BirthV2}

=============================================================================
