----------------------------- MODULE MCPlanning -----------------------------
(* Facts and templates for the runs of Planning.                           *)
EXTENDS Planning

MCText == Str("text")
MCList == <<"container", "list">>
MCHuge == <<"num", MaxFloat + 1>>

\* What the form of the frontend sends, with and without optional facts; the last
\* day of the calendar; and what it does not send: texts, numbers for booleans, a
\* list.
MCBirthBodies ==
  {[birth_date |-> d, employment_type |-> Str("employed"),
    public_insurance |-> p, private_insurance |-> q] :
     d \in {<<"date", 0>>, <<"date", MaxDate>>}, p \in {True, False}, q \in {True, False}}
  \cup {[birth_date |-> <<"date", 0>>], [birth_date |-> MCText], << >>}
  \cup {[birth_date |-> <<"date", 0>>, married |-> False, child_insurance_kind |-> MCText],
        [birth_date |-> <<"date", 0>>, employment_type |-> Str("student"), married |-> <<"num", 0>>,
         public_insurance |-> <<"num", 1>>, private_insurance |-> False],
        [birth_date |-> <<"date", 0>>, child_insurance_kind |-> MCList]}

\* Every insurance fact patched to anything, and the date.
MCBirthPatches ==
  {[child_insurance_kind |-> v] : v \in {Str("unknown"), Str("gkv"), Str("pkv"), MCText, MCList}}
  \cup {[public_insurance |-> v] : v \in {True, False, <<"num", 1>>}}
  \cup {[private_insurance |-> v] : v \in {True, False}}
  \cup {[birth_date |-> <<"date", MaxDate>>]}

-----------------------------------------------------------------------------
(* Templates of one task and every rule of a few clauses                   *)

Predicate(fact, op, value) == [fact |-> fact, op |-> op, value |-> value]

MCPredicates ==
  {Predicate("a", op, <<"num", 1>>) : op \in {"=", "!=", "<=", ">"}}
  \cup {Predicate("a", "in", {<<"num", 1>>, Str("x")}), Predicate("a", ">=", Str("x")),
        Predicate("a", "=", Null), Predicate("b", "exists", Null)}

MCInvalid == [invalid |-> "null"]
MCUnsupported == Predicate("a", "like", Str("x"))

MCClauses == MCPredicates \cup {[not |-> p] : p \in MCPredicates} \cup {MCInvalid, MCUnsupported}

MCLists == {<< >>} \cup {<<c>> : c \in MCClauses} \cup (MCClauses \X MCClauses)

MCRules ==
  {[all |-> l] : l \in MCLists} \cup {[any |-> l] : l \in MCLists}
  \cup {[not |-> [all |-> l]] : l \in MCLists} \cup MCClauses

MCRuleTemplates ==
  {[event_date_key |-> "birth_date", edges |-> {}, tasks |-> [task |-> Due(7, r)]] : r \in MCRules}

\* Fact a missing or with any value, b missing or null.
MCRuleBodies ==
  LET as == {<< >>} \cup {[a |-> v] : v \in {<<"num", 1>>, <<"num", 2>>, True, MCHuge,
                                           Str("x"), Null, MCList}}
      bs == {[birth_date |-> <<"date", 0>>], [birth_date |-> <<"date", 0>>, b |-> Null]}
  IN  {ExtendedBy(b, a) : a \in as, b \in bs}

MCRulePatches == {[a |-> Null]}

-----------------------------------------------------------------------------

\* Every rule of the templates, with its parts.
MCBirthRules ==
  UNION {{t.tasks[k].eligibility : k \in DOMAIN t.tasks} : t \in BirthDe}

MCInnermost == MCPredicates \cup {MCInvalid, MCUnsupported}
  \cup UNION {{Clauses(r)[i] : i \in DOMAIN Clauses(r)} : r \in MCBirthRules}
  \cup {r \in MCBirthRules : Kind(r) = "predicate"}

MCAllRules == MCRules \cup MCBirthRules \cup MCInnermost

\* Rules without clauses, their negations, rules of clauses, and the negations of these.
MCDepth == [r \in MCAllRules |->
  CASE r \in MCInnermost  -> 0
    [] r \in MCClauses    -> 1
    [] Kind(r) # "not"    -> 2
    [] OTHER              -> 3]

MCTemplates == BirthDe \cup MCRuleTemplates
MCBodies(t) == IF t \in BirthDe THEN MCBirthBodies ELSE MCRuleBodies
MCPatches(t) == IF t \in BirthDe THEN MCBirthPatches ELSE MCRulePatches

=============================================================================
