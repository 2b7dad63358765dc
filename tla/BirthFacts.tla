----------------------------- MODULE BirthFacts -----------------------------
(***************************************************************************)
(* Facts of the templates birth_de/...: how they are normalised before     *)
(* every use of the planner.                                               *)
(* The constants of this module are the values of facts it looks at.  A    *)
(* child_insurance_kind that is a list or an object is in no set: Python   *)
(* raises a TypeError before any of this (Unhashable of Planning).         *)
(***************************************************************************)
CONSTANTS Yes, No, Unknown, Gkv, Pkv

HasValue(f, key, value) == key \in DOMAIN f /\ f[key] = value

WithKind(f, kind) ==
  [k \in DOMAIN f \cup {"child_insurance_kind"} |->
     IF k = "child_insurance_kind" THEN kind ELSE f[k]]

HasKindIn(f, kinds) ==
  "child_insurance_kind" \in DOMAIN f /\ f["child_insurance_kind"] \in kinds

\* By identity: the numbers 1 and 0 are neither Yes nor No.
Derived(f) ==
  CASE HasValue(f, "public_insurance", Yes) /\ HasValue(f, "private_insurance", No) -> Gkv
    [] HasValue(f, "public_insurance", No) /\ HasValue(f, "private_insurance", Yes) -> Pkv
    [] OTHER -> Unknown

\* Mutant: "unknown" counts as a choice.
NormalizeBirthKeepingUnknown(f) ==
  IF HasKindIn(f, {Gkv, Pkv, Unknown}) THEN f ELSE WithKind(f, Derived(f))

\* Mutant: anything that is there stays.
NormalizeBirthKeepingText(f) ==
  IF "child_insurance_kind" \in DOMAIN f THEN f ELSE WithKind(f, Derived(f))

\* Mutant: the parents' insurance overrides a choice.
NormalizeBirthDerivingAlways(f) == WithKind(f, Derived(f))

\* An explicit choice stays; anything else is derived from the parents' insurance.
NormalizeBirth(f) == IF HasKindIn(f, {Gkv, Pkv}) THEN f ELSE WithKind(f, Derived(f))

\* The migration from fact schema 1 to 2.
MigrateBirth(f) == IF HasKindIn(f, {Gkv, Pkv, Unknown}) THEN f ELSE WithKind(f, Unknown)

=============================================================================
