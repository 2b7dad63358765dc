-------------------------- MODULE BirthFactsProofs --------------------------
(* Theorems about the normaliser, for any facts.                             *)
EXTENDS BirthFacts, TLAPS

(* Normalising twice is normalising once: facts are normalised before they   *)
(* are stored and again whenever they are read (facts_normalizer.py,         *)
(* normalize_facts).  This is what PlanStore asks of its normaliser.         *)
THEOREM NormalizeIsIdempotent ==
  ASSUME NEW f PROVE NormalizeBirth(NormalizeBirth(f)) = NormalizeBirth(f)
<1> DEFINE g == WithKind(f, Derived(f))
<1>1. CASE HasKindIn(f, {Gkv, Pkv}) BY <1>1 DEF NormalizeBirth
<1>2. CASE ~HasKindIn(f, {Gkv, Pkv})
  <2>1. NormalizeBirth(f) = g BY <1>2 DEF NormalizeBirth
  <2>2. Derived(g) = Derived(f) BY DEF Derived, HasValue, WithKind
  <2>3. WithKind(g, Derived(f)) = g BY DEF WithKind
  <2>4. NormalizeBirth(g) = g BY <2>2, <2>3 DEF NormalizeBirth
  <2> QED BY <2>1, <2>4
<1> QED BY <1>1, <1>2

(* A plan upgraded to fact schema 2 gets the same facts whether the          *)
(* migration runs before the normaliser or, as in the code, never            *)
(* (plan_service.py, create_plan passes no source schema version).           *)
THEOREM MigrationIsAbsorbed ==
  ASSUME Unknown \notin {Gkv, Pkv}, NEW f
  PROVE  NormalizeBirth(MigrateBirth(f)) = NormalizeBirth(f)
<1> DEFINE g == WithKind(f, Unknown)
<1>1. CASE HasKindIn(f, {Gkv, Pkv, Unknown}) BY <1>1 DEF MigrateBirth
<1>2. CASE ~HasKindIn(f, {Gkv, Pkv, Unknown})
  <2>1. MigrateBirth(f) = g /\ ~HasKindIn(f, {Gkv, Pkv}) BY <1>2 DEF MigrateBirth, HasKindIn
  <2>2. ~HasKindIn(g, {Gkv, Pkv}) BY DEF HasKindIn, WithKind
  <2>3. Derived(g) = Derived(f) BY DEF Derived, HasValue, WithKind
  <2>4. \A kind : WithKind(g, kind) = WithKind(f, kind) BY DEF WithKind
  <2> QED BY <2>1, <2>2, <2>3, <2>4 DEF NormalizeBirth
<1> QED BY <1>1, <1>2
=============================================================================
