--------------------------- MODULE PlanningProofs ---------------------------
(***************************************************************************)
(* Theorems about Planner and Planning, for any templates, any rules they  *)
(* are made of and any facts that clients send.                            *)
(***************************************************************************)
EXTENDS Planning, WellFoundedInduction, TLAPS

-----------------------------------------------------------------------------
(* Rules are finite trees: induction and recursion over them               *)

LEMMA LeastExists ==
  ASSUME NEW S \in SUBSET Nat, S # {}
  PROVE  \E x \in S : \A y \in S : x <= y
<1> DEFINE R == OpToRel(<, Nat)
<1>1. PICK x \in S : \A y \in S : <<y, x>> \notin R
  <2> HIDE DEF R
  <2>1. IsWellFoundedOn(R, Nat)
    BY NatLessThanWellFounded DEF R
  <2> QED
    BY <2>1, WFMin
<1>2. \A y \in S : ~(y < x)
  BY <1>1 DEF OpToRel
<1> QED
  BY <1>2

\* What holds of a rule if it holds of its clauses holds of every rule.
LEMMA RuleInduction ==
  ASSUME NEW T \in SUBSET Rules,
         \A rule \in Rules :
           (\A i \in DOMAIN Clauses(rule) : Clauses(rule)[i] \in T) => rule \in T
  PROVE  T = Rules
<1> DEFINE Bad == {Depth[rule] : rule \in Rules \ T}
<1>1. Depth \in [Rules -> Nat]
  BY RuleAssumption
<1>2. \A rule \in Rules : \A i \in DOMAIN Clauses(rule) :
        Clauses(rule)[i] \in Rules /\ Depth[Clauses(rule)[i]] < Depth[rule]
  BY RuleAssumption
<1>3. SUFFICES ASSUME Rules \ T # {} PROVE FALSE
  OBVIOUS
<1>4. Bad \in SUBSET Nat /\ Bad # {}
  BY <1>1, <1>3
<1>5. PICK n \in Bad : \A m \in Bad : n <= m
  <2> HIDE DEF Bad
  <2> QED
    BY <1>4, LeastExists
<1>6. PICK rule \in Rules \ T : n = Depth[rule]
  BY <1>5
<1>7. ASSUME NEW i \in DOMAIN Clauses(rule) PROVE Clauses(rule)[i] \in T
  <2>1. Clauses(rule)[i] \in Rules /\ Depth[Clauses(rule)[i]] < Depth[rule]
    BY <1>2
  <2>2. CASE Clauses(rule)[i] \notin T
    <3>1. Depth[Clauses(rule)[i]] \in Bad
      BY <2>1, <2>2
    <3>2. Depth[rule] <= Depth[Clauses(rule)[i]]
      BY <1>5, <1>6, <3>1
    <3> QED
      BY <1>1, <2>1, <3>2
  <2> QED
    BY <2>2
<1> QED
  BY <1>6, <1>7

\* The values of a rule's clauses.
Of(rule, value) == [i \in DOMAIN Clauses(rule) |-> value[Clauses(rule)[i]]]

LEMMA OfType ==
  ASSUME NEW V, NEW f \in [Rules -> V], NEW rule \in Rules
  PROVE  Of(rule, f) \in Seq(V) /\ DOMAIN Of(rule, f) = DOMAIN Clauses(rule)
<1>1. Clauses(rule) \in Seq(Rules)
  BY RuleAssumption
<1>2. PICK n \in Nat : Clauses(rule) \in [1..n -> Rules]
  BY <1>1
<1>3. Of(rule, f) \in [1..n -> V]
  BY <1>2 DEF Of
<1> QED
  BY <1>2, <1>3

\* A value of each rule, computed from those of its clauses, exists.
LEMMA RecursionExists ==
  ASSUME NEW V, V # {}, NEW G \in [Rules -> [Seq(V) -> V]]
  PROVE  \E f \in [Rules -> V] : \A rule \in Rules : f[rule] = G[rule][Of(rule, f)]
<1> DEFINE
      Upto(n, f) == \A rule \in Rules : Depth[rule] < n => f[rule] = G[rule][Of(rule, f)]
<1>1. Depth \in [Rules -> Nat]
  BY RuleAssumption
<1>2. \A rule \in Rules : \A i \in DOMAIN Clauses(rule) :
        Clauses(rule)[i] \in Rules /\ Depth[Clauses(rule)[i]] < Depth[rule]
  BY RuleAssumption
<1>3. \A f \in [Rules -> V], rule \in Rules : G[rule][Of(rule, f)] \in V
  BY OfType
<1>4. ASSUME NEW n \in Nat, NEW f \in [Rules -> V], Upto(n, f)
      PROVE  \E g \in [Rules -> V] : Upto(n + 1, g)
  <2> DEFINE g == [rule \in Rules |-> G[rule][Of(rule, f)]]
  <2>1. g \in [Rules -> V]
    BY <1>3
  <2>2. ASSUME NEW rule \in Rules, Depth[rule] < n + 1
        PROVE  g[rule] = G[rule][Of(rule, g)]
    <3>1. ASSUME NEW i \in DOMAIN Clauses(rule)
          PROVE  g[Clauses(rule)[i]] = f[Clauses(rule)[i]]
      <4>1. Clauses(rule)[i] \in Rules /\ Depth[Clauses(rule)[i]] < n
        <5>1. Clauses(rule)[i] \in Rules /\ Depth[Clauses(rule)[i]] < Depth[rule]
          BY <1>2
        <5>2. Depth[Clauses(rule)[i]] \in Nat /\ Depth[rule] \in Nat
          BY <1>1, <5>1
        <5> QED
          BY <2>2, <5>1, <5>2
      <4> QED
        BY <1>4, <4>1
    <3>2. Of(rule, g) = Of(rule, f)
      BY <3>1 DEF Of
    <3> QED
      BY <3>2
  <2> QED
    BY <2>1, <2>2
<1>5. ASSUME NEW n \in Nat PROVE \E f \in [Rules -> V] : Upto(n, f)
  <2> DEFINE Bad == {k \in Nat : ~\E f \in [Rules -> V] : Upto(k, f)}
  <2>1. CASE Bad = {}
    BY <2>1
  <2>2. CASE Bad # {}
    <3>1. PICK k \in Bad : \A m \in Bad : k <= m
      <4>1. Bad \in SUBSET Nat
        OBVIOUS
      <4> HIDE DEF Bad
      <4> QED
        BY <2>2, <4>1, LeastExists
    <3>2. k # 0
      <4>1. PICK v \in V : TRUE
        OBVIOUS
      <4>2. [rule \in Rules |-> v] \in [Rules -> V]
        OBVIOUS
      <4>3. Upto(0, [rule \in Rules |-> v])
        BY <1>1
      <4> HIDE DEF Upto
      <4> QED
        BY <4>2, <4>3
    <3>3. k - 1 \in Nat /\ k - 1 \notin Bad
      <4>1. k \in Nat
        OBVIOUS
      <4> HIDE DEF Bad
      <4> QED
        BY <3>1, <3>2, <4>1
    <3>4. PICK f \in [Rules -> V] : Upto(k - 1, f)
      BY <3>3
    <3>5. \E g \in [Rules -> V] : Upto(k - 1 + 1, g)
      <4> HIDE DEF Upto
      <4> QED
        BY <1>4, <3>3, <3>4
    <3>6. k - 1 + 1 = k
      BY <3>1
    <3> HIDE DEF Upto
    <3> QED
      BY <3>1, <3>5, <3>6
  <2> QED
    BY <2>1, <2>2
<1>6. ASSUME NEW n \in Nat, NEW m \in Nat,
             NEW f \in [Rules -> V], Upto(n, f), NEW g \in [Rules -> V], Upto(m, g)
      PROVE  \A rule \in Rules : Depth[rule] < n /\ Depth[rule] < m => f[rule] = g[rule]
  <2> DEFINE T == {rule \in Rules : Depth[rule] < n /\ Depth[rule] < m => f[rule] = g[rule]}
  <2>1. ASSUME NEW rule \in Rules, \A i \in DOMAIN Clauses(rule) : Clauses(rule)[i] \in T
        PROVE  rule \in T
    <3>1. SUFFICES ASSUME Depth[rule] < n, Depth[rule] < m PROVE f[rule] = g[rule]
      OBVIOUS
    <3>2. ASSUME NEW i \in DOMAIN Clauses(rule)
          PROVE  f[Clauses(rule)[i]] = g[Clauses(rule)[i]]
      <4>1. Clauses(rule)[i] \in Rules /\ Depth[Clauses(rule)[i]] < Depth[rule]
        BY <1>2
      <4>2. Depth[Clauses(rule)[i]] \in Nat /\ Depth[rule] \in Nat
        BY <1>1, <4>1
      <4>3. Depth[Clauses(rule)[i]] < n /\ Depth[Clauses(rule)[i]] < m
        BY <3>1, <4>1, <4>2
      <4> QED
        BY <2>1, <4>3
    <3>3. Of(rule, f) = Of(rule, g)
      BY <3>2 DEF Of
    <3> QED
      BY <1>6, <3>1, <3>3
  <2>2. T \in SUBSET Rules
    OBVIOUS
  <2>3. T = Rules
    <3> HIDE DEF T
    <3> QED
      BY <2>1, <2>2, RuleInduction
  <2> QED
    BY <2>3
<1> DEFINE
      Fun(n) == CHOOSE f \in [Rules -> V] : Upto(n, f)
      h == [rule \in Rules |-> Fun(Depth[rule] + 1)[rule]]
<1>7. \A n \in Nat : Fun(n) \in [Rules -> V] /\ Upto(n, Fun(n))
  <2> HIDE DEF Upto
  <2> QED
    BY <1>5
<1>8. \A rule \in Rules : Depth[rule] \in Nat /\ Depth[rule] + 1 \in Nat
  BY <1>1
<1>9. h \in [Rules -> V]
  <2> HIDE DEF Fun
  <2> QED
    BY <1>7, <1>8
<1>10. ASSUME NEW rule \in Rules PROVE h[rule] = G[rule][Of(rule, h)]
  <2> DEFINE F == Fun(Depth[rule] + 1)
  <2>1. F \in [Rules -> V] /\ Upto(Depth[rule] + 1, F)
    <3> HIDE DEF Upto, Fun
    <3> QED
      BY <1>7, <1>8
  <2>2. ASSUME NEW i \in DOMAIN Clauses(rule)
        PROVE  h[Clauses(rule)[i]] = F[Clauses(rule)[i]]
    <3> DEFINE c == Clauses(rule)[i]
               H == Fun(Depth[c] + 1)
    <3>1. c \in Rules /\ Depth[c] < Depth[rule]
      BY <1>2
    <3>2. H \in [Rules -> V] /\ Upto(Depth[c] + 1, H)
      <4> HIDE DEF Upto, Fun, c
      <4> QED
        BY <1>7, <1>8, <3>1
    <3>3. h[c] = H[c]
      <4> HIDE DEF Fun, c
      <4> QED
        BY <3>1
    <3>4. Depth[c] < Depth[c] + 1 /\ Depth[c] < Depth[rule] + 1
      <4> HIDE DEF c
      <4> QED
        BY <1>8, <3>1
    <3>5. H[c] = F[c]
      <4> HIDE DEF Upto, Fun, c, H, F
      <4>1. Depth[c] + 1 \in Nat /\ Depth[rule] + 1 \in Nat
        BY <1>8, <3>1
      <4>2. \A r \in Rules : Depth[r] < Depth[c] + 1 /\ Depth[r] < Depth[rule] + 1 => H[r] = F[r]
        BY <1>6, <2>1, <3>2, <4>1
      <4> QED
        BY <3>1, <3>4, <4>2
    <3> QED
      BY <3>3, <3>5
  <2>3. Of(rule, h) = Of(rule, F)
    <3> HIDE DEF h, F
    <3> QED
      BY <2>2 DEF Of
  <2>4. F[rule] = G[rule][Of(rule, F)]
    <3> HIDE DEF F
    <3> QED
      BY <1>8, <2>1
  <2>5. h[rule] = F[rule]
    OBVIOUS
  <2> HIDE DEF h, F
  <2> QED
    BY <2>3, <2>4, <2>5
<1> HIDE DEF h
<1> QED
  BY <1>9, <1>10

-----------------------------------------------------------------------------
(* What evaluation computes                                                *)

Raised == {"PlannerRuleError", "OverflowError"}
Outcomes == {"true", "false"} \cup Raised

LEMMA FirstNotIsFirst ==
  ASSUME NEW V, NEW verdicts \in Seq(V), NEW neutral
  PROVE  \/ /\ \A i \in DOMAIN verdicts : verdicts[i] = neutral
            /\ FirstNot(verdicts, neutral) = neutral
         \/ \E i \in DOMAIN verdicts :
              /\ verdicts[i] # neutral /\ FirstNot(verdicts, neutral) = verdicts[i]
              /\ \A j \in 1..(i - 1) : verdicts[j] = neutral
<1>1. PICK n \in Nat : verdicts \in [1..n -> V]
  OBVIOUS
<1>2. CASE \A i \in DOMAIN verdicts : verdicts[i] = neutral
  BY <1>2 DEF FirstNot
<1>3. CASE \E i \in DOMAIN verdicts : verdicts[i] # neutral
  <2> DEFINE Other == {i \in 1..n : verdicts[i] # neutral}
             First(i) == verdicts[i] # neutral /\ \A j \in 1..(i - 1) : verdicts[j] = neutral
  <2>1. Other \in SUBSET Nat /\ Other # {}
    BY <1>1, <1>3
  <2>2. PICK i \in Other : \A j \in Other : i <= j
    <3> HIDE DEF Other
    <3> QED
      BY <2>1, LeastExists
  <2>3. \A j \in 1..(i - 1) : j \in 1..n /\ ~(i <= j)
    BY <2>2
  <2>4. i \in DOMAIN verdicts /\ First(i)
    BY <1>1, <2>2, <2>3
  <2>5. First(CHOOSE k \in DOMAIN verdicts : First(k))
        /\ (CHOOSE k \in DOMAIN verdicts : First(k)) \in DOMAIN verdicts
    <3> HIDE DEF First
    <3> QED
      BY <2>4
  <2>6. FirstNot(verdicts, neutral) = verdicts[CHOOSE k \in DOMAIN verdicts : First(k)]
    BY <1>3 DEF FirstNot
  <2> QED
    BY <2>5, <2>6
<1> QED
  BY <1>2, <1>3

LEMMA KindType ==
  ASSUME NEW rule PROVE Kind(rule) \in {"invalid", "all", "any", "not", "predicate"}
BY DEF Kind

LEMMA EvalPredicateType ==
  ASSUME NEW p, NEW f PROVE EvalPredicate(p, f) \in Outcomes
<1>1. \A b : Verdict(b) \in Outcomes
  BY DEF Verdict, Outcomes
<1>2. "false" \in Outcomes /\ "PlannerRuleError" \in Outcomes /\ "OverflowError" \in Outcomes
  BY DEF Outcomes, Raised
<1> HIDE DEF Outcomes
<1>3. \A op, left, right : Compare(op, left, right) \in Outcomes
  BY <1>1, <1>2 DEF Compare
<1>4. \A fact : Applied(p, fact) \in Outcomes
  <2> TAKE fact
  <2>1. CASE p.op \in {"=", "!=", "in"}
    BY <1>1, <2>1 DEF Applied, Comparisons
  <2>2. CASE p.op \in Comparisons
    <3>1. Applied(p, fact) = Compare(p.op, fact, p.value)
      BY <2>2 DEF Applied, Comparisons
    <3> QED
      BY <1>3, <3>1
  <2>3. CASE p.op \notin {"=", "!=", "in"} /\ p.op \notin Comparisons
    <3>1. Applied(p, fact) = "PlannerRuleError"
      BY <2>3 DEF Applied
    <3> QED
      BY <1>2, <3>1
  <2> QED
    BY <2>1, <2>2, <2>3
<1> QED
  BY <1>1, <1>2, <1>4 DEF EvalPredicate

LEMMA CombinedType ==
  ASSUME NEW rule \in Rules, NEW f, NEW verdicts \in Seq(Outcomes),
         DOMAIN verdicts = DOMAIN Clauses(rule)
  PROVE  Combined(rule, verdicts, f) \in Outcomes
<1>1. \A neutral \in Outcomes : FirstNot(verdicts, neutral) \in Outcomes
  <2> TAKE neutral \in Outcomes
  <2>1. \A i \in DOMAIN verdicts : verdicts[i] \in Outcomes
    OBVIOUS
  <2> QED
    BY <2>1, FirstNotIsFirst
<1>2. \A verdict \in Outcomes : Negated(verdict) \in Outcomes
  BY DEF Negated, Outcomes, Raised
<1>3. ASSUME Kind(rule) = "not" PROVE verdicts[1] \in Outcomes
  <2>1. Clauses(rule) = <<rule.not>>
    BY <1>3 DEF Clauses
  <2>2. 1 \in DOMAIN verdicts
    BY <2>1
  <2> HIDE DEF Outcomes
  <2> QED
    BY <2>2
<1>4. EvalPredicate(rule, f) \in Outcomes
  BY EvalPredicateType
<1>5. "true" \in Outcomes /\ "false" \in Outcomes /\ "PlannerRuleError" \in Outcomes
  BY DEF Outcomes, Raised
<1>6. FirstNot(verdicts, "true") \in Outcomes /\ FirstNot(verdicts, "false") \in Outcomes
  BY <1>1, <1>5
<1> HIDE DEF Outcomes
<1> QED
  BY <1>2, <1>3, <1>4, <1>5, <1>6, KindType DEF Combined

(* Evaluation ends, whatever the facts: every rule, however deep it is nested,   *)
(* is true, false, a PlannerRuleError or an OverflowError, and that is what its  *)
(* clauses' values make of it (planner/rules.py, eval_rule calls itself on the   *)
(* clauses).                                                                     *)
THEOREM EvalRuleEquation ==
  ASSUME NEW f
  PROVE  \A rule \in Rules :
           /\ EvalRule(rule, f) \in Outcomes
           /\ EvalRule(rule, f) =
                Combined(rule, [i \in DOMAIN Clauses(rule) |-> EvalRule(Clauses(rule)[i], f)], f)
<1> DEFINE
      Is(v) == v = [r \in Rules |->
                      Combined(r, [i \in DOMAIN Clauses(r) |-> v[Clauses(r)[i]]], f)]
      verdict == CHOOSE v : Is(v)
<1>1. \E v : Is(v)
  <2> DEFINE G == [r \in Rules |-> [s \in Seq(Outcomes) |->
              IF DOMAIN s = DOMAIN Clauses(r) THEN Combined(r, s, f) ELSE "false"]]
  <2>1. G \in [Rules -> [Seq(Outcomes) -> Outcomes]]
    <3>1. \A r \in Rules, s \in Seq(Outcomes) :
            (IF DOMAIN s = DOMAIN Clauses(r) THEN Combined(r, s, f) ELSE "false") \in Outcomes
      BY CombinedType DEF Outcomes
    <3> HIDE DEF Outcomes
    <3> QED
      BY <3>1
  <2>2. PICK v \in [Rules -> Outcomes] : \A r \in Rules : v[r] = G[r][Of(r, v)]
    <3>1. Outcomes # {}
      BY DEF Outcomes
    <3> HIDE DEF G, Outcomes
    <3> QED
      BY <2>1, <3>1, RecursionExists
  <2>3. \A r \in Rules : v[r] = Combined(r, Of(r, v), f)
    <3> HIDE DEF Outcomes
    <3> QED
      BY <2>2, OfType
  <2>4. Is(v)
    BY <2>2, <2>3 DEF Of
  <2> QED
    BY <2>4
<1>2. Is(verdict)
  <2> HIDE DEF Is
  <2> QED
    BY <1>1
<1>3. \A rule : EvalRule(rule, f) = verdict[rule]
  BY DEF EvalRule
<1> HIDE DEF verdict
<1>4. \A rule \in Rules : verdict[rule] = Combined(rule, Of(rule, verdict), f)
  BY <1>2 DEF Of
<1> DEFINE T == {rule \in Rules : verdict[rule] \in Outcomes}
<1>5. ASSUME NEW rule \in Rules, \A i \in DOMAIN Clauses(rule) : Clauses(rule)[i] \in T
      PROVE  rule \in T
  <2>1. PICK n \in Nat : Clauses(rule) \in [1..n -> Rules]
    BY RuleAssumption
  <2>2. Of(rule, verdict) \in [1..n -> Outcomes]
    BY <1>5, <2>1 DEF Of
  <2>3. Of(rule, verdict) \in Seq(Outcomes) /\ DOMAIN Of(rule, verdict) = DOMAIN Clauses(rule)
    BY <2>1, <2>2
  <2>4. Combined(rule, Of(rule, verdict), f) \in Outcomes
    BY <2>3, CombinedType
  <2> QED
    BY <1>4, <2>4
<1>6. T = Rules
  <2>1. T \in SUBSET Rules
    OBVIOUS
  <2> HIDE DEF T
  <2> QED
    BY <1>5, <2>1, RuleInduction
<1>7. \A rule : Of(rule, verdict) = [i \in DOMAIN Clauses(rule) |-> EvalRule(Clauses(rule)[i], f)]
  BY <1>3 DEF Of
<1>8. \A rule \in Rules : verdict[rule] \in Outcomes
  BY <1>6
<1> QED
  BY <1>3, <1>4, <1>7, <1>8

-----------------------------------------------------------------------------
(* What rules mean                                                         *)

LEMMA ValidEquation ==
  \A rule \in Rules :
    Valid(rule) <=> /\ Kind(rule) # "invalid"
                    /\ \A i \in DOMAIN Clauses(rule) : Valid(Clauses(rule)[i])
                    /\ Kind(rule) = "predicate" => rule.op \in Ops
<1> DEFINE
      Here(r) == Kind(r) # "invalid" /\ (Kind(r) = "predicate" => r.op \in Ops)
      Is(v) == v = [r \in Rules |-> /\ Kind(r) # "invalid"
                                    /\ \A i \in DOMAIN Clauses(r) : v[Clauses(r)[i]]
                                    /\ Kind(r) = "predicate" => r.op \in Ops]
      valid == CHOOSE v : Is(v)
<1>1. \E v : Is(v)
  <2> DEFINE G == [r \in Rules |-> [s \in Seq(BOOLEAN) |-> Here(r) /\ \A i \in DOMAIN s : s[i]]]
  <2>1. G \in [Rules -> [Seq(BOOLEAN) -> BOOLEAN]]
    BY Zenon
  <2>2. PICK v \in [Rules -> BOOLEAN] : \A r \in Rules : v[r] = G[r][Of(r, v)]
    <3> HIDE DEF G
    <3> QED
      BY <2>1, RecursionExists
  <2>3. \A r \in Rules : v[r] = (Here(r) /\ \A i \in DOMAIN Of(r, v) : Of(r, v)[i])
    <3> HIDE DEF Here
    <3> QED
      BY <2>2, OfType
  <2>4. \A r \in Rules : v[r] = (Here(r) /\ \A i \in DOMAIN Clauses(r) : v[Clauses(r)[i]])
    <3> HIDE DEF Here
    <3> QED
      BY <2>3 DEF Of
  <2>5. Is(v)
    BY <2>2, <2>4
  <2> QED
    BY <2>5
<1>2. Is(valid)
  <2> HIDE DEF Is
  <2> QED
    BY <1>1
<1>3. \A rule : Valid(rule) = valid[rule]
  BY DEF Valid
<1> HIDE DEF valid
<1>4. \A rule \in Rules :
        valid[rule] = (Here(rule) /\ \A i \in DOMAIN Clauses(rule) : valid[Clauses(rule)[i]])
  BY <1>2
<1> QED
  BY <1>3, <1>4

\* What a predicate means.
Holds(p, f) ==
  p.fact \in DOMAIN f /\ (p.op # "exists" => Related(p.op, f[p.fact], p.value))

LEMMA MeansEquation ==
  ASSUME NEW f
  PROVE  \A rule \in Rules :
           /\ Means(rule, f) \in BOOLEAN
           /\ Means(rule, f) <=>
                CASE Kind(rule) = "all" -> \A i \in DOMAIN Clauses(rule) : Means(Clauses(rule)[i], f)
                  [] Kind(rule) = "any" -> \E i \in DOMAIN Clauses(rule) : Means(Clauses(rule)[i], f)
                  [] Kind(rule) = "not" -> ~Means(Clauses(rule)[1], f)
                  [] OTHER -> Holds(rule, f)
<1> DEFINE
      Step(r, s) == CASE Kind(r) = "all" -> \A i \in DOMAIN s : s[i]
                      [] Kind(r) = "any" -> \E i \in DOMAIN s : s[i]
                      [] Kind(r) = "not" -> ~s[1]
                      [] OTHER -> Holds(r, f)
      Is(v) == v = [r \in Rules |->
                      CASE Kind(r) = "all" -> \A i \in DOMAIN Clauses(r) : v[Clauses(r)[i]]
                        [] Kind(r) = "any" -> \E i \in DOMAIN Clauses(r) : v[Clauses(r)[i]]
                        [] Kind(r) = "not" -> ~v[Clauses(r)[1]]
                        [] OTHER -> /\ r.fact \in DOMAIN f
                                    /\ r.op # "exists" => Related(r.op, f[r.fact], r.value)]
      means == CHOOSE v : Is(v)
<1>1. \E v : Is(v)
  <2> DEFINE G == [r \in Rules |-> [s \in Seq(BOOLEAN) |-> Step(r, s)]]
  <2>1. G \in [Rules -> [Seq(BOOLEAN) -> BOOLEAN]]
    <3>1. \A r \in Rules, s \in Seq(BOOLEAN) : Step(r, s) \in BOOLEAN
      BY DEF Holds
    <3> HIDE DEF Step
    <3> QED
      BY <3>1
  <2>2. PICK v \in [Rules -> BOOLEAN] : \A r \in Rules : v[r] = G[r][Of(r, v)]
    <3> HIDE DEF G
    <3> QED
      BY <2>1, RecursionExists
  <2>3. \A r \in Rules : v[r] = Step(r, Of(r, v))
    <3> HIDE DEF Step
    <3> QED
      BY <2>2, OfType
  <2>4. ASSUME NEW r \in Rules
        PROVE  Step(r, Of(r, v)) =
                 CASE Kind(r) = "all" -> \A i \in DOMAIN Clauses(r) : v[Clauses(r)[i]]
                   [] Kind(r) = "any" -> \E i \in DOMAIN Clauses(r) : v[Clauses(r)[i]]
                   [] Kind(r) = "not" -> ~v[Clauses(r)[1]]
                   [] OTHER -> Holds(r, f)
    <3>1. Kind(r) = "not" => 1 \in DOMAIN Clauses(r)
      BY DEF Clauses
    <3>2. DOMAIN Of(r, v) = DOMAIN Clauses(r)
          /\ \A i \in DOMAIN Clauses(r) : Of(r, v)[i] = v[Clauses(r)[i]]
      BY DEF Of
    <3> QED
      BY <3>1, <3>2
  <2>5. Is(v)
    BY <2>2, <2>3, <2>4 DEF Holds
  <2> QED
    BY <2>5
<1>2. Is(means)
  <2> HIDE DEF Is
  <2> QED
    BY <1>1
<1>3. \A rule : Means(rule, f) = means[rule]
  BY DEF Means
<1> HIDE DEF means
<1>4. \A rule \in Rules :
        means[rule] =
          CASE Kind(rule) = "all" -> \A i \in DOMAIN Clauses(rule) : means[Clauses(rule)[i]]
            [] Kind(rule) = "any" -> \E i \in DOMAIN Clauses(rule) : means[Clauses(rule)[i]]
            [] Kind(rule) = "not" -> ~means[Clauses(rule)[1]]
            [] OTHER -> Holds(rule, f)
  BY <1>2 DEF Holds
<1> QED
  BY <1>3, <1>4 DEF Holds

\* What the predicate says, or that a number is no float.
SaysOf(verdict, truth) == verdict = Verdict(truth) \/ verdict = "OverflowError"

LEMMA PredicateMeaning ==
  ASSUME NEW p, NEW f, p.op \in Ops
  PROVE  SaysOf(EvalPredicate(p, f), Holds(p, f))
<1>1. CASE p.op = "exists"
  BY <1>1 DEF EvalPredicate, Holds, SaysOf
<1>2. CASE p.op # "exists" /\ p.fact \notin DOMAIN f
  BY <1>2 DEF EvalPredicate, Holds, Verdict, SaysOf
<1>3. CASE p.op # "exists" /\ p.fact \in DOMAIN f
  <2> DEFINE x == f[p.fact]
             y == p.value
  <2>1. Holds(p, f) <=> Related(p.op, x, y)
    BY <1>3 DEF Holds
  <2>2. EvalPredicate(p, f) = Applied(p, x)
    BY <1>3 DEF EvalPredicate
  <2>3. SaysOf(Applied(p, x), Related(p.op, x, y))
    <3> HIDE DEF x
    <3>1. CASE p.op = "="
      BY <3>1 DEF Applied, Related, Same, SaysOf, Verdict, Comparisons
    <3>2. CASE p.op = "!="
      BY <3>2 DEF Applied, Related, Same, SaysOf, Verdict, Comparisons
    <3>3. CASE p.op = "in"
      BY <3>3 DEF Applied, Related, Same, SaysOf, Verdict, Comparisons
    <3>4. CASE p.op \in Comparisons
      <4>1. Applied(p, x) = Compare(p.op, x, y)
        BY <3>4 DEF Applied, Comparisons
      <4>2. Related(p.op, x, y) <=> IsNumber(x) /\ IsNumber(y) /\ Compared(p.op, x[2], y[2])
        BY <3>4 DEF Related, Comparisons
      <4> HIDE DEF y
      <4> QED
        BY <4>1, <4>2 DEF Compare, SaysOf, Verdict
    <3> QED
      BY <1>3, <3>1, <3>2, <3>3, <3>4 DEF Ops
  <2> HIDE DEF x, y
  <2> QED
    BY <2>1, <2>2, <2>3 DEF SaysOf, Verdict
<1> QED
  BY <1>1, <1>2, <1>3

(* Evaluation in turn, with its short-circuits, and the logic of a rule agree:   *)
(* of a rule whose operators the planner knows, eval_rule says true exactly if   *)
(* the rule is true of the facts, unless it raises an OverflowError, over a      *)
(* number too large for a float (planner/rules.py, eval_rule).                   *)
THEOREM EvaluationIsLogic ==
  ASSUME NEW f, NEW rule \in Rules, Valid(rule)
  PROVE  EvalRule(rule, f) \in {Verdict(Means(rule, f)), "OverflowError"}
<1> DEFINE
      T == {r \in Rules : Valid(r) => SaysOf(EvalRule(r, f), Means(r, f))}
<1>1. ASSUME NEW r \in Rules, \A i \in DOMAIN Clauses(r) : Clauses(r)[i] \in T
      PROVE  r \in T
  <2>1. SUFFICES ASSUME Valid(r) PROVE SaysOf(EvalRule(r, f), Means(r, f))
    OBVIOUS
  <2> DEFINE verdicts == [i \in DOMAIN Clauses(r) |-> EvalRule(Clauses(r)[i], f)]
             Truth(i) == Means(Clauses(r)[i], f)
  <2>2. EvalRule(r, f) = Combined(r, verdicts, f)
    BY EvalRuleEquation
  <2>3. \A i \in DOMAIN Clauses(r) : SaysOf(verdicts[i], Truth(i)) /\ Truth(i) \in BOOLEAN
    <3>1. \A i \in DOMAIN Clauses(r) : Valid(Clauses(r)[i])
      BY <2>1, ValidEquation
    <3> QED
      BY <1>1, <3>1, MeansEquation
  <2>4. /\ Kind(r) # "invalid"
        /\ Kind(r) = "predicate" => r.op \in Ops
    BY <2>1, ValidEquation
  <2>5. /\ Means(r, f) \in BOOLEAN
        /\ Means(r, f) <=> CASE Kind(r) = "all" -> \A i \in DOMAIN Clauses(r) : Truth(i)
                             [] Kind(r) = "any" -> \E i \in DOMAIN Clauses(r) : Truth(i)
                             [] Kind(r) = "not" -> ~Truth(1)
                             [] OTHER -> Holds(r, f)
    BY MeansEquation
  <2>6. PICK n \in Nat : Clauses(r) \in [1..n -> Rules]
    BY RuleAssumption
  <2>7. DOMAIN verdicts = DOMAIN Clauses(r) /\ verdicts \in Seq(Outcomes)
    <3>1. verdicts \in [1..n -> Outcomes]
      BY <2>6, EvalRuleEquation
    <3> QED
      BY <2>6, <3>1
  <2> HIDE DEF verdicts, Truth
  <2>8. \A i \in DOMAIN verdicts :
          \/ verdicts[i] = "OverflowError"
          \/ verdicts[i] = "true" /\ Truth(i)
          \/ verdicts[i] = "false" /\ ~Truth(i)
    BY <2>3, <2>7 DEF Verdict, SaysOf
  <2>9. CASE Kind(r) = "all"
    <3>1. Means(r, f) <=> \A i \in DOMAIN verdicts : Truth(i)
      BY <2>5, <2>7, <2>9
    <3>2. \/ FirstNot(verdicts, "true") = "true" /\ \A i \in DOMAIN verdicts : verdicts[i] = "true"
          \/ \E i \in DOMAIN verdicts :
               verdicts[i] # "true" /\ FirstNot(verdicts, "true") = verdicts[i]
      BY <2>7, FirstNotIsFirst
    <3>3. EvalRule(r, f) = FirstNot(verdicts, "true")
      BY <2>2, <2>9 DEF Combined
    <3> QED
      BY <2>8, <3>1, <3>2, <3>3 DEF Verdict, SaysOf
  <2>10. CASE Kind(r) = "any"
    <3>1. Means(r, f) <=> \E i \in DOMAIN verdicts : Truth(i)
      BY <2>5, <2>7, <2>10
    <3>2. \/ FirstNot(verdicts, "false") = "false" /\ \A i \in DOMAIN verdicts : verdicts[i] = "false"
          \/ \E i \in DOMAIN verdicts :
               verdicts[i] # "false" /\ FirstNot(verdicts, "false") = verdicts[i]
      BY <2>7, FirstNotIsFirst
    <3>3. EvalRule(r, f) = FirstNot(verdicts, "false")
      BY <2>2, <2>10 DEF Combined
    <3> QED
      BY <2>8, <3>1, <3>2, <3>3 DEF Verdict, SaysOf
  <2>11. CASE Kind(r) = "not"
    <3>1. 1 \in DOMAIN verdicts
      BY <2>7, <2>11 DEF Clauses
    <3>2. EvalRule(r, f) = Negated(verdicts[1])
      BY <2>2, <2>11 DEF Combined
    <3>3. Means(r, f) <=> ~Truth(1)
      BY <2>5, <2>11
    <3> QED
      BY <2>8, <3>1, <3>2, <3>3 DEF Negated, Verdict, SaysOf
  <2>12. CASE Kind(r) = "predicate"
    <3>1. EvalRule(r, f) = EvalPredicate(r, f)
      BY <2>2, <2>12 DEF Combined
    <3>2. Means(r, f) <=> Holds(r, f)
      BY <2>5, <2>12
    <3>3. SaysOf(EvalPredicate(r, f), Holds(r, f))
      BY <2>4, <2>12, PredicateMeaning
    <3> QED
      BY <3>1, <3>2, <3>3 DEF Verdict, SaysOf
  <2> QED
    BY <2>4, <2>9, <2>10, <2>11, <2>12, KindType
<1>2. T = Rules
  <2>1. T \in SUBSET Rules
    OBVIOUS
  <2> HIDE DEF T
  <2> QED
    BY <1>1, <2>1, RuleInduction
<1> QED
  BY <1>2 DEF SaysOf

\* The numbers that a rule of the templates compares with.
RulesFitFloats ==
  \A rule \in Rules :
    Kind(rule) = "predicate" /\ rule.op \in Comparisons /\ IsNumber(rule.value)
      => FitsFloat(rule.value)

FactsFitFloats(f) == \A k \in DOMAIN f : IsNumber(f[k]) => FitsFloat(f[k])

\* Only numbers too large for a float overflow.
LEMMA FloatsNeverOverflow ==
  ASSUME RulesFitFloats, NEW f, FactsFitFloats(f), NEW rule \in Rules
  PROVE  EvalRule(rule, f) # "OverflowError"
<1> DEFINE T == {r \in Rules : EvalRule(r, f) # "OverflowError"}
<1>1. ASSUME NEW r \in Rules, \A i \in DOMAIN Clauses(r) : Clauses(r)[i] \in T
      PROVE  r \in T
  <2> DEFINE verdicts == [i \in DOMAIN Clauses(r) |-> EvalRule(Clauses(r)[i], f)]
  <2>1. EvalRule(r, f) = Combined(r, verdicts, f)
    BY EvalRuleEquation
  <2>2. PICK n \in Nat : Clauses(r) \in [1..n -> Rules]
    BY RuleAssumption
  <2>3. /\ verdicts \in Seq(Outcomes)
        /\ \A i \in DOMAIN verdicts : verdicts[i] # "OverflowError"
    <3>1. verdicts \in [1..n -> Outcomes]
      BY <2>2, EvalRuleEquation
    <3> QED
      BY <1>1, <3>1
  <2>4. Kind(r) = "not" => 1 \in DOMAIN verdicts
    BY DEF Clauses
  <2> HIDE DEF verdicts
  <2>5. FirstNot(verdicts, "true") # "OverflowError" /\ FirstNot(verdicts, "false") # "OverflowError"
    BY <2>3, FirstNotIsFirst
  <2>6. Kind(r) = "not" => Negated(verdicts[1]) # "OverflowError"
    BY <2>3, <2>4 DEF Negated
  <2>7. ASSUME Kind(r) = "predicate" PROVE EvalPredicate(r, f) # "OverflowError"
    <3>1. \A b : Verdict(b) # "OverflowError"
      BY DEF Verdict
    <3>2. ASSUME r.fact \in DOMAIN f, r.op \in Comparisons
          PROVE  Compare(r.op, f[r.fact], r.value) # "OverflowError"
      <4>1. IsNumber(f[r.fact]) => FitsFloat(f[r.fact])
        BY <3>2 DEF FactsFitFloats
      <4>2. IsNumber(r.value) => FitsFloat(r.value)
        BY <2>7, <3>2 DEF RulesFitFloats
      <4> QED
        BY <3>1, <4>1, <4>2 DEF Compare
    <3>3. ASSUME r.fact \in DOMAIN f PROVE Applied(r, f[r.fact]) # "OverflowError"
      BY <3>1, <3>2, <3>3 DEF Applied
    <3> QED
      BY <3>1, <3>3 DEF EvalPredicate
  <2>8. Combined(r, verdicts, f) # "OverflowError"
    BY <2>5, <2>6, <2>7, KindType DEF Combined
  <2> QED
    BY <2>1, <2>8
<1>2. T = Rules
  <2>1. T \in SUBSET Rules
    OBVIOUS
  <2> HIDE DEF T
  <2> QED
    BY <1>1, <2>1, RuleInduction
<1> QED
  BY <1>2

-----------------------------------------------------------------------------
(* Plans                                                                   *)

Active(t, f) == {k \in DOMAIN t.tasks : EvalRule(t.tasks[k].eligibility, f) = "true"}

LEMMA GeneratedPlan ==
  ASSUME NEW t, NEW f, "raises" \notin DOMAIN GeneratePlan(t, f)
  PROVE  /\ t.event_date_key \in DOMAIN f
         /\ GeneratePlan(t, f).items =
              [k \in Active(t, f) |-> [depends_on |-> DependsOn(t, Active(t, f), k),
                                       deadline |-> Deadline(t, f, k)]]
<1> DEFINE eligible == Eligible(t, f)
           active == {k \in DOMAIN eligible : eligible[k] = "true"}
<1>1. active = Active(t, f)
  BY DEF Eligible, Active
<1> QED
  BY <1>1 DEF GeneratePlan

\* What is stored is a plan of the facts it was planned from.
PlanInvariant ==
  /\ template \in Templates \cup BirthDe
  /\ ~Exists => plan = NoPlan
  /\ Exists =>
       /\ "raises" \notin DOMAIN GeneratePlan(template, planned)
       /\ plan = GeneratePlan(template, planned).items
       /\ template \in BirthDe => NormalizeBirth(planned) = planned

LEMMA NormalizedTwice ==
  ASSUME NEW f PROVE NormalizeBirth(NormalizeBirth(f)) = NormalizeBirth(f)
<1> DEFINE g == WithKind(f, Derived(f))
<1>1. CASE HasKindIn(f, {Str("gkv"), Str("pkv")})
  BY <1>1 DEF NormalizeBirth
<1>2. CASE ~HasKindIn(f, {Str("gkv"), Str("pkv")})
  <2>1. NormalizeBirth(f) = g
    BY <1>2 DEF NormalizeBirth
  <2>2. Derived(g) = Derived(f)
    BY DEF Derived, HasValue, WithKind
  <2>3. WithKind(g, Derived(f)) = g
    BY DEF WithKind
  <2> QED
    BY <2>1, <2>2, <2>3 DEF NormalizeBirth
<1> QED
  BY <1>1, <1>2

LEMMA PreparedIsNormal ==
  ASSUME NEW t \in BirthDe, NEW f, NEW schema
  PROVE  NormalizeBirth(PrepareFacts(t, f, schema)) = PrepareFacts(t, f, schema)
BY NormalizedTwice DEF PrepareFacts

\* The requests have in common that prepared facts are planned.
LEMMA PlanKeepsInvariant ==
  ASSUME PlanInvariant, NEW t \in Templates \cup BirthDe, NEW f,
         t \in BirthDe => NormalizeBirth(f) = f, Plan(t, f)
  PROVE  PlanInvariant'
<1> DEFINE result == GeneratePlan(t, f)
<1>1. CASE "raises" \in DOMAIN result
  <2>1. UNCHANGED <<template, facts, planned, plan>>
    BY <1>1 DEF Plan, Fail
  <2> QED
    BY <2>1 DEF PlanInvariant, Exists
<1>2. CASE "raises" \notin DOMAIN result
  <2>1. plan' = result.items /\ planned' = f /\ template' = t
    BY <1>2 DEF Plan
  <2>2. t.event_date_key \in DOMAIN f
    BY <1>2, GeneratedPlan
  <2>3. Exists'
    BY <2>1, <2>2 DEF Exists, NoPlan
  <2> HIDE DEF result
  <2> QED
    BY <1>2, <2>1, <2>3 DEF PlanInvariant, result
<1> QED
  BY <1>1, <1>2

(* The stored plan is what the planner makes of the stored planned facts, after  *)
(* any requests, failed ones included, and facts of birth_de were planned in     *)
(* their normal form (plan_service.py, create_plan to upgrade_plan).             *)
THEOREM PlanInvariantHolds == Spec => []PlanInvariant
<1>1. Init => PlanInvariant
  BY DEF Init, PlanInvariant, Exists
<1>2. ASSUME PlanInvariant, [Next]_vars PROVE PlanInvariant'
  <2> DEFINE Prepared(t, f) == PrepareFacts(t, f, FactSchema(t))
  <2>1. \A t \in BirthDe : \A f : NormalizeBirth(Prepared(t, f)) = Prepared(t, f)
    BY PreparedIsNormal
  <2>2. ASSUME NEW t \in Templates \cup BirthDe, NEW f, PrepareAndPlan(t, f)
        PROVE  PlanInvariant'
    <3>1. CASE Unhashable(t, f)
      <4>1. UNCHANGED <<template, facts, planned, plan>>
        BY <2>2, <3>1 DEF PrepareAndPlan, Fail
      <4> QED
        BY <1>2, <4>1 DEF PlanInvariant, Exists
    <3>2. CASE ~Unhashable(t, f)
      <4>1. Plan(t, Prepared(t, f))
        BY <2>2, <3>2 DEF PrepareAndPlan
      <4> HIDE DEF Prepared
      <4> QED
        BY <1>2, <2>1, <4>1, PlanKeepsInvariant
    <3> QED
      BY <3>1, <3>2
  <2>3. template \in Templates \cup BirthDe
    BY <1>2 DEF PlanInvariant
  <2>4. ASSUME NEW body, CreatePlan(body) PROVE PlanInvariant'
    BY <2>2, <2>3, <2>4 DEF CreatePlan
  <2>5. ASSUME NEW patch, NEW recompute, UpdateFacts(patch, recompute) PROVE PlanInvariant'
    <3>1. CASE recompute
      BY <2>2, <2>3, <2>5, <3>1 DEF UpdateFacts
    <3>2. CASE ~recompute
      <4>1. UNCHANGED <<template, planned, plan>>
        BY <2>5, <3>2 DEF UpdateFacts, Fail
      <4> QED
        BY <1>2, <4>1 DEF PlanInvariant, Exists
    <3> QED
      BY <3>1, <3>2
  <2>6. CASE RecomputePlan
    BY <2>2, <2>3, <2>6 DEF RecomputePlan
  <2>7. CASE UpgradePlan
    BY <2>2, <2>7 DEF UpgradePlan, BirthDe
  <2>8. CASE UNCHANGED vars
    BY <1>2, <2>8 DEF vars, PlanInvariant, Exists
  <2> QED
    BY <1>2, <2>4, <2>5, <2>6, <2>7, <2>8 DEF Next
<1> QED
  BY <1>1, <1>2, PTL DEF Spec

\* What the invariant says of a plan there is.
LEMMA StoredPlan ==
  ASSUME PlanInvariant, Exists
  PROVE  /\ template.event_date_key \in DOMAIN planned
         /\ plan = [k \in Active(template, planned) |->
                      [depends_on |-> DependsOn(template, Active(template, planned), k),
                       deadline |-> Deadline(template, planned, k)]]
         /\ DOMAIN plan = Active(template, planned)
<1>1. "raises" \notin DOMAIN GeneratePlan(template, planned)
      /\ plan = GeneratePlan(template, planned).items
  BY DEF PlanInvariant
<1>2. /\ template.event_date_key \in DOMAIN planned
      /\ plan = [k \in Active(template, planned) |->
                   [depends_on |-> DependsOn(template, Active(template, planned), k),
                    deadline |-> Deadline(template, planned, k)]]
  BY <1>1, GeneratedPlan
<1> QED
  BY <1>2

\* No rule of a stored plan raised.
LEMMA StoredRules ==
  ASSUME PlanInvariant, Exists, NEW k \in DOMAIN template.tasks
  PROVE  EvalRule(template.tasks[k].eligibility, planned) \in {"true", "false"}
<1> DEFINE eligible == Eligible(template, planned)
           raised == {eligible[j] : j \in DOMAIN eligible} \ {"true", "false"}
<1>1. "raises" \notin DOMAIN GeneratePlan(template, planned)
  BY DEF PlanInvariant
<1>2. raised = {}
  BY <1>1 DEF GeneratePlan
<1>3. k \in DOMAIN eligible /\ eligible[k] = EvalRule(template.tasks[k].eligibility, planned)
  BY DEF Eligible
<1> HIDE DEF eligible
<1> QED
  BY <1>2, <1>3

-----------------------------------------------------------------------------
(* Rules and the regression tests                                          *)

(* A plan has the tasks whose rules are true of its facts, and those alone:      *)
(* whatever rules a template has and whatever facts were sent (planner/rules.py).*)
THEOREM RulesDecide == Spec => []RulesMean
<1>1. PlanInvariant => RulesMean
  <2>1. SUFFICES ASSUME PlanInvariant, Exists, NEW k \in DOMAIN template.tasks,
                        Valid(template.tasks[k].eligibility)
                 PROVE  k \in DOMAIN plan <=> Means(template.tasks[k].eligibility, planned)
    BY DEF RulesMean
  <2> DEFINE rule == template.tasks[k].eligibility
  <2>2. rule \in Rules
    BY <2>1, TemplateAssumption DEF PlanInvariant
  <2>3. EvalRule(rule, planned) = Verdict(Means(rule, planned))
    <3>1. EvalRule(rule, planned) \in {"true", "false"}
      BY <2>1, <2>2, StoredRules DEF PlanInvariant
    <3> HIDE DEF rule
    <3>2. Valid(rule)
      BY <2>1 DEF rule
    <3> QED
      BY <2>2, <3>1, <3>2, EvaluationIsLogic
  <2>4. k \in DOMAIN plan <=> EvalRule(rule, planned) = "true"
    BY <2>1, StoredPlan DEF Active
  <2> HIDE DEF rule
  <2>5. EvalRule(rule, planned) = "true" <=> Means(rule, planned)
    BY <2>3 DEF Verdict
  <2> QED
    BY <2>4, <2>5 DEF rule
<1> QED
  BY <1>1, PlanInvariantHolds, PTL

\* The runner counts a deadline from the fact it names, the planner from the
\* event date: tasks must name that one.
ReferencesAgree ==
  \A t \in Templates : \A k \in DOMAIN t.tasks : t.tasks[k].reference = t.event_date_key

LEMMA BirthReferences ==
  \A t \in BirthDe : \A k \in DOMAIN t.tasks : t.tasks[k].reference = t.event_date_key
<1> DEFINE OfBirth(f) == \A k \in DOMAIN f : f[k].reference = "birth_date"
<1>1. \A f, g : OfBirth(f) /\ OfBirth(g) => OfBirth(ExtendedBy(f, g))
  BY DEF ExtendedBy
<1>2. OfBirth(CommonTasks)
  BY DEF CommonTasks, Paternity, Due
<1>3. OfBirth([add_child_insurance_gkv |-> Due(30, Equals("public_insurance", True)),
               add_child_insurance_pkv |-> Due(30, Equals("private_insurance", True))])
  BY DEF Due
<1>4. OfBirth([decide_child_insurance |-> Due(14, Equals("child_insurance_kind", Str("unknown"))),
               add_child_insurance_gkv |-> Due(30, Equals("child_insurance_kind", Str("gkv"))),
               add_child_insurance_pkv |-> Due(30, Equals("child_insurance_kind", Str("pkv")))])
  BY DEF Due
<1> HIDE DEF OfBirth
<1>5. OfBirth(BirthV1.tasks)
  BY <1>1, <1>2, <1>3 DEF BirthV1
<1>6. OfBirth(BirthV2.tasks)
  BY <1>1, <1>2, <1>4 DEF BirthV2
<1>7. BirthV1.event_date_key = "birth_date" /\ BirthV2.event_date_key = "birth_date"
  BY DEF BirthV1, BirthV2
<1> QED
  BY <1>5, <1>6, <1>7 DEF BirthDe, OfBirth

(* Tasks, dependencies and deadlines of a stored plan are those the runner of    *)
(* the test cases expects, of birth_de and of any templates whose deadlines name *)
(* the event date (domain/workflow_test_runner.py, run_template).                *)
THEOREM RunnerExpectsThePlan ==
  ASSUME ReferencesAgree PROVE Spec => []RunnerAgrees
<1>1. PlanInvariant => RunnerAgrees
  <2>1. SUFFICES ASSUME PlanInvariant, Exists
                 PROVE  LET expected == RunTemplate(template, planned)
                        IN  /\ DOMAIN plan = expected.active
                            /\ \A k \in DOMAIN plan : plan[k].depends_on = expected.blocked_by[k]
                            /\ [k \in DOMAIN plan |-> plan[k].deadline] = expected.deadlines
    BY DEF RunnerAgrees
  <2> DEFINE active == Active(template, planned)
             expected == RunTemplate(template, planned)
             dated == {k \in active : template.tasks[k].reference \in DOMAIN planned}
  <2>2. /\ expected.active = active
        /\ expected.blocked_by = [k \in active |-> BlockedBy(template, active, k)]
        /\ expected.deadlines =
             [k \in dated |-> planned[template.tasks[k].reference][2] + template.tasks[k].days]
    BY DEF RunTemplate, Active
  <2>3. \A k \in active : template.tasks[k].reference = template.event_date_key
    BY <2>1, BirthReferences DEF PlanInvariant, Active, ReferencesAgree
  <2>4. dated = active
    BY <2>1, <2>3, StoredPlan
  <2>5. \A k \in active : BlockedBy(template, active, k) = DependsOn(template, active, k)
    BY DEF BlockedBy, DependsOn
  <2>6. \A k \in active : Deadline(template, planned, k)
          = planned[template.tasks[k].reference][2] + template.tasks[k].days
    BY <2>3 DEF Deadline
  <2>7. /\ DOMAIN plan = active
        /\ \A k \in active : /\ plan[k].depends_on = DependsOn(template, active, k)
                             /\ plan[k].deadline = Deadline(template, planned, k)
    BY <2>1, StoredPlan
  <2> HIDE DEF active, expected, dated
  <2> QED
    BY <2>2, <2>4, <2>5, <2>6, <2>7 DEF expected
<1> QED
  BY <1>1, PlanInvariantHolds, PTL

-----------------------------------------------------------------------------
(* The child's insurance                                                   *)

\* A task of one predicate is planned exactly if the fact has the value.
LEMMA EqualsMeans ==
  ASSUME NEW fact, NEW value, ~IsNumber(value), NEW f, Equals(fact, value) \in Rules
  PROVE  EvalRule(Equals(fact, value), f) = "true" <=> HasValue(f, fact, value)
<1> DEFINE rule == Equals(fact, value)
           p == [fact |-> fact, op |-> "=", value |-> value]
<1>1. Kind(rule) = "all" /\ Clauses(rule) = <<p>>
  BY DEF Equals, Kind, Clauses
<1>2. p \in Rules
  BY <1>1, RuleAssumption
<1>3. Kind(p) = "predicate" /\ Clauses(p) = << >>
  BY DEF Kind, Clauses
<1>4. EvalRule(p, f) = EvalPredicate(p, f)
  BY <1>2, <1>3, EvalRuleEquation DEF Combined
<1>5. EvalPredicate(p, f) = Verdict(HasValue(f, fact, value))
  <2>1. p.op = "=" /\ p.fact = fact /\ p.value = value
    OBVIOUS
  <2> HIDE DEF p
  <2>2. \A x : Same(x, value) <=> x = value
    BY DEF Same
  <2>3. \A x : Applied(p, x) = Verdict(x = value)
    BY <2>1, <2>2 DEF Applied, Verdict, Comparisons
  <2> QED
    BY <2>1, <2>3 DEF EvalPredicate, HasValue, Verdict
<1>6. EvalRule(rule, f) = FirstNot(<<EvalRule(p, f)>>, "true")
  <2>1. [i \in DOMAIN Clauses(rule) |-> EvalRule(Clauses(rule)[i], f)] = <<EvalRule(p, f)>>
    BY <1>1
  <2> QED
    BY <1>1, <2>1, EvalRuleEquation DEF Combined
<1>7. EvalRule(rule, f) = "true" <=> EvalRule(p, f) = "true"
  <2> DEFINE v == EvalRule(p, f)
             s == <<v>>
  <2>1. v \in Outcomes
    BY <1>2, EvalRuleEquation
  <2> HIDE DEF v, rule, p
  <2>2. s \in Seq(Outcomes) /\ DOMAIN s = {1} /\ s[1] = v
    BY <2>1
  <2>3. EvalRule(rule, f) = FirstNot(s, "true")
    BY <1>6 DEF v
  <2> HIDE DEF s
  <2>4. \/ (\A i \in DOMAIN s : s[i] = "true") /\ FirstNot(s, "true") = "true"
        \/ \E i \in DOMAIN s : s[i] # "true" /\ FirstNot(s, "true") = s[i]
    BY <2>2, FirstNotIsFirst
  <2> QED
    BY <2>2, <2>3, <2>4 DEF v
<1> HIDE DEF rule, p
<1> QED
  BY <1>4, <1>5, <1>7 DEF Verdict, rule

\* The three tasks of version 2.
Kinds == [decide_child_insurance |-> Str("unknown"),
          add_child_insurance_gkv |-> Str("gkv"),
          add_child_insurance_pkv |-> Str("pkv")]

LEMMA InsuranceRules ==
  \A k \in InsuranceTasks :
    /\ k \in DOMAIN BirthV2.tasks
    /\ BirthV2.tasks[k].eligibility = Equals("child_insurance_kind", Kinds[k])
    /\ Equals("child_insurance_kind", Kinds[k]) \in Rules
<1> DEFINE more == [decide_child_insurance |-> Due(14, Equals("child_insurance_kind", Str("unknown"))),
      add_child_insurance_gkv |-> Due(30, Equals("child_insurance_kind", Str("gkv"))),
      add_child_insurance_pkv |-> Due(30, Equals("child_insurance_kind", Str("pkv")))]
<1>1. BirthV2.tasks = ExtendedBy(CommonTasks, more)
  BY DEF BirthV2
<1>2. DOMAIN more = InsuranceTasks
  BY DEF InsuranceTasks
<1>3. \A k \in InsuranceTasks :
        more[k].eligibility = Equals("child_insurance_kind", Kinds[k])
  BY DEF InsuranceTasks, Due, Kinds
<1> HIDE DEF more
<1>4. \A k \in InsuranceTasks : k \in DOMAIN BirthV2.tasks /\ BirthV2.tasks[k] = more[k]
  BY <1>1, <1>2 DEF ExtendedBy
<1>5. \A k \in InsuranceTasks : BirthV2.tasks[k].eligibility \in Rules
  BY <1>4, TemplateAssumption DEF BirthDe
<1> QED
  BY <1>3, <1>4, <1>5

LEMMA InsuranceIsActive ==
  ASSUME NEW f, NEW k \in InsuranceTasks
  PROVE  k \in Active(BirthV2, f) <=> HasValue(f, "child_insurance_kind", Kinds[k])
<1>1. k \in Active(BirthV2, f)
        <=> EvalRule(Equals("child_insurance_kind", Kinds[k]), f) = "true"
  BY InsuranceRules DEF Active
<1>2. ~IsNumber(Kinds[k])
  BY DEF InsuranceTasks, Kinds, Str, IsNumber
<1> QED
  BY <1>1, <1>2, InsuranceRules, EqualsMeans

LEMMA KindsDiffer ==
  /\ Str("gkv") # Str("pkv") /\ Str("gkv") # Str("unknown") /\ Str("pkv") # Str("unknown")
  /\ \A j, k \in InsuranceTasks : Kinds[j] = Kinds[k] => j = k
BY DEF Str, Kinds, InsuranceTasks

\* Normalised facts have a kind of insurance.
LEMMA NormalFacts ==
  ASSUME NEW f, NormalizeBirth(f) = f
  PROVE  /\ "child_insurance_kind" \in DOMAIN f
         /\ \E k \in InsuranceTasks : f["child_insurance_kind"] = Kinds[k]
         /\ f["child_insurance_kind"] = Str("unknown") => Derived(f) = Str("unknown")
<1>1. CASE HasKindIn(f, {Str("gkv"), Str("pkv")})
  BY <1>1, KindsDiffer DEF HasKindIn, InsuranceTasks, Kinds
<1>2. CASE ~HasKindIn(f, {Str("gkv"), Str("pkv")})
  <2>1. f = WithKind(f, Derived(f))
    BY <1>2 DEF NormalizeBirth
  <2>2. "child_insurance_kind" \in DOMAIN f /\ f["child_insurance_kind"] = Derived(f)
    BY <2>1 DEF WithKind
  <2>3. Derived(f) \in {Str("gkv"), Str("pkv"), Str("unknown")}
    BY DEF Derived
  <2> QED
    BY <2>2, <2>3 DEF InsuranceTasks, Kinds
<1> QED
  BY <1>1, <1>2

LEMMA NormalIsHashable ==
  ASSUME NEW t, NEW f, NormalizeBirth(f) = f PROVE ~Unhashable(t, f)
<1>1. \A k \in InsuranceTasks : ~IsContainer(Kinds[k])
  BY DEF InsuranceTasks, Kinds, Str, IsContainer
<1> QED
  BY <1>1, NormalFacts DEF Unhashable

(* Version 2 plans one task of the child's insurance, never none, never two,     *)
(* whatever facts were sent (workflows/birth_de/v2/compiled.json with            *)
(* facts_normalizer.py, normalize_facts).                                        *)
THEOREM OneTaskInsuresTheChild == Spec => []OneInsuranceTask
<1>1. PlanInvariant => OneInsuranceTask
  <2>1. SUFFICES ASSUME PlanInvariant, Exists, template = BirthV2
                 PROVE  \E k \in InsuranceTasks : DOMAIN plan \cap InsuranceTasks = {k}
    BY DEF OneInsuranceTask
  <2>2. NormalizeBirth(planned) = planned
    BY <2>1 DEF PlanInvariant, BirthDe
  <2>3. "child_insurance_kind" \in DOMAIN planned
        /\ \E k \in InsuranceTasks : planned["child_insurance_kind"] = Kinds[k]
    BY <2>2, NormalFacts
  <2>4. PICK k \in InsuranceTasks : planned["child_insurance_kind"] = Kinds[k]
    BY <2>3
  <2>5. \A j \in InsuranceTasks : j \in DOMAIN plan <=> Kinds[k] = Kinds[j]
    BY <2>1, <2>3, <2>4, StoredPlan, InsuranceIsActive DEF HasValue
  <2>6. \A j \in InsuranceTasks : j \in DOMAIN plan <=> j = k
    BY <2>5, KindsDiffer
  <2> QED
    BY <2>6
<1> QED
  BY <1>1, PlanInvariantHolds, PTL

(* Nobody is asked to decide what the parents' insurance settles, as booleans;   *)
(* where a client wrote the numbers 1 and 0 instead the decision is asked        *)
(* (facts_normalizer.py, _normalize_birth_facts).                                *)
THEOREM ParentsAreNotAsked == Spec => []ParentsDecide
<1>1. PlanInvariant => ParentsDecide
  <2>1. SUFFICES ASSUME PlanInvariant, Exists, template = BirthV2,
                        "decide_child_insurance" \in DOMAIN plan,
                        NEW public \in {True, False},
                        HasValue(planned, "public_insurance", public),
                        HasValue(planned, "private_insurance", IF public = True THEN False ELSE True)
                 PROVE  FALSE
    BY DEF ParentsDecide
  <2>2. NormalizeBirth(planned) = planned
    BY <2>1 DEF PlanInvariant, BirthDe
  <2>3. HasValue(planned, "child_insurance_kind", Str("unknown"))
    <3>1. "decide_child_insurance" \in InsuranceTasks
          /\ Kinds["decide_child_insurance"] = Str("unknown")
      BY DEF InsuranceTasks, Kinds
    <3>2. "decide_child_insurance" \in Active(BirthV2, planned)
      BY <2>1, StoredPlan
    <3> QED
      BY <3>1, <3>2, InsuranceIsActive
  <2>4. Derived(planned) = Str("unknown")
    BY <2>2, <2>3, NormalFacts DEF HasValue
  <2>5. True # False
    BY DEF True, False
  <2>6. Derived(planned) \in {Str("gkv"), Str("pkv")}
    BY <2>1, <2>5 DEF Derived, HasValue
  <2> QED
    BY <2>4, <2>6, KindsDiffer
<1> QED
  BY <1>1, PlanInvariantHolds, PTL

(* A task waits only for tasks of the plan, and neither way to insure the child  *)
(* waits for the decision between them (planner/engine.py, generate_plan).       *)
THEOREM DependenciesArePlanned == Spec => []DependenciesCanBeMet
<1>1. PlanInvariant => DependenciesCanBeMet
  <2>1. SUFFICES ASSUME PlanInvariant, NEW k \in DOMAIN plan
                 PROVE  /\ plan[k].depends_on \subseteq DOMAIN plan
                        /\ template \in BirthDe => "decide_child_insurance" \notin plan[k].depends_on
    BY DEF DependenciesCanBeMet
  <2>2. Exists
    BY <2>1 DEF PlanInvariant, NoPlan
  <2> DEFINE active == Active(template, planned)
  <2>3. DOMAIN plan = active /\ plan[k].depends_on = DependsOn(template, active, k)
    BY <2>1, <2>2, StoredPlan
  <2>4. plan[k].depends_on \subseteq DOMAIN plan
    BY <2>3 DEF DependsOn
  <2>5. ASSUME template \in BirthDe, "decide_child_insurance" \in plan[k].depends_on
        PROVE  FALSE
    <3>1. \E e \in template.edges : e[1] = "decide_child_insurance" /\ e[2] = k
      BY <2>3, <2>5 DEF DependsOn
    <3>2. \A e \in AfterCertificate : e[1] # "decide_child_insurance"
      BY DEF AfterCertificate
    <3>3. template = BirthV2
      BY <2>5, <3>1, <3>2 DEF BirthDe, BirthV1
    <3>4. k \in {"add_child_insurance_gkv", "add_child_insurance_pkv"}
      BY <3>1, <3>2, <3>3 DEF BirthV2
    <3>5. /\ "decide_child_insurance" \in InsuranceTasks /\ k \in InsuranceTasks
          /\ k # "decide_child_insurance"
      BY <3>4 DEF InsuranceTasks
    <3>6. "decide_child_insurance" \in Active(BirthV2, planned) /\ k \in Active(BirthV2, planned)
      BY <2>3, <2>4, <2>5, <3>3
    <3>7. Kinds["decide_child_insurance"] = Kinds[k]
      BY <3>5, <3>6, InsuranceIsActive DEF HasValue
    <3> QED
      BY <3>5, <3>7, KindsDiffer
  <2> QED
    BY <2>4, <2>5
<1> QED
  BY <1>1, PlanInvariantHolds, PTL

\* Prepared facts keep a decision.
LEMMA DecisionsArePrepared ==
  ASSUME NEW t \in BirthDe, NEW f, NEW schema, HasKindIn(f, {Str("gkv"), Str("pkv")})
  PROVE  PrepareFacts(t, f, schema) = f
<1>1. NormalizeBirth(f) = f
  BY DEF NormalizeBirth
<1>2. MigrateBirth(f) = f
  BY DEF MigrateBirth, HasKindIn
<1> QED
  BY <1>1, <1>2 DEF PrepareFacts

(* A decision about the child's insurance survives every patch of other facts    *)
(* and the upgrade (facts_normalizer.py, plan_service.py).                       *)
THEOREM DecisionsSurvive == Spec => ChoicesStay
<1>1. ASSUME HasKindIn(facts, {Str("gkv"), Str("pkv")}), template \in BirthDe,
             NEW t \in BirthDe, NEW f, HasKindIn(f, {Str("gkv"), Str("pkv")}),
             f["child_insurance_kind"] = facts["child_insurance_kind"],
             PrepareAndPlan(t, f)
      PROVE  facts'["child_insurance_kind"] = facts["child_insurance_kind"]
  <2>1. PrepareFacts(t, f, FactSchema(t)) = f
    BY <1>1, DecisionsArePrepared
  <2>2. facts' = facts \/ facts' = f
    BY <1>1, <2>1 DEF PrepareAndPlan, Plan, Fail
  <2> QED
    BY <1>1, <2>2
<1>2. ASSUME HasKindIn(facts, {Str("gkv"), Str("pkv")}), template \in BirthDe, UpgradePlan
      PROVE  facts'["child_insurance_kind"] = facts["child_insurance_kind"]
  <2>1. BirthV2 \in BirthDe
    BY DEF BirthDe
  <2> QED
    BY <1>1, <1>2, <2>1 DEF UpgradePlan
<1>3. ASSUME HasKindIn(facts, {Str("gkv"), Str("pkv")}), template \in BirthDe,
             NEW patch, NEW recompute, "child_insurance_kind" \notin DOMAIN patch,
             UpdateFacts(patch, recompute)
      PROVE  facts'["child_insurance_kind"] = facts["child_insurance_kind"]
  <2> DEFINE f == ExtendedBy(facts, patch)
  <2>1. HasKindIn(f, {Str("gkv"), Str("pkv")})
        /\ f["child_insurance_kind"] = facts["child_insurance_kind"]
    BY <1>3 DEF ExtendedBy, HasKindIn
  <2>2. PrepareFacts(template, f, FactSchema(template)) = f
    BY <1>3, <2>1, DecisionsArePrepared
  <2>3. \/ PrepareAndPlan(template, f)
        \/ facts' = facts
        \/ facts' = PrepareFacts(template, f, FactSchema(template))
    BY <1>3 DEF UpdateFacts, Fail
  <2> HIDE DEF f
  <2> QED
    BY <1>1, <1>3, <2>1, <2>2, <2>3
<1>4. HasKindIn(facts, {Str("gkv"), Str("pkv")}) /\ template \in BirthDe
        /\ \/ UpgradePlan
           \/ \E patch \in Patches(template), recompute \in BOOLEAN :
                "child_insurance_kind" \notin DOMAIN patch /\ UpdateFacts(patch, recompute)
      => facts'["child_insurance_kind"] = facts["child_insurance_kind"]
  BY <1>2, <1>3
<1> QED
  BY <1>4, PTL DEF ChoicesStay

-----------------------------------------------------------------------------
(* Recomputing                                                             *)

RecomputeIsStable ==
  [][facts = planned /\ RecomputePlan =>
       answer' = "200" /\ UNCHANGED <<template, facts, planned, plan>>]_vars

(* Planning the facts of the snapshot again changes neither the plan nor the     *)
(* facts, and does not fail: so keeping the snapshot of unchanged facts, as the  *)
(* code does, is the same as asking the planner (plan_service.py, update_facts,  *)
(* recompute_plan).                                                              *)
THEOREM RecomputeChangesNothing == Spec => RecomputeIsStable
<1>1. ASSUME PlanInvariant, facts = planned, RecomputePlan
      PROVE  answer' = "200" /\ UNCHANGED <<template, facts, planned, plan>>
  <2>1. "raises" \notin DOMAIN GeneratePlan(template, planned)
        /\ plan = GeneratePlan(template, planned).items
    BY <1>1 DEF PlanInvariant, RecomputePlan
  <2>2. PrepareFacts(template, planned, FactSchema(template)) = planned
    <3>1. CASE template \notin BirthDe
      BY <3>1 DEF PrepareFacts
    <3>2. CASE template \in BirthDe
      <4>1. NormalizeBirth(planned) = planned
        BY <1>1, <3>2 DEF PlanInvariant, RecomputePlan
      <4>2. \A t \in BirthDe : ~(FactSchema(t) < FactSchema(t))
        BY DEF BirthDe, BirthV1, BirthV2, FactSchema
      <4> QED
        BY <3>2, <4>1, <4>2 DEF PrepareFacts
    <3> QED
      BY <3>1, <3>2
  <2>3. ~Unhashable(template, planned)
    BY <1>1, NormalIsHashable DEF RecomputePlan, PlanInvariant, Unhashable
  <2>4. Plan(template, planned)
    BY <1>1, <2>2, <2>3 DEF RecomputePlan, PrepareAndPlan
  <2> QED
    BY <1>1, <2>1, <2>4 DEF Plan
<1>2. PlanInvariant /\ [Next]_vars =>
        (facts = planned /\ RecomputePlan =>
           answer' = "200" /\ UNCHANGED <<template, facts, planned, plan>>)
  BY <1>1
<1> QED
  BY <1>2, PlanInvariantHolds, PTL DEF Spec, RecomputeIsStable

(* Preparing twice is preparing once, the migration to the template's schema     *)
(* included, and what is prepared can be prepared again: what PlanStore asks of  *)
(* its normaliser (its FactsAssumption), of every template                       *)
(* (facts_normalizer.py, migrate_facts_to_latest_schema).                        *)
THEOREM PreparingTwice ==
  ASSUME NEW t, NEW f, NEW schema
  PROVE  /\ PrepareFacts(t, PrepareFacts(t, f, schema), schema) = PrepareFacts(t, f, schema)
         /\ ~Unhashable(t, PrepareFacts(t, f, schema))
<1> DEFINE g == PrepareFacts(t, f, schema)
<1>1. CASE t \notin BirthDe
  BY <1>1 DEF PrepareFacts, Unhashable
<1>2. CASE t \in BirthDe
  <2>1. NormalizeBirth(g) = g
    BY <1>2, PreparedIsNormal
  <2> HIDE DEF g
  <2>2. HasKindIn(g, {Str("gkv"), Str("pkv"), Str("unknown")})
    BY <2>1, NormalFacts DEF HasKindIn, InsuranceTasks, Kinds
  <2>3. MigrateBirth(g) = g
    BY <2>2 DEF MigrateBirth
  <2>4. PrepareFacts(t, g, schema) = g
    BY <1>2, <2>1, <2>3 DEF PrepareFacts
  <2>5. ~Unhashable(t, g)
    BY <2>1, NormalIsHashable
  <2> QED
    BY <2>4, <2>5 DEF g
<1> QED
  BY <1>1, <1>2

(* What PlanStore asks of a planner (its PlannerAssumption): for every template, *)
(* the items are tasks of the template, and depend on items only                 *)
(* (planner/engine.py, generate_plan).                                           *)
THEOREM PlannerKeepsItsPromise ==
  ASSUME NEW t, NEW f, "raises" \notin DOMAIN GeneratePlan(t, f)
  PROVE  /\ DOMAIN GeneratePlan(t, f).items \subseteq DOMAIN t.tasks
         /\ \A k \in DOMAIN GeneratePlan(t, f).items :
              GeneratePlan(t, f).items[k].depends_on \subseteq DOMAIN GeneratePlan(t, f).items
<1> DEFINE items == GeneratePlan(t, f).items
           active == Active(t, f)
<1>1. items = [k \in active |-> [depends_on |-> DependsOn(t, active, k),
                                 deadline |-> Deadline(t, f, k)]]
  BY GeneratedPlan
<1>2. \A k : DependsOn(t, active, k) \subseteq active
  BY DEF DependsOn
<1>3. active \subseteq DOMAIN t.tasks
  BY DEF Active
<1> HIDE DEF items, active
<1> QED
  BY <1>1, <1>2, <1>3 DEF items

-----------------------------------------------------------------------------
(* What is answered with 500                                               *)

\* The three things the planner and the normaliser do not take: an event date,
\* whichever fact that is, with deadlines after the last date; an integer that is
\* too large for a float; a list or an object as the kind of insurance.
LeavesRoom(f) ==
  \A t \in Templates \cup BirthDe :
    t.event_date_key \in DOMAIN f /\ IsDate(f[t.event_date_key]) =>
      \A k \in DOMAIN t.tasks : Deadline(t, f, k) \in Dates

KindIsScalar(f) ==
  "child_insurance_kind" \in DOMAIN f => ~IsContainer(f["child_insurance_kind"])

Tame(f) == LeavesRoom(f) /\ FactsFitFloats(f) /\ KindIsScalar(f)

ClientsAreTame ==
  \A t \in Templates \cup BirthDe : \A f \in Bodies(t) \cup Patches(t) : Tame(f)

LEMMA WithKindIsTame ==
  ASSUME NEW f, Tame(f), NEW s PROVE Tame(WithKind(f, Str(s)))
<1> DEFINE kind == Str(s)
           g == WithKind(f, kind)
<1>1. ~IsDate(kind) /\ ~IsNumber(kind) /\ ~IsContainer(kind)
  BY DEF IsDate, IsNumber, IsContainer, Str
<1> HIDE DEF kind
<1>2. \A key \in DOMAIN g : g[key] = kind \/ (key \in DOMAIN f /\ g[key] = f[key])
  BY DEF WithKind
<1>3. g["child_insurance_kind"] = kind
  BY DEF WithKind
<1> HIDE DEF g
<1>4. LeavesRoom(g)
  <2>1. SUFFICES ASSUME NEW t \in Templates \cup BirthDe, t.event_date_key \in DOMAIN g,
                        IsDate(g[t.event_date_key]), NEW k \in DOMAIN t.tasks
                 PROVE  Deadline(t, g, k) \in Dates
    BY DEF LeavesRoom
  <2>2. t.event_date_key \in DOMAIN f /\ g[t.event_date_key] = f[t.event_date_key]
    BY <1>1, <1>2, <2>1
  <2> QED
    BY <2>1, <2>2 DEF Tame, LeavesRoom, Deadline
<1>5. FactsFitFloats(g)
  BY <1>1, <1>2 DEF Tame, FactsFitFloats
<1>6. KindIsScalar(g)
  BY <1>1, <1>3 DEF KindIsScalar
<1> QED
  BY <1>4, <1>5, <1>6 DEF Tame, g, kind

LEMMA PreparedIsTame ==
  ASSUME NEW t, NEW f, NEW schema, Tame(f) PROVE Tame(PrepareFacts(t, f, schema))
<1>1. \A g : \E s : Derived(g) = Str(s)
  BY DEF Derived
<1>2. \A g : Tame(g) => Tame(NormalizeBirth(g))
  BY <1>1, WithKindIsTame DEF NormalizeBirth
<1>3. Tame(MigrateBirth(f))
  BY WithKindIsTame DEF MigrateBirth
<1> QED
  BY <1>2, <1>3 DEF PrepareFacts

LEMMA ExtendedIsTame ==
  ASSUME NEW f, NEW g, Tame(f), Tame(g) PROVE Tame(ExtendedBy(f, g))
<1> DEFINE h == ExtendedBy(f, g)
<1>1. \A key \in DOMAIN h : \/ key \in DOMAIN g /\ h[key] = g[key]
                            \/ key \in DOMAIN f /\ h[key] = f[key]
  BY DEF ExtendedBy
<1> HIDE DEF h
<1>2. LeavesRoom(h)
  <2>1. SUFFICES ASSUME NEW t \in Templates \cup BirthDe, t.event_date_key \in DOMAIN h,
                        IsDate(h[t.event_date_key]), NEW k \in DOMAIN t.tasks
                 PROVE  Deadline(t, h, k) \in Dates
    BY DEF LeavesRoom
  <2> QED
    BY <1>1, <2>1 DEF Tame, LeavesRoom, Deadline
<1>3. FactsFitFloats(h)
  BY <1>1 DEF Tame, FactsFitFloats
<1>4. KindIsScalar(h)
  BY <1>1 DEF Tame, KindIsScalar
<1> QED
  BY <1>2, <1>3, <1>4 DEF Tame, h

LEMMA TameFactsPlan ==
  ASSUME RulesFitFloats, Tame(facts), NEW t \in Templates \cup BirthDe, NEW f, Tame(f),
         PrepareAndPlan(t, f)
  PROVE  Tame(facts)' /\ answer' # "500"
<1> DEFINE g == PrepareFacts(t, f, FactSchema(t))
           result == GeneratePlan(t, g)
<1>1. Tame(g)
  BY PreparedIsTame
<1>2. Plan(t, g)
  BY DEF PrepareAndPlan, Unhashable, Tame, KindIsScalar
<1> HIDE DEF g
<1>3. CASE "raises" \notin DOMAIN result
  <2>1. answer' = "200" /\ facts' = g
    BY <1>2, <1>3 DEF Plan
  <2> QED
    BY <1>1, <2>1 DEF Tame, LeavesRoom, FactsFitFloats, KindIsScalar
<1>4. CASE "raises" \in DOMAIN result
  <2> DEFINE eligible == Eligible(t, g)
             raised == {eligible[k] : k \in DOMAIN eligible} \ {"true", "false"}
  <2>1. DOMAIN eligible = DOMAIN t.tasks
        /\ \A k \in DOMAIN t.tasks : eligible[k] = EvalRule(t.tasks[k].eligibility, g)
    BY DEF Eligible
  <2>2. \A k \in DOMAIN eligible : eligible[k] \in Outcomes /\ eligible[k] # "OverflowError"
    <3>1. \A k \in DOMAIN t.tasks : t.tasks[k].eligibility \in Rules
      BY TemplateAssumption
    <3> HIDE DEF eligible
    <3> QED
      BY <1>1, <2>1, <3>1, EvalRuleEquation, FloatsNeverOverflow DEF Tame
  <2>3. raised \subseteq PlannerErrors
    <3> HIDE DEF eligible
    <3> QED
      BY <2>2 DEF Outcomes, Raised, PlannerErrors
  <2>4. t.event_date_key \in DOMAIN g /\ IsDate(g[t.event_date_key]) =>
          \A k \in DOMAIN t.tasks : Deadline(t, g, k) \in Dates
    BY <1>1 DEF Tame, LeavesRoom
  <2>5. result.raises \in {{"PlannerInputError"}, raised}
    BY <1>4, <2>1, <2>4 DEF GeneratePlan
  <2>6. \A exception \in result.raises : exception \in PlannerErrors
    <3> HIDE DEF raised, result
    <3> QED
      BY <2>3, <2>5 DEF PlannerErrors
  <2>7. answer' = "400" /\ facts' = facts
    <3> HIDE DEF raised
    <3> QED
      BY <1>2, <1>4, <2>6 DEF Plan, Fail
  <2> QED
    BY <2>7 DEF Tame, LeavesRoom, FactsFitFloats, KindIsScalar
<1> QED
  BY <1>3, <1>4

(* Of what the normaliser and the planner raise, three things are not a          *)
(* PlannerError and answered with 500 (planner/errors.py, plan_service.py): an   *)
(* event date with a deadline after 9999-12-31, an integer too large for a float *)
(* that a rule compares, and a list or an object as child_insurance_kind.  From  *)
(* clients who send none of them, every plan that fails is a 400.                *)
THEOREM ThreeCausesOf500 ==
  ASSUME ClientsAreTame, RulesFitFloats PROVE Spec => []FailuresArePlannerErrors
<1> DEFINE I == Tame(facts) /\ template \in Templates \cup BirthDe /\ answer # "500"
<1>1. Init => I
  BY DEF Init, Tame, LeavesRoom, FactsFitFloats, KindIsScalar, NoPlan
<1>2. ASSUME I, PlanInvariant, PlanInvariant', [Next]_vars PROVE I'
  <2>1. template' \in Templates \cup BirthDe
    BY <1>2 DEF PlanInvariant
  <2>2. ASSUME NEW t \in Templates \cup BirthDe, NEW f, Tame(f), PrepareAndPlan(t, f)
        PROVE  I'
    BY <1>2, <2>1, <2>2, TameFactsPlan
  <2>3. ASSUME NEW body \in Bodies(template), CreatePlan(body) PROVE I'
    <3>1. Tame(body)
      BY <1>2 DEF ClientsAreTame
    <3> QED
      BY <1>2, <2>2, <2>3, <3>1 DEF CreatePlan
  <2>4. ASSUME NEW patch \in Patches(template), NEW recompute, UpdateFacts(patch, recompute)
        PROVE  I'
    <3> DEFINE merged == ExtendedBy(facts, patch)
               prepared == PrepareFacts(template, merged, FactSchema(template))
    <3>1. Tame(patch)
      BY <1>2 DEF ClientsAreTame
    <3>2. Tame(merged)
      BY <1>2, <3>1, ExtendedIsTame
    <3>3. CASE recompute
      BY <1>2, <2>2, <2>4, <3>2, <3>3 DEF UpdateFacts
    <3>4. CASE ~recompute
      <4>1. ~Unhashable(template, merged)
        <5> HIDE DEF merged
        <5> QED
          BY <3>2 DEF Unhashable, Tame, KindIsScalar
      <4>2. facts' = prepared /\ answer' = "200"
        BY <2>4, <3>4, <4>1 DEF UpdateFacts
      <4>3. Tame(prepared)
        BY <3>2, PreparedIsTame
      <4> HIDE DEF prepared
      <4> QED
        BY <2>1, <4>2, <4>3 DEF Tame, LeavesRoom, FactsFitFloats, KindIsScalar
    <3> QED
      BY <3>3, <3>4
  <2>5. CASE RecomputePlan
    BY <1>2, <2>2, <2>5 DEF RecomputePlan
  <2>6. CASE UpgradePlan
    BY <1>2, <2>2, <2>6 DEF UpgradePlan, BirthDe
  <2>7. CASE UNCHANGED vars
    BY <1>2, <2>7 DEF vars, Tame, LeavesRoom, FactsFitFloats, KindIsScalar
  <2> QED
    BY <1>2, <2>3, <2>4, <2>5, <2>6, <2>7 DEF Next
<1>3. I => FailuresArePlannerErrors
  BY DEF FailuresArePlannerErrors
<1> HIDE DEF I
<1> QED
  BY <1>1, <1>2, <1>3, PlanInvariantHolds, PTL DEF Spec

-----------------------------------------------------------------------------
(* The upgrade                                                             *)

\* A rule of the kinds the templates have.
Flat(rule) ==
  /\ Kind(rule) \in {"all", "any"}
  /\ \A i \in DOMAIN Clauses(rule) :
       Kind(Clauses(rule)[i]) = "predicate" /\ Clauses(rule)[i].op \in {"exists", "=", "in"}

\* It does not raise: no operator is unknown, nothing is compared as floats.
LEMMA FlatRuleNeverRaises ==
  ASSUME NEW rule \in Rules, Flat(rule), NEW f PROVE EvalRule(rule, f) \in {"true", "false"}
<1> DEFINE verdicts == [i \in DOMAIN Clauses(rule) |-> EvalRule(Clauses(rule)[i], f)]
<1>1. PICK n \in Nat : Clauses(rule) \in [1..n -> Rules]
  BY RuleAssumption
<1>2. ASSUME NEW i \in DOMAIN Clauses(rule) PROVE verdicts[i] \in {"true", "false"}
  <2> DEFINE p == Clauses(rule)[i]
  <2>1. p \in Rules /\ Kind(p) = "predicate" /\ p.op \in {"exists", "=", "in"}
    BY <1>1 DEF Flat
  <2> HIDE DEF p
  <2>2. EvalRule(p, f) = EvalPredicate(p, f)
    BY <2>1, EvalRuleEquation DEF Combined
  <2>3. EvalPredicate(p, f) \in {"true", "false"}
    <3>1. \A b : Verdict(b) \in {"true", "false"}
      BY DEF Verdict
    <3>2. ASSUME p.op # "exists", NEW fact PROVE Applied(p, fact) \in {"true", "false"}
      BY <2>1, <3>1, <3>2 DEF Applied, Comparisons
    <3> QED
      BY <3>1, <3>2 DEF EvalPredicate
  <2> QED
    BY <2>2, <2>3 DEF p
<1>3. verdicts \in [1..n -> {"true", "false"}]
  BY <1>1, <1>2
<1>4. verdicts \in Seq({"true", "false"})
  <2> HIDE DEF verdicts
  <2> QED
    BY <1>3
<1>5. EvalRule(rule, f) = Combined(rule, verdicts, f)
  BY EvalRuleEquation
<1> HIDE DEF verdicts
<1>6. \A neutral \in {"true", "false"} : FirstNot(verdicts, neutral) \in {"true", "false"}
  BY <1>4, FirstNotIsFirst
<1> QED
  BY <1>5, <1>6 DEF Combined, Flat

LEMMA BirthV2Tasks ==
  \A k \in DOMAIN BirthV2.tasks :
    Flat(BirthV2.tasks[k].eligibility) /\ BirthV2.tasks[k].days \in 7..90
<1> DEFINE Fine(f) == \A k \in DOMAIN f : Flat(f[k].eligibility) /\ f[k].days \in 7..90
<1>1. \A f, g : Fine(f) /\ Fine(g) => Fine(ExtendedBy(f, g))
  BY DEF ExtendedBy
<1>2. \A fact, value : Flat(Equals(fact, value))
  BY DEF Equals, Flat, Kind, Clauses
<1>3. Flat(Always)
  BY DEF Always, Flat, Kind, Clauses
<1>4. \A fact, values : /\ Kind(OneOf(fact, values)) = "predicate"
                        /\ OneOf(fact, values).op \in {"exists", "=", "in"}
  BY DEF OneOf, Kind
<1>5. \A fact, values : Flat([all |-> <<OneOf(fact, values)>>])
  <2> TAKE fact, values
  <2> DEFINE rule == [all |-> <<OneOf(fact, values)>>]
  <2>1. Kind(rule) = "all" /\ Clauses(rule) = <<OneOf(fact, values)>>
    BY DEF Kind, Clauses
  <2> HIDE DEF rule
  <2>2. Flat(rule)
    BY <1>4, <2>1 DEF Flat
  <2> QED
    BY <2>2 DEF rule
<1>6. \A fact, values :
        Flat([any |-> <<OneOf(fact, values), [fact |-> fact, op |-> "exists"]>>])
  <2> TAKE fact, values
  <2> DEFINE p == [fact |-> fact, op |-> "exists"]
             rule == [any |-> <<OneOf(fact, values), p>>]
  <2>1. Kind(rule) = "any" /\ Clauses(rule) = <<OneOf(fact, values), p>>
    BY DEF Kind, Clauses
  <2>2. Kind(p) = "predicate" /\ p.op \in {"exists", "=", "in"}
    BY DEF Kind
  <2> HIDE DEF rule, p
  <2>3. Flat(rule)
    BY <1>4, <2>1, <2>2 DEF Flat
  <2> QED
    BY <2>3 DEF rule, p
<1> HIDE DEF Fine
<1>7. Fine(CommonTasks)
  BY <1>2, <1>3, <1>5, <1>6 DEF CommonTasks, Paternity, Due, Fine
<1>8. Fine([decide_child_insurance |-> Due(14, Equals("child_insurance_kind", Str("unknown"))),
            add_child_insurance_gkv |-> Due(30, Equals("child_insurance_kind", Str("gkv"))),
            add_child_insurance_pkv |-> Due(30, Equals("child_insurance_kind", Str("pkv")))])
  BY <1>2 DEF Due, Fine
<1>9. Fine(BirthV2.tasks)
  BY <1>1, <1>7, <1>8 DEF BirthV2
<1> QED
  BY <1>9 DEF Fine

LEMMA BirthV2NeverRaises ==
  ASSUME NEW f, NEW k \in DOMAIN BirthV2.tasks
  PROVE  EvalRule(BirthV2.tasks[k].eligibility, f) \in {"true", "false"}
<1>1. BirthV2.tasks[k].eligibility \in Rules
  BY TemplateAssumption DEF BirthDe
<1> QED
  BY <1>1, BirthV2Tasks, FlatRuleNeverRaises

\* Every plan of version 1 has the application for child benefit.
LEMMA ChildBenefitIsActive ==
  ASSUME NEW f
  PROVE  "child_benefit" \in Active(BirthV1, f) /\ BirthV1.tasks["child_benefit"].days = 90
<1> DEFINE more == [add_child_insurance_gkv |-> Due(30, Equals("public_insurance", True)),
                    add_child_insurance_pkv |-> Due(30, Equals("private_insurance", True))]
<1>1. CommonTasks["child_benefit"] = Due(90, Always) /\ "child_benefit" \in DOMAIN CommonTasks
  BY DEF CommonTasks
<1>2. "child_benefit" \notin DOMAIN more
  OBVIOUS
<1>3. BirthV1.tasks = ExtendedBy(CommonTasks, more)
  BY DEF BirthV1
<1> HIDE DEF more
<1>4. "child_benefit" \in DOMAIN BirthV1.tasks
      /\ BirthV1.tasks["child_benefit"] = Due(90, Always)
  BY <1>1, <1>2, <1>3 DEF ExtendedBy
<1>5. Always \in Rules
  BY <1>4, TemplateAssumption DEF BirthDe, Due
<1>6. Kind(Always) = "all" /\ Clauses(Always) = << >>
  BY DEF Always, Kind, Clauses
<1>7. EvalRule(Always, f) = "true"
  <2>1. [i \in DOMAIN Clauses(Always) |-> EvalRule(Clauses(Always)[i], f)] = << >>
    BY <1>6
  <2>2. FirstNot(<< >>, "true") = "true"
    BY DEF FirstNot
  <2> QED
    BY <1>5, <1>6, <2>1, <2>2, EvalRuleEquation DEF Combined
<1> QED
  BY <1>4, <1>7 DEF Active, Due

\* What is in the format of dates is a date of the calendar.
Dated(f) == \A k \in DOMAIN f : IsDate(f[k]) => f[k][2] \in Dates

ClientsSendDates ==
  \A t \in Templates \cup BirthDe : \A f \in Bodies(t) \cup Patches(t) : Dated(f)

LEMMA PreparedIsDated ==
  ASSUME NEW t, NEW f, NEW schema, Dated(f) PROVE Dated(PrepareFacts(t, f, schema))
<1>1. \A g, kind : Dated(g) /\ ~IsDate(kind) => Dated(WithKind(g, kind))
  BY DEF Dated, WithKind
<1>2. \A g : ~IsDate(Derived(g)) /\ ~IsDate(Str("unknown"))
  BY DEF Derived, IsDate, Str
<1>3. \A g : Dated(g) => Dated(NormalizeBirth(g))
  BY <1>1, <1>2 DEF NormalizeBirth
<1>4. Dated(MigrateBirth(f))
  BY <1>1, <1>2 DEF MigrateBirth
<1> QED
  BY <1>3, <1>4 DEF PrepareFacts

LEMMA FactsAreDated ==
  ASSUME ClientsSendDates PROVE Spec => []Dated(facts)
<1>1. Init => Dated(facts)
  BY DEF Init, NoPlan, Dated
<1>2. ASSUME Dated(facts), PlanInvariant, [Next]_vars PROVE Dated(facts)'
  <2> DEFINE Prepared(t, f) == PrepareFacts(t, f, FactSchema(t))
  <2>1. ASSUME NEW t, NEW f, Dated(f),
               PrepareAndPlan(t, f) \/ facts' = facts \/ facts' = Prepared(t, f)
        PROVE  Dated(facts)'
    <3>1. Dated(Prepared(t, f))
      BY <2>1, PreparedIsDated
    <3>2. facts' = facts \/ facts' = Prepared(t, f)
      BY <2>1 DEF PrepareAndPlan, Plan, Fail
    <3> HIDE DEF Prepared
    <3> QED
      BY <1>2, <3>1, <3>2 DEF Dated
  <2>2. template \in Templates \cup BirthDe
    BY <1>2 DEF PlanInvariant
  <2>3. ASSUME NEW body \in Bodies(template), CreatePlan(body) PROVE Dated(facts)'
    BY <2>1, <2>2, <2>3 DEF CreatePlan, ClientsSendDates
  <2>4. ASSUME NEW patch \in Patches(template), NEW recompute, UpdateFacts(patch, recompute)
        PROVE  Dated(facts)'
    <3>1. Dated(patch)
      BY <2>2 DEF ClientsSendDates
    <3>2. Dated(ExtendedBy(facts, patch))
      BY <1>2, <3>1 DEF Dated, ExtendedBy
    <3> QED
      BY <2>1, <2>4, <3>2 DEF UpdateFacts, Fail
  <2>5. CASE RecomputePlan
    BY <1>2, <2>1, <2>5 DEF RecomputePlan
  <2>6. CASE UpgradePlan
    BY <1>2, <2>1, <2>6 DEF UpgradePlan
  <2>7. CASE UNCHANGED vars
    BY <1>2, <2>7 DEF vars, Dated
  <2> QED
    BY <1>2, <2>3, <2>4, <2>5, <2>6, <2>7 DEF Next
<1> QED
  BY <1>1, <1>2, PlanInvariantHolds, PTL DEF Spec

UpgradeWorks ==
  [][facts = planned /\ UpgradePlan =>
       answer' = "200" /\ template' = BirthV2 /\ facts' = facts]_vars

(* A plan of version 1 whose facts are those it was planned from can always be   *)
(* upgraded, and keeps its facts: the facts of version 1 are enough for version  *)
(* 2, no rule of version 2 raises, and its deadlines are no later than that of   *)
(* child_benefit, which every plan of version 1 has (plan_service.py,            *)
(* upgrade_plan; workflows/birth_de/v2/compiled.json).                           *)
THEOREM UpgradesSucceed ==
  ASSUME ClientsSendDates PROVE Spec => UpgradeWorks
<1>1. ASSUME PlanInvariant, Dated(facts), facts = planned, UpgradePlan
      PROVE  answer' = "200" /\ template' = BirthV2 /\ facts' = facts
  <2>1. template = BirthV1 /\ Exists /\ BirthV1 \in BirthDe /\ BirthV2 \in BirthDe
    BY <1>1 DEF UpgradePlan, BirthDe
  <2>2. PrepareFacts(BirthV2, planned, FactSchema(BirthV2)) = planned
    <3>1. NormalizeBirth(planned) = planned
      BY <1>1, <2>1 DEF PlanInvariant
    <3>2. ~(FactSchema(BirthV2) < FactSchema(BirthV2))
      BY DEF BirthV2, FactSchema
    <3> QED
      BY <2>1, <3>1, <3>2 DEF PrepareFacts
  <2>3. Plan(BirthV2, planned)
    <3>1. ~Unhashable(BirthV2, planned)
      BY <1>1, <2>1, NormalIsHashable DEF PlanInvariant
    <3> QED
      BY <1>1, <2>2, <3>1 DEF UpgradePlan, PrepareAndPlan
  <2>4. "raises" \notin DOMAIN GeneratePlan(BirthV1, planned)
    BY <1>1, <2>1 DEF PlanInvariant
  <2>5. BirthV1.event_date_key = "birth_date" /\ BirthV2.event_date_key = "birth_date"
    BY DEF BirthV1, BirthV2
  <2>6. "birth_date" \in DOMAIN planned /\ IsDate(planned["birth_date"])
    BY <2>4, <2>5 DEF GeneratePlan
  <2> DEFINE day == planned["birth_date"][2]
  <2>7. day \in Dates
    BY <1>1, <2>6 DEF Dated
  <2>8. day + 90 \in Dates
    <3>1. Deadline(BirthV1, planned, "child_benefit") = day + 90
      BY <2>5, ChildBenefitIsActive DEF Deadline
    <3>2. \A k \in Active(BirthV1, planned) : Deadline(BirthV1, planned, k) \in Dates
      BY <2>4 DEF GeneratePlan, Active, Eligible
    <3> QED
      BY <3>1, <3>2, ChildBenefitIsActive
  <2>9. \A k \in DOMAIN BirthV2.tasks : Deadline(BirthV2, planned, k) \in Dates
    <3>1. \A k \in DOMAIN BirthV2.tasks : Deadline(BirthV2, planned, k) = day + BirthV2.tasks[k].days
      BY <2>5 DEF Deadline
    <3>2. \A n \in 7..90 : day + n \in Dates
      <4> HIDE DEF day
      <4> QED
        BY <2>7, <2>8, DateAssumption DEF Dates
    <3> HIDE DEF day
    <3> QED
      BY <3>1, <3>2, BirthV2Tasks
  <2>10. "raises" \notin DOMAIN GeneratePlan(BirthV2, planned)
    <3>1. DOMAIN Eligible(BirthV2, planned) = DOMAIN BirthV2.tasks
          /\ \A k \in DOMAIN BirthV2.tasks :
               Eligible(BirthV2, planned)[k] = EvalRule(BirthV2.tasks[k].eligibility, planned)
      BY DEF Eligible
    <3>2. {Eligible(BirthV2, planned)[k] : k \in DOMAIN Eligible(BirthV2, planned)}
            \ {"true", "false"} = {}
      BY <3>1, BirthV2NeverRaises
    <3> QED
      BY <2>5, <2>6, <2>9, <3>1, <3>2 DEF GeneratePlan
  <2> QED
    BY <1>1, <2>3, <2>10 DEF Plan
<1>2. PlanInvariant /\ Dated(facts) /\ [Next]_vars =>
        (facts = planned /\ UpgradePlan =>
           answer' = "200" /\ template' = BirthV2 /\ facts' = facts)
  BY <1>1
<1>3. Spec => []Dated(facts)
  BY FactsAreDated
<1> QED
  BY <1>2, <1>3, PlanInvariantHolds, PTL DEF Spec, UpgradeWorks

=============================================================================
