------------------------- MODULE MCTemplateCatalog -------------------------
(* Two versions, three keys, two contents a file may have.                 *)
EXTENDS TemplateCatalog, TLC

CONSTANTS v1, v2, v02, a, b, p1, p2, r1, r2, s1, s2

MCKeyOf == (1 :> v1) @@ (2 :> v2)
MCVersionOf == (v1 :> 1) @@ (v2 :> 2) @@ (v02 :> 2)
\* What is a valid version 2 may not pass for version 1.
MCValid == (1 :> {a}) @@ (2 :> {a, b})

MCSymmetry == Permutations(Plans) \cup Permutations(Requests) \cup Permutations(Starts)
============================================================================
