---------------------------- MODULE MCReminders ----------------------------
(* Small sets of settings and tasks.                                         *)
EXTENDS Reminders, TLC

CONSTANTS p1, p2, e1, e2, k1, k2

Body(email, consent, enabled) ==
  [email |-> email, consent |-> consent, enabled |-> enabled]

\* Reminders on, for one address or the other; off; and two kinds of nothing.
MCBodies == {Body(e1, TRUE, TRUE), Body(e2, FALSE, TRUE), Body(Blank, TRUE, TRUE)}

\* One address only, consent given and withdrawn.
MCOneAddress == {Body(e1, TRUE, TRUE), Body(e1, FALSE, TRUE)}

\* Two addresses, consent given for one of them, withdrawn, and not given.
MCTwoAddresses == MCOneAddress \cup {Body(e2, FALSE, TRUE)}

\* A task of each plan, one of them due after the first day's horizon.
MCPlanOf == (k1 :> p1) @@ (k2 :> p2)
MCDueOn == (k1 :> 1) @@ (k2 :> 2)

\* Both tasks belong to the one plan.
MCOnePlan == (k1 :> p1) @@ (k2 :> p1)

\* Scans and clients are interchangeable.
MCSymmetry == Permutations(Scans) \cup Permutations(Clients)

============================================================================
