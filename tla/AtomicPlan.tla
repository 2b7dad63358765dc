----------------------------- MODULE AtomicPlan -----------------------------
(***************************************************************************)
(* What the plan API promises a client that waits for every answer: a      *)
(* patch changes the facts it names; a recompute settles the status of     *)
(* every task for the facts, never reopening or dismissing a done task and *)
(* never losing one; nothing else changes a status but the client itself.  *)
(*                                                                         *)
(* There are no reads, copies or columns here: every operation is a step.  *)
(* PlanStore implements this as long as no two requests overlap.           *)
(***************************************************************************)
CONSTANTS Facts, Patches, Normalize, Planner, TaskKeys, Targets

VARIABLES
  facts,   \* the facts of the plan
  settled, \* the facts its tasks were last settled for
  status   \* "absent" or the status of each task

vars == <<facts, settled, status>>

With(patch) ==
  Normalize[[k \in DOMAIN facts \cup DOMAIN patch |->
               IF k \in DOMAIN patch THEN patch[k] ELSE facts[k]]]

Init ==
  /\ facts \in {f \in DOMAIN Planner : Normalize[f] = f}
  /\ settled = facts
  /\ status = [k \in TaskKeys |-> IF k \in DOMAIN Planner[facts] THEN "todo" ELSE "absent"]

SettledFor(f, k) ==
  CASE status[k] = "done"                                         -> "done"
    [] k \in DOMAIN Planner[f] /\ status[k] \in {"absent", "skipped"} -> "todo"
    [] k \notin DOMAIN Planner[f] /\ status[k] # "done" /\ status[k] # "absent" -> "skipped"
    [] OTHER                                                      -> status[k]

Settle(f) ==
  /\ f \in DOMAIN Planner
  /\ settled' = f
  /\ status' = [k \in TaskKeys |-> SettledFor(f, k)]

\* Only the facts: the tasks follow with the next recompute.
Patch(patch) ==
  /\ facts' = With(patch)
  /\ UNCHANGED <<settled, status>>

\* A patch that leads to the facts the tasks are settled for touches no task.
PatchAndRecompute(patch) ==
  /\ facts' = With(patch)
  /\ IF With(patch) = settled THEN UNCHANGED <<settled, status>> ELSE Settle(With(patch))

Recompute ==
  /\ Settle(facts)
  /\ UNCHANGED facts

SetStatus(k, s) ==
  /\ status[k] # "absent"
  /\ status' = [status EXCEPT ![k] = s]
  /\ UNCHANGED <<facts, settled>>

Next ==
  \/ \E p \in Patches : Patch(p) \/ PatchAndRecompute(p)
  \/ Recompute
  \/ \E k \in TaskKeys : \E s \in Targets : SetStatus(k, s)

Spec == Init /\ [][Next]_vars

=============================================================================
