------------------------ MODULE MCFrontendTaskList -------------------------
(* One task waits for the decision, until there is nothing to decide and the *)
(* dependency is pruned; another one comes with the decision.                *)
EXTENDS FrontendTaskList, TLC

MCPlanned ==
  [unknown |-> [decide |-> {}, register |-> {"decide"}],
   gkv     |-> [register |-> {}, benefit |-> {}],
   pkv     |-> [benefit |-> {}]]
=============================================================================
