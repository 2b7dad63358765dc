----------------------------- MODULE Toposort -----------------------------
(***************************************************************************)
(* The two passes over a template's graph: the validation of the whole     *)
(* graph when the template is loaded (workflow_validator.py), and the      *)
(* ordering of the tasks that are eligible for some facts when a plan is   *)
(* made (toposort.py).  Both count down the edges into each task.          *)
(*                                                                         *)
(* Task ids are numbers, in the order of the strings.  The list of edges   *)
(* is a set of <<source, target, tag>>: a list may hold an edge twice, and *)
(* tags tell the two apart.  The order of the list does not matter, since  *)
(* outgoing edges are sorted or only counted.                              *)
(***************************************************************************)
EXTENDS Naturals, Sequences, FiniteSets, FiniteSetsExt

CONSTANTS
  Ids,        \* the tasks of the template
  EdgeLists   \* the lists of edges there may be

ASSUME IdsAssumption == Ids \subseteq Nat /\ IsFiniteSet(Ids)

ASSUME EdgeAssumption ==
  \A list \in EdgeLists :
    IsFiniteSet(list) /\ \A e \in list : e[1] \in Ids /\ e[2] \in Ids

VARIABLES
  edges,      \* the list of edges
  phase,      \* "validate", "sort", or how the last pass ended
  validated,  \* history: the template passed the validation
  nodes,      \* the tasks of this pass
  indegree,   \* indegree[n]: edges into n still to count down
  ready,      \* the queue or heap
  order       \* tasks taken from it, in turn

vars == <<edges, phase, validated, nodes, indegree, ready, order>>

-----------------------------------------------------------------------------
(* Graphs                                                                  *)

\* Mutant: an edge out of a task that is not eligible stays.
PrunedAtTarget(list, active) == {e \in list : e[2] \in active}

\* generate_plan: an edge stays if both its tasks are eligible.
Pruned(list, active) == {e \in list : e[1] \in active /\ e[2] \in active}

Into(list, n) == {e \in list : e[2] = n}
Between(list, m, n) == {e \in list : e[1] = m /\ e[2] = n}

Indegree(list, active) == [n \in active |-> Cardinality(Into(Pruned(list, active), n))]

\* Mutant: a task with one edge into it starts in the queue.
SourcesOffByOne(f) == {n \in DOMAIN f : f[n] <= 1}

Sources(f) == {n \in DOMAIN f : f[n] = 0}

\* Reference: a set of tasks that all wait for one another.
Stuck(list, S) == S # {} /\ \A n \in S : \E e \in list : e[1] \in S /\ e[2] = n
HasCycle(list, active) == \E S \in SUBSET active : Stuck(list, S)

-----------------------------------------------------------------------------

BeginPass(next, list, active) ==
  /\ phase' = next
  /\ nodes' = active
  /\ indegree' = Indegree(list, active)
  /\ ready' = Sources(Indegree(list, active))
  /\ order' = << >>
  /\ UNCHANGED edges

\* A template is loaded, or the planner is given one that never was.
Init ==
  /\ edges \in EdgeLists
  /\ \/ phase = "validate" /\ nodes = Ids
     \/ phase = "sort" /\ nodes \in SUBSET Ids
  /\ validated = FALSE
  /\ indegree = Indegree(edges, nodes)
  /\ ready = Sources(indegree)
  /\ order = << >>

CountedDown(f, list, n) ==
  [m \in DOMAIN f |-> f[m] - Cardinality(Between(list, n, m))]

Visit(n) ==
  LET left == CountedDown(indegree, Pruned(edges, nodes), n)
      freed == {m \in nodes : indegree[m] # 0 /\ left[m] = 0}
  IN  /\ indegree' = left
      /\ ready' = (ready \ {n}) \cup freed
      /\ order' = Append(order, n)
      /\ UNCHANGED <<edges, phase, validated, nodes>>

\* The validation takes the tasks as they come.
VisitAny ==
  /\ phase = "validate"
  /\ \E n \in ready : Visit(n)

\* Mutant: the task with the greatest id.
NextOfReadyLast == Max(ready)

NextOfReady == Min(ready)

\* The planner takes the ready task with the least id.
PopLeast ==
  /\ phase = "sort" /\ ready # {}
  /\ Visit(NextOfReady)

AllVisited == Len(order) = Cardinality(nodes)

\* The template is good: some facts make some of its tasks eligible.
Accept ==
  /\ phase = "validate" /\ ready = {} /\ AllVisited
  /\ \E active \in SUBSET Ids : BeginPass("sort", edges, active)
  /\ validated' = TRUE

Finish(next) == phase' = next /\ UNCHANGED <<edges, validated, nodes, indegree, ready, order>>

\* WorkflowValidationError
Reject == phase = "validate" /\ ready = {} /\ ~AllVisited /\ Finish("rejected")

Return == phase = "sort" /\ ready = {} /\ AllVisited /\ Finish("sorted")

\* PlannerCycleError
RaiseCycle == phase = "sort" /\ ready = {} /\ ~AllVisited /\ Finish("cycle")

Next == VisitAny \/ PopLeast \/ Accept \/ Reject \/ Return \/ RaiseCycle

Spec == Init /\ [][Next]_vars

-----------------------------------------------------------------------------
(* Properties                                                              *)

\* Every variable has its type.
TypeOK ==
  /\ IsFiniteSet(edges) /\ \A e \in edges : e[1] \in Ids /\ e[2] \in Ids
  /\ phase \in {"validate", "sort", "rejected", "sorted", "cycle"}
  /\ validated \in BOOLEAN
  /\ nodes \in SUBSET Ids
  /\ indegree \in [nodes -> Nat]
  /\ ready \in SUBSET nodes
  /\ order \in Seq(nodes)

Taken == {order[i] : i \in DOMAIN order}

\* What is left to count down for n: edges out of tasks not taken yet.
Pending(n) == {e \in Into(Pruned(edges, nodes), n) : e[1] \notin Taken}

\* Loop invariant: a task waits for exactly the edges out of tasks not taken
\* yet, also if an edge is listed twice or leads to its own source; the heap
\* holds the tasks that wait for nothing; no task is taken twice.
LoopInvariant ==
  /\ indegree = [n \in nodes |-> Cardinality(Pending(n))]
  /\ ready = {n \in nodes \ Taken : indegree[n] = 0}
  /\ \A i, j \in DOMAIN order : order[i] = order[j] => i = j

Position(n) == CHOOSE i \in DOMAIN order : order[i] = n

\* Whatever is taken comes after everything it depends on: the order of a
\* plan's tasks never puts a task before one it waits for.
DependenciesFirst ==
  \A e \in Pruned(edges, nodes) :
    e[2] \in Taken => e[1] \in Taken /\ Position(e[1]) < Position(e[2])

\* The pass ends with all tasks of a graph without cycles and fails for any
\* other (reference: no set of tasks all of which wait for one another).
OutcomeIsRight ==
  /\ phase = "sorted" => Taken = nodes /\ ~HasCycle(edges, nodes)
  /\ phase \in {"cycle", "rejected"} => HasCycle(edges, nodes)

\* A template that was loaded never fails with PlannerCycleError, whatever
\* the facts make eligible: pruning does not make cycles.
ValidatedNeverCycles == validated => phase # "cycle"

\* The order is the one and only: each task is the least of those whose
\* dependencies are all before it, so the same facts give the same plan
\* (docs/MILESTONES.md: deterministic output).
LeastFirst ==
  phase \in {"sort", "sorted"} =>
    \A i \in DOMAIN order :
      LET before == {order[j] : j \in 1..(i - 1)}
          free == {n \in nodes \ before :
                     \A e \in Pruned(edges, nodes) : e[2] = n => e[1] \in before}
      IN  order[i] = Min(free)

=============================================================================
