----------------------------- MODULE PlanStore -----------------------------
(***************************************************************************)
(* One plan: its facts, the snapshot of the planner's last answer, and one *)
(* row of the table tasks per task key, under concurrent API requests:     *)
(* PATCH facts (with or without recompute), POST recompute, PATCH status.  *)
(*                                                                         *)
(* Nothing locks the plan.  A request reads in several statements (READ    *)
(* COMMITTED: each sees what is committed when it runs), computes, and     *)
(* writes in one commit.  What it read stays in its session; the commit    *)
(* writes exactly the columns that differ from the session's copy.  So the *)
(* reads are steps of their own here, and Flush is how a commit writes.    *)
(*                                                                         *)
(* The planner and the normaliser of facts are parameters: PlanStore is    *)
(* about what is stored.  The template of a plan is never replaced in      *)
(* place, so its version and the engine's never differ from the snapshot's.*)
(***************************************************************************)
EXTENDS Naturals, FiniteSets

CONSTANTS
  Facts,       \* the fact maps there may be
  Patches,     \* the bodies of PATCH facts: partial fact maps
  Normalize,   \* Normalize[f]: migrate_facts_to_latest_schema, then normalize_facts
  Planner,     \* Planner[f]: the items of generate_plan by task key, where it accepts f
  TaskKeys,
  Decisions,   \* the task keys with a decision tag or ui_actions
  Targets,     \* BOUND: the statuses clients ask for
  Requests,    \* the requests that can be in flight at once
  MaxRequests  \* BOUND: requests in a run

Merge(facts, patch) ==
  [k \in DOMAIN facts \cup DOMAIN patch |->
     IF k \in DOMAIN patch THEN patch[k] ELSE facts[k]]

Plannable == DOMAIN Planner

Open == {"todo", "in_progress", "blocked"}
Status == Open \cup {"done", "skipped"}

ASSUME FactsAssumption ==
  /\ \A f \in Facts : \A p \in Patches : Merge(f, p) \in Facts
  /\ Normalize \in [Facts -> Facts]
  /\ \A f \in Facts : Normalize[Normalize[f]] = Normalize[f]

\* A plan depends only on tasks it holds (planner/engine.py:33-38).
ASSUME PlannerAssumption ==
  /\ Plannable \subseteq Facts
  /\ \A f \in Plannable : /\ DOMAIN Planner[f] \subseteq TaskKeys
                          /\ \A k \in DOMAIN Planner[f] :
                               Planner[f][k].depends_on \subseteq DOMAIN Planner[f]

ASSUME BoundAssumption == MaxRequests \in Nat /\ Targets \subseteq Status

VARIABLES
  facts,     \* plans.facts
  snapshot,  \* plans.snapshot: the items planned and the hash of the facts they are for
  tasks,     \* tasks[k]: the row of task key k
  pc,        \* where each request is
  request,   \* what it was asked to do
  plan,      \* its session's copy of the plan row
  rows,      \* its session's copies of the task rows
  served,    \* requests started so far
  wanted,    \* history: the facts after every acknowledged patch, in turn
  touched    \* history: the tasks whose status a client has set

store == <<facts, snapshot, tasks>>
session == <<pc, request, plan, rows>>
history == <<wanted, touched>>
vars == <<store, session, served, history>>

-----------------------------------------------------------------------------
(* Rows                                                                    *)

NoDate == "none"
NoItem == [depends_on |-> {}, deadline |-> NoDate]

ItemsOf(f) == {Planner[f][k] : k \in DOMAIN Planner[f]}
Items == (UNION {ItemsOf(f) : f \in Plannable}) \cup {NoItem}

\* metadata is the planner's item (blocked_by, deadline_reference_value) and
\* what never changes (block_type is always "hard").
Task == [status : Status, completed_at : BOOLEAN, metadata : Items,
         due_date : {i.deadline : i \in Items}]

NoTask == [status |-> "absent", completed_at |-> FALSE, metadata |-> NoItem, due_date |-> NoDate]

NewTask(item) ==
  [status |-> "todo", completed_at |-> FALSE, metadata |-> item, due_date |-> item.deadline]

Exists(task) == task.status # "absent"

Column(stored, copy, new) == IF new = copy THEN stored ELSE new

\* A commit writes the columns of a row that the request changed in its copy.
Flush(stored, copy, new) ==
  [status       |-> Column(stored.status, copy.status, new.status),
   completed_at |-> Column(stored.completed_at, copy.completed_at, new.completed_at),
   metadata     |-> Column(stored.metadata, copy.metadata, new.metadata),
   due_date     |-> Column(stored.due_date, copy.due_date, new.due_date)]

Snapshot(f) == [planner_plan |-> Planner[f], facts_hash |-> f]

-----------------------------------------------------------------------------
(* Recompute of one task                                                   *)

\* Mutant: a done task that is no longer eligible is dismissed too.
NextStatusDismissingDone(old, eligible) ==
  CASE old = "skipped" /\ eligible   -> "todo"
    [] old # "skipped" /\ ~eligible  -> "skipped"
    [] OTHER                         -> old

NextStatus(old, eligible) ==
  CASE old = "skipped" /\ eligible -> "todo"
    [] old \in Open /\ ~eligible   -> "skipped"
    [] OTHER                       -> old

\* Mutant: the due date is kept if the task was not open before.
RefreshedKeepingDate(task, item) ==
  LET next == NextStatus(task.status, TRUE)
  IN  IF next = "done"
      THEN [task EXCEPT !.status = next]
      ELSE [status |-> next,
            completed_at |-> IF next = task.status THEN task.completed_at ELSE FALSE,
            metadata |-> item,
            due_date |-> IF task.status \in Open THEN item.deadline ELSE task.due_date]

\* An eligible task takes the planner's item unless it is done.
Refreshed(task, item) ==
  LET next == NextStatus(task.status, TRUE)
  IN  IF next = "done"
      THEN [task EXCEPT !.status = next]
      ELSE [status |-> next,
            completed_at |-> IF next = task.status THEN task.completed_at ELSE FALSE,
            metadata |-> item,
            due_date |-> IF next \in Open THEN item.deadline ELSE task.due_date]

\* Mutant: the row is deleted unless it is done.
DismissedForGood(task) == IF task.status = "done" THEN task ELSE NoTask

Dismissed(task) == [task EXCEPT !.status = NextStatus(@, FALSE)]

Recomputed(task, k, items) ==
  IF k \in DOMAIN items
  THEN IF Exists(task) THEN Refreshed(task, items[k]) ELSE NewTask(items[k])
  ELSE IF Exists(task) THEN Dismissed(task) ELSE NoTask

-----------------------------------------------------------------------------
(* Status of one task                                                      *)

\* Mutant: completed_at outlives the reopening of the task.
StatusSetKeepingTime(task, status) ==
  [task EXCEPT !.status = status,
               !.completed_at = @ \/ (status = "done" /\ task.status # "done")]

StatusSet(task, status) ==
  [task EXCEPT !.status = status,
               !.completed_at = (status = "done" /\ (@ \/ task.status # "done"))]

\* Mutant: a skipped or missing dependency does not block.
UnresolvedIfOpen(task, stored) ==
  {d \in task.metadata.depends_on : stored[d].status \in Open}

Unresolved(task, stored) == {d \in task.metadata.depends_on : stored[d].status # "done"}

-----------------------------------------------------------------------------
(* Requests                                                                *)

Request ==
       [kind : {"patch"}, patch : Patches, recompute : BOOLEAN]
  \cup [kind : {"recompute"}, reason : {"FACT_CHANGE", "MANUAL"}]
  \cup [kind : {"status"}, task : TaskKeys, status : Targets, force : BOOLEAN]

NoRequest == [kind |-> "none"]
NoPlan == [facts |-> << >>, snapshot |-> << >>]
NoRows == [k \in TaskKeys |-> NoTask]

Begin(r, req) ==
  /\ pc[r] = "idle"
  /\ served < MaxRequests
  /\ served' = served + 1
  /\ request' = [request EXCEPT ![r] = req]

\* The response: the session is gone.
Respond(r) ==
  /\ pc' = [pc EXCEPT ![r] = "idle"]
  /\ request' = [request EXCEPT ![r] = NoRequest]
  /\ plan' = [plan EXCEPT ![r] = NoPlan]
  /\ rows' = [rows EXCEPT ![r] = NoRows]
  /\ UNCHANGED served

\* get_plan, the first thing PATCH facts and POST recompute do.
GetPlan(r) ==
  /\ \E req \in Request : req.kind \in {"patch", "recompute"} /\ Begin(r, req)
  /\ plan' = [plan EXCEPT ![r] = [facts |-> facts, snapshot |-> snapshot]]
  /\ pc' = [pc EXCEPT ![r] = "plan"]
  /\ UNCHANGED <<store, rows, history>>

\* Mutant: a patch with recompute does not hand on the merged facts.
NewFactsWithoutOverride(r) ==
  Normalize[IF request[r].kind = "patch" /\ ~request[r].recompute
            THEN Merge(plan[r].facts, request[r].patch)
            ELSE plan[r].facts]

\* The facts a request computes with: its patch on the copy it read.
NewFacts(r) ==
  Normalize[IF request[r].kind = "patch"
            THEN Merge(plan[r].facts, request[r].patch)
            ELSE plan[r].facts]

Recomputes(r) ==
  \/ request[r].kind = "recompute"
  \/ request[r].kind = "patch" /\ request[r].recompute

IsFactChange(r) ==
  \/ request[r].kind = "patch"
  \/ request[r].kind = "recompute" /\ request[r].reason = "FACT_CHANGE"

\* Mutant: compares with the stored facts, not with those of the snapshot.
FastPathOnFacts(r) == IsFactChange(r) /\ NewFacts(r) = plan[r].facts

FastPath(r) == IsFactChange(r) /\ NewFacts(r) = plan[r].snapshot.facts_hash

\* The facts column of a commit, and the facts as all patches would have it.
WriteFacts(r) ==
  /\ facts' = Column(facts, plan[r].facts, NewFacts(r))
  /\ wanted' = IF request[r].kind = "patch"
               THEN Normalize[Merge(wanted, request[r].patch)] ELSE wanted
  /\ UNCHANGED touched

\* PATCH facts with recompute=false.
UpdateFacts(r) ==
  /\ pc[r] = "plan" /\ ~Recomputes(r)
  /\ WriteFacts(r)
  /\ Respond(r)
  /\ UNCHANGED <<snapshot, tasks>>

\* The facts hash to that of the snapshot: no task is looked at.
RecomputeNothing(r) ==
  /\ pc[r] = "plan" /\ Recomputes(r) /\ FastPath(r)
  /\ snapshot' = [planner_plan |-> plan[r].snapshot.planner_plan, facts_hash |-> NewFacts(r)]
  /\ WriteFacts(r)
  /\ Respond(r)
  /\ UNCHANGED tasks

\* 400 PLANNER_INPUT_INVALID
RejectFacts(r) ==
  /\ pc[r] = "plan" /\ Recomputes(r) /\ ~FastPath(r)
  /\ NewFacts(r) \notin Plannable
  /\ Respond(r)
  /\ UNCHANGED <<store, history>>

\* generate_plan succeeded; the task rows are read.
ReadTasks(r) ==
  /\ pc[r] = "plan" /\ Recomputes(r) /\ ~FastPath(r)
  /\ NewFacts(r) \in Plannable
  /\ rows' = [rows EXCEPT ![r] = tasks]
  /\ pc' = [pc EXCEPT ![r] = "tasks"]
  /\ UNCHANGED <<store, request, plan, served, history>>

Inserts(r) == {k \in DOMAIN Planner[NewFacts(r)] : ~Exists(rows[r][k])}

\* Another request inserted one of the rows this one would insert.
KeyClash(r) == \E k \in Inserts(r) : Exists(tasks[k])

RecomputePlan(r) ==
  /\ pc[r] = "tasks" /\ ~KeyClash(r)
  /\ LET new == [k \in TaskKeys |-> Recomputed(rows[r][k], k, Planner[NewFacts(r)])]
     IN  tasks' = [k \in TaskKeys |-> Flush(tasks[k], rows[r][k], new[k])]
  /\ snapshot' = Snapshot(NewFacts(r))
  /\ WriteFacts(r)
  /\ Respond(r)

\* uq_tasks_plan_task_key: 500 PERSISTENCE_ERROR, everything is rolled back.
FailRecompute(r) ==
  /\ pc[r] = "tasks" /\ KeyClash(r)
  /\ Respond(r)
  /\ UNCHANGED <<store, history>>

\* PATCH status reads the row first.  Nobody may complete a decision.
GetTask(r) ==
  /\ \E req \in Request :
       /\ req.kind = "status"
       /\ Exists(tasks[req.task])
       /\ req.status = "done" => req.task \notin Decisions
       /\ Begin(r, req)
       /\ rows' = [rows EXCEPT ![r][req.task] = tasks[req.task]]
       /\ pc' = [pc EXCEPT ![r] = IF req.status = "done" THEN "task" ELSE "checked"]
  /\ UNCHANGED <<store, plan, history>>

Blocked(r) ==
  LET k == request[r].task
  IN  Unresolved(rows[r][k], tasks) # {} /\ ~request[r].force

\* The rows of the dependencies are read.
CheckDependencies(r) ==
  /\ pc[r] = "task" /\ ~Blocked(r)
  /\ pc' = [pc EXCEPT ![r] = "checked"]
  /\ UNCHANGED <<store, request, plan, rows, served, history>>

\* 409 TASK_BLOCKED
RefuseBlocked(r) ==
  /\ pc[r] = "task" /\ Blocked(r)
  /\ Respond(r)
  /\ UNCHANGED <<store, history>>

UpdateStatus(r) ==
  /\ pc[r] = "checked"
  /\ LET k == request[r].task
     IN  /\ tasks' = [tasks EXCEPT ![k] =
                        Flush(@, rows[r][k], StatusSet(rows[r][k], request[r].status))]
         /\ touched' = touched \cup {k}
  /\ Respond(r)
  /\ UNCHANGED <<facts, snapshot, wanted>>

Step(r) ==
  \/ GetPlan(r) \/ UpdateFacts(r)
  \/ RecomputeNothing(r) \/ RejectFacts(r) \/ ReadTasks(r) \/ RecomputePlan(r) \/ FailRecompute(r)
  \/ GetTask(r) \/ CheckDependencies(r) \/ RefuseBlocked(r) \/ UpdateStatus(r)

\* What create_plan commits for facts the planner accepts.
Init ==
  /\ facts \in {f \in Plannable : Normalize[f] = f}
  /\ snapshot = Snapshot(facts)
  /\ tasks = [k \in TaskKeys |-> IF k \in DOMAIN Planner[facts]
                                 THEN NewTask(Planner[facts][k]) ELSE NoTask]
  /\ pc = [r \in Requests |-> "idle"]
  /\ request = [r \in Requests |-> NoRequest]
  /\ plan = [r \in Requests |-> NoPlan]
  /\ rows = [r \in Requests |-> NoRows]
  /\ served = 0
  /\ wanted = facts
  /\ touched = {}

\* The bound is reached and every request was answered.
AllServed ==
  /\ served = MaxRequests
  /\ \A r \in Requests : pc[r] = "idle"
  /\ UNCHANGED vars

Next == (\E r \in Requests : Step(r)) \/ AllServed

Spec == Init /\ [][Next]_vars

-----------------------------------------------------------------------------
(* Properties, whatever runs concurrently                                  *)

Snapshots == {Snapshot(f) : f \in Plannable}
Copy == [facts : Facts, snapshot : Snapshots]

\* Every variable has its type; in particular every stored task has a status,
\* a date and dependencies that the planner or a client can have given it.
TypeOK ==
  /\ facts \in Facts /\ wanted \in Facts
  /\ snapshot \in Snapshots
  /\ tasks \in [TaskKeys -> Task \cup {NoTask}]
  /\ pc \in [Requests -> {"idle", "plan", "tasks", "task", "checked"}]
  /\ request \in [Requests -> Request \cup {NoRequest}]
  /\ plan \in [Requests -> Copy \cup {NoPlan}]
  /\ rows \in [Requests -> [TaskKeys -> Task \cup {NoTask}]]
  /\ served \in 0..MaxRequests
  /\ touched \in SUBSET TaskKeys

\* Every task of the snapshot has a row, whichever of two recomputes wrote the
\* snapshot: the frontend and the dependency check look tasks up by key.  It
\* holds because a recompute dismisses rows and never deletes them.
PlannedTasksExist ==
  \A k \in DOMAIN snapshot.planner_plan : Exists(tasks[k])

\* Every dependency a task waits for has a row: a task cannot be blocked by
\* something nobody can ever complete.
DependenciesExist ==
  \A k \in TaskKeys : \A d \in tasks[k].metadata.depends_on : Exists(tasks[d])

\* What a session holds fits where its request is.
SessionFits(r) ==
  /\ pc[r] \in {"plan", "tasks"} => /\ request[r] \in Request
                                    /\ request[r].kind \in {"patch", "recompute"}
                                    /\ plan[r] \in Copy
  /\ pc[r] = "tasks" => Recomputes(r) /\ ~FastPath(r) /\ NewFacts(r) \in Plannable
  /\ pc[r] \in {"task", "checked"} => /\ request[r] \in Request
                                      /\ request[r].kind = "status"
                                      /\ Exists(rows[r][request[r].task])

SessionsFit == \A r \in Requests : SessionFits(r)

\* Rows never disappear behind a session: what the copies of a request show as
\* planned or stored is stored.
CopiesRemain ==
  \A r \in Requests :
    /\ pc[r] \in {"plan", "tasks"} =>
         \A k \in DOMAIN plan[r].snapshot.planner_plan : Exists(tasks[k])
    /\ \A k \in TaskKeys : Exists(rows[r][k]) => Exists(tasks[k])

\* The inductive invariant, beside TypeOK.
StoreInvariant == SessionsFit /\ CopiesRemain /\ PlannedTasksExist /\ DependenciesExist

-----------------------------------------------------------------------------
(* Requests that keep out of each other's way                              *)

Completes(r) == request[r].kind = "status" /\ request[r].status = "done"
Reopens(r) == request[r].kind = "status" /\ request[r].status # "done"

\* No two requests are in flight at once.
NoOverlap ==
  \A q, r \in Requests : pc[q] # "idle" /\ pc[r] # "idle" => q = r

\* No two patches of the facts are.
PatchesApart ==
  \A q, r \in Requests : request[q].kind = "patch" /\ request[r].kind = "patch" => q = r

\* No two requests that recompute are.
RecomputesApart ==
  \A q, r \in Requests : Recomputes(q) /\ Recomputes(r) => q = r

\* Nobody completes a task while a recompute has read the rows or while another
\* request takes a task out of done.
CompletionsApart ==
  \A q, r \in Requests : Completes(q) => pc[r] # "tasks" /\ ~Reopens(r)

-----------------------------------------------------------------------------
(* Properties that only some overlaps can break                            *)

\* Every acknowledged patch is in the facts until a later one replaces it
\* (docs/API.md: the merged facts are stored).
PatchesSurvive == facts = wanted

\* A task no client has set the status of is exactly what the planner says for
\* the facts of the snapshot: as new if planned, else dismissed or absent; in
\* particular it has the planner's due date after it was dismissed and
\* reactivated, and after any number of fast paths.
UntouchedTasksFollowPlan ==
  \A k \in TaskKeys \ touched :
    IF k \in DOMAIN snapshot.planner_plan
    THEN tasks[k] = NewTask(snapshot.planner_plan[k])
    ELSE tasks[k].status \in {"absent", "skipped"}

\* A recompute that is skipped because the facts have not changed leaves the
\* tasks as planned for those facts (plan_service.py: the hash of the snapshot
\* vouches for them).
FastPathIsSound ==
  [][\A r \in Requests : RecomputeNothing(r) /\ facts' = snapshot'.facts_hash
                           => UntouchedTasksFollowPlan']_vars

\* In particular: a task that is eligible again is reactivated; a patch that finds
\* nothing to recompute leaves none dismissed, unless a client has dismissed it
\* (docs/MILESTONES.md).
EligibleIsReactivated ==
  [][\A r \in Requests : RecomputeNothing(r) /\ facts' = snapshot'.facts_hash =>
       \A k \in DOMAIN snapshot'.planner_plan \ touched' : tasks'[k].status # "skipped"]_vars

\* completed_at is set exactly while a task is done.
CompletedWhileDone ==
  \A k \in TaskKeys : tasks[k].completed_at <=> tasks[k].status = "done"

\* A recompute leaves done tasks done (docs/API.md: completed tasks stay done).
RecomputeKeepsDone ==
  [][\A r \in Requests : RecomputePlan(r) =>
       \A k \in TaskKeys : tasks[k].status = "done" => tasks'[k].status = "done"]_vars

\* A task becomes done without force only when every task it waits for is done
\* (docs/API.md: blocked hard dependencies answer 409).
CompletionRespectsDependencies ==
  [][\A k \in TaskKeys :
       tasks[k].status # "done" /\ tasks'[k].status = "done" =>
         \/ \E r \in Requests : request[r].kind = "status" /\ request[r].task = k /\ request[r].force
         \/ \A d \in tasks[k].metadata.depends_on : tasks[d].status = "done"]_vars

-----------------------------------------------------------------------------
(* The abstract plan                                                       *)

Atomic == INSTANCE AtomicPlan WITH
  settled <- snapshot.facts_hash,
  status  <- [k \in TaskKeys |-> tasks[k].status]

\* Requests that do not overlap behave as AtomicPlan tells: several reads, the
\* fast path, copies and column-wise commits are one atomic operation each.
ImplementsAtomicPlan == Atomic!Spec

=============================================================================
