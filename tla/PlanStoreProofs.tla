--------------------------- MODULE PlanStoreProofs ---------------------------
(***************************************************************************)
(* Theorems about PlanStore, for every planner, normaliser, set of task    *)
(* keys and number of requests in flight.                                  *)
(***************************************************************************)
EXTENDS PlanStore, TLAPS

AnyTask == Task \cup {NoTask}

-----------------------------------------------------------------------------
(* Rows                                                                    *)

LEMMA ExistsIffTask ==
  ASSUME NEW task \in AnyTask PROVE Exists(task) <=> task \in Task
BY DEF AnyTask, Task, NoTask, Exists, Status, Open

LEMMA PlannedItem ==
  ASSUME NEW f \in Plannable, NEW k \in DOMAIN Planner[f]
  PROVE  k \in TaskKeys /\ Planner[f][k] \in Items /\ NewTask(Planner[f][k]) \in Task
<1>1. k \in TaskKeys
  BY PlannerAssumption
<1>2. Planner[f][k] \in Items
  BY DEF Items, ItemsOf
<1> QED
  BY <1>1, <1>2 DEF NewTask, Task, Status, Open

LEMMA NextStatusType ==
  ASSUME NEW old \in Status, NEW eligible \in BOOLEAN
  PROVE  NextStatus(old, eligible) \in Status
BY DEF NextStatus, Status, Open

\* A recompute makes a row of every planned task and of every row.
LEMMA RecomputedType ==
  ASSUME NEW f \in Plannable, NEW k \in TaskKeys, NEW task \in AnyTask
  PROVE  /\ k \in DOMAIN Planner[f] \/ Exists(task) => Recomputed(task, k, Planner[f]) \in Task
         /\ k \notin DOMAIN Planner[f] /\ ~Exists(task) => Recomputed(task, k, Planner[f]) = NoTask
         /\ k \in DOMAIN Planner[f] /\ ~Exists(task)
              => Recomputed(task, k, Planner[f]) = NewTask(Planner[f][k])
<1>1. CASE k \in DOMAIN Planner[f] /\ Exists(task)
  <2>1. task \in Task
    BY <1>1, ExistsIffTask
  <2>2. NextStatus(task.status, TRUE) \in Status
    BY <2>1, NextStatusType DEF Task
  <2>3. Planner[f][k] \in Items
    BY <1>1, PlannedItem
  <2>4. Refreshed(task, Planner[f][k]) \in Task
    BY <2>1, <2>2, <2>3 DEF Refreshed, Task
  <2> QED
    BY <1>1, <2>4 DEF Recomputed
<1>2. CASE k \in DOMAIN Planner[f] /\ ~Exists(task)
  BY <1>2, PlannedItem DEF Recomputed
<1>3. CASE k \notin DOMAIN Planner[f] /\ Exists(task)
  <2>1. task \in Task
    BY <1>3, ExistsIffTask
  <2>2. NextStatus(task.status, FALSE) \in Status
    BY <2>1, NextStatusType DEF Task
  <2>3. Dismissed(task) \in Task
    BY <2>1, <2>2 DEF Dismissed, Task
  <2> QED
    BY <1>3, <2>3 DEF Recomputed
<1>4. CASE k \notin DOMAIN Planner[f] /\ ~Exists(task)
  BY <1>4 DEF Recomputed
<1> QED
  BY <1>1, <1>2, <1>3, <1>4

LEMMA FlushRow ==
  ASSUME NEW stored \in Task, NEW copy \in AnyTask, NEW new \in Task
  PROVE  Flush(stored, copy, new) \in Task
BY DEF Flush, Column, Task

LEMMA FlushNothing ==
  ASSUME NEW stored \in AnyTask, NEW copy \in AnyTask
  PROVE  Flush(stored, copy, copy) = stored
BY DEF Flush, Column, Task, NoTask, AnyTask

LEMMA FlushFresh ==
  ASSUME NEW copy \in AnyTask, NEW new \in AnyTask
  PROVE  Flush(copy, copy, new) = new
BY DEF Flush, Column, Task, NoTask, AnyTask

LEMMA StatusSetType ==
  ASSUME NEW task \in Task, NEW status \in Targets
  PROVE  StatusSet(task, status) \in Task
BY BoundAssumption DEF StatusSet, Task

\* What one row becomes when a recompute commits: rows never disappear, planned
\* rows are there, and dependencies are the stored or the planner's.
LEMMA RecomputeCommit ==
  ASSUME NEW f \in Plannable, NEW k \in TaskKeys, NEW stored \in AnyTask, NEW copy \in AnyTask,
         Exists(copy) => Exists(stored),
         k \in DOMAIN Planner[f] /\ ~Exists(copy) => ~Exists(stored)
  PROVE  LET row == Flush(stored, copy, Recomputed(copy, k, Planner[f]))
         IN  /\ row \in AnyTask
             /\ Exists(stored) => Exists(row)
             /\ k \in DOMAIN Planner[f] => Exists(row)
             /\ \/ row.metadata = stored.metadata
                \/ k \in DOMAIN Planner[f] /\ row.metadata = Planner[f][k]
<1> DEFINE new == Recomputed(copy, k, Planner[f])
           row == Flush(stored, copy, new)
<1>1. CASE Exists(copy)
  <2>1. stored \in Task /\ new \in Task
    BY <1>1, ExistsIffTask, RecomputedType
  <2>2. row \in Task
    BY <2>1, FlushRow
  <2>3. /\ row.metadata = stored.metadata \/ row.metadata = new.metadata
        /\ new.metadata = copy.metadata => row.metadata = stored.metadata
    BY DEF Flush, Column
  <2>4. \/ new.metadata = copy.metadata
        \/ k \in DOMAIN Planner[f] /\ new.metadata = Planner[f][k]
    <3>1. copy \in Task
      BY <1>1, ExistsIffTask
    <3> QED
      BY <1>1, <3>1 DEF Recomputed, Refreshed, Dismissed, Task
  <2>5. row \in AnyTask /\ Exists(row)
    BY <2>2, ExistsIffTask DEF AnyTask
  <2> QED
    BY <2>3, <2>4, <2>5
<1>2. CASE ~Exists(copy) /\ k \in DOMAIN Planner[f]
  <2>1. stored = NoTask /\ copy = NoTask
    BY <1>2, ExistsIffTask DEF AnyTask
  <2>2. new = NewTask(Planner[f][k]) /\ new \in Task
    BY <1>2, RecomputedType
  <2>3. row = new
    BY <2>1, <2>2, FlushFresh DEF AnyTask
  <2>4. row.metadata = Planner[f][k]
    BY <2>2, <2>3 DEF NewTask
  <2>5. row \in AnyTask /\ Exists(row)
    BY <2>2, <2>3, ExistsIffTask DEF AnyTask
  <2> QED
    BY <1>2, <2>4, <2>5
<1>3. CASE ~Exists(copy) /\ k \notin DOMAIN Planner[f]
  <2>1. copy = NoTask /\ new = NoTask
    BY <1>3, ExistsIffTask, RecomputedType DEF AnyTask
  <2>2. row = stored
    BY <2>1, FlushNothing
  <2> QED
    BY <1>3, <2>2
<1> QED
  BY <1>1, <1>2, <1>3

-----------------------------------------------------------------------------
(* Types                                                                   *)

TypeInvariant == TypeOK /\ SessionsFit

LEMMA NewFactsType ==
  ASSUME TypeInvariant, NEW r \in Requests, pc[r] \in {"plan", "tasks"}
  PROVE  NewFacts(r) \in Facts /\ Normalize[NewFacts(r)] = NewFacts(r)
<1>1. plan[r].facts \in Facts
  BY DEF TypeInvariant, SessionsFit, SessionFits, Copy
<1>2. request[r].kind = "patch" => request[r].patch \in Patches
  BY DEF TypeInvariant, SessionsFit, SessionFits, Request
<1> DEFINE input == IF request[r].kind = "patch"
                    THEN Merge(plan[r].facts, request[r].patch) ELSE plan[r].facts
<1>3. input \in Facts
  BY <1>1, <1>2, FactsAssumption
<1> HIDE DEF input
<1>4. Normalize[input] \in Facts /\ Normalize[Normalize[input]] = Normalize[input]
  BY <1>3, FactsAssumption
<1> QED
  BY <1>4 DEF NewFacts, input

LEMMA WriteFactsType ==
  ASSUME TypeInvariant, NEW r \in Requests, pc[r] \in {"plan", "tasks"}, WriteFacts(r)
  PROVE  facts' \in Facts /\ wanted' \in Facts
<1>1. facts' \in Facts
  BY NewFactsType DEF WriteFacts, Column, TypeInvariant, TypeOK
<1>2. request[r].kind = "patch" => request[r].patch \in Patches
  BY DEF TypeInvariant, SessionsFit, SessionFits, Request
<1>3. request[r].kind = "patch" => Merge(wanted, request[r].patch) \in Facts
  BY <1>2, FactsAssumption DEF TypeInvariant, TypeOK
<1>4. wanted' \in Facts
  BY <1>3, FactsAssumption DEF WriteFacts, TypeInvariant, TypeOK
<1> QED
  BY <1>1, <1>4

\* The sessions after a response.
LEMMA RespondType ==
  ASSUME TypeInvariant, NEW r \in Requests, Respond(r)
  PROVE  /\ pc' \in [Requests -> {"idle", "plan", "tasks", "task", "checked"}]
         /\ request' \in [Requests -> Request \cup {NoRequest}]
         /\ plan' \in [Requests -> Copy \cup {NoPlan}]
         /\ rows' \in [Requests -> [TaskKeys -> AnyTask]]
         /\ served' \in 0..MaxRequests
         /\ SessionsFit'
<1>1. NoRows \in [TaskKeys -> AnyTask]
  BY DEF NoRows, AnyTask
<1>2. /\ pc' \in [Requests -> {"idle", "plan", "tasks", "task", "checked"}]
      /\ request' \in [Requests -> Request \cup {NoRequest}]
      /\ plan' \in [Requests -> Copy \cup {NoPlan}]
      /\ served' \in 0..MaxRequests
  BY DEF Respond, TypeInvariant, TypeOK
<1>3. rows' \in [Requests -> [TaskKeys -> AnyTask]]
  BY <1>1 DEF Respond, TypeInvariant, TypeOK, AnyTask
<1>4. ASSUME NEW q \in Requests PROVE SessionFits(q)'
  <2>1. CASE q = r
    BY <2>1 DEF Respond, TypeInvariant, TypeOK, SessionFits
  <2>2. CASE q # r
    BY <2>2 DEF Respond, TypeInvariant, TypeOK, SessionsFit, SessionFits, Recomputes, FastPath, IsFactChange, NewFacts
  <2> QED
    BY <2>1, <2>2
<1> QED
  BY <1>2, <1>3, <1>4 DEF SessionsFit

LEMMA InitTyped ==
  ASSUME Init PROVE TypeInvariant
<1>1. facts \in Facts /\ wanted \in Facts /\ snapshot \in Snapshots
  BY PlannerAssumption DEF Init, Snapshots
<1>2. tasks \in [TaskKeys -> AnyTask]
  <2>1. ASSUME NEW k \in TaskKeys
        PROVE  (IF k \in DOMAIN Planner[facts] THEN NewTask(Planner[facts][k]) ELSE NoTask) \in AnyTask
    BY PlannedItem DEF Init, AnyTask
  <2> QED
    BY <2>1 DEF Init
<1>3. NoRows \in [TaskKeys -> AnyTask]
  BY DEF NoRows, AnyTask
<1>4. /\ pc \in [Requests -> {"idle", "plan", "tasks", "task", "checked"}]
      /\ request \in [Requests -> Request \cup {NoRequest}]
      /\ plan \in [Requests -> Copy \cup {NoPlan}]
      /\ rows \in [Requests -> [TaskKeys -> AnyTask]]
      /\ touched \in SUBSET TaskKeys
  BY <1>3 DEF Init
<1>5. served \in 0..MaxRequests
  BY BoundAssumption DEF Init
<1>6. SessionsFit
  BY DEF Init, SessionsFit, SessionFits
<1> QED
  BY <1>1, <1>2, <1>4, <1>5, <1>6 DEF TypeInvariant, TypeOK, AnyTask

LEMMA GetPlanTyped ==
  ASSUME TypeInvariant, NEW r \in Requests, GetPlan(r) PROVE TypeInvariant'
<1>1. PICK req \in Request : req.kind \in {"patch", "recompute"} /\ Begin(r, req)
  BY DEF GetPlan
<1>2. [facts |-> facts, snapshot |-> snapshot] \in Copy
  BY DEF TypeInvariant, TypeOK, Copy
<1>3. served' \in 0..MaxRequests
  BY <1>1, BoundAssumption DEF Begin, TypeInvariant, TypeOK
<1>4. TypeOK'
  BY <1>1, <1>2, <1>3 DEF Begin, GetPlan, TypeInvariant, TypeOK, store, history
<1>5. ASSUME NEW q \in Requests PROVE SessionFits(q)'
  <2>1. CASE q = r
    BY <1>1, <1>2, <2>1 DEF Begin, GetPlan, TypeInvariant, TypeOK, SessionFits
  <2>2. CASE q # r
    BY <1>1, <2>2 DEF Begin, GetPlan, TypeInvariant, TypeOK, SessionsFit, SessionFits, Recomputes, FastPath, IsFactChange, NewFacts
  <2> QED
    BY <2>1, <2>2
<1> QED
  BY <1>4, <1>5 DEF TypeInvariant, SessionsFit

LEMMA UpdateFactsTyped ==
  ASSUME TypeInvariant, NEW r \in Requests, UpdateFacts(r) PROVE TypeInvariant'
<1>1. facts' \in Facts /\ wanted' \in Facts /\ touched' = touched
  BY WriteFactsType DEF UpdateFacts, WriteFacts
<1> QED
  BY <1>1, RespondType DEF UpdateFacts, TypeInvariant, TypeOK, AnyTask

LEMMA RecomputeNothingTyped ==
  ASSUME TypeInvariant, NEW r \in Requests, RecomputeNothing(r) PROVE TypeInvariant'
<1>1. facts' \in Facts /\ wanted' \in Facts /\ touched' = touched
  BY WriteFactsType DEF RecomputeNothing, WriteFacts
<1>2. plan[r].snapshot \in Snapshots
  BY DEF RecomputeNothing, TypeInvariant, SessionsFit, SessionFits, Copy
<1>3. snapshot' = plan[r].snapshot
  BY <1>2 DEF RecomputeNothing, FastPath, Snapshots, Snapshot
<1> QED
  BY <1>1, <1>2, <1>3, RespondType DEF RecomputeNothing, TypeInvariant, TypeOK, AnyTask

LEMMA AnswerOnlyTyped ==
  ASSUME TypeInvariant, NEW r \in Requests, Respond(r), UNCHANGED <<store, history>>
  PROVE  TypeInvariant'
BY RespondType DEF store, history, TypeInvariant, TypeOK, AnyTask

LEMMA ReadTasksTyped ==
  ASSUME TypeInvariant, NEW r \in Requests, ReadTasks(r) PROVE TypeInvariant'
<1>1. TypeOK'
  BY DEF ReadTasks, TypeInvariant, TypeOK, store, history
<1>2. ASSUME NEW q \in Requests PROVE SessionFits(q)'
  BY DEF ReadTasks, TypeInvariant, TypeOK, SessionsFit, SessionFits, Recomputes, FastPath, IsFactChange, NewFacts
<1> QED
  BY <1>1, <1>2 DEF TypeInvariant, SessionsFit

\* The facts of a recompute that read the tasks, and the rows it commits.
LEMMA RecomputePlanRows ==
  ASSUME TypeInvariant, CopiesRemain, NEW r \in Requests, RecomputePlan(r), NEW k \in TaskKeys
  PROVE  /\ NewFacts(r) \in Plannable
         /\ tasks'[k] \in AnyTask
         /\ Exists(tasks[k]) => Exists(tasks'[k])
         /\ k \in DOMAIN Planner[NewFacts(r)] => Exists(tasks'[k])
         /\ \/ tasks'[k].metadata = tasks[k].metadata
            \/ k \in DOMAIN Planner[NewFacts(r)] /\ tasks'[k].metadata = Planner[NewFacts(r)][k]
<1>1. NewFacts(r) \in Plannable
  BY DEF RecomputePlan, TypeInvariant, SessionsFit, SessionFits
<1>2. tasks'[k] = Flush(tasks[k], rows[r][k], Recomputed(rows[r][k], k, Planner[NewFacts(r)]))
  BY DEF RecomputePlan
<1>3. tasks[k] \in AnyTask /\ rows[r][k] \in AnyTask
  BY DEF TypeInvariant, TypeOK, AnyTask
<1>4. Exists(rows[r][k]) => Exists(tasks[k])
  BY DEF CopiesRemain
<1>5. k \in DOMAIN Planner[NewFacts(r)] /\ ~Exists(rows[r][k]) => ~Exists(tasks[k])
  BY DEF RecomputePlan, KeyClash, Inserts
<1> DEFINE f == NewFacts(r)
           row == Flush(tasks[k], rows[r][k], Recomputed(rows[r][k], k, Planner[f]))
<1>6. /\ row \in AnyTask
      /\ Exists(tasks[k]) => Exists(row)
      /\ k \in DOMAIN Planner[f] => Exists(row)
      /\ \/ row.metadata = tasks[k].metadata
         \/ k \in DOMAIN Planner[f] /\ row.metadata = Planner[f][k]
  <2> HIDE DEF f
  <2> QED
    BY <1>1, <1>3, <1>4, <1>5, RecomputeCommit DEF f
<1> HIDE DEF f
<1>7. tasks'[k] = row
  BY <1>2 DEF f
<1> HIDE DEF row
<1> QED
  BY <1>1, <1>6, <1>7 DEF f

LEMMA RecomputePlanTyped ==
  ASSUME TypeInvariant, CopiesRemain, NEW r \in Requests, RecomputePlan(r) PROVE TypeInvariant'
<1>1. facts' \in Facts /\ wanted' \in Facts /\ touched' = touched
  BY WriteFactsType DEF RecomputePlan, WriteFacts
<1>2. NewFacts(r) \in Plannable
  BY DEF RecomputePlan, TypeInvariant, SessionsFit, SessionFits
<1>3. snapshot' \in Snapshots
  BY <1>2 DEF RecomputePlan, Snapshots
<1>4. tasks' \in [TaskKeys -> AnyTask]
  <2>1. DOMAIN tasks' = TaskKeys /\ tasks' = [k \in TaskKeys |-> tasks'[k]]
    BY DEF RecomputePlan
  <2>2. \A k \in TaskKeys : tasks'[k] \in AnyTask
    BY RecomputePlanRows
  <2> QED
    BY <2>1, <2>2
<1> QED
  BY <1>1, <1>3, <1>4, RespondType DEF RecomputePlan, TypeInvariant, TypeOK, AnyTask

LEMMA GetTaskTyped ==
  ASSUME TypeInvariant, NEW r \in Requests, GetTask(r) PROVE TypeInvariant'
<1>1. PICK req \in Request :
        /\ req.kind = "status"
        /\ Exists(tasks[req.task])
        /\ Begin(r, req)
        /\ rows' = [rows EXCEPT ![r][req.task] = tasks[req.task]]
        /\ pc' = [pc EXCEPT ![r] = IF req.status = "done" THEN "task" ELSE "checked"]
  BY DEF GetTask
<1>2. req.task \in TaskKeys
  BY <1>1 DEF Request
<1>3. served' \in 0..MaxRequests
  BY <1>1, BoundAssumption DEF Begin, TypeInvariant, TypeOK
<1>4. TypeOK'
  <2>1. request' \in [Requests -> Request \cup {NoRequest}]
    BY <1>1 DEF Begin, TypeInvariant, TypeOK
  <2>2. rows' \in [Requests -> [TaskKeys -> Task \cup {NoTask}]]
    BY <1>1, <1>2 DEF TypeInvariant, TypeOK
  <2>3. pc' \in [Requests -> {"idle", "plan", "tasks", "task", "checked"}]
    BY <1>1 DEF TypeInvariant, TypeOK
  <2> QED
    BY <1>3, <2>1, <2>2, <2>3 DEF GetTask, TypeInvariant, TypeOK, store, history
<1>5. ASSUME NEW q \in Requests PROVE SessionFits(q)'
  <2>1. CASE q = r
    <3>1. request'[r] = req /\ rows'[r][req.task] = tasks[req.task]
      BY <1>1, <1>2 DEF Begin, TypeInvariant, TypeOK
    <3>2. pc'[r] \in {"task", "checked"}
      BY <1>1 DEF TypeInvariant, TypeOK
    <3> QED
      BY <1>1, <2>1, <3>1, <3>2 DEF SessionFits, Exists
  <2>2. CASE q # r
    BY <1>1, <2>2 DEF Begin, GetTask, TypeInvariant, TypeOK, SessionsFit, SessionFits, Recomputes, FastPath, IsFactChange, NewFacts
  <2> QED
    BY <2>1, <2>2
<1> QED
  BY <1>4, <1>5 DEF TypeInvariant, SessionsFit

LEMMA CheckDependenciesTyped ==
  ASSUME TypeInvariant, NEW r \in Requests, CheckDependencies(r) PROVE TypeInvariant'
<1>1. TypeOK'
  BY DEF CheckDependencies, TypeInvariant, TypeOK, store, history
<1>2. ASSUME NEW q \in Requests PROVE SessionFits(q)'
  BY DEF CheckDependencies, TypeInvariant, TypeOK, SessionsFit, SessionFits, Recomputes, FastPath, IsFactChange, NewFacts
<1> QED
  BY <1>1, <1>2 DEF TypeInvariant, SessionsFit

\* The row that PATCH status commits: it is there, and waits for what it waited for.
LEMMA UpdateStatusRow ==
  ASSUME TypeInvariant, CopiesRemain, NEW r \in Requests, UpdateStatus(r)
  PROVE  LET k == request[r].task
             row == Flush(tasks[k], rows[r][k], StatusSet(rows[r][k], request[r].status))
         IN  /\ k \in TaskKeys
             /\ row \in Task
             /\ row.metadata = tasks[k].metadata
             /\ tasks' = [tasks EXCEPT ![k] = row]
<1> DEFINE k == request[r].task
           new == StatusSet(rows[r][k], request[r].status)
<1>1. request[r] \in Request /\ request[r].kind = "status" /\ Exists(rows[r][k])
  BY DEF UpdateStatus, TypeInvariant, SessionsFit, SessionFits
<1>2. k \in TaskKeys /\ request[r].status \in Targets
  BY <1>1 DEF Request
<1>3. rows[r][k] \in AnyTask /\ tasks[k] \in AnyTask
  BY <1>2 DEF TypeInvariant, TypeOK, AnyTask
<1>4. rows[r][k] \in Task /\ tasks[k] \in Task
  BY <1>1, <1>2, <1>3, ExistsIffTask DEF CopiesRemain
<1>5. new \in Task /\ new.metadata = rows[r][k].metadata
  BY <1>2, <1>4, StatusSetType DEF StatusSet, Task
<1>6. Flush(tasks[k], rows[r][k], new) \in Task
  BY <1>4, <1>5, FlushRow DEF AnyTask
<1>7. Flush(tasks[k], rows[r][k], new).metadata = tasks[k].metadata
  BY <1>5 DEF Flush, Column
<1>8. tasks' = [tasks EXCEPT ![k] = Flush(tasks[k], rows[r][k], new)]
  BY DEF UpdateStatus
<1> QED
  BY <1>2, <1>6, <1>7, <1>8

LEMMA UpdateStatusTyped ==
  ASSUME TypeInvariant, CopiesRemain, NEW r \in Requests, UpdateStatus(r) PROVE TypeInvariant'
<1>1. tasks' \in [TaskKeys -> Task \cup {NoTask}]
  BY UpdateStatusRow DEF TypeInvariant, TypeOK
<1>2. touched' \in SUBSET TaskKeys
  BY UpdateStatusRow DEF UpdateStatus, TypeInvariant, TypeOK
<1> QED
  BY <1>1, <1>2, RespondType DEF UpdateStatus, TypeInvariant, TypeOK, AnyTask

LEMMA StepTyped ==
  ASSUME TypeInvariant, CopiesRemain, [Next]_vars PROVE TypeInvariant'
<1>1. ASSUME NEW r \in Requests, Step(r) PROVE TypeInvariant'
  <2>1. CASE GetPlan(r)
    BY <2>1, GetPlanTyped
  <2>2. CASE UpdateFacts(r)
    BY <2>2, UpdateFactsTyped
  <2>3. CASE RecomputeNothing(r)
    BY <2>3, RecomputeNothingTyped
  <2>4. CASE RejectFacts(r) \/ FailRecompute(r) \/ RefuseBlocked(r)
    BY <2>4, AnswerOnlyTyped DEF RejectFacts, FailRecompute, RefuseBlocked
  <2>5. CASE ReadTasks(r)
    BY <2>5, ReadTasksTyped
  <2>6. CASE RecomputePlan(r)
    BY <2>6, RecomputePlanTyped
  <2>7. CASE GetTask(r)
    BY <2>7, GetTaskTyped
  <2>8. CASE CheckDependencies(r)
    BY <2>8, CheckDependenciesTyped
  <2>9. CASE UpdateStatus(r)
    BY <2>9, UpdateStatusTyped
  <2> QED
    BY <1>1, <2>1, <2>2, <2>3, <2>4, <2>5, <2>6, <2>7, <2>8, <2>9 DEF Step
<1>2. CASE UNCHANGED vars
  BY <1>2 DEF vars, store, session, history, TypeInvariant, TypeOK, SessionsFit, SessionFits, Recomputes, FastPath, IsFactChange, NewFacts
<1> QED
  BY <1>1, <1>2 DEF Next, AllServed

-----------------------------------------------------------------------------
(* Rows remain                                                             *)

\* Rows remain and sessions copy what is stored or drop what they had.
LEMMA KeepsCopies ==
  ASSUME TypeInvariant, CopiesRemain, NEW r \in Requests, Respond(r),
         \A k \in TaskKeys : Exists(tasks[k]) => Exists(tasks'[k])
  PROVE  CopiesRemain'
<1>1. ASSUME NEW q \in Requests, pc'[q] \in {"plan", "tasks"},
             NEW k \in DOMAIN plan'[q].snapshot.planner_plan
      PROVE  Exists(tasks'[k])
  <2>1. q # r /\ plan'[q] = plan[q] /\ pc'[q] = pc[q]
    BY <1>1 DEF Respond, TypeInvariant, TypeOK
  <2>2. Exists(tasks[k])
    BY <1>1, <2>1 DEF CopiesRemain
  <2>3. k \in TaskKeys
    BY <1>1, <2>1, PlannerAssumption
       DEF TypeInvariant, SessionsFit, SessionFits, Copy, Snapshots, Snapshot
  <2> QED
    BY <2>2, <2>3
<1>2. ASSUME NEW q \in Requests, NEW k \in TaskKeys, Exists(rows'[q][k])
      PROVE  Exists(tasks'[k])
  <2>1. CASE q = r
    BY <1>2, <2>1 DEF Respond, NoRows, NoTask, Exists, TypeInvariant, TypeOK
  <2>2. CASE q # r
    BY <1>2, <2>2 DEF Respond, CopiesRemain, TypeInvariant, TypeOK
  <2> QED
    BY <2>1, <2>2
<1> QED
  BY <1>1, <1>2 DEF CopiesRemain, Exists

LEMMA SnapshotKeys ==
  ASSUME TypeOK, NEW k \in DOMAIN snapshot.planner_plan
  PROVE  k \in TaskKeys
BY PlannerAssumption DEF TypeOK, Snapshots, Snapshot

LEMMA ItemDependencies ==
  ASSUME NEW item \in Items PROVE item.depends_on \subseteq TaskKeys
BY PlannerAssumption DEF Items, ItemsOf, NoItem

\* A step that leaves the rows alone, or sets the status of one.
LEMMA SameDependencies ==
  ASSUME TypeInvariant, DependenciesExist,
         \A k \in TaskKeys : /\ Exists(tasks[k]) => Exists(tasks'[k])
                             /\ tasks'[k].metadata = tasks[k].metadata
  PROVE  DependenciesExist'
<1>1. ASSUME NEW k \in TaskKeys, NEW d \in tasks'[k].metadata.depends_on
      PROVE  Exists(tasks'[d])
  <2>1. tasks[k].metadata \in Items
    BY DEF TypeInvariant, TypeOK, Task, NoTask, Items
  <2>2. d \in TaskKeys
    BY <1>1, <2>1, ItemDependencies
  <2> QED
    BY <1>1, <2>2 DEF DependenciesExist
<1> QED
  BY <1>1 DEF DependenciesExist, Exists

LEMMA StepKeepsRows ==
  ASSUME TypeInvariant, CopiesRemain, PlannedTasksExist, DependenciesExist, [Next]_vars
  PROVE  CopiesRemain' /\ PlannedTasksExist' /\ DependenciesExist'
<1> DEFINE Goal == CopiesRemain' /\ PlannedTasksExist' /\ DependenciesExist'
<1>1. ASSUME NEW r \in Requests, Respond(r), UNCHANGED tasks, snapshot' \in {snapshot, plan[r].snapshot},
             snapshot' = plan[r].snapshot => snapshot' = snapshot \/ pc[r] = "plan"
      PROVE  Goal
  <2>1. CopiesRemain'
    BY <1>1, KeepsCopies
  <2>2. PlannedTasksExist'
    BY <1>1 DEF PlannedTasksExist, CopiesRemain, Exists
  <2>3. DependenciesExist'
    BY <1>1 DEF DependenciesExist, Exists
  <2> QED
    BY <2>1, <2>2, <2>3
<1>2. ASSUME NEW r \in Requests, GetPlan(r) PROVE Goal
  <2>1. CopiesRemain'
    BY <1>2 DEF GetPlan, Begin, CopiesRemain, PlannedTasksExist, TypeInvariant, TypeOK, store, Exists
  <2> QED
    BY <1>2, <2>1 DEF GetPlan, store, PlannedTasksExist, DependenciesExist, Exists
<1>3. ASSUME NEW r \in Requests, ReadTasks(r) PROVE Goal
  <2>1. CopiesRemain'
    BY <1>3 DEF ReadTasks, CopiesRemain, TypeInvariant, TypeOK, store, Exists
  <2> QED
    BY <1>3, <2>1 DEF ReadTasks, store, PlannedTasksExist, DependenciesExist, Exists
<1>4. ASSUME NEW r \in Requests, GetTask(r) PROVE Goal
  <2>1. PICK key \in TaskKeys : rows' = [rows EXCEPT ![r][key] = tasks[key]]
    BY <1>4 DEF GetTask, Request
  <2>2. \A q \in Requests : pc'[q] \in {"plan", "tasks"} => pc'[q] = pc[q]
    BY <1>4 DEF GetTask, TypeInvariant, TypeOK
  <2>3. ASSUME NEW q \in Requests, NEW k \in TaskKeys, Exists(rows'[q][k])
        PROVE  Exists(tasks[k])
    <3>1. rows'[q][k] = IF q = r /\ k = key THEN tasks[k] ELSE rows[q][k]
      BY <2>1 DEF TypeInvariant, TypeOK
    <3> QED
      BY <2>3, <3>1 DEF CopiesRemain
  <2>4. CopiesRemain'
    BY <1>4, <2>2, <2>3 DEF GetTask, CopiesRemain, store, Exists
  <2> QED
    BY <1>4, <2>4 DEF GetTask, store, PlannedTasksExist, DependenciesExist, Exists
<1>5. ASSUME NEW r \in Requests, CheckDependencies(r) PROVE Goal
  BY <1>5 DEF CheckDependencies, store, CopiesRemain, PlannedTasksExist, DependenciesExist, Exists,
              TypeInvariant, TypeOK
<1>6. ASSUME NEW r \in Requests, RecomputePlan(r) PROVE Goal
  <2> DEFINE f == NewFacts(r)
  <2>1. f \in Plannable
    BY <1>6 DEF RecomputePlan, TypeInvariant, SessionsFit, SessionFits
  <2>2. \A k \in TaskKeys : /\ Exists(tasks[k]) => Exists(tasks'[k])
                            /\ k \in DOMAIN Planner[f] => Exists(tasks'[k])
                            /\ \/ tasks'[k].metadata = tasks[k].metadata
                               \/ k \in DOMAIN Planner[f] /\ tasks'[k].metadata = Planner[f][k]
    BY <1>6, RecomputePlanRows
  <2>3. snapshot'.planner_plan = Planner[f]
    BY <1>6 DEF RecomputePlan, Snapshot
  <2> HIDE DEF f
  <2>4. CopiesRemain'
    BY <1>6, <2>2, KeepsCopies DEF RecomputePlan
  <2>5. PlannedTasksExist'
    BY <2>1, <2>2, <2>3, PlannerAssumption DEF PlannedTasksExist, Exists
  <2>6. ASSUME NEW k \in TaskKeys, NEW d \in tasks'[k].metadata.depends_on
        PROVE  Exists(tasks'[d])
    <3>1. CASE tasks'[k].metadata = tasks[k].metadata
      <4>1. tasks[k].metadata \in Items
        BY DEF TypeInvariant, TypeOK, Task, NoTask, Items
      <4>2. d \in TaskKeys /\ Exists(tasks[d])
        BY <2>6, <3>1, <4>1, ItemDependencies DEF DependenciesExist
      <4> QED
        BY <2>2, <4>2
    <3>2. CASE k \in DOMAIN Planner[f] /\ tasks'[k].metadata = Planner[f][k]
      <4>1. d \in DOMAIN Planner[f] /\ d \in TaskKeys
        BY <2>1, <2>6, <3>2, PlannerAssumption
      <4> QED
        BY <2>2, <4>1
    <3> QED
      BY <2>2, <3>1, <3>2
  <2>7. DependenciesExist'
    BY <2>6 DEF DependenciesExist, Exists
  <2> QED
    BY <2>4, <2>5, <2>7
<1>7. ASSUME NEW r \in Requests, UpdateStatus(r) PROVE Goal
  <2> DEFINE key == request[r].task
             row == Flush(tasks[key], rows[r][key], StatusSet(rows[r][key], request[r].status))
  <2>1. key \in TaskKeys /\ row \in Task /\ row.metadata = tasks[key].metadata
        /\ tasks' = [tasks EXCEPT ![key] = row]
    BY <1>7, UpdateStatusRow
  <2>2. Exists(row)
    BY <2>1, ExistsIffTask DEF AnyTask
  <2> HIDE DEF row, key
  <2>3. \A k \in TaskKeys : /\ Exists(tasks[k]) => Exists(tasks'[k])
                            /\ tasks'[k].metadata = tasks[k].metadata
    BY <2>1, <2>2 DEF TypeInvariant, TypeOK
  <2>4. CopiesRemain'
    BY <1>7, <2>3, KeepsCopies DEF UpdateStatus
  <2>5. PlannedTasksExist'
    <3>1. snapshot' = snapshot
      BY <1>7 DEF UpdateStatus
    <3> QED
      BY <2>3, <3>1, SnapshotKeys DEF PlannedTasksExist, TypeInvariant, Exists
  <2>6. DependenciesExist'
    BY <2>3, SameDependencies
  <2> QED
    BY <2>4, <2>5, <2>6
<1>8. ASSUME NEW r \in Requests, Step(r) PROVE Goal
  <2>1. CASE UpdateFacts(r)
    BY <1>1, <2>1 DEF UpdateFacts
  <2>2. CASE RecomputeNothing(r)
    <3>1. plan[r].snapshot \in Snapshots
      BY <2>2 DEF RecomputeNothing, TypeInvariant, SessionsFit, SessionFits, Copy
    <3>2. snapshot' = plan[r].snapshot
      BY <2>2, <3>1 DEF RecomputeNothing, FastPath, Snapshots, Snapshot
    <3> QED
      BY <1>1, <2>2, <3>2 DEF RecomputeNothing
  <2>3. CASE RejectFacts(r) \/ FailRecompute(r) \/ RefuseBlocked(r)
    BY <1>1, <2>3 DEF RejectFacts, FailRecompute, RefuseBlocked, store
  <2> QED
    BY <1>2, <1>3, <1>4, <1>5, <1>6, <1>7, <1>8, <2>1, <2>2, <2>3 DEF Step
<1>9. CASE UNCHANGED vars
  BY <1>9 DEF vars, store, session, history, CopiesRemain, PlannedTasksExist, DependenciesExist, Exists
<1> QED
  BY <1>8, <1>9 DEF Next, AllServed

LEMMA InitRows ==
  ASSUME Init PROVE CopiesRemain /\ PlannedTasksExist /\ DependenciesExist
<1>1. \A k \in DOMAIN Planner[facts] : Exists(tasks[k])
  BY PlannedItem DEF Init, Exists, NewTask
<1>2. CopiesRemain
  BY DEF Init, CopiesRemain, NoRows, NoTask, Exists
<1>3. PlannedTasksExist
  BY <1>1 DEF Init, PlannedTasksExist, Snapshot
<1>4. ASSUME NEW k \in TaskKeys, NEW d \in tasks[k].metadata.depends_on
      PROVE  Exists(tasks[d])
  <2>1. CASE k \in DOMAIN Planner[facts]
    <3>1. d \in DOMAIN Planner[facts]
      BY <1>4, <2>1, PlannerAssumption DEF Init, NewTask
    <3> QED
      BY <1>1, <3>1
  <2>2. CASE k \notin DOMAIN Planner[facts]
    BY <1>4, <2>2 DEF Init, NoTask, NoItem
  <2> QED
    BY <2>1, <2>2
<1> QED
  BY <1>2, <1>3, <1>4 DEF DependenciesExist

-----------------------------------------------------------------------------
(* Theorems                                                                *)

IInv == TypeOK /\ StoreInvariant

THEOREM InvariantHolds == Spec => []IInv
<1>1. Init => IInv
  BY InitTyped, InitRows DEF IInv, StoreInvariant, TypeInvariant
<1>2. IInv /\ [Next]_vars => IInv'
  BY StepTyped, StepKeepsRows DEF IInv, StoreInvariant, TypeInvariant
<1> QED
  BY <1>1, <1>2, PTL DEF Spec

\* Every stored value is one the planner, the normaliser or a client can have
\* given it, and the snapshot's items are the planner's answer for its facts hash.
THEOREM TypeCorrect == Spec => []TypeOK
BY InvariantHolds, PTL DEF IInv

\* Whichever requests overlap, every task of the stored snapshot has a row.
THEOREM PlannedTasksAlwaysExist == Spec => []PlannedTasksExist
BY InvariantHolds, PTL DEF IInv, StoreInvariant

\* Whichever requests overlap, no task waits for a task that has no row.
THEOREM DependenciesAlwaysExist == Spec => []DependenciesExist
BY InvariantHolds, PTL DEF IInv, StoreInvariant

-----------------------------------------------------------------------------
(* Requests that do not overlap                                            *)

\* What a request holds is what is stored, and the stored facts are normalised.
Fresh ==
  /\ Normalize[facts] = facts
  /\ \A r \in Requests :
       /\ pc[r] \in {"plan", "tasks"} => plan[r] = [facts |-> facts, snapshot |-> snapshot]
       /\ pc[r] = "tasks" => rows[r] = tasks
       /\ pc[r] \in {"task", "checked"} => rows[r][request[r].task] = tasks[request[r].task]

Inv1 == IInv /\ Fresh

LEMMA FreshFacts ==
  ASSUME TypeInvariant, Fresh, NEW r \in Requests, pc[r] \in {"plan", "tasks"}, WriteFacts(r)
  PROVE  /\ facts' = NewFacts(r)
         /\ request[r].kind = "patch" => NewFacts(r) = Normalize[Merge(facts, request[r].patch)]
         /\ request[r].kind # "patch" => NewFacts(r) = facts
         /\ Normalize[facts'] = facts'
<1>1. facts' = NewFacts(r)
  BY DEF WriteFacts, Column, Fresh
<1>2. /\ request[r].kind = "patch" => NewFacts(r) = Normalize[Merge(facts, request[r].patch)]
      /\ request[r].kind # "patch" => NewFacts(r) = facts
  BY DEF NewFacts, Fresh
<1>3. Normalize[NewFacts(r)] = NewFacts(r)
  BY NewFactsType
<1> QED
  BY <1>1, <1>2, <1>3

\* A recompute of one request alone recomputes the stored rows.
LEMMA FreshRecompute ==
  ASSUME TypeInvariant, Fresh, NEW r \in Requests, RecomputePlan(r)
  PROVE  /\ NewFacts(r) \in Plannable
         /\ tasks' = [k \in TaskKeys |-> Recomputed(tasks[k], k, Planner[NewFacts(r)])]
<1>1. NewFacts(r) \in Plannable
  BY DEF RecomputePlan, TypeInvariant, SessionsFit, SessionFits
<1> DEFINE f == NewFacts(r)
<1>2. rows[r] = tasks
  BY DEF RecomputePlan, Fresh
<1>3. ASSUME NEW k \in TaskKeys
      PROVE  Flush(tasks[k], tasks[k], Recomputed(tasks[k], k, Planner[f]))
               = Recomputed(tasks[k], k, Planner[f])
  <2> HIDE DEF f
  <2>1. tasks[k] \in AnyTask
    BY DEF TypeInvariant, TypeOK, AnyTask
  <2>2. Recomputed(tasks[k], k, Planner[f]) \in AnyTask
    BY <1>1, <2>1, RecomputedType DEF AnyTask, f
  <2> QED
    BY <2>1, <2>2, FlushFresh
<1>4. tasks' = [k \in TaskKeys |-> Flush(tasks[k], tasks[k], Recomputed(tasks[k], k, Planner[f]))]
  BY <1>2 DEF RecomputePlan
<1> HIDE DEF f
<1> QED
  BY <1>1, <1>3, <1>4 DEF f

LEMMA FreshUpdateStatus ==
  ASSUME TypeInvariant, CopiesRemain, Fresh, NEW r \in Requests, UpdateStatus(r)
  PROVE  LET k == request[r].task
         IN  /\ k \in TaskKeys
             /\ request[r].status \in Targets
             /\ tasks[k] \in Task
             /\ tasks' = [tasks EXCEPT ![k] = StatusSet(tasks[k], request[r].status)]
<1> DEFINE k == request[r].task
           new == StatusSet(tasks[k], request[r].status)
<1>1. request[r] \in Request /\ request[r].kind = "status" /\ Exists(rows[r][k])
  BY DEF UpdateStatus, TypeInvariant, SessionsFit, SessionFits
<1>2. k \in TaskKeys /\ request[r].status \in Targets
  BY <1>1 DEF Request
<1>3. rows[r][k] = tasks[k]
  BY DEF UpdateStatus, Fresh
<1>4. tasks[k] \in Task
  BY <1>1, <1>2, <1>3, ExistsIffTask DEF TypeInvariant, TypeOK, AnyTask
<1>5. new \in Task
  BY <1>2, <1>4, StatusSetType
<1>6. Flush(tasks[k], tasks[k], new) = new
  BY <1>4, <1>5, FlushFresh DEF AnyTask
<1>7. tasks' = [tasks EXCEPT ![k] = Flush(tasks[k], tasks[k], new)]
  BY <1>3 DEF UpdateStatus
<1> QED
  BY <1>2, <1>4, <1>6, <1>7

LEMMA InitFresh ==
  ASSUME Init PROVE Fresh
BY DEF Init, Fresh

LEMMA StepFresh ==
  ASSUME NoOverlap, NoOverlap', TypeInvariant, Fresh, [Next]_vars PROVE Fresh'
<1>1. ASSUME NEW r \in Requests, pc[r] # "idle", Respond(r), Normalize[facts'] = facts' PROVE Fresh'
  <2>1. \A q \in Requests : pc'[q] = "idle"
    BY <1>1 DEF NoOverlap, Respond, TypeInvariant, TypeOK
  <2> QED
    BY <1>1, <2>1 DEF Fresh
<1>2. ASSUME NEW r \in Requests, Step(r) PROVE Fresh'
  <2>1. CASE GetPlan(r)
    <3>1. /\ pc'[r] = "plan" /\ plan'[r] = [facts |-> facts, snapshot |-> snapshot]
          /\ UNCHANGED store
      BY <2>1 DEF GetPlan, TypeInvariant, TypeOK
    <3>2. \A q \in Requests : pc'[q] # "idle" => q = r
      BY <3>1 DEF NoOverlap
    <3> QED
      BY <3>1, <3>2 DEF Fresh, store
  <2>2. CASE UpdateFacts(r)
    BY <1>1, <2>2, FreshFacts DEF UpdateFacts
  <2>3. CASE RecomputeNothing(r)
    BY <1>1, <2>3, FreshFacts DEF RecomputeNothing
  <2>4. CASE RejectFacts(r) \/ FailRecompute(r) \/ RefuseBlocked(r)
    BY <1>1, <2>4 DEF RejectFacts, FailRecompute, RefuseBlocked, store, Fresh
  <2>5. CASE ReadTasks(r)
    <3>1. /\ pc'[r] = "tasks" /\ rows'[r] = tasks /\ plan'[r] = [facts |-> facts, snapshot |-> snapshot]
          /\ UNCHANGED store
      BY <2>5 DEF ReadTasks, Fresh, TypeInvariant, TypeOK
    <3>2. \A q \in Requests : pc'[q] # "idle" => q = r
      BY <3>1 DEF NoOverlap
    <3> QED
      BY <3>1, <3>2 DEF Fresh, store
  <2>6. CASE RecomputePlan(r)
    BY <1>1, <2>6, FreshFacts DEF RecomputePlan
  <2>7. CASE GetTask(r)
    <3>1. PICK req \in Request :
            /\ req.kind = "status"
            /\ Begin(r, req)
            /\ rows' = [rows EXCEPT ![r][req.task] = tasks[req.task]]
            /\ pc' = [pc EXCEPT ![r] = IF req.status = "done" THEN "task" ELSE "checked"]
      BY <2>7 DEF GetTask
    <3>2. req.task \in TaskKeys
      BY <3>1 DEF Request
    <3>3. request'[r] = req /\ rows'[r][req.task] = tasks[req.task]
      BY <3>1, <3>2 DEF Begin, TypeInvariant, TypeOK
    <3>4. pc'[r] \notin {"plan", "tasks", "idle"}
      BY <3>1 DEF TypeInvariant, TypeOK
    <3>5. \A q \in Requests : pc'[q] # "idle" => q = r
      BY <3>4 DEF NoOverlap
    <3>6. UNCHANGED store
      BY <2>7 DEF GetTask
    <3> QED
      BY <3>3, <3>4, <3>5, <3>6 DEF Fresh, store
  <2>8. CASE CheckDependencies(r)
    <3>1. /\ pc'[r] = "checked" /\ pc[r] = "task" /\ UNCHANGED <<store, request, rows>>
      BY <2>8 DEF CheckDependencies, TypeInvariant, TypeOK
    <3>2. \A q \in Requests : pc'[q] # "idle" => q = r
      BY <3>1 DEF NoOverlap
    <3> QED
      BY <3>1, <3>2 DEF Fresh, store
  <2>9. CASE UpdateStatus(r)
    BY <1>1, <2>9 DEF UpdateStatus, Fresh
  <2> QED
    BY <1>2, <2>1, <2>2, <2>3, <2>4, <2>5, <2>6, <2>7, <2>8, <2>9 DEF Step
<1>3. CASE UNCHANGED vars
  BY <1>3 DEF vars, store, session, Fresh
<1> QED
  BY <1>2, <1>3 DEF Next, AllServed

LEMMA FreshHolds == Spec /\ []NoOverlap => []Inv1
<1>1. Init => Fresh
  BY InitFresh
<1>2. IInv /\ NoOverlap /\ NoOverlap' /\ Fresh /\ [Next]_vars => Fresh'
  BY StepFresh DEF IInv, StoreInvariant, TypeInvariant
<1> QED
  BY <1>1, <1>2, InvariantHolds, PTL DEF Spec, Inv1

-----------------------------------------------------------------------------
(* What steps and recomputes do to rows                                    *)

\* Which steps write task rows.
LEMMA OthersKeepTasks ==
  ASSUME NEW r \in Requests, Step(r), ~RecomputePlan(r), ~UpdateStatus(r)
  PROVE  UNCHANGED tasks
BY DEF Step, GetPlan, UpdateFacts, RecomputeNothing, RejectFacts, ReadTasks, FailRecompute,
       GetTask, CheckDependencies, RefuseBlocked, store

LEMMA RecomputedRow ==
  ASSUME NEW f \in Plannable, NEW k \in TaskKeys, NEW task \in AnyTask
  PROVE  LET row == Recomputed(task, k, Planner[f])
         IN  /\ task.status = "done" => row.status = "done"
             /\ k \in DOMAIN Planner[f] /\ task.status \in {"absent", "skipped"} => row.status = "todo"
             /\ k \in DOMAIN Planner[f] /\ task.status \in Open => row.status = task.status
             /\ k \notin DOMAIN Planner[f] /\ task.status = "absent" => row.status = "absent"
             /\ k \notin DOMAIN Planner[f] /\ task.status \notin {"absent", "done"} => row.status = "skipped"
             /\ (task.completed_at <=> task.status = "done") => (row.completed_at <=> row.status = "done")
<1>1. CASE k \in DOMAIN Planner[f] /\ Exists(task)
  <2>1. task \in Task
    BY <1>1, ExistsIffTask
  <2>2. /\ task.status = "done" => NextStatus(task.status, TRUE) = "done"
        /\ task.status = "skipped" => NextStatus(task.status, TRUE) = "todo"
        /\ task.status \in Open => NextStatus(task.status, TRUE) = task.status
    BY DEF NextStatus, Open
  <2>3. Recomputed(task, k, Planner[f]) = Refreshed(task, Planner[f][k])
    BY <1>1 DEF Recomputed
  <2>4. Refreshed(task, Planner[f][k]).status = NextStatus(task.status, TRUE)
    BY <2>1 DEF Refreshed, Task
  <2>5. (task.completed_at <=> task.status = "done")
           => (Refreshed(task, Planner[f][k]).completed_at <=> NextStatus(task.status, TRUE) = "done")
    <3>1. task.completed_at \in BOOLEAN /\ task.status \in Status
      BY <2>1 DEF Task
    <3>2. CASE task.status = "done"
      BY <2>1, <2>2, <3>1, <3>2 DEF Refreshed, Task
    <3>3. CASE task.status # "done"
      <4>1. NextStatus(task.status, TRUE) # "done"
        BY <2>2, <3>1, <3>3 DEF Status, Open
      <4> QED
        BY <3>1, <3>3, <4>1 DEF Refreshed
    <3> QED
      BY <3>2, <3>3
  <2>6. task.status # "absent"
    BY <1>1 DEF Exists
  <2> DEFINE row == Recomputed(task, k, Planner[f])
  <2>7. row.status = NextStatus(task.status, TRUE)
    BY <2>3, <2>4
  <2>8. (task.completed_at <=> task.status = "done") => (row.completed_at <=> row.status = "done")
    BY <2>3, <2>5, <2>7, Zenon
  <2> HIDE DEF row
  <2>9. /\ task.status = "done" => row.status = "done"
        /\ task.status \in {"absent", "skipped"} => row.status = "todo"
        /\ task.status \in Open => row.status = task.status
    <3> DEFINE next == NextStatus(task.status, TRUE)
    <3> HIDE DEF next
    <3>1. /\ task.status = "done" => next = "done"
          /\ task.status = "skipped" => next = "todo"
          /\ task.status \in Open => next = task.status
      BY <2>2 DEF next
    <3>2. row.status = next
      BY <2>7 DEF next
    <3> QED
      BY <2>6, <3>1, <3>2
  <2> QED
    BY <1>1, <2>8, <2>9, Zenon DEF row
<1>2. CASE k \in DOMAIN Planner[f] /\ ~Exists(task)
  BY <1>2 DEF Recomputed, Exists, NewTask, Open
<1>3. CASE k \notin DOMAIN Planner[f] /\ Exists(task)
  <2>1. task \in Task
    BY <1>3, ExistsIffTask
  <2>2. task.status = "done" => NextStatus(task.status, FALSE) = "done"
    BY DEF NextStatus, Open
  <2>3. task.status # "done" => NextStatus(task.status, FALSE) = "skipped"
    BY <2>1 DEF NextStatus, Task, Status, Open
  <2>4. Recomputed(task, k, Planner[f]) = Dismissed(task)
    BY <1>3 DEF Recomputed
  <2>5. /\ Dismissed(task).status = NextStatus(task.status, FALSE)
        /\ Dismissed(task).completed_at = task.completed_at
    BY <2>1 DEF Dismissed, Task
  <2> QED
    BY <1>3, <2>2, <2>3, <2>4, <2>5 DEF Exists
<1>4. CASE k \notin DOMAIN Planner[f] /\ ~Exists(task)
  BY <1>4 DEF Recomputed, Exists, NoTask
<1> QED
  BY <1>1, <1>2, <1>3, <1>4

-----------------------------------------------------------------------------
(* Patches one at a time, any recomputes and status changes                *)

\* What a recompute would write into the facts column is what it read, so the
\* column is not written; a patch merges into what is stored.
PatchInv ==
  /\ PatchesSurvive
  /\ Normalize[facts] = facts
  /\ \A r \in Requests : pc[r] \in {"plan", "tasks"} =>
       /\ Normalize[plan[r].facts] = plan[r].facts
       /\ request[r].kind = "patch" => plan[r].facts = facts

LEMMA InitPatch ==
  ASSUME Init PROVE PatchInv
BY DEF Init, PatchInv, PatchesSurvive

LEMMA PatchCommit ==
  ASSUME TypeInvariant, PatchesApart, PatchInv, NEW r \in Requests,
         pc[r] \in {"plan", "tasks"}, WriteFacts(r), Respond(r)
  PROVE  PatchInv'
<1>1. Normalize[NewFacts(r)] = NewFacts(r)
  BY NewFactsType
<1>2. \A q \in Requests : pc'[q] \in {"plan", "tasks"} =>
        q # r /\ pc[q] = pc'[q] /\ request'[q] = request[q] /\ plan'[q] = plan[q]
  BY DEF Respond, TypeInvariant, TypeOK
<1>3. CASE request[r].kind = "patch"
  <2>1. facts' = NewFacts(r) /\ wanted' = NewFacts(r)
    BY <1>3 DEF WriteFacts, Column, NewFacts, PatchInv, PatchesSurvive
  <2>2. \A q \in Requests : q # r => request[q].kind # "patch"
    BY <1>3 DEF PatchesApart
  <2> QED
    BY <1>1, <1>2, <2>1, <2>2 DEF PatchInv, PatchesSurvive
<1>4. CASE request[r].kind # "patch"
  <2>1. NewFacts(r) = plan[r].facts
    BY <1>4 DEF NewFacts, PatchInv
  <2>2. facts' = facts /\ wanted' = wanted
    BY <1>4, <2>1 DEF WriteFacts, Column
  <2> QED
    BY <1>2, <2>2 DEF PatchInv, PatchesSurvive
<1> QED
  BY <1>3, <1>4

LEMMA StepPatch ==
  ASSUME TypeInvariant, PatchesApart, PatchInv, [Next]_vars PROVE PatchInv'
<1>1. ASSUME NEW r \in Requests, Step(r) PROVE PatchInv'
  <2>1. CASE GetPlan(r)
    <3>1. UNCHANGED <<store, history>>
      BY <2>1 DEF GetPlan
    <3>2. plan' = [plan EXCEPT ![r] = [facts |-> facts, snapshot |-> snapshot]]
          /\ \A q \in Requests : q # r => pc'[q] = pc[q] /\ request'[q] = request[q]
      BY <2>1 DEF GetPlan, Begin, TypeInvariant, TypeOK
    <3>3. \A q \in Requests : IF q = r THEN plan'[q].facts = facts ELSE plan'[q] = plan[q]
      BY <3>2 DEF TypeInvariant, TypeOK
    <3> QED
      BY <3>1, <3>2, <3>3 DEF PatchInv, PatchesSurvive, store, history
  <2>2. CASE UpdateFacts(r) \/ RecomputeNothing(r) \/ RecomputePlan(r)
    BY <2>2, PatchCommit DEF UpdateFacts, RecomputeNothing, RecomputePlan
  <2>3. CASE RejectFacts(r) \/ FailRecompute(r) \/ RefuseBlocked(r) \/ UpdateStatus(r)
    <3>1. facts' = facts /\ wanted' = wanted /\ Respond(r)
      BY <2>3 DEF RejectFacts, FailRecompute, RefuseBlocked, UpdateStatus, store, history
    <3>2. \A q \in Requests : pc'[q] \in {"plan", "tasks"} =>
            pc[q] = pc'[q] /\ request'[q] = request[q] /\ plan'[q] = plan[q]
      BY <3>1 DEF Respond, TypeInvariant, TypeOK
    <3> QED
      BY <3>1, <3>2 DEF PatchInv, PatchesSurvive
  <2>4. CASE ReadTasks(r)
    BY <2>4 DEF ReadTasks, PatchInv, PatchesSurvive, TypeInvariant, TypeOK, store, history
  <2>5. CASE GetTask(r)
    <3>1. UNCHANGED <<store, plan, history>>
      BY <2>5 DEF GetTask
    <3>2. \A q \in Requests : pc'[q] \in {"plan", "tasks"} => pc[q] = pc'[q] /\ request'[q] = request[q]
      BY <2>5 DEF GetTask, Begin, TypeInvariant, TypeOK
    <3> QED
      BY <3>1, <3>2 DEF PatchInv, PatchesSurvive, store, history
  <2>6. CASE CheckDependencies(r)
    BY <2>6 DEF CheckDependencies, PatchInv, PatchesSurvive, TypeInvariant, TypeOK, store, history
  <2> QED
    BY <1>1, <2>1, <2>2, <2>3, <2>4, <2>5, <2>6 DEF Step
<1>2. CASE UNCHANGED vars
  BY <1>2 DEF vars, store, session, history, PatchInv, PatchesSurvive
<1> QED
  BY <1>1, <1>2 DEF Next, AllServed

\* Whatever recomputes and status changes overlap with it, no acknowledged patch
\* is lost as long as no two patches overlap.
THEOREM PatchesSurviveApart == Spec /\ []PatchesApart => []PatchesSurvive
<1>1. Init => PatchInv
  BY InitPatch
<1>2. IInv /\ PatchesApart /\ PatchInv /\ [Next]_vars => PatchInv'
  BY StepPatch DEF IInv, StoreInvariant, TypeInvariant
<1>3. PatchInv => PatchesSurvive
  BY DEF PatchInv
<1> QED
  BY <1>1, <1>2, <1>3, InvariantHolds, PTL DEF Spec

-----------------------------------------------------------------------------
(* Recomputes one at a time, any patches of facts only and status changes  *)

\* A recompute has read the stored snapshot and, of the tasks no client touched
\* since, the stored rows.
RecomputeInv ==
  /\ UntouchedTasksFollowPlan
  /\ \A r \in Requests : pc[r] \in {"plan", "tasks"} /\ Recomputes(r) => plan[r].snapshot = snapshot
  /\ \A r \in Requests : pc[r] = "tasks" => \A k \in TaskKeys \ touched : rows[r][k] = tasks[k]

LEMMA InitRecompute ==
  ASSUME Init PROVE RecomputeInv
<1>1. UntouchedTasksFollowPlan
  BY DEF Init, UntouchedTasksFollowPlan, Snapshot, NoTask
<1> QED
  BY <1>1 DEF Init, RecomputeInv

\* A row as planned for other items, recomputed.
LEMMA RecomputedFollows ==
  ASSUME NEW f \in Plannable, NEW k \in TaskKeys, NEW task \in AnyTask, NEW items,
         IF k \in DOMAIN items THEN task = NewTask(items[k]) ELSE task.status \in {"absent", "skipped"}
  PROVE  LET row == Recomputed(task, k, Planner[f])
         IN  IF k \in DOMAIN Planner[f] THEN row = NewTask(Planner[f][k])
                                        ELSE row.status \in {"absent", "skipped"}
<1>1. /\ task.status \in {"absent", "skipped", "todo"}
      /\ task.status = "todo" => task.completed_at = FALSE
  BY DEF NewTask
<1>2. CASE k \notin DOMAIN Planner[f]
  BY <1>1, <1>2, RecomputedRow
<1>3. CASE k \in DOMAIN Planner[f] /\ ~Exists(task)
  BY <1>3, RecomputedType
<1>4. CASE k \in DOMAIN Planner[f] /\ Exists(task)
  <2>1. NextStatus(task.status, TRUE) = "todo"
    BY <1>1, <1>4 DEF NextStatus, Open, Exists
  <2> QED
    BY <1>1, <1>4, <2>1 DEF Recomputed, Refreshed, NewTask, Open
<1> QED
  BY <1>2, <1>3, <1>4

\* A request that keeps the tasks and the snapshot, and after which the copies of
\* those that go on are what they were.
LEMMA RecomputeStutter ==
  ASSUME RecomputeInv, UNCHANGED <<snapshot, tasks, touched>>,
         \A r \in Requests : pc'[r] \in {"plan", "tasks"} =>
           pc[r] = pc'[r] /\ request'[r] = request[r] /\ plan'[r] = plan[r] /\ rows'[r] = rows[r]
  PROVE  RecomputeInv'
BY DEF RecomputeInv, UntouchedTasksFollowPlan, Recomputes

LEMMA RespondOthers ==
  ASSUME TypeInvariant, NEW r \in Requests, Respond(r)
  PROVE  \A q \in Requests : pc'[q] # "idle" =>
           /\ q # r /\ pc'[q] = pc[q] /\ request'[q] = request[q]
           /\ plan'[q] = plan[q] /\ rows'[q] = rows[q]
BY DEF Respond, TypeInvariant, TypeOK

\* No other request recomputes, so nobody holds a copy of what is replaced.
LEMMA RecomputeCommitFollows ==
  ASSUME TypeInvariant, RecomputesApart, RecomputeInv, NEW r \in Requests,
         Recomputes(r), Respond(r), UntouchedTasksFollowPlan'
  PROVE  RecomputeInv'
<1>1. \A q \in Requests : pc'[q] \in {"plan", "tasks"} => pc'[q] # "tasks" /\ ~Recomputes(q)'
  BY RespondOthers DEF RecomputesApart, Recomputes, TypeInvariant, SessionsFit, SessionFits
<1> QED
  BY <1>1 DEF RecomputeInv

LEMMA StepRecompute ==
  ASSUME TypeInvariant, RecomputesApart, RecomputeInv, [Next]_vars PROVE RecomputeInv'
<1>1. ASSUME NEW r \in Requests, Step(r) PROVE RecomputeInv'
  <2>1. CASE GetPlan(r)
    <3>1. UNCHANGED <<store, rows, history>>
      BY <2>1 DEF GetPlan
    <3>2. /\ pc'[r] = "plan" /\ plan'[r].snapshot = snapshot
          /\ \A q \in Requests : q # r => pc'[q] = pc[q] /\ request'[q] = request[q] /\ plan'[q] = plan[q]
      BY <2>1 DEF GetPlan, Begin, TypeInvariant, TypeOK
    <3> QED
      BY <3>1, <3>2 DEF RecomputeInv, UntouchedTasksFollowPlan, Recomputes, store, history
  <2>2. CASE UpdateFacts(r) \/ RejectFacts(r) \/ FailRecompute(r) \/ RefuseBlocked(r)
    <3>1. UNCHANGED <<snapshot, tasks, touched>> /\ Respond(r)
      BY <2>2 DEF UpdateFacts, WriteFacts, RejectFacts, FailRecompute, RefuseBlocked, store, history
    <3> QED
      BY <3>1, RespondOthers, RecomputeStutter
  <2>3. CASE RecomputeNothing(r)
    <3>1. /\ snapshot'.planner_plan = snapshot.planner_plan
          /\ UNCHANGED <<tasks, touched>> /\ Recomputes(r) /\ Respond(r)
      BY <2>3 DEF RecomputeNothing, WriteFacts, RecomputeInv
    <3>2. UntouchedTasksFollowPlan'
      BY <3>1 DEF RecomputeInv, UntouchedTasksFollowPlan
    <3> QED
      BY <3>1, <3>2, RecomputeCommitFollows
  <2>4. CASE ReadTasks(r)
    <3>1. UNCHANGED <<store, request, plan, history>>
      BY <2>4 DEF ReadTasks
    <3>2. /\ rows'[r] = tasks /\ pc[r] = "plan"
          /\ \A q \in Requests : q # r => pc'[q] = pc[q] /\ rows'[q] = rows[q]
      BY <2>4 DEF ReadTasks, TypeInvariant, TypeOK
    <3> QED
      BY <3>1, <3>2 DEF RecomputeInv, UntouchedTasksFollowPlan, Recomputes, store, history
  <2>5. CASE RecomputePlan(r)
    <3> DEFINE f == NewFacts(r)
    <3>1. f \in Plannable /\ Recomputes(r) /\ Respond(r)
      BY <2>5 DEF RecomputePlan, TypeInvariant, SessionsFit, SessionFits
    <3>2. /\ touched' = touched /\ snapshot'.planner_plan = Planner[f]
          /\ \A k \in TaskKeys : tasks'[k] = Flush(tasks[k], rows[r][k], Recomputed(rows[r][k], k, Planner[f]))
      BY <2>5 DEF RecomputePlan, WriteFacts, Snapshot
    <3> HIDE DEF f
    <3>3. ASSUME NEW k \in TaskKeys \ touched
          PROVE  IF k \in DOMAIN Planner[f] THEN tasks'[k] = NewTask(Planner[f][k])
                                            ELSE tasks'[k].status \in {"absent", "skipped"}
      <4>1. tasks[k] \in AnyTask
        BY DEF TypeInvariant, TypeOK, AnyTask
      <4>2. rows[r][k] = tasks[k]
        BY <2>5 DEF RecomputePlan, RecomputeInv
      <4>3. Recomputed(tasks[k], k, Planner[f]) \in AnyTask
        BY <3>1, <4>1, RecomputedType DEF AnyTask
      <4>4. tasks'[k] = Recomputed(tasks[k], k, Planner[f])
        BY <3>2, <4>1, <4>2, <4>3, FlushFresh
      <4>5. IF k \in DOMAIN snapshot.planner_plan
            THEN tasks[k] = NewTask(snapshot.planner_plan[k])
            ELSE tasks[k].status \in {"absent", "skipped"}
        BY DEF RecomputeInv, UntouchedTasksFollowPlan
      <4> QED
        BY <3>1, <4>1, <4>4, <4>5, RecomputedFollows
    <3>4. UntouchedTasksFollowPlan'
      BY <3>2, <3>3 DEF UntouchedTasksFollowPlan
    <3> QED
      BY <3>1, <3>4, RecomputeCommitFollows
  <2>6. CASE GetTask(r)
    <3>1. UNCHANGED <<store, plan, history>>
      BY <2>6 DEF GetTask
    <3>2. \A q \in Requests : pc'[q] \in {"plan", "tasks"} =>
            pc[q] = pc'[q] /\ request'[q] = request[q] /\ rows'[q] = rows[q]
      BY <2>6 DEF GetTask, Begin, TypeInvariant, TypeOK
    <3> QED
      BY <3>1, <3>2, RecomputeStutter DEF store, history
  <2>7. CASE CheckDependencies(r)
    <3>1. \A q \in Requests : pc'[q] \in {"plan", "tasks"} => pc[q] = pc'[q]
      BY <2>7 DEF CheckDependencies, TypeInvariant, TypeOK
    <3> QED
      BY <2>7, <3>1, RecomputeStutter DEF CheckDependencies, store, history
  <2>8. CASE UpdateStatus(r)
    <3>1. /\ UNCHANGED snapshot /\ Respond(r)
          /\ touched' = touched \cup {request[r].task}
          /\ \A k \in TaskKeys : k # request[r].task => tasks'[k] = tasks[k]
      BY <2>8 DEF UpdateStatus, TypeInvariant, TypeOK
    <3>2. UntouchedTasksFollowPlan'
      BY <3>1 DEF RecomputeInv, UntouchedTasksFollowPlan
    <3> QED
      BY <3>1, <3>2, RespondOthers DEF RecomputeInv, Recomputes
  <2> QED
    BY <1>1, <2>1, <2>2, <2>3, <2>4, <2>5, <2>6, <2>7, <2>8 DEF Step
<1>2. CASE UNCHANGED vars
  BY <1>2, RecomputeStutter DEF vars, store, session, history
<1> QED
  BY <1>1, <1>2 DEF Next, AllServed

\* Whatever patches of facts only and status changes overlap with it, a task no
\* client touched is what the planner says for the facts of the snapshot, as long
\* as no two recomputes overlap.
THEOREM UntouchedTasksFollowPlanApart ==
  Spec /\ []RecomputesApart => []UntouchedTasksFollowPlan
<1>1. Init => RecomputeInv
  BY InitRecompute
<1>2. IInv /\ RecomputesApart /\ RecomputeInv /\ [Next]_vars => RecomputeInv'
  BY StepRecompute DEF IInv, StoreInvariant, TypeInvariant
<1>3. RecomputeInv => UntouchedTasksFollowPlan
  BY DEF RecomputeInv
<1> QED
  BY <1>1, <1>2, <1>3, InvariantHolds, PTL DEF Spec

\* So it takes an overlapping recompute to make a fast path vouch for tasks of
\* other facts, and to leave a task dismissed that is eligible again.
THEOREM FastPathIsSoundApart ==
  Spec /\ []RecomputesApart => FastPathIsSound /\ EligibleIsReactivated
<1>1. UntouchedTasksFollowPlan' =>
        [\A r \in Requests : RecomputeNothing(r) /\ facts' = snapshot'.facts_hash
                               => UntouchedTasksFollowPlan']_vars
  OBVIOUS
<1> DEFINE Reactivated ==
             \A k \in DOMAIN snapshot.planner_plan \ touched : tasks[k].status # "skipped"
<1>2. IInv /\ UntouchedTasksFollowPlan => Reactivated
  <2>1. TypeOK => DOMAIN snapshot.planner_plan \subseteq TaskKeys
    BY PlannerAssumption DEF TypeOK, Snapshots, Snapshot
  <2>2. \A item : NewTask(item).status = "todo"
    BY DEF NewTask
  <2> QED
    BY <2>1, <2>2 DEF IInv, TypeInvariant, UntouchedTasksFollowPlan
<1>3. Reactivated' =>
        [\A r \in Requests : RecomputeNothing(r) /\ facts' = snapshot'.facts_hash =>
           \A k \in DOMAIN snapshot'.planner_plan \ touched' : tasks'[k].status # "skipped"]_vars
  OBVIOUS
<1> HIDE DEF Reactivated
<1> QED
  BY <1>1, <1>2, <1>3, UntouchedTasksFollowPlanApart, InvariantHolds, PTL
     DEF FastPathIsSound, EligibleIsReactivated

-----------------------------------------------------------------------------
(* Completions out of the way of recomputes and of other status changes    *)

Coherent(row) == row.completed_at <=> row.status = "done"
Free(k) == \A d \in tasks[k].metadata.depends_on : tasks[d].status = "done"

\* A recompute knows every done task.  A request that completes a task sees the
\* dependencies that are stored, and may go ahead once it has checked them; one
\* that reopens a task knows it to be done if it is.
RowsKnowDone ==
  \A r \in Requests : pc[r] = "tasks" =>
    \A k \in TaskKeys : /\ Coherent(rows[r][k])
                        /\ tasks[k].status = "done" => rows[r][k].status = "done"

RowKnowsDone(r) ==
  LET k == request[r].task
  IN  /\ Coherent(rows[r][k])
      /\ request[r].status # "done" =>
           (tasks[k].status = "done" => rows[r][k].status = "done")
      /\ request[r].status = "done" =>
           /\ rows[r][k].status = "done" => tasks[k].status = "done"
           /\ rows[r][k].metadata = tasks[k].metadata
           /\ pc[r] = "checked" => request[r].force \/ Free(k)

StatusKnowsDone ==
  \A r \in Requests : pc[r] \in {"task", "checked"} => RowKnowsDone(r)

CompletionInv == CompletedWhileDone /\ RowsKnowDone /\ StatusKnowsDone

LEMMA InitCompletion ==
  ASSUME Init PROVE CompletionInv
<1>1. CompletedWhileDone
  BY PlannedItem DEF Init, CompletedWhileDone, NewTask, NoTask
<1> QED
  BY <1>1 DEF Init, CompletionInv, RowsKnowDone, StatusKnowsDone

LEMMA RowType ==
  ASSUME NEW task \in AnyTask
  PROVE  task.completed_at \in BOOLEAN /\ task.status \in Open \cup {"absent", "done", "skipped"}
<1>1. CASE task \in Task
  BY <1>1 DEF Task, Status
<1>2. CASE task = NoTask
  BY <1>2 DEF NoTask
<1> QED
  BY <1>1, <1>2 DEF AnyTask

\* A recompute that knows whether a row is done leaves that as it is.
LEMMA RecomputeFlush ==
  ASSUME NEW f \in Plannable, NEW k \in TaskKeys, NEW stored \in AnyTask, NEW copy \in AnyTask,
         Coherent(copy), Coherent(stored), stored.status = "done" => copy.status = "done"
  PROVE  LET row == Flush(stored, copy, Recomputed(copy, k, Planner[f]))
         IN  Coherent(row) /\ (row.status = "done" <=> stored.status = "done")
<1> DEFINE new == Recomputed(copy, k, Planner[f])
           row == Flush(stored, copy, new)
<1>1. new \in AnyTask
  BY RecomputedType DEF AnyTask
<1>2. /\ copy.completed_at \in BOOLEAN /\ new.completed_at \in BOOLEAN /\ stored.completed_at \in BOOLEAN
      /\ copy.status \in Open \cup {"absent", "done", "skipped"}
  BY <1>1, RowType
<1>3. /\ copy.status = "done" => new.status = "done"
      /\ copy.status # "done" => new.status # "done"
      /\ Coherent(new)
  <2> DEFINE planned == k \in DOMAIN Planner[f]
  <2>1. /\ copy.status = "done" => new.status = "done"
        /\ planned /\ copy.status \in {"absent", "skipped"} => new.status = "todo"
        /\ planned /\ copy.status \in Open => new.status = copy.status
        /\ ~planned /\ copy.status = "absent" => new.status = "absent"
        /\ ~planned /\ copy.status \notin {"absent", "done"} => new.status = "skipped"
        /\ (copy.completed_at <=> copy.status = "done") => (new.completed_at <=> new.status = "done")
    BY RecomputedRow
  <2>2. Coherent(new)
    BY <2>1, Zenon DEF Coherent
  <2> HIDE DEF new, planned
  <2>3. copy.status # "done" => new.status # "done"
    BY <1>2, <2>1 DEF Open
  <2> QED
    BY <2>1, <2>2, <2>3
<1> HIDE DEF new
<1>4. /\ row.status = (IF new.status = copy.status THEN stored.status ELSE new.status)
      /\ row.completed_at = (IF new.completed_at = copy.completed_at
                             THEN stored.completed_at ELSE new.completed_at)
  BY DEF Flush, Column
<1>5. new.completed_at = copy.completed_at
  BY <1>2, <1>3 DEF Coherent
<1>6. row.status = "done" <=> stored.status = "done"
  BY <1>3, <1>4
<1> QED
  BY <1>4, <1>5, <1>6 DEF Coherent, new

\* What a change of status makes of the row, given what it knows.
LEMMA StatusFlush ==
  ASSUME NEW stored \in Task, NEW copy \in Task, NEW s \in Targets,
         Coherent(copy), Coherent(stored),
         s # "done" => (stored.status = "done" => copy.status = "done"),
         s = "done" => (copy.status = "done" => stored.status = "done")
  PROVE  LET row == Flush(stored, copy, StatusSet(copy, s))
         IN  /\ Coherent(row)
             /\ row.status = "done" <=> s = "done"
             /\ row.metadata = stored.metadata
<1> DEFINE new == StatusSet(copy, s)
           row == Flush(stored, copy, new)
<1>1. /\ copy.completed_at \in BOOLEAN /\ stored.completed_at \in BOOLEAN
      /\ new.status = s /\ new.metadata = copy.metadata
      /\ new.completed_at = (s = "done" /\ (copy.completed_at \/ copy.status # "done"))
  BY DEF StatusSet, Task
<1>2. new.completed_at \in BOOLEAN /\ (new.completed_at <=> s = "done")
  BY <1>1, Zenon DEF Coherent
<1> HIDE DEF new
<1>3. /\ row.status = (IF new.status = copy.status THEN stored.status ELSE new.status)
      /\ row.completed_at = (IF new.completed_at = copy.completed_at
                             THEN stored.completed_at ELSE new.completed_at)
      /\ row.metadata = stored.metadata
  BY <1>1 DEF Flush, Column
<1>4. row.status = "done" <=> s = "done"
  BY <1>1, <1>3
<1>5. row.completed_at <=> s = "done"
  BY <1>1, <1>2, <1>3 DEF Coherent
<1> QED
  BY <1>3, <1>4, <1>5 DEF Coherent, new

\* Steps after which the tasks are as done as before and nobody completes one.
LEMMA DoneUnchanged ==
  ASSUME CompletionInv, CompletedWhileDone',
         \A k \in TaskKeys : tasks'[k].status = "done" => tasks[k].status = "done",
         \A r \in Requests : pc'[r] # "idle" =>
           pc'[r] = pc[r] /\ request'[r] = request[r] /\ rows'[r] = rows[r],
         \A r \in Requests : pc'[r] \in {"task", "checked"} =>
           request'[r].task \in TaskKeys /\ request'[r].status # "done"
  PROVE  CompletionInv'
<1>1. RowsKnowDone'
  BY DEF CompletionInv, RowsKnowDone, Coherent
<1>2. ASSUME NEW r \in Requests, pc'[r] \in {"task", "checked"} PROVE RowKnowsDone(r)'
  BY <1>2 DEF CompletionInv, StatusKnowsDone, RowKnowsDone, Coherent
<1> QED
  BY <1>1, <1>2 DEF CompletionInv, StatusKnowsDone

\* Steps after which more tasks are done, with the same metadata, while nobody
\* reopens one and no recompute has read the rows.
LEMMA MoreDone ==
  ASSUME CompletionInv, CompletedWhileDone',
         \A k \in TaskKeys : /\ tasks[k].status = "done" => tasks'[k].status = "done"
                             /\ tasks'[k].metadata = tasks[k].metadata,
         \A k \in TaskKeys : tasks[k].metadata.depends_on \subseteq TaskKeys,
         \A r \in Requests : pc'[r] # "idle" =>
           pc'[r] = pc[r] /\ request'[r] = request[r] /\ rows'[r] = rows[r],
         \A r \in Requests : pc'[r] # "tasks",
         \A r \in Requests : pc'[r] \in {"task", "checked"} =>
           request'[r].task \in TaskKeys /\ request'[r].status = "done"
  PROVE  CompletionInv'
<1>1. RowsKnowDone'
  BY DEF RowsKnowDone
<1>2. ASSUME NEW r \in Requests, pc'[r] \in {"task", "checked"} PROVE RowKnowsDone(r)'
  BY <1>2 DEF CompletionInv, StatusKnowsDone, RowKnowsDone, Coherent, Free
<1> QED
  BY <1>1, <1>2 DEF CompletionInv, StatusKnowsDone

\* Steps that write no task, of a request whose own copies are in order after it.
LEMMA TasksUnchanged ==
  ASSUME CompletionInv, tasks' = tasks, NEW r \in Requests,
         \A q \in Requests : q # r => pc'[q] = pc[q] /\ request'[q] = request[q] /\ rows'[q] = rows[q],
         pc'[r] = "tasks" => rows'[r] = tasks,
         pc'[r] \in {"task", "checked"} => RowKnowsDone(r)'
  PROVE  CompletionInv'
<1>1. CompletedWhileDone'
  BY DEF CompletionInv, CompletedWhileDone
<1>2. RowsKnowDone'
  BY DEF CompletionInv, CompletedWhileDone, RowsKnowDone, Coherent
<1>3. ASSUME NEW q \in Requests, q # r, pc'[q] \in {"task", "checked"} PROVE RowKnowsDone(q)'
  BY <1>3 DEF CompletionInv, StatusKnowsDone, RowKnowsDone, Coherent, Free
<1> QED
  BY <1>1, <1>2, <1>3 DEF CompletionInv, StatusKnowsDone

LEMMA StatusRequest ==
  ASSUME TypeInvariant, NEW r \in Requests, pc[r] \in {"task", "checked"}
  PROVE  /\ request[r].kind = "status"
         /\ request[r].task \in TaskKeys
         /\ request[r].status \in Targets
         /\ Exists(rows[r][request[r].task])
BY DEF TypeInvariant, SessionsFit, SessionFits, Request

\* What a recompute does to the stored rows.
LEMMA RecomputeLeavesDone ==
  ASSUME TypeInvariant, CompletionInv, NEW r \in Requests, RecomputePlan(r), NEW k \in TaskKeys
  PROVE  Coherent(tasks'[k]) /\ (tasks'[k].status = "done" <=> tasks[k].status = "done")
<1> DEFINE f == NewFacts(r)
<1>1. f \in Plannable
  BY DEF RecomputePlan, TypeInvariant, SessionsFit, SessionFits
<1>2. tasks'[k] = Flush(tasks[k], rows[r][k], Recomputed(rows[r][k], k, Planner[f]))
  BY DEF RecomputePlan
<1> HIDE DEF f
<1>3. tasks[k] \in AnyTask /\ rows[r][k] \in AnyTask
  BY DEF TypeInvariant, TypeOK, AnyTask
<1>4. Coherent(tasks[k]) /\ Coherent(rows[r][k]) /\ (tasks[k].status = "done" => rows[r][k].status = "done")
  BY DEF RecomputePlan, CompletionInv, CompletedWhileDone, RowsKnowDone, Coherent
<1> QED
  BY <1>1, <1>2, <1>3, <1>4, RecomputeFlush

\* What a change of status does to the stored rows.
LEMMA StatusCommit ==
  ASSUME TypeInvariant, CopiesRemain, CompletionInv, NEW r \in Requests, UpdateStatus(r)
  PROVE  LET k == request[r].task
         IN  /\ k \in TaskKeys
             /\ \A j \in TaskKeys : j # k => tasks'[j] = tasks[j]
             /\ Coherent(tasks'[k])
             /\ tasks'[k].status = "done" <=> request[r].status = "done"
             /\ tasks'[k].metadata = tasks[k].metadata
<1> DEFINE k == request[r].task
           s == request[r].status
<1>1. pc[r] = "checked" /\ k \in TaskKeys /\ s \in Targets /\ Exists(rows[r][k])
  BY StatusRequest DEF UpdateStatus
<1>2. tasks' = [tasks EXCEPT ![k] = Flush(tasks[k], rows[r][k], StatusSet(rows[r][k], s))]
  BY DEF UpdateStatus
<1>3. tasks[k] \in Task /\ rows[r][k] \in Task
  BY <1>1, ExistsIffTask DEF TypeInvariant, TypeOK, AnyTask, CopiesRemain
<1>4. Coherent(tasks[k])
  BY <1>1 DEF CompletionInv, CompletedWhileDone, Coherent
<1>5. /\ Coherent(rows[r][k])
      /\ s # "done" => (tasks[k].status = "done" => rows[r][k].status = "done")
      /\ s = "done" => (rows[r][k].status = "done" => tasks[k].status = "done")
  BY <1>1 DEF CompletionInv, StatusKnowsDone, RowKnowsDone
<1>6. LET row == Flush(tasks[k], rows[r][k], StatusSet(rows[r][k], s))
      IN  Coherent(row) /\ (row.status = "done" <=> s = "done") /\ row.metadata = tasks[k].metadata
  BY <1>1, <1>3, <1>4, <1>5, StatusFlush
<1>7. tasks'[k] = Flush(tasks[k], rows[r][k], StatusSet(rows[r][k], s))
      /\ \A j \in TaskKeys : j # k => tasks'[j] = tasks[j]
  BY <1>1, <1>2 DEF TypeInvariant, TypeOK
<1> QED
  BY <1>1, <1>6, <1>7

LEMMA StepCompletion ==
  ASSUME TypeInvariant, CopiesRemain, CompletionsApart, CompletionInv, [Next]_vars
  PROVE  CompletionInv'
<1>1. ASSUME NEW r \in Requests, Step(r) PROVE CompletionInv'
  <2>1. CASE GetPlan(r)
    <3>1. tasks' = tasks /\ pc'[r] = "plan"
          /\ \A q \in Requests : q # r => pc'[q] = pc[q] /\ request'[q] = request[q] /\ rows'[q] = rows[q]
      BY <2>1 DEF GetPlan, Begin, TypeInvariant, TypeOK, store
    <3> QED
      BY <3>1, TasksUnchanged
  <2>2. CASE UpdateFacts(r) \/ RecomputeNothing(r) \/ RejectFacts(r) \/ FailRecompute(r) \/ RefuseBlocked(r)
    <3>1. tasks' = tasks /\ Respond(r)
      BY <2>2 DEF UpdateFacts, RecomputeNothing, RejectFacts, FailRecompute, RefuseBlocked, store
    <3>2. pc'[r] = "idle"
          /\ \A q \in Requests : q # r => pc'[q] = pc[q] /\ request'[q] = request[q] /\ rows'[q] = rows[q]
      BY <3>1 DEF Respond, TypeInvariant, TypeOK
    <3> QED
      BY <3>1, <3>2, TasksUnchanged
  <2>3. CASE ReadTasks(r)
    <3>1. tasks' = tasks /\ pc'[r] = "tasks" /\ rows'[r] = tasks
          /\ \A q \in Requests : q # r => pc'[q] = pc[q] /\ request'[q] = request[q] /\ rows'[q] = rows[q]
      BY <2>3 DEF ReadTasks, TypeInvariant, TypeOK, store
    <3> QED
      BY <3>1, TasksUnchanged
  <2>4. CASE RecomputePlan(r)
    <3>1. \A k \in TaskKeys : Coherent(tasks'[k]) /\ (tasks'[k].status = "done" <=> tasks[k].status = "done")
      BY <2>4, RecomputeLeavesDone
    <3>2. CompletedWhileDone'
      BY <3>1 DEF CompletedWhileDone, Coherent
    <3>3. Respond(r) /\ pc[r] = "tasks"
      BY <2>4 DEF RecomputePlan
    <3>4. \A q \in Requests : pc'[q] \in {"task", "checked"} =>
            request'[q].task \in TaskKeys /\ request'[q].status # "done"
      BY <3>3, RespondOthers, StatusRequest DEF CompletionsApart, Completes
    <3> QED
      BY <3>1, <3>2, <3>3, <3>4, RespondOthers, DoneUnchanged
  <2>5. CASE GetTask(r)
    <3>1. PICK req \in Request :
            /\ req.kind = "status"
            /\ Begin(r, req)
            /\ rows' = [rows EXCEPT ![r][req.task] = tasks[req.task]]
            /\ pc' = [pc EXCEPT ![r] = IF req.status = "done" THEN "task" ELSE "checked"]
      BY <2>5 DEF GetTask
    <3>2. req.task \in TaskKeys
      BY <3>1 DEF Request
    <3>3. /\ request'[r] = req /\ rows'[r][req.task] = tasks[req.task]
          /\ pc'[r] = IF req.status = "done" THEN "task" ELSE "checked"
          /\ \A q \in Requests : q # r => pc'[q] = pc[q] /\ request'[q] = request[q] /\ rows'[q] = rows[q]
      BY <3>1, <3>2 DEF Begin, TypeInvariant, TypeOK
    <3>4. tasks' = tasks
      BY <2>5 DEF GetTask, store
    <3>5. RowKnowsDone(r)'
      BY <3>2, <3>3, <3>4 DEF RowKnowsDone, CompletionInv, CompletedWhileDone, Coherent
    <3> QED
      BY <3>3, <3>4, <3>5, TasksUnchanged
  <2>6. CASE CheckDependencies(r)
    <3> DEFINE k == request[r].task
    <3>1. /\ tasks' = tasks /\ request' = request /\ rows' = rows /\ pc'[r] = "checked"
          /\ \A q \in Requests : q # r => pc'[q] = pc[q]
      BY <2>6 DEF CheckDependencies, TypeInvariant, TypeOK, store
    <3>2. RowKnowsDone(r)
      BY <2>6 DEF CheckDependencies, CompletionInv, StatusKnowsDone
    <3>3. request[r].status = "done" => request[r].force \/ Free(k)
      <4>1. request[r].force \/ \A d \in rows[r][k].metadata.depends_on : tasks[d].status = "done"
        BY <2>6 DEF CheckDependencies, Blocked, Unresolved
      <4> QED
        BY <3>2, <4>1 DEF RowKnowsDone, Free
    <3>4. RowKnowsDone(r)'
      BY <3>1, <3>2, <3>3 DEF RowKnowsDone, Coherent, Free
    <3> QED
      BY <3>1, <3>4, TasksUnchanged
  <2>7. CASE UpdateStatus(r)
    <3> DEFINE k == request[r].task
    <3>1. /\ k \in TaskKeys
          /\ \A j \in TaskKeys : j # k => tasks'[j] = tasks[j]
          /\ Coherent(tasks'[k])
          /\ tasks'[k].status = "done" <=> request[r].status = "done"
          /\ tasks'[k].metadata = tasks[k].metadata
      BY <2>7, StatusCommit
    <3>2. CompletedWhileDone'
      BY <3>1 DEF CompletionInv, CompletedWhileDone, Coherent
    <3>3. Respond(r) /\ request[r].kind = "status"
      BY <2>7, StatusRequest DEF UpdateStatus
    <3>4. CASE request[r].status = "done"
      <4>1. \A q \in Requests : pc[q] # "tasks" /\ ~Reopens(q)
        BY <3>3, <3>4 DEF CompletionsApart, Completes
      <4>2. \A q \in Requests : pc'[q] # "tasks" /\ (pc'[q] \in {"task", "checked"} =>
              request'[q].task \in TaskKeys /\ request'[q].status = "done")
        BY <3>3, <4>1, RespondOthers, StatusRequest DEF Reopens
      <4>3. \A j \in TaskKeys : /\ tasks[j].status = "done" => tasks'[j].status = "done"
                                /\ tasks'[j].metadata = tasks[j].metadata
        BY <3>1, <3>4
      <4>4. \A j \in TaskKeys : tasks[j].metadata.depends_on \subseteq TaskKeys
        BY ItemDependencies DEF TypeInvariant, TypeOK, Task, NoTask, NoItem
      <4> QED
        BY <3>2, <3>3, <4>2, <4>3, <4>4, RespondOthers, MoreDone
    <3>5. CASE request[r].status # "done"
      <4>1. \A q \in Requests : pc'[q] \in {"task", "checked"} =>
              request'[q].task \in TaskKeys /\ request'[q].status # "done"
        BY <3>3, <3>5, RespondOthers, StatusRequest DEF CompletionsApart, Completes, Reopens
      <4>2. \A j \in TaskKeys : tasks'[j].status = "done" => tasks[j].status = "done"
        BY <3>1, <3>5
      <4> QED
        BY <3>2, <3>3, <4>1, <4>2, RespondOthers, DoneUnchanged
    <3> QED
      BY <3>4, <3>5
  <2> QED
    BY <1>1, <2>1, <2>2, <2>3, <2>4, <2>5, <2>6, <2>7 DEF Step
<1>2. CASE UNCHANGED vars
  BY <1>2 DEF vars, store, session, CompletionInv, CompletedWhileDone, RowsKnowDone, StatusKnowsDone,
     RowKnowsDone, Coherent, Free
<1> QED
  BY <1>1, <1>2 DEF Next, AllServed

LEMMA CompletionHolds == Spec /\ []CompletionsApart => []CompletionInv
<1>1. Init => CompletionInv
  BY InitCompletion
<1>2. IInv /\ CompletionsApart /\ CompletionInv /\ [Next]_vars => CompletionInv'
  BY StepCompletion DEF IInv, StoreInvariant, TypeInvariant
<1> QED
  BY <1>1, <1>2, InvariantHolds, PTL DEF Spec

\* Whatever recomputes overlap with each other, completed_at is set exactly while
\* a task is done, as long as completions keep out of the way.
THEOREM CompletedWhileDoneApart ==
  Spec /\ []CompletionsApart => []CompletedWhileDone
<1>1. CompletionInv => CompletedWhileDone
  BY DEF CompletionInv
<1> QED
  BY <1>1, CompletionHolds, PTL

\* Whatever recomputes overlap with each other, none of them takes a completed
\* task back, as long as completions keep out of the way.
THEOREM RecomputeKeepsDoneApart ==
  Spec /\ []CompletionsApart => RecomputeKeepsDone
<1>1. IInv /\ CompletionInv /\ [Next]_vars =>
        [\A r \in Requests : RecomputePlan(r) =>
           \A k \in TaskKeys : tasks[k].status = "done" => tasks'[k].status = "done"]_vars
  BY RecomputeLeavesDone DEF IInv, StoreInvariant, TypeInvariant
<1> QED
  BY <1>1, InvariantHolds, CompletionHolds, PTL DEF Spec, RecomputeKeepsDone

\* As long as completions keep out of the way, nobody completes a blocked task
\* without force, though the check and the commit are two steps.
THEOREM CompletionRespectsDependenciesApart ==
  Spec /\ []CompletionsApart => CompletionRespectsDependencies
<1> DEFINE Respects ==
      \A k \in TaskKeys :
        tasks[k].status # "done" /\ tasks'[k].status = "done" =>
          \/ \E r \in Requests : request[r].kind = "status" /\ request[r].task = k /\ request[r].force
          \/ \A d \in tasks[k].metadata.depends_on : tasks[d].status = "done"
<1>1. IInv /\ CompletionInv /\ [Next]_vars => [Respects]_vars
  <2> SUFFICES ASSUME IInv, CompletionInv, [Next]_vars, UNCHANGED vars => FALSE,
                      NEW k \in TaskKeys, tasks[k].status # "done", tasks'[k].status = "done"
               PROVE  \/ \E q \in Requests : request[q].kind = "status" /\ request[q].task = k /\ request[q].force
                      \/ Free(k)
    BY DEF Free
  <2>1. TypeInvariant /\ CopiesRemain
    BY DEF IInv, StoreInvariant, TypeInvariant
  <2>2. PICK r \in Requests : Step(r)
    BY DEF Next, AllServed
  <2>3. ~RecomputePlan(r)
    BY <2>1, RecomputeLeavesDone
  <2>4. UpdateStatus(r)
    BY <2>2, <2>3, OthersKeepTasks
  <2>5. k = request[r].task /\ request[r].status = "done"
    BY <2>1, <2>4, StatusCommit
  <2>6. request[r].kind = "status" /\ pc[r] = "checked"
    BY <2>1, <2>4, StatusRequest DEF UpdateStatus
  <2>7. request[r].force \/ Free(k)
    BY <2>5, <2>6 DEF CompletionInv, StatusKnowsDone, RowKnowsDone
  <2> QED
    BY <2>5, <2>6, <2>7
<1> QED
  BY <1>1, InvariantHolds, CompletionHolds, PTL DEF Spec, CompletionRespectsDependencies

-----------------------------------------------------------------------------
(* The abstract plan                                                       *)

LEMMA SettledStatus ==
  ASSUME NEW f \in Plannable, NEW k \in TaskKeys, tasks \in [TaskKeys -> AnyTask]
  PROVE  Recomputed(tasks[k], k, Planner[f]).status = Atomic!SettledFor(f, k)
<1>1. tasks[k] \in AnyTask
  OBVIOUS
<1>2. tasks[k].status \in Open \cup {"absent", "done", "skipped"}
  BY <1>1 DEF AnyTask, Task, NoTask, Status
<1> DEFINE row == Recomputed(tasks[k], k, Planner[f])
           planned == k \in DOMAIN Planner[f]
           old == tasks[k].status
<1>3. /\ old = "done" => row.status = "done"
      /\ planned /\ old \in {"absent", "skipped"} => row.status = "todo"
      /\ planned /\ old \in Open => row.status = old
      /\ ~planned /\ old = "absent" => row.status = "absent"
      /\ ~planned /\ old \notin {"absent", "done"} => row.status = "skipped"
  BY <1>1, RecomputedRow
<1>4. Atomic!SettledFor(f, k) =
        CASE old = "done"                                 -> "done"
          [] planned /\ old \in {"absent", "skipped"}     -> "todo"
          [] ~planned /\ old # "done" /\ old # "absent"   -> "skipped"
          [] OTHER                                        -> old
  BY DEF Atomic!SettledFor
<1>5. old \in Open \cup {"absent", "done", "skipped"}
  BY <1>2
<1>6. row.status = Atomic!SettledFor(f, k)
  <2> HIDE DEF row, planned, old
  <2>1. CASE old = "done"
    BY <1>3, <1>4, <2>1
  <2>2. CASE planned /\ old # "done"
    BY <1>3, <1>4, <1>5, <2>2 DEF Open
  <2>3. CASE ~planned /\ old # "done"
    BY <1>3, <1>4, <1>5, <2>3 DEF Open
  <2> QED
    BY <2>1, <2>2, <2>3
<1> QED
  BY <1>6

\* Requests that do not overlap implement AtomicPlan.
THEOREM StoreImplementsAtomicPlan ==
  Spec /\ []NoOverlap => ImplementsAtomicPlan
<1> DEFINE status == [k \in TaskKeys |-> tasks[k].status]
<1>1. Init => Atomic!Init
  <2> SUFFICES ASSUME Init PROVE Atomic!Init
    OBVIOUS
  <2>1. snapshot.facts_hash = facts
    BY DEF Init, Snapshot
  <2>2. status = [k \in TaskKeys |-> IF k \in DOMAIN Planner[facts] THEN "todo" ELSE "absent"]
    BY DEF Init, NewTask, NoTask
  <2>3. facts \in {f \in DOMAIN Planner : Normalize[f] = f}
    BY DEF Init, Plannable
  <2> QED
    BY <2>1, <2>2, <2>3 DEF Atomic!Init
<1>2. Inv1 /\ [Next]_vars => [Atomic!Next]_(Atomic!vars)
  <2> SUFFICES ASSUME Inv1, [Next]_vars PROVE Atomic!Next \/ UNCHANGED Atomic!vars
    OBVIOUS
  <2>1. TypeInvariant /\ CopiesRemain /\ Fresh
    BY DEF Inv1, IInv, StoreInvariant, TypeInvariant
  <2>2. ASSUME UNCHANGED store PROVE UNCHANGED Atomic!vars
    BY <2>2 DEF store, Atomic!vars
  <2>3. ASSUME NEW r \in Requests, pc[r] \in {"plan", "tasks"}, WriteFacts(r)
        PROVE  /\ facts' = NewFacts(r)
               /\ request[r].kind = "patch" => request[r].patch \in Patches
                                               /\ NewFacts(r) = Atomic!With(request[r].patch)
               /\ request[r].kind # "patch" => NewFacts(r) = facts
    <3>1. request[r].kind = "patch" => request[r].patch \in Patches
      BY <2>1, <2>3 DEF TypeInvariant, SessionsFit, SessionFits, Request
    <3> QED
      BY <2>1, <2>3, <3>1, FreshFacts DEF Atomic!With, Merge
  <2>4. ASSUME NEW r \in Requests, UpdateFacts(r) PROVE Atomic!Next
    <3>1. request[r].kind = "patch"
      BY <2>1, <2>4 DEF UpdateFacts, Recomputes, TypeInvariant, SessionsFit, SessionFits
    <3>2. facts' = Atomic!With(request[r].patch) /\ request[r].patch \in Patches
      BY <2>3, <2>4, <3>1 DEF UpdateFacts
    <3>3. UNCHANGED <<snapshot.facts_hash, status>>
      BY <2>4 DEF UpdateFacts
    <3>4. Atomic!Patch(request[r].patch)
      BY <3>2, <3>3 DEF Atomic!Patch
    <3> QED
      BY <3>2, <3>4 DEF Atomic!Next
  <2>5. ASSUME NEW r \in Requests, RecomputeNothing(r) PROVE Atomic!Next \/ UNCHANGED Atomic!vars
    <3>1. plan[r].snapshot = snapshot
      BY <2>1, <2>5 DEF RecomputeNothing, Fresh
    <3>2. NewFacts(r) = snapshot.facts_hash /\ snapshot'.facts_hash = snapshot.facts_hash
      BY <2>5, <3>1 DEF RecomputeNothing, FastPath
    <3>3. UNCHANGED status
      BY <2>5 DEF RecomputeNothing
    <3>4. CASE request[r].kind = "patch"
      <4>1. facts' = Atomic!With(request[r].patch) /\ request[r].patch \in Patches
            /\ Atomic!With(request[r].patch) = snapshot.facts_hash
        BY <2>3, <2>5, <3>2, <3>4 DEF RecomputeNothing
      <4>2. Atomic!PatchAndRecompute(request[r].patch)
        BY <3>2, <3>3, <4>1 DEF Atomic!PatchAndRecompute
      <4> QED
        BY <4>1, <4>2 DEF Atomic!Next
    <3>5. CASE request[r].kind # "patch"
      <4>1. facts' = facts
        BY <2>3, <2>5, <3>5 DEF RecomputeNothing
      <4> QED
        BY <3>2, <3>3, <4>1 DEF Atomic!vars
    <3> QED
      BY <3>4, <3>5
  <2>6. ASSUME NEW r \in Requests, RecomputePlan(r) PROVE Atomic!Next
    <3> DEFINE f == NewFacts(r)
    <3>1. f \in Plannable /\ tasks' = [k \in TaskKeys |-> Recomputed(tasks[k], k, Planner[f])]
      BY <2>1, <2>6, FreshRecompute
    <3>2. snapshot'.facts_hash = f
      BY <2>6 DEF RecomputePlan, Snapshot
    <3>3. /\ facts' = f
          /\ request[r].kind = "patch" => request[r].patch \in Patches /\ f = Atomic!With(request[r].patch)
          /\ request[r].kind # "patch" => f = facts
      BY <2>3, <2>6 DEF RecomputePlan
    <3> HIDE DEF f
    <3>4. tasks \in [TaskKeys -> AnyTask]
      BY <2>1 DEF TypeInvariant, TypeOK, AnyTask
    <3>5. \A k \in TaskKeys : tasks'[k].status = Atomic!SettledFor(f, k)
      BY <3>1, <3>4, SettledStatus
    <3>6. Atomic!Settle(f)
      BY <3>1, <3>2, <3>5 DEF Atomic!Settle, Plannable
    <3>7. CASE request[r].kind = "patch"
      <4>1. f # snapshot.facts_hash
        <5>1. ~FastPath(r)
          BY <2>1, <2>6 DEF RecomputePlan, TypeInvariant, SessionsFit, SessionFits
        <5>2. plan[r].snapshot = snapshot
          BY <2>1, <2>6 DEF RecomputePlan, Fresh
        <5> QED
          BY <3>7, <5>1, <5>2 DEF FastPath, IsFactChange, f
      <4>2. Atomic!PatchAndRecompute(request[r].patch)
        BY <3>3, <3>6, <3>7, <4>1 DEF Atomic!PatchAndRecompute, Atomic!Settle
      <4> QED
        BY <3>3, <3>7, <4>2 DEF Atomic!Next
    <3>8. CASE request[r].kind # "patch"
      BY <3>3, <3>6, <3>8 DEF Atomic!Next, Atomic!Recompute, Atomic!Settle
    <3> QED
      BY <3>7, <3>8
  <2>7. ASSUME NEW r \in Requests, UpdateStatus(r) PROVE Atomic!Next
    <3> DEFINE k == request[r].task
               s == request[r].status
    <3>1. k \in TaskKeys /\ s \in Targets /\ tasks[k] \in Task /\ tasks' = [tasks EXCEPT ![k] = StatusSet(tasks[k], s)]
      BY <2>1, <2>7, FreshUpdateStatus
    <3>2. StatusSet(tasks[k], s).status = s
      BY <3>1 DEF StatusSet, Task
    <3>3. tasks[k].status # "absent"
      BY <3>1 DEF Task, Status, Open
    <3> HIDE DEF k, s
    <3>4. status' = [status EXCEPT ![k] = s]
      BY <2>1, <3>1, <3>2 DEF TypeInvariant, TypeOK
    <3>5. UNCHANGED <<facts, snapshot.facts_hash>>
      BY <2>7 DEF UpdateStatus
    <3>6. Atomic!SetStatus(k, s)
      BY <3>1, <3>3, <3>4, <3>5 DEF Atomic!SetStatus
    <3> QED
      BY <3>1, <3>6 DEF Atomic!Next, Atomic!SetStatus
  <2>8. ASSUME NEW r \in Requests, Step(r) PROVE Atomic!Next \/ UNCHANGED Atomic!vars
    BY <2>2, <2>4, <2>5, <2>6, <2>7, <2>8 DEF Step, GetPlan, RejectFacts, ReadTasks, FailRecompute,
       GetTask, CheckDependencies, RefuseBlocked
  <2> QED
    BY <2>2, <2>8 DEF Next, AllServed, vars
<1> QED
  BY <1>1, <1>2, FreshHolds, PTL DEF Spec, ImplementsAtomicPlan, Atomic!Spec

=============================================================================
