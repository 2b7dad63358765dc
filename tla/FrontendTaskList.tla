------------------------- MODULE FrontendTaskList --------------------------
(***************************************************************************)
(* The page with the task list of one plan: what it shows, the API calls   *)
(* it has in flight, and the stored plan behind them.                      *)
(*                                                                         *)
(* The page shows a change before the server has made it, and puts back    *)
(* the list of the moment of the click if the call fails.  Calls for       *)
(* different tasks overlap; their answers come in any order, late or never *)
(* (a lost answer and a lost request look the same).  After a decision the *)
(* page reloads: two GETs, sent together, served one by one.               *)
(*                                                                         *)
(* The server does each request in one step: what two requests may do to   *)
(* each other in the database is the subject of PlanStore.  Nobody else    *)
(* changes the plan, every dependency is hard, and the server is done with *)
(* a call that has failed on the page.                                     *)
(***************************************************************************)
EXTENDS Naturals, FiniteSets

CONSTANTS
  Tasks,
  Decisions,    \* the tasks of task_kind "decision"
  Kinds,        \* the values of child_insurance_kind
  Choices,      \* those the page offers
  FirstKind,    \* its value when the plan was made
  Planned,      \* Planned[f][k]: the dependencies of task k in a plan for kind f
  MaxInFlight,  \* BOUND: clicks whose calls overlap
  Page,         \* not a task: the page itself, which loads when it opens
  NoRow,
  NoCall,
  NoAnswer

(* One decision at most, so that loads do not overlap: its buttons are       *)
(* disabled until the reload after it is over, all others while loading.     *)
ASSUME TasksAssumption ==
  /\ Decisions \subseteq Tasks /\ Page \notin Tasks
  /\ \A d, e \in Decisions : d = e
  /\ Choices \subseteq Kinds /\ FirstKind \in Kinds
ASSUME OverlapAssumption == MaxInFlight \in Nat
ASSUME PlannedAssumption ==
  /\ DOMAIN Planned = Kinds
  /\ \A f \in Kinds : /\ DOMAIN Planned[f] \subseteq Tasks
                      /\ Planned[f] \in [DOMAIN Planned[f] -> SUBSET DOMAIN Planned[f]]

VARIABLES
  kind,          \* the stored child_insurance_kind; the stored snapshot is Planned[kind]
  rows,          \* rows[k]: the stored task
  tasks,         \* state of the page: the tasks shown, by key
  dependencies,  \* state of the page: mapDependenciesByTask of the snapshot it loaded
  loading,
  error,         \* an error message is shown
  patch,         \* patch[k]: the PATCH the page waits for on behalf of task k
  load,          \* the two GETs the page waits for
  passedOver,    \* history: done tasks that kept their metadata through a recompute
  crossed        \* history: the last list was read while an update was under way

stored == <<kind, rows>>
shown == <<tasks, dependencies, loading, error>>
vars == <<stored, shown, patch, load, passedOver, crossed>>

Row(status, blockedBy) == [status |-> status, blocked_by |-> blockedBy]
Empty == [k \in Tasks |-> NoRow]

-----------------------------------------------------------------------------
(* What the page shows.                                                      *)

Listed == {k \in Tasks : tasks[k] # NoRow}

\* Mutant: without the task's own metadata, for a task not in the snapshot.
BlockedByOfSnapshot(k) == IF k \in DOMAIN dependencies THEN dependencies[k] ELSE {}

BlockedBy(k) == IF k \in DOMAIN dependencies THEN dependencies[k] ELSE tasks[k].blocked_by

\* getUnresolvedDependencies and isBlocked.
ShownBlocked(k) ==
  /\ tasks[k].status # "done"
  /\ \E d \in BlockedBy(k) : ~(d \in Listed /\ tasks[d].status = "done")

\* setTasks(current => current.map(...)).
With(k, row) == [tasks EXCEPT ![k] = IF @ = NoRow THEN NoRow ELSE row]

Deciding == \E k \in Tasks : patch[k] # NoCall /\ patch[k].what = "decision"
Updating == \E k \in Tasks : patch[k] # NoCall /\ patch[k].what = "update"

InFlight(k) == patch[k] # NoCall \/ (load # NoCall /\ load.by = k)

Enabled(k) ==
  /\ ~loading /\ k \in Listed /\ ~InFlight(k)
  /\ Cardinality({j \in Tasks : InFlight(j)}) < MaxInFlight

-----------------------------------------------------------------------------
(* Clicks.                                                                   *)

Send(k, call) == patch' = [patch EXCEPT ![k] = call]

Update(status, force) ==
  [what |-> "update", status |-> status, force |-> force,
   previousTasks |-> tasks, step |-> "sent"]

\* Mutant: a click clears the error.
ShowAtOnceClearing(k, status) ==
  /\ tasks' = With(k, [tasks[k] EXCEPT !.status = status])
  /\ error' = FALSE
  /\ UNCHANGED <<dependencies, loading>>

ShowAtOnce(k, status) ==
  /\ tasks' = With(k, [tasks[k] EXCEPT !.status = status])
  /\ UNCHANGED <<dependencies, loading, error>>

ToggleDone(k) ==
  LET next == IF tasks[k].status = "done" THEN "todo" ELSE "done"
  IN /\ Enabled(k) /\ k \notin Decisions /\ ~ShownBlocked(k)
     /\ ShowAtOnce(k, next)
     /\ Send(k, Update(next, FALSE))
     /\ UNCHANGED <<stored, load, passedOver, crossed>>

\* Offered for every task that is shown as blocked, decisions included.
ForceComplete(k) ==
  /\ Enabled(k) /\ ShownBlocked(k)
  /\ ShowAtOnce(k, "done")
  /\ Send(k, Update("done", TRUE))
  /\ UNCHANGED <<stored, load, passedOver, crossed>>

\* Offered whatever the status of the decision.
SetChildInsuranceKind(k, choice) ==
  /\ Enabled(k) /\ k \in Decisions
  /\ error' = FALSE
  /\ Send(k, [what |-> "decision", choice |-> choice, step |-> "sent"])
  /\ UNCHANGED <<stored, tasks, dependencies, loading, load, passedOver, crossed>>

-----------------------------------------------------------------------------
(* The server.  Every call it makes may lose its answer.                     *)

At(k, what, step) == patch[k] # NoCall /\ patch[k].what = what /\ patch[k].step = step

\* What the page will still need of the call.
Failed(call) ==
  IF call.what = "update"
  THEN [what |-> "update", step |-> "failed", previousTasks |-> call.previousTasks]
  ELSE [what |-> "decision", step |-> "failed"]

\* Undone dependencies, as the metadata of the row names them.
Unresolved(k) == {d \in rows[k].blocked_by : rows[d] = NoRow \/ rows[d].status # "done"}

Refuses(k, status, force) ==
  status = "done" /\ (k \in Decisions \/ (Unresolved(k) # {} /\ ~force))

UpdateStatus(k) ==
  /\ At(k, "update", "sent")
  /\ LET call == patch[k]
         row == [rows[k] EXCEPT !.status = call.status]
     IN IF Refuses(k, call.status, call.force)
        THEN /\ Send(k, Failed(call))
             /\ rows' = rows
        ELSE /\ rows' = [rows EXCEPT ![k] = row]
             /\ \/ Send(k, [what |-> "update", step |-> "answered", row |-> row])
                \/ Send(k, Failed(call))
  /\ UNCHANGED <<kind, shown, load, passedOver, crossed>>

\* recompute_plan for kind f; done tasks keep status and metadata.
Recomputed(f) ==
  LET Done(k) == rows[k] # NoRow /\ rows[k].status = "done"
  IN [k \in Tasks |->
       IF Done(k) \/ (rows[k] = NoRow /\ k \notin DOMAIN Planned[f]) THEN rows[k]
       ELSE IF k \in DOMAIN Planned[f] THEN Row("todo", Planned[f][k])
       ELSE [rows[k] EXCEPT !.status = "skipped"]]

\* The same facts take the fast path.
PatchFacts(k) ==
  /\ At(k, "decision", "sent")
  /\ kind' = patch[k].choice
  /\ IF kind' = kind
     THEN UNCHANGED <<rows, passedOver>>
     ELSE /\ rows' = Recomputed(kind')
          /\ passedOver' = {d \in Tasks : rows[d] # NoRow /\ rows[d].status = "done"}
  /\ \/ Send(k, [what |-> "decision", step |-> "answered"])
     \/ Send(k, Failed(patch[k]))
  /\ UNCHANGED <<shown, load, crossed>>

ReadPlan ==
  /\ load # NoCall /\ load.plan = NoAnswer
  /\ load' = [load EXCEPT !.plan = Planned[kind]]
  /\ UNCHANGED <<stored, shown, patch, passedOver, crossed>>

ReadTasks ==
  /\ load # NoCall /\ load.tasks = NoAnswer
  /\ load' = [load EXCEPT !.tasks = rows]
  /\ crossed' = Updating
  /\ UNCHANGED <<stored, shown, patch, passedOver>>

\* The network loses a PATCH before the server sees it, or the server is down.
LoseCall(k) ==
  /\ patch[k] # NoCall /\ patch[k].step = "sent"
  /\ Send(k, Failed(patch[k]))
  /\ UNCHANGED <<stored, shown, load, passedOver, crossed>>

-----------------------------------------------------------------------------
(* Answers.                                                                  *)

ShowUpdated(k) ==
  /\ At(k, "update", "answered")
  /\ tasks' = With(k, patch[k].row)
  /\ Send(k, NoCall)
  /\ UNCHANGED <<stored, dependencies, loading, error, load, passedOver, crossed>>

\* The whole list, as it was when the task was clicked.
ShowPrevious(k) ==
  /\ At(k, "update", "failed")
  /\ tasks' = patch[k].previousTasks
  /\ error' = TRUE
  /\ Send(k, NoCall)
  /\ UNCHANGED <<stored, dependencies, loading, load, passedOver, crossed>>

DecisionFailed(k) ==
  /\ At(k, "decision", "failed")
  /\ error' = TRUE
  /\ Send(k, NoCall)
  /\ UNCHANGED <<stored, tasks, dependencies, loading, load, passedOver, crossed>>

BeginLoad(by) ==
  /\ load' = [by |-> by, plan |-> NoAnswer, tasks |-> NoAnswer]
  /\ loading' = TRUE
  /\ error' = FALSE
  /\ UNCHANGED <<stored, tasks, dependencies, passedOver, crossed>>

LoadAfterDecision(k) ==
  /\ At(k, "decision", "answered")
  /\ Send(k, NoCall)
  /\ BeginLoad(k)

\* "Erneut laden", offered when there is an error and nothing to show.
Reload ==
  /\ ~loading /\ error /\ Listed = {}
  /\ BeginLoad(Page)
  /\ UNCHANGED patch

ShowLoaded ==
  /\ load # NoCall /\ load.plan # NoAnswer /\ load.tasks # NoAnswer
  /\ dependencies' = load.plan
  /\ tasks' = load.tasks
  /\ loading' = FALSE
  /\ load' = NoCall
  /\ UNCHANGED <<stored, error, patch, passedOver, crossed>>

\* Either GET fails, or its answer is lost; the other one is forgotten.
LoadFailed ==
  /\ load # NoCall
  /\ error' = TRUE
  /\ loading' = FALSE
  /\ load' = NoCall
  /\ UNCHANGED <<stored, tasks, dependencies, patch, passedOver, crossed>>

-----------------------------------------------------------------------------

\* The page has just opened on a new plan, and loads.
Init ==
  /\ kind = FirstKind
  /\ rows = [k \in Tasks |-> IF k \in DOMAIN Planned[FirstKind]
                             THEN Row("todo", Planned[FirstKind][k]) ELSE NoRow]
  /\ tasks = Empty
  /\ dependencies = [k \in {} |-> {}]
  /\ loading = TRUE
  /\ error = FALSE
  /\ patch = [k \in Tasks |-> NoCall]
  /\ load = [by |-> Page, plan |-> NoAnswer, tasks |-> NoAnswer]
  /\ passedOver = {}
  /\ crossed = FALSE

Next ==
  \/ \E k \in Tasks :
       \/ ToggleDone(k) \/ ForceComplete(k)
       \/ \E choice \in Choices : SetChildInsuranceKind(k, choice)
       \/ UpdateStatus(k) \/ PatchFacts(k) \/ LoseCall(k)
       \/ ShowUpdated(k) \/ ShowPrevious(k) \/ DecisionFailed(k) \/ LoadAfterDecision(k)
  \/ ReadPlan \/ ReadTasks \/ ShowLoaded \/ LoadFailed \/ Reload

Spec == Init /\ [][Next]_vars

-----------------------------------------------------------------------------
Statuses == {"todo", "done", "skipped"}
Rows == [status : Statuses, blocked_by : SUBSET Tasks]
Lists == [Tasks -> Rows \cup {NoRow}]

\* What the steps of a call carry.
SentUpdates ==
  [what : {"update"}, step : {"sent"}, status : Statuses, force : BOOLEAN, previousTasks : Lists]
AnsweredUpdates == [what : {"update"}, step : {"answered"}, row : Rows]
FailedUpdates == [what : {"update"}, step : {"failed"}, previousTasks : Lists]
SentDecisions == [what : {"decision"}, step : {"sent"}, choice : Choices]
OverDecisions == [what : {"decision"}, step : {"answered", "failed"}]
Calls == SentUpdates \cup AnsweredUpdates \cup FailedUpdates \cup SentDecisions \cup OverDecisions

Maps == UNION {[K -> SUBSET Tasks] : K \in SUBSET Tasks}
Loads == [by : Tasks \cup {Page}, plan : Maps \cup {NoAnswer}, tasks : Lists \cup {NoAnswer}]

ASSUME NothingAssumption ==
  NoRow \notin Rows /\ NoCall \notin Calls \cup Loads /\ NoAnswer \notin Maps \cup Lists

TypeOK ==
  /\ kind \in Kinds /\ rows \in Lists
  /\ tasks \in Lists /\ dependencies \in Maps /\ loading \in BOOLEAN /\ error \in BOOLEAN
  /\ patch \in [Tasks -> Calls \cup {NoCall}] /\ load \in Loads \cup {NoCall}
  /\ passedOver \subseteq Tasks /\ crossed \in BOOLEAN

AtRest == load = NoCall /\ \A k \in Tasks : patch[k] = NoCall

(* When the page waits for nothing it shows the stored tasks, or an error,   *)
(* whatever answers were late, lost or crossed: putting back the whole list  *)
(* of an earlier moment (page.tsx:88) may hide what other calls have done,   *)
(* but never silently.  Except: the last list was read while an update was   *)
(* under way.                                                                *)
ErrorTellsDivergence == AtRest /\ ~error /\ ~crossed => tasks = rows

(* What the page shows as blocked is what the server refuses to complete,    *)
(* although the page goes by the snapshot and the server by the metadata of  *)
(* the rows, and tasks come, go and come back.  Except: a task was done      *)
(* while the plan was recomputed, and was reopened since.                    *)
BlockedIsHonest ==
  AtRest /\ ~error /\ ~crossed =>
    \A k \in Listed \ (Decisions \cup passedOver) :
      ShownBlocked(k) <=> Refuses(k, "done", FALSE) /\ rows[k].status # "done"

(* Why.  A row that is shown, or will be, is stored; the list is not empty    *)
(* while a PATCH is on its way, so there is no reload until it is answered.  *)
Pending(k) == patch[k] # NoCall /\ patch[k].what = "update" /\ patch[k].step # "answered"
Read == load # NoCall /\ load.tasks # NoAnswer

Stored(list) == \A k \in Tasks : list[k] # NoRow => rows[k] # NoRow

ListsAreStored ==
  /\ Stored(tasks)
  /\ Read => Stored(load.tasks)
  /\ \A k \in Tasks : Pending(k) => Stored(patch[k].previousTasks)

CallersListed ==
  \A k \in Tasks : patch[k] # NoCall =>
    /\ Listed # {} /\ rows[k] # NoRow
    /\ Read => load.tasks[k] # NoRow
    /\ Pending(k) => patch[k].previousTasks[k] # NoRow

\* One load at a time, and none while a decision is on its way.
LoadsAlone ==
  /\ load # NoCall <=> loading
  /\ loading => ~Deciding
  /\ \A k \in Tasks : patch[k] # NoCall /\ patch[k].what = "decision" => k \in Decisions

(* A task shown is the task stored, or an answer that says so is on its way, *)
(* unless an error is shown or a load will replace the list.                 *)
Agrees(k) ==
  /\ patch[k] = NoCall => tasks[k] = rows[k]
  /\ patch[k] # NoCall => tasks[k] # NoRow
  /\ patch[k] # NoCall /\ patch[k].step = "answered" => patch[k].row = rows[k]

ShownAgree == ~loading /\ ~Deciding /\ ~error /\ ~crossed => \A k \in Tasks : Agrees(k)

LoadedAgree ==
  load # NoCall =>
    /\ load.plan # NoAnswer => load.plan = Planned[kind]
    /\ load.tasks # NoAnswer /\ ~crossed => load.tasks = rows /\ ~Updating

\* The page's dependencies are the plan's, and so is the metadata of the rows.
DependenciesAgree ==
  /\ ~loading /\ ~Deciding /\ ~error => dependencies = Planned[kind]
  /\ \A k \in DOMAIN Planned[kind] \ passedOver :
       rows[k] # NoRow /\ rows[k].blocked_by = Planned[kind][k]

PageInvariant ==
  /\ TypeOK /\ ListsAreStored /\ CallersListed /\ LoadsAlone
  /\ ShownAgree /\ LoadedAgree /\ DependenciesAgree

\* Not true: the same without the exceptions.
ScreenIsTrue == AtRest /\ ~error => tasks = rows
ReopenedIsHonest ==
  AtRest /\ ~error /\ ~crossed =>
    \A k \in Listed \ Decisions :
      ShownBlocked(k) <=> Refuses(k, "done", FALSE) /\ rows[k].status # "done"
=============================================================================
