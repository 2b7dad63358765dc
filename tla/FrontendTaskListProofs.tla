---------------------- MODULE FrontendTaskListProofs -----------------------
(* The invariant of the page and what follows from it, for any tasks, any    *)
(* plans with at most one decision, and any number of overlapping clicks.    *)
EXTENDS FrontendTaskList, TLAPS

LEMMA PlannedIsMap == ASSUME NEW f \in Kinds PROVE Planned[f] \in Maps
BY PlannedAssumption DEF Maps

LEMMA CallForms ==
  ASSUME NEW c \in Calls
  PROVE  /\ c.what = "update" /\ c.step = "sent" => c \in SentUpdates
         /\ c.what = "update" /\ c.step = "answered" => c \in AnsweredUpdates
         /\ c.what = "update" /\ c.step = "failed" => c \in FailedUpdates
         /\ c.what = "decision" /\ c.step = "sent" => c \in SentDecisions
         /\ c.what = "decision" /\ c.step # "sent" => c \in OverDecisions
         /\ c.what \in {"update", "decision"} /\ c.step \in {"sent", "answered", "failed"}
BY DEF Calls, SentUpdates, AnsweredUpdates, FailedUpdates, SentDecisions, OverDecisions

LEMMA SentUpdateIsCall ==
  ASSUME NEW status \in Statuses, NEW force \in BOOLEAN, tasks \in Lists
  PROVE  Update(status, force) \in Calls
BY DEF Update, Calls, SentUpdates

LEMMA FailedIsCall == ASSUME NEW c \in Calls, c.step = "sent" PROVE Failed(c) \in Calls
<1>1. CASE c.what = "update"
  <2>1. c \in SentUpdates BY <1>1, CallForms
  <2> QED BY <1>1, <2>1 DEF Failed, Calls, SentUpdates, FailedUpdates
<1>2. CASE c.what = "decision"
  BY <1>2 DEF Failed, Calls, OverDecisions
<1> QED BY <1>1, <1>2, CallForms

LEMMA WithInLists ==
  ASSUME tasks \in Lists, NEW k \in Tasks, NEW row \in Rows
  PROVE  /\ With(k, row) \in Lists
         /\ \A j \in Tasks : With(k, row)[j] = NoRow <=> tasks[j] = NoRow
         /\ \A j \in Tasks : j # k => With(k, row)[j] = tasks[j]
         /\ tasks[k] # NoRow => With(k, row)[k] = row
BY NothingAssumption DEF With, Lists

LEMMA RestatusedIsRow ==
  ASSUME NEW row \in Rows, NEW status \in Statuses
  PROVE  [row EXCEPT !.status = status] \in Rows
BY DEF Rows

LEMMA RecomputedInLists ==
  ASSUME rows \in Lists, NEW f \in Kinds
  PROVE  /\ Recomputed(f) \in Lists
         /\ \A k \in Tasks : rows[k] # NoRow => Recomputed(f)[k] # NoRow
         /\ \A k \in DOMAIN Planned[f] :
              ~(rows[k] # NoRow /\ rows[k].status = "done") =>
                Recomputed(f)[k] = Row("todo", Planned[f][k])
<1> DEFINE Done(k) == rows[k] # NoRow /\ rows[k].status = "done"
<1>1. ASSUME NEW k \in Tasks
      PROVE  /\ Recomputed(f)[k] \in Rows \cup {NoRow}
             /\ rows[k] # NoRow => Recomputed(f)[k] # NoRow
             /\ k \in DOMAIN Planned[f] /\ ~Done(k) => Recomputed(f)[k] = Row("todo", Planned[f][k])
  <2>1. rows[k] \in Rows \cup {NoRow} BY DEF Lists
  <2>2. k \in DOMAIN Planned[f] => Row("todo", Planned[f][k]) \in Rows
    BY PlannedAssumption DEF Row, Rows, Statuses
  <2>3. rows[k] # NoRow => [rows[k] EXCEPT !.status = "skipped"] \in Rows
    BY <2>1, RestatusedIsRow DEF Statuses
  <2>4. Recomputed(f)[k] =
          IF Done(k) \/ (rows[k] = NoRow /\ k \notin DOMAIN Planned[f]) THEN rows[k]
          ELSE IF k \in DOMAIN Planned[f] THEN Row("todo", Planned[f][k])
          ELSE [rows[k] EXCEPT !.status = "skipped"]
    BY DEF Recomputed
  <2> QED BY <2>1, <2>2, <2>3, <2>4, NothingAssumption
<1>2. Recomputed(f) = [k \in Tasks |-> Recomputed(f)[k]] BY DEF Recomputed
<1>3. DOMAIN Planned[f] \subseteq Tasks BY PlannedAssumption
<1> QED BY <1>1, <1>2, <1>3 DEF Lists

-----------------------------------------------------------------------------
(* Init.                                                                     *)

LEMMA InitInvariant == Init => PageInvariant
<1> SUFFICES ASSUME Init PROVE PageInvariant OBVIOUS
<1> USE DEF Init
<1>1. \A k \in DOMAIN Planned[FirstKind] : Row("todo", Planned[FirstKind][k]) \in Rows
  BY PlannedAssumption, TasksAssumption DEF Row, Rows, Statuses
<1>2. rows \in Lists
  BY <1>1 DEF Lists
<1>3. tasks \in Lists BY DEF Empty, Lists
<1>4. dependencies \in Maps
  <2>1. dependencies \in [{} -> SUBSET Tasks] OBVIOUS
  <2> QED BY <2>1 DEF Maps
<1>5. load \in Loads BY DEF Loads
<1>6. TypeOK
  BY <1>2, <1>3, <1>4, <1>5, TasksAssumption DEF TypeOK
<1>7. load # NoCall /\ load.tasks = NoAnswer /\ load.plan = NoAnswer
  BY <1>5, NothingAssumption
<1>8. ListsAreStored /\ CallersListed
  BY <1>7 DEF ListsAreStored, CallersListed, Read, Pending, Stored, Empty
<1>9. LoadsAlone /\ ShownAgree /\ LoadedAgree
  BY <1>7 DEF LoadsAlone, ShownAgree, LoadedAgree, Deciding
<1>10. DependenciesAgree
  <2>1. ASSUME NEW k \in DOMAIN Planned[FirstKind]
        PROVE  rows[k] # NoRow /\ rows[k].blocked_by = Planned[FirstKind][k]
    <3>1. k \in Tasks BY PlannedAssumption, TasksAssumption
    <3>2. rows[k] = Row("todo", Planned[FirstKind][k]) BY <3>1
    <3> QED BY <3>2, <1>1, NothingAssumption DEF Row
  <2> QED BY <2>1 DEF DependenciesAgree
<1> QED BY <1>6, <1>8, <1>9, <1>10 DEF PageInvariant

-----------------------------------------------------------------------------
(* Clicks.                                                                   *)

\* A click on task k: the list changes at most at k, and a PATCH is sent.
LEMMA ClickKeepsInvariant ==
  ASSUME PageInvariant, NEW k \in Tasks, Enabled(k), NEW call \in Calls,
         call.step = "sent",
         call.what = "decision" => k \in Decisions,
         call.what = "update" => call.previousTasks = tasks /\ error' = error,
         Send(k, call), tasks' \in Lists,
         \A j \in Tasks : tasks'[j] = NoRow <=> tasks[j] = NoRow,
         \A j \in Tasks : j # k => tasks'[j] = tasks[j],
         error' \in BOOLEAN,
         UNCHANGED <<stored, dependencies, loading, load, passedOver, crossed>>
  PROVE  PageInvariant'
<1> USE DEF PageInvariant, stored
<1>1. /\ ~loading /\ load = NoCall /\ tasks[k] # NoRow /\ patch[k] = NoCall
  BY DEF Enabled, InFlight, LoadsAlone, Listed
<1>2. call # NoCall BY NothingAssumption
<1>3. /\ patch' \in [Tasks -> Calls \cup {NoCall}] /\ patch'[k] = call
      /\ \A j \in Tasks \ {k} : patch'[j] = patch[j]
  BY DEF Send, TypeOK
<1>4. TypeOK' BY <1>3 DEF TypeOK
<1>5. ListsAreStored' BY <1>1, <1>3 DEF ListsAreStored, Read, Pending, Stored
<1>6. CallersListed'
  BY <1>1, <1>3 DEF CallersListed, ListsAreStored, Listed, Read, Pending, Stored
<1>7. LoadsAlone' BY <1>1, <1>3 DEF LoadsAlone, Deciding
<1>8. ~Deciding' => ~Deciding BY <1>1, <1>3 DEF Deciding
<1>9. call.what \in {"update", "decision"} BY CallForms
<1>10. ~Deciding' => error' = error
  BY <1>2, <1>3, <1>9 DEF Deciding
<1>11. ShownAgree'
  BY <1>1, <1>2, <1>3, <1>8, <1>10 DEF ShownAgree, Agrees
<1>12. LoadedAgree' BY <1>1 DEF LoadedAgree
<1>13. DependenciesAgree' BY <1>8, <1>10 DEF DependenciesAgree
<1> QED BY <1>4, <1>5, <1>6, <1>7, <1>11, <1>12, <1>13

LEMMA ShowAtOnceKeeps ==
  ASSUME TypeOK, NEW k \in Tasks, tasks[k] # NoRow, NEW status \in Statuses, ShowAtOnce(k, status)
  PROVE  /\ tasks' \in Lists
         /\ \A j \in Tasks : tasks'[j] = NoRow <=> tasks[j] = NoRow
         /\ \A j \in Tasks : j # k => tasks'[j] = tasks[j]
<1>1. tasks[k] \in Rows BY DEF TypeOK, Lists
<1>2. [tasks[k] EXCEPT !.status = status] \in Rows BY <1>1, RestatusedIsRow
<1> QED BY <1>2, WithInLists DEF ShowAtOnce, TypeOK

LEMMA ToggleDoneStep ==
  ASSUME PageInvariant, NEW k \in Tasks, ToggleDone(k) PROVE PageInvariant'
<1> DEFINE next == IF tasks[k].status = "done" THEN "todo" ELSE "done"
<1>1. next \in Statuses BY DEF Statuses
<1>2. Enabled(k) /\ tasks[k] # NoRow BY DEF ToggleDone, Enabled, Listed
<1>3. TypeOK BY DEF PageInvariant
<1>4. ShowAtOnce(k, next) /\ Send(k, Update(next, FALSE)) BY DEF ToggleDone
<1>5. Update(next, FALSE) \in Calls BY <1>1, <1>3, SentUpdateIsCall DEF TypeOK
<1>6. /\ Update(next, FALSE).step = "sent" /\ Update(next, FALSE).what = "update"
      /\ Update(next, FALSE).previousTasks = tasks
  BY DEF Update
<1>7. /\ UNCHANGED <<stored, dependencies, loading, load, passedOver, crossed>>
      /\ error' = error /\ error' \in BOOLEAN
  BY <1>3, <1>4 DEF ToggleDone, ShowAtOnce, TypeOK
<1> HIDE DEF next
<1>8. /\ tasks' \in Lists
      /\ \A j \in Tasks : tasks'[j] = NoRow <=> tasks[j] = NoRow
      /\ \A j \in Tasks : j # k => tasks'[j] = tasks[j]
  BY <1>1, <1>2, <1>3, <1>4, ShowAtOnceKeeps
<1> QED BY <1>2, <1>4, <1>5, <1>6, <1>7, <1>8, ClickKeepsInvariant

LEMMA ForceCompleteStep ==
  ASSUME PageInvariant, NEW k \in Tasks, ForceComplete(k) PROVE PageInvariant'
<1>1. "done" \in Statuses BY DEF Statuses
<1>2. Enabled(k) /\ tasks[k] # NoRow BY DEF ForceComplete, Enabled, Listed
<1>3. TypeOK BY DEF PageInvariant
<1>4. ShowAtOnce(k, "done") /\ Send(k, Update("done", TRUE)) BY DEF ForceComplete
<1>5. Update("done", TRUE) \in Calls BY <1>1, <1>3, SentUpdateIsCall DEF TypeOK
<1>6. /\ Update("done", TRUE).step = "sent" /\ Update("done", TRUE).what = "update"
      /\ Update("done", TRUE).previousTasks = tasks
  BY DEF Update
<1>7. /\ UNCHANGED <<stored, dependencies, loading, load, passedOver, crossed>>
      /\ error' = error /\ error' \in BOOLEAN
  BY <1>3, <1>4 DEF ForceComplete, ShowAtOnce, TypeOK
<1>8. /\ tasks' \in Lists
      /\ \A j \in Tasks : tasks'[j] = NoRow <=> tasks[j] = NoRow
      /\ \A j \in Tasks : j # k => tasks'[j] = tasks[j]
  BY <1>1, <1>2, <1>3, <1>4, ShowAtOnceKeeps
<1> QED BY <1>2, <1>4, <1>5, <1>6, <1>7, <1>8, ClickKeepsInvariant

LEMMA SetChildInsuranceKindStep ==
  ASSUME PageInvariant, NEW k \in Tasks, NEW choice \in Choices, SetChildInsuranceKind(k, choice)
  PROVE  PageInvariant'
<1> DEFINE call == [what |-> "decision", choice |-> choice, step |-> "sent"]
<1>1. call \in Calls BY DEF Calls, SentDecisions
<1>2. call.step = "sent" /\ call.what = "decision" OBVIOUS
<1>3. Enabled(k) /\ k \in Decisions /\ Send(k, call) BY DEF SetChildInsuranceKind
<1>4. tasks' = tasks /\ tasks' \in Lists /\ error' \in BOOLEAN
  BY DEF SetChildInsuranceKind, PageInvariant, TypeOK
<1>5. UNCHANGED <<stored, dependencies, loading, load, passedOver, crossed>>
  BY DEF SetChildInsuranceKind
<1> HIDE DEF call
<1> QED BY <1>1, <1>2, <1>3, <1>4, <1>5, ClickKeepsInvariant

-----------------------------------------------------------------------------
(* The server.                                                               *)

LEMMA UpdateStatusStep ==
  ASSUME PageInvariant, NEW k \in Tasks, UpdateStatus(k) PROVE PageInvariant'
<1> USE DEF PageInvariant, stored, shown
<1> DEFINE call == patch[k]
           row == [rows[k] EXCEPT !.status = call.status]
           answered == [what |-> "update", step |-> "answered", row |-> row]
<1>1. call \in SentUpdates /\ patch[k] # NoCall /\ call.what = "update"
  <2>1. patch[k] # NoCall /\ call.what = "update" /\ call.step = "sent" BY DEF UpdateStatus, At
  <2>2. call \in Calls BY <2>1 DEF TypeOK
  <2> QED BY <2>1, <2>2, CallForms
<1>2. rows[k] # NoRow /\ rows[k] \in Rows
  BY <1>1 DEF CallersListed, TypeOK, Lists
<1>3. row \in Rows /\ row.blocked_by = rows[k].blocked_by
  BY <1>1, <1>2, RestatusedIsRow DEF SentUpdates, Rows
<1>4. answered \in AnsweredUpdates BY <1>3 DEF AnsweredUpdates
<1>5. /\ Failed(call) \in FailedUpdates
      /\ Failed(call).previousTasks = call.previousTasks
  BY <1>1 DEF Failed, SentUpdates, FailedUpdates
<1>6. \/ rows' = rows /\ Send(k, Failed(call))
      \/ rows' = [rows EXCEPT ![k] = row] /\ (Send(k, answered) \/ Send(k, Failed(call)))
  BY DEF UpdateStatus
<1>7. UNCHANGED <<kind, tasks, dependencies, loading, error, load, passedOver, crossed>>
  BY DEF UpdateStatus
<1> HIDE DEF call, row, answered
<1>8. PICK c \in AnsweredUpdates \cup FailedUpdates :
        /\ patch' = [patch EXCEPT ![k] = c]
        /\ c.step = "answered" => c.row = rows'[k]
        /\ c.step # "answered" => c.previousTasks = call.previousTasks
  <2>1. answered.step = "answered" /\ answered.row = row BY DEF answered
  <2>2. Failed(call).step = "failed" BY <1>1 DEF Failed
  <2> QED BY <1>2, <1>4, <1>5, <1>6, <2>1, <2>2 DEF Send, TypeOK, Lists
<1>9. /\ c \in Calls /\ c # NoCall /\ c.what = "update"
      /\ patch'[k] = c /\ patch' \in [Tasks -> Calls \cup {NoCall}]
      /\ \A j \in Tasks \ {k} : patch'[j] = patch[j]
  BY <1>8, NothingAssumption DEF Calls, AnsweredUpdates, FailedUpdates, TypeOK
<1>10. /\ rows' \in Lists
       /\ \A j \in Tasks \ {k} : rows'[j] = rows[j]
       /\ rows'[k] # NoRow /\ rows'[k].blocked_by = rows[k].blocked_by
  BY <1>2, <1>3, <1>6, NothingAssumption DEF TypeOK, Lists
<1>11. call.step = "sent" BY <1>1 DEF SentUpdates
<1>12. TypeOK' BY <1>7, <1>9, <1>10 DEF TypeOK
<1>13. \A list \in Lists : Stored(list) => Stored(list)' BY <1>10 DEF Stored
<1>14. ListsAreStored'
  <2>1. Stored(tasks)' BY <1>7, <1>13 DEF ListsAreStored, TypeOK, Stored
  <2>2. Read' => Stored(load.tasks)' BY <1>7, <1>10 DEF ListsAreStored, Read, Stored
  <2>3. ASSUME NEW j \in Tasks, Pending(j)' PROVE Stored(patch[j].previousTasks)'
    <3>1. Pending(j) /\ patch'[j].previousTasks = patch[j].previousTasks
      BY <1>1, <1>8, <1>9, <1>11, <2>3 DEF Pending, call
    <3> QED BY <3>1, <1>10 DEF ListsAreStored, Stored
  <2> QED BY <2>1, <2>2, <2>3 DEF ListsAreStored
<1>15. CallersListed'
  BY <1>1, <1>7, <1>8, <1>9, <1>10, <1>11 DEF CallersListed, Listed, Read, Pending, call
<1>16. (Deciding' <=> Deciding) /\ (Updating' <=> Updating)
  BY <1>1, <1>9 DEF Deciding, Updating, call
<1>17. LoadsAlone' BY <1>7, <1>9, <1>16 DEF LoadsAlone
<1>18. ShownAgree'
  BY <1>1, <1>7, <1>8, <1>9, <1>10, <1>16 DEF ShownAgree, Agrees, call
<1>19. LoadedAgree'
  <2>1. Updating BY <1>1 DEF Updating, call
  <2> QED BY <1>7, <2>1 DEF LoadedAgree
<1>20. DependenciesAgree' BY <1>7, <1>10, <1>16, PlannedAssumption DEF DependenciesAgree, TypeOK
<1> QED BY <1>12, <1>14, <1>15, <1>17, <1>18, <1>19, <1>20

\* A call of task k that is over on the server, and nothing else.
LEMMA FailureKeepsInvariant ==
  ASSUME PageInvariant, NEW k \in Tasks, patch[k] # NoCall, patch[k].step = "sent",
         Send(k, Failed(patch[k])),
         UNCHANGED <<stored, shown, load, passedOver, crossed>>
  PROVE  PageInvariant'
<1> USE DEF PageInvariant, stored, shown
<1>1. patch[k] \in Calls BY DEF TypeOK
<1>2. /\ Failed(patch[k]) \in Calls
      /\ Failed(patch[k]).what = patch[k].what /\ Failed(patch[k]).step = "failed"
      /\ patch[k].what = "update" => Failed(patch[k]).previousTasks = patch[k].previousTasks
  BY <1>1, FailedIsCall, CallForms DEF Failed
<1>3. /\ Failed(patch[k]) # NoCall /\ patch'[k] = Failed(patch[k])
      /\ patch' \in [Tasks -> Calls \cup {NoCall}]
      /\ \A j \in Tasks \ {k} : patch'[j] = patch[j]
  BY <1>2, NothingAssumption DEF Send, TypeOK
<1>4. TypeOK' BY <1>3 DEF TypeOK
<1>5. \A j \in Tasks : /\ patch'[j] = NoCall <=> patch[j] = NoCall
                       /\ patch[j] # NoCall => patch'[j].what = patch[j].what
                       /\ Pending(j)' => Pending(j) /\ patch'[j].previousTasks = patch[j].previousTasks
                       /\ patch'[j] # NoCall /\ patch'[j].step = "answered" => patch'[j] = patch[j]
  BY <1>2, <1>3 DEF Pending
<1>6. ListsAreStored' BY <1>5 DEF ListsAreStored, Read, Stored
<1>7. CallersListed' BY <1>5 DEF CallersListed, Read, Listed
<1>8. (Deciding' <=> Deciding) /\ (Updating' <=> Updating) BY <1>5 DEF Deciding, Updating
<1>9. LoadsAlone' BY <1>5, <1>8 DEF LoadsAlone
<1>10. ShownAgree' BY <1>5, <1>8 DEF ShownAgree, Agrees
<1>11. LoadedAgree' BY <1>8 DEF LoadedAgree
<1>12. DependenciesAgree' BY <1>8 DEF DependenciesAgree
<1> QED BY <1>4, <1>6, <1>7, <1>9, <1>10, <1>11, <1>12

LEMMA LoseCallStep ==
  ASSUME PageInvariant, NEW k \in Tasks, LoseCall(k) PROVE PageInvariant'
BY FailureKeepsInvariant DEF LoseCall

LEMMA PatchFactsStep ==
  ASSUME PageInvariant, NEW k \in Tasks, PatchFacts(k) PROVE PageInvariant'
<1> USE DEF PageInvariant, stored, shown
<1>1. /\ patch[k] # NoCall /\ patch[k].what = "decision" /\ patch[k] \in SentDecisions
      /\ kind' = patch[k].choice
  <2>1. patch[k] # NoCall /\ patch[k].what = "decision" /\ patch[k].step = "sent"
    BY DEF PatchFacts, At
  <2>2. patch[k] \in Calls BY <2>1 DEF TypeOK
  <2> QED BY <2>1, <2>2, CallForms DEF PatchFacts
<1>2. kind' \in Kinds BY <1>1, TasksAssumption DEF SentDecisions
<1>3. Deciding /\ ~loading /\ load = NoCall BY <1>1 DEF Deciding, LoadsAlone
<1>4. PICK c \in OverDecisions : patch' = [patch EXCEPT ![k] = c]
  BY <1>1 DEF PatchFacts, Send, Failed, OverDecisions
<1>5. /\ c # NoCall /\ c.what = "decision" /\ patch'[k] = c
      /\ patch' \in [Tasks -> Calls \cup {NoCall}]
      /\ \A j \in Tasks \ {k} : patch'[j] = patch[j]
  BY <1>4, NothingAssumption DEF Calls, OverDecisions, TypeOK
<1>6. /\ rows' \in Lists
      /\ \A j \in Tasks : rows[j] # NoRow => rows'[j] # NoRow
  BY <1>2, RecomputedInLists DEF PatchFacts, TypeOK
<1>7. UNCHANGED <<tasks, dependencies, loading, error, load, crossed>> BY DEF PatchFacts
<1>8. passedOver' \subseteq Tasks BY DEF PatchFacts, TypeOK
<1>9. TypeOK' BY <1>2, <1>5, <1>6, <1>7, <1>8 DEF TypeOK
<1>10. \A j \in Tasks : /\ patch'[j] = NoCall <=> patch[j] = NoCall
                        /\ patch[j] # NoCall => patch'[j].what = patch[j].what
                        /\ Pending(j)' => Pending(j) /\ patch'[j].previousTasks = patch[j].previousTasks
  BY <1>1, <1>5 DEF Pending
<1>11. ListsAreStored' BY <1>3, <1>6, <1>7, <1>10 DEF ListsAreStored, Read, Stored
<1>12. CallersListed' BY <1>3, <1>6, <1>7, <1>10 DEF CallersListed, Read, Listed
<1>13. Deciding' BY <1>5 DEF Deciding
<1>14. LoadsAlone' BY <1>3, <1>7, <1>10 DEF LoadsAlone
<1>15. ShownAgree' /\ LoadedAgree' BY <1>3, <1>7, <1>13 DEF ShownAgree, LoadedAgree
<1>16. DependenciesAgree'
  <2>1. ASSUME NEW j \in DOMAIN Planned[kind'] \ passedOver'
        PROVE  rows'[j] # NoRow /\ rows'[j].blocked_by = Planned[kind'][j]
    <3>1. j \in Tasks BY <1>2, PlannedAssumption
    <3>2. CASE kind' = kind BY <3>2 DEF PatchFacts, DependenciesAgree
    <3>3. CASE kind' # kind
      <4>1. ~(rows[j] # NoRow /\ rows[j].status = "done") /\ rows' = Recomputed(kind')
        BY <3>1, <3>3 DEF PatchFacts
      <4>2. rows'[j] = Row("todo", Planned[kind'][j])
        BY <1>2, <4>1, RecomputedInLists DEF TypeOK
      <4>3. Row("todo", Planned[kind'][j]) \in Rows
        BY <1>2, <3>1, PlannedAssumption DEF Row, Rows, Statuses
      <4> QED BY <4>2, <4>3, NothingAssumption DEF Row
    <3> QED BY <3>2, <3>3
  <2> QED BY <1>13, <2>1 DEF DependenciesAgree
<1> QED BY <1>9, <1>11, <1>12, <1>14, <1>15, <1>16

LEMMA ReadPlanStep == ASSUME PageInvariant, ReadPlan PROVE PageInvariant'
<1> USE DEF PageInvariant, stored, shown
<1>1. load \in Loads /\ load # NoCall /\ load' = [load EXCEPT !.plan = Planned[kind]]
  BY DEF ReadPlan, TypeOK
<1>2. Planned[kind] \in Maps BY PlannedIsMap DEF TypeOK
<1>3. load' \in Loads /\ load' # NoCall /\ load'.plan = Planned[kind] /\ load'.tasks = load.tasks
  BY <1>1, <1>2, NothingAssumption DEF Loads
<1>4. UNCHANGED <<kind, rows, tasks, dependencies, loading, error, patch, passedOver, crossed>>
  BY DEF ReadPlan
<1>5. TypeOK' BY <1>3, <1>4 DEF TypeOK
<1>6. Read' <=> Read BY <1>1, <1>3 DEF Read
<1>7. ListsAreStored' BY <1>3, <1>4, <1>6 DEF ListsAreStored, Stored, Pending
<1>8. CallersListed' BY <1>3, <1>4, <1>6 DEF CallersListed, Listed, Pending
<1>9. LoadsAlone' BY <1>1, <1>3, <1>4 DEF LoadsAlone, Deciding
<1>10. ShownAgree' BY <1>4 DEF ShownAgree, Agrees, Deciding
<1>11. LoadedAgree' BY <1>1, <1>3, <1>4 DEF LoadedAgree, Updating
<1>12. DependenciesAgree' BY <1>4 DEF DependenciesAgree, Deciding
<1> QED BY <1>5, <1>7, <1>8, <1>9, <1>10, <1>11, <1>12

LEMMA ReadTasksStep == ASSUME PageInvariant, ReadTasks PROVE PageInvariant'
<1> USE DEF PageInvariant, stored, shown
<1>1. load \in Loads /\ load # NoCall /\ load' = [load EXCEPT !.tasks = rows]
  BY DEF ReadTasks, TypeOK
<1>2. load' \in Loads /\ load' # NoCall /\ load'.tasks = rows /\ load'.plan = load.plan
  BY <1>1, NothingAssumption DEF Loads, TypeOK
<1>3. UNCHANGED <<kind, rows, tasks, dependencies, loading, error, patch, passedOver>>
  BY DEF ReadTasks
<1>4. loading BY <1>1 DEF LoadsAlone
<1>5. crossed' = Updating BY DEF ReadTasks
<1>6. TypeOK' BY <1>2, <1>3, <1>5 DEF TypeOK, Updating
<1>7. ListsAreStored' BY <1>2, <1>3 DEF ListsAreStored, Stored, Pending
<1>8. CallersListed' BY <1>2, <1>3 DEF CallersListed, Listed, Pending
<1>9. LoadsAlone' BY <1>1, <1>2, <1>3 DEF LoadsAlone, Deciding
<1>10. ShownAgree' BY <1>3, <1>4 DEF ShownAgree
<1>11. LoadedAgree' BY <1>1, <1>2, <1>3, <1>5 DEF LoadedAgree, Updating
<1>12. DependenciesAgree' BY <1>3 DEF DependenciesAgree, Deciding
<1> QED BY <1>6, <1>7, <1>8, <1>9, <1>10, <1>11, <1>12

-----------------------------------------------------------------------------
(* Answers.                                                                  *)

\* A call of task k is over on the page, too.
LEMMA OverForms ==
  ASSUME TypeOK, NEW k \in Tasks, Send(k, NoCall)
  PROVE  /\ patch' \in [Tasks -> Calls \cup {NoCall}] /\ patch'[k] = NoCall
         /\ \A j \in Tasks \ {k} : patch'[j] = patch[j]
BY DEF Send, TypeOK

LEMMA ShowUpdatedStep ==
  ASSUME PageInvariant, NEW k \in Tasks, ShowUpdated(k) PROVE PageInvariant'
<1> USE DEF PageInvariant, stored, shown
<1>1. /\ patch[k] # NoCall /\ patch[k].what = "update" /\ patch[k].step = "answered"
      /\ patch[k].row \in Rows
  <2>1. patch[k] # NoCall /\ patch[k].what = "update" /\ patch[k].step = "answered"
    BY DEF ShowUpdated, At
  <2>2. patch[k] \in Calls BY <2>1 DEF TypeOK
  <2> QED BY <2>1, <2>2, CallForms DEF AnsweredUpdates
<1>2. /\ patch' \in [Tasks -> Calls \cup {NoCall}] /\ patch'[k] = NoCall
      /\ \A j \in Tasks \ {k} : patch'[j] = patch[j]
  BY OverForms DEF ShowUpdated
<1>3. /\ tasks' \in Lists
      /\ \A j \in Tasks : tasks'[j] = NoRow <=> tasks[j] = NoRow
      /\ \A j \in Tasks : j # k => tasks'[j] = tasks[j]
      /\ tasks[k] # NoRow => tasks'[k] = patch[k].row
  BY <1>1, WithInLists DEF ShowUpdated, TypeOK
<1>4. UNCHANGED <<kind, rows, dependencies, loading, error, load, passedOver, crossed>>
  BY DEF ShowUpdated
<1>5. TypeOK' BY <1>2, <1>3, <1>4 DEF TypeOK
<1>6. ListsAreStored' BY <1>2, <1>3, <1>4 DEF ListsAreStored, Stored, Pending, Read
<1>7. CallersListed' BY <1>2, <1>3, <1>4 DEF CallersListed, Listed, Pending, Read
<1>8. Deciding' <=> Deciding BY <1>1, <1>2 DEF Deciding
<1>9. LoadsAlone' BY <1>2, <1>4, <1>8 DEF LoadsAlone
<1>10. ShownAgree' BY <1>1, <1>2, <1>3, <1>4, <1>8 DEF ShownAgree, Agrees
<1>11. LoadedAgree' BY <1>2, <1>4 DEF LoadedAgree, Updating
<1>12. DependenciesAgree' BY <1>4, <1>8 DEF DependenciesAgree
<1> QED BY <1>5, <1>6, <1>7, <1>9, <1>10, <1>11, <1>12

LEMMA ShowPreviousStep ==
  ASSUME PageInvariant, NEW k \in Tasks, ShowPrevious(k) PROVE PageInvariant'
<1> USE DEF PageInvariant, stored, shown
<1>1. /\ patch[k] # NoCall /\ patch[k].what = "update" /\ patch[k].step = "failed"
      /\ patch[k].previousTasks \in Lists
  <2>1. patch[k] # NoCall /\ patch[k].what = "update" /\ patch[k].step = "failed"
    BY DEF ShowPrevious, At
  <2>2. patch[k] \in Calls BY <2>1 DEF TypeOK
  <2> QED BY <2>1, <2>2, CallForms DEF FailedUpdates
<1>2. /\ patch' \in [Tasks -> Calls \cup {NoCall}] /\ patch'[k] = NoCall
      /\ \A j \in Tasks \ {k} : patch'[j] = patch[j]
  BY OverForms DEF ShowPrevious
<1>3. tasks' = patch[k].previousTasks /\ error' = TRUE BY DEF ShowPrevious
<1>4. UNCHANGED <<kind, rows, dependencies, loading, load, passedOver, crossed>>
  BY DEF ShowPrevious
<1>5. Pending(k) BY <1>1 DEF Pending
<1>6. TypeOK' BY <1>1, <1>2, <1>3, <1>4 DEF TypeOK
<1>7. ListsAreStored' BY <1>2, <1>3, <1>4, <1>5 DEF ListsAreStored, Stored, Pending, Read
<1>8. CallersListed'
  BY <1>1, <1>2, <1>3, <1>4, <1>5 DEF CallersListed, Listed, Pending, Read
<1>9. LoadsAlone' BY <1>2, <1>4 DEF LoadsAlone, Deciding
<1>10. ShownAgree' BY <1>3 DEF ShownAgree
<1>11. LoadedAgree' BY <1>2, <1>4 DEF LoadedAgree, Updating
<1>12. DependenciesAgree' BY <1>3, <1>4 DEF DependenciesAgree
<1> QED BY <1>6, <1>7, <1>8, <1>9, <1>10, <1>11, <1>12

LEMMA DecisionFailedStep ==
  ASSUME PageInvariant, NEW k \in Tasks, DecisionFailed(k) PROVE PageInvariant'
<1> USE DEF PageInvariant, stored, shown
<1>1. /\ patch' \in [Tasks -> Calls \cup {NoCall}] /\ patch'[k] = NoCall
      /\ \A j \in Tasks \ {k} : patch'[j] = patch[j]
  BY OverForms DEF DecisionFailed
<1>2. /\ error' = TRUE
      /\ UNCHANGED <<kind, rows, tasks, dependencies, loading, load, passedOver, crossed>>
  BY DEF DecisionFailed
<1>3. TypeOK' BY <1>1, <1>2 DEF TypeOK
<1>4. ListsAreStored' BY <1>1, <1>2 DEF ListsAreStored, Stored, Pending, Read
<1>5. CallersListed' BY <1>1, <1>2 DEF CallersListed, Listed, Pending, Read
<1>6. LoadsAlone' BY <1>1, <1>2 DEF LoadsAlone, Deciding
<1>7. ShownAgree' /\ DependenciesAgree' BY <1>2 DEF ShownAgree, DependenciesAgree
<1>8. LoadedAgree' BY <1>1, <1>2 DEF LoadedAgree, Updating
<1> QED BY <1>3, <1>4, <1>5, <1>6, <1>7, <1>8

\* A load begins when no decision is on its way, or no other one.
LEMMA BeginLoadKeeps ==
  ASSUME PageInvariant, NEW by \in Tasks \cup {Page}, BeginLoad(by), ~Deciding',
         patch' \in [Tasks -> Calls \cup {NoCall}],
         \A j \in Tasks : patch'[j] # NoCall => patch'[j] = patch[j]
  PROVE  PageInvariant'
<1> USE DEF PageInvariant, stored, shown
<1>1. load' = [by |-> by, plan |-> NoAnswer, tasks |-> NoAnswer] BY DEF BeginLoad
<1>2. load' \in Loads BY <1>1 DEF Loads
<1>3. load' # NoCall /\ load'.plan = NoAnswer /\ load'.tasks = NoAnswer
  BY <1>1, <1>2, NothingAssumption
<1>4. /\ loading' = TRUE /\ error' = FALSE
      /\ UNCHANGED <<kind, rows, tasks, dependencies, passedOver, crossed>>
  BY DEF BeginLoad
<1>5. TypeOK' BY <1>2, <1>4 DEF TypeOK
<1>6. ListsAreStored' BY <1>3, <1>4 DEF ListsAreStored, Stored, Pending, Read
<1>7. CallersListed' BY <1>3, <1>4 DEF CallersListed, Listed, Pending, Read
<1>8. LoadsAlone' BY <1>3, <1>4 DEF LoadsAlone
<1>9. ShownAgree' /\ LoadedAgree' BY <1>3, <1>4 DEF ShownAgree, LoadedAgree
<1>10. DependenciesAgree' BY <1>4 DEF DependenciesAgree
<1> QED BY <1>5, <1>6, <1>7, <1>8, <1>9, <1>10

LEMMA LoadAfterDecisionStep ==
  ASSUME PageInvariant, NEW k \in Tasks, LoadAfterDecision(k) PROVE PageInvariant'
<1>1. /\ patch' \in [Tasks -> Calls \cup {NoCall}] /\ patch'[k] = NoCall
      /\ \A j \in Tasks \ {k} : patch'[j] = patch[j]
  BY OverForms DEF LoadAfterDecision, PageInvariant
<1>2. patch[k] # NoCall /\ patch[k].what = "decision" BY DEF LoadAfterDecision, At
<1>3. ~Deciding'
  BY <1>1, <1>2, TasksAssumption DEF Deciding, LoadsAlone, PageInvariant
<1> QED BY <1>1, <1>3, BeginLoadKeeps DEF LoadAfterDecision

LEMMA ReloadStep == ASSUME PageInvariant, Reload PROVE PageInvariant'
<1>1. patch' = patch /\ \A k \in Tasks : patch[k] = NoCall
  BY DEF Reload, CallersListed, PageInvariant
<1>2. ~Deciding' BY <1>1 DEF Deciding
<1> QED BY <1>1, <1>2, BeginLoadKeeps DEF Reload, PageInvariant, TypeOK

LEMMA ShowLoadedStep == ASSUME PageInvariant, ShowLoaded PROVE PageInvariant'
<1> USE DEF PageInvariant, stored, shown
<1>1. /\ load # NoCall /\ load \in Loads /\ Read /\ load.plan # NoAnswer
      /\ load.tasks \in Lists /\ load.plan \in Maps
  BY DEF ShowLoaded, TypeOK, Read, Loads
<1>2. /\ dependencies' = load.plan /\ tasks' = load.tasks /\ load' = NoCall /\ loading' = FALSE
      /\ UNCHANGED <<kind, rows, error, patch, passedOver, crossed>>
  BY DEF ShowLoaded
<1>3. ~Deciding BY <1>1 DEF LoadsAlone
<1>4. load.plan = Planned[kind] /\ (~crossed => load.tasks = rows /\ ~Updating)
  BY <1>1 DEF LoadedAgree, Read
<1>5. ~crossed => \A k \in Tasks : patch[k] = NoCall
  BY <1>3, <1>4, CallForms DEF Deciding, Updating, TypeOK
<1>6. TypeOK' BY <1>1, <1>2 DEF TypeOK
<1>7. ListsAreStored' BY <1>1, <1>2 DEF ListsAreStored, Stored, Pending, Read
<1>8. CallersListed' BY <1>1, <1>2 DEF CallersListed, Listed, Pending, Read
<1>9. LoadsAlone' BY <1>2 DEF LoadsAlone, Deciding
<1>10. ShownAgree' BY <1>2, <1>4, <1>5 DEF ShownAgree, Agrees
<1>11. LoadedAgree' BY <1>2 DEF LoadedAgree
<1>12. DependenciesAgree' BY <1>2, <1>4 DEF DependenciesAgree
<1> QED BY <1>6, <1>7, <1>8, <1>9, <1>10, <1>11, <1>12

LEMMA LoadFailedStep == ASSUME PageInvariant, LoadFailed PROVE PageInvariant'
<1> USE DEF PageInvariant, stored, shown
<1>1. /\ load' = NoCall /\ loading' = FALSE /\ error' = TRUE
      /\ UNCHANGED <<kind, rows, tasks, dependencies, patch, passedOver, crossed>>
  BY DEF LoadFailed
<1>2. TypeOK' BY <1>1 DEF TypeOK
<1>3. ListsAreStored' BY <1>1 DEF ListsAreStored, Stored, Pending, Read
<1>4. CallersListed' BY <1>1 DEF CallersListed, Listed, Pending, Read
<1>5. LoadsAlone' BY <1>1 DEF LoadsAlone, Deciding
<1>6. ShownAgree' /\ LoadedAgree' /\ DependenciesAgree'
  BY <1>1 DEF ShownAgree, LoadedAgree, DependenciesAgree
<1> QED BY <1>2, <1>3, <1>4, <1>5, <1>6

-----------------------------------------------------------------------------

LEMMA StutterKeepsInvariant == PageInvariant /\ UNCHANGED vars => PageInvariant'
BY DEF PageInvariant, vars, stored, shown, TypeOK, ListsAreStored, Stored, Pending, Read,
       CallersListed, Listed, LoadsAlone, Deciding, Updating, ShownAgree, Agrees, LoadedAgree,
       DependenciesAgree

(* The page's list is the stored one, or an error is shown, or an answer or  *)
(* a load that will say so is on its way: the invariant behind everything.   *)
THEOREM PageInvariantHolds == Spec => []PageInvariant
<1>1. Init => PageInvariant BY InitInvariant
<1>2. PageInvariant /\ [Next]_vars => PageInvariant'
  <2> SUFFICES ASSUME PageInvariant, [Next]_vars PROVE PageInvariant' OBVIOUS
  <2>1. ASSUME NEW k \in Tasks,
               \/ ToggleDone(k) \/ ForceComplete(k)
               \/ \E choice \in Choices : SetChildInsuranceKind(k, choice)
        PROVE  PageInvariant'
    BY <2>1, ToggleDoneStep, ForceCompleteStep, SetChildInsuranceKindStep
  <2>2. ASSUME NEW k \in Tasks, UpdateStatus(k) \/ PatchFacts(k) \/ LoseCall(k)
        PROVE  PageInvariant'
    BY <2>2, UpdateStatusStep, PatchFactsStep, LoseCallStep
  <2>3. ASSUME NEW k \in Tasks,
               ShowUpdated(k) \/ ShowPrevious(k) \/ DecisionFailed(k) \/ LoadAfterDecision(k)
        PROVE  PageInvariant'
    BY <2>3, ShowUpdatedStep, ShowPreviousStep, DecisionFailedStep, LoadAfterDecisionStep
  <2>4. CASE ReadPlan \/ ReadTasks \/ ShowLoaded \/ LoadFailed \/ Reload
    BY <2>4, ReadPlanStep, ReadTasksStep, ShowLoadedStep, LoadFailedStep, ReloadStep
  <2>5. CASE UNCHANGED vars BY <2>5, StutterKeepsInvariant
  <2> QED BY <2>1, <2>2, <2>3, <2>4, <2>5 DEF Next
<1> QED BY <1>1, <1>2, PTL DEF Spec

(* The page at rest shows the stored tasks or an error, whatever answers     *)
(* were lost, late or out of order: page.tsx, toggleDone and its kin.        *)
THEOREM ErrorsTellDivergence == Spec => []ErrorTellsDivergence
<1>1. PageInvariant => ErrorTellsDivergence
  <2> SUFFICES ASSUME PageInvariant, AtRest, ~error, ~crossed PROVE tasks = rows
    BY DEF ErrorTellsDivergence
  <2>1. ~loading /\ ~Deciding BY DEF PageInvariant, LoadsAlone, AtRest, Deciding
  <2>2. \A k \in Tasks : tasks[k] = rows[k]
    BY <2>1 DEF PageInvariant, ShownAgree, Agrees, AtRest
  <2> QED BY <2>2 DEF PageInvariant, TypeOK, Lists
<1> QED BY <1>1, PageInvariantHolds, PTL

(* At rest, a task is shown as blocked exactly if the server refuses to      *)
(* complete it: page.tsx, getUnresolvedDependencies, against task_service.   *)
THEOREM BlockedStaysHonest == Spec => []BlockedIsHonest
<1>1. PageInvariant /\ ErrorTellsDivergence => BlockedIsHonest
  <2> SUFFICES ASSUME PageInvariant, ErrorTellsDivergence, AtRest, ~error, ~crossed,
                      NEW k \in Listed \ (Decisions \cup passedOver)
               PROVE  ShownBlocked(k) <=> Refuses(k, "done", FALSE) /\ rows[k].status # "done"
    BY DEF BlockedIsHonest
  <2>1. ~loading /\ ~Deciding BY DEF PageInvariant, LoadsAlone, AtRest, Deciding
  <2>2. tasks = rows /\ k \in Tasks /\ rows[k] # NoRow BY DEF ErrorTellsDivergence, Listed
  <2>3. dependencies = Planned[kind] BY <2>1 DEF PageInvariant, DependenciesAgree
  <2>4. BlockedBy(k) = rows[k].blocked_by
    BY <2>2, <2>3 DEF BlockedBy, PageInvariant, DependenciesAgree
  <2>5. rows[k] \in Rows /\ rows[k].blocked_by \subseteq Tasks
    BY <2>2 DEF PageInvariant, TypeOK, Lists, Rows
  <2>6. \A d \in Tasks : (d \in Listed /\ tasks[d].status = "done")
                          <=> ~(rows[d] = NoRow \/ rows[d].status # "done")
    BY <2>2 DEF Listed
  <2> QED BY <2>2, <2>4, <2>5, <2>6 DEF ShownBlocked, Refuses, Unresolved
<1> QED BY <1>1, PageInvariantHolds, ErrorsTellDivergence, PTL
=============================================================================
