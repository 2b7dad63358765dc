# Life Event: a verification in TLA+

Life Event turns facts about a birth into a plan of tasks, keeps the plan up to
date when facts change, and reminds people by mail of what is due. This
directory models the backend (`src/backend/app`) and the task list of the
frontend, checks the models with TLC and proves part of what they show with TLAPS. `PROJECT.json` maps every definition
to the lines it stands for, and lists the runs, the mutants that show each
property can fail, the hazards, the findings and the theorems.

## 1. The system

    client --PATCH facts / recompute / PATCH status--> plan and task services --> plans, tasks
    client --POST plans / upgrade / publish----------> plan and catalog services -> plans, template_versions, files
    page   --the same calls, overlapping, optimistic-> plan and task services
    client --PUT profile / unsubscribe link----------> profile service -------> notification_profiles
    beat, daily  --> reminder scanner: profiles x tasks ----------------------> notification_outbox
    beat, 5 min  --> dispatcher: claim, send, record (several workers) <------> notification_outbox, Brevo

All parts are stateless processes around one PostgreSQL database. They share
state only through its rows, at READ COMMITTED, almost without locks. Sessions
are built with `expire_on_commit=False`: an object read once is not read again,
and a commit writes exactly the columns that differ from the session's copy.
Most of what can go wrong follows from that.

| Component | State | Operations | Interacts with | Hard behaviour | Correct when | Modelled by |
|---|---|---|---|---|---|---|
| plan and task service | plans.facts, plans.snapshot, tasks | create, patch facts (with or without recompute), recompute, set status, upgrade | planner, normaliser, catalog | overlapping requests; fast path on stale snapshots; dismissal and reactivation | no acknowledged patch is lost; done stays done; tasks follow the planner; dependencies exist and are respected | PlanStore, AtomicPlan |
| facts normaliser | (pure) | normalize, migrate | plan service | derived values stored like choices; a migration that never runs; values it cannot take | one insurance choice, stable; skipping the migration loses nothing | BirthFacts, Planning |
| planner and rules | (pure) | generate_plan | templates | short-circuits, missing facts, numbers and dates at their limits | tasks are those whose rule is true; dependencies are planned | Planner, Planning |
| topological sort, graph validator | queue, counters | toposort, validate_graph | planner, repository | duplicate edges, loops, pruning | a deterministic order with dependencies first; cycles found, and nothing else | Toposort |
| birth_de templates, test runner | data | run_template | planner | the runner repeats the planner's logic | the runner expects what the planner plans | BirthTemplates, Planner, Planning |
| notification profiles | notification_profiles | upsert, unsubscribe, issue and rotate token | scanner | column-wise lost updates, first-PUT race | mail only to addresses somebody consented to; links work | Reminders |
| reminder scanner | copies of profiles | scan | profiles, tasks, outbox | stale copies, dedupe race, failures in the middle, two scans | nobody is forgotten, nobody who opted out before is prepared a mail | Reminders |
| outbox and dispatcher | notification_outbox, session copies | enqueue, recover, claim, reschedule, send, mark | provider, clock | crashes, lost answers, slow tasks taken for dead, quiet hours, retries | claims exclusive, outcomes coherent and final, delivered at least once or given up, duplicates only after an unrecorded acceptance | NotificationOutbox, ReminderDelivery |
| template catalog, repository | template_versions, files | bootstrap, publish, resolve, load | plan service, start-up | publication races a file change and other publications; processes that start together; files edited in place; keys without a row | plans hold validated templates; published is for good; old plans keep their template; start-up registers the defaults | TemplateCatalog |
| plan upgrade | a new plan | upgrade_plan | catalog, normaliser | the latest version changes, is withdrawn; facts of an older schema | upgrades climb; choices survive | TemplateCatalog, Planning |
| frontend task list | React state, calls in flight | toggle, force, decide, load | API | optimistic updates, rollback of a whole stale list, crossed and lost answers, two GETs | at rest the screen shows the stored tasks or an error, and blocks what the server refuses | FrontendTaskList |
| http layer, schema and migrations, mail texts, deployment | - | - | all | - | - | only as far as the modules above need them |

The list of hazards in `PROJECT.json` names for each the line where it bites and
the properties that cover it.

## 2. Modules

**NotificationOutbox** is one table row per reminder and the workers that
dispatch them. One action per database transaction or provider call: `Enqueue`,
`BeginDispatch`, `RecoverSelect`, `RecoverCommit`, `LockPendingBatch`,
`RescheduleQuietHours`, `ProviderSend`, `MarkSent`, `MarkFailedOrRetry`, `Crash`;
`Tick` is the wall clock. `now[w]` is the one time a task reads; `cache[w]` is its
session. **ReminderDelivery** is the abstract life of one reminder;
`ImplementsDelivery` is the refinement, row by row.
Left out: daylight saving (a day has a fixed number of ticks),
provider_message_id and last_error, logs. `DRY_RUN` behaves like a provider that
accepts. `SELECT ... FOR UPDATE SKIP LOCKED` and its commit are one step: the
locks are held throughout.

**PlanStore** is one plan under concurrent requests. A request is a few reads
(`GetPlan`, `ReadTasks`, `GetTask`, `CheckDependencies`) and one commit
(`UpdateFacts`, `RecomputeNothing`, `RecomputePlan`, `UpdateStatus`), or an error
(`RejectFacts`, `FailRecompute`, `RefuseBlocked`). `Flush` is the column-wise
commit. The planner and the normaliser are constants, so what is proved holds
for any of them: `FactsAssumption` asks for an idempotent normaliser,
`PlannerAssumption` for dependencies within the plan. MCPlanStore uses the
normaliser of BirthFacts, and TLC evaluates both assumptions for it; PlanningProofs
proves both of the planner and the normaliser of the code. **AtomicPlan** is the
plan a client sees that waits for every answer: one step per request.
Left out: titles, sort keys, updated_at; completed_at is present or not;
the facts hash is the facts; a template is never replaced in place.

**Planner** has the rules, the pruning, the deadlines and the exceptions of
`generate_plan`, and the runner of the template tests. **BirthFacts** is the
normaliser, **BirthTemplates** the two templates of the repository as data.
**Planning** puts them together: one plan, its facts patched in any order,
perhaps upgraded to version 2, one request at a time (PlanStore has the
overlaps). `PrepareFacts` is migration and normalisation; `UpgradePlan` hands the
facts over as those of the new schema, as `upgrade_plan` does.
A rule is read by the first key it has (`Kind`), and its verdict is made of those
on its `Clauses` (`Combined`). `eval_rule` calls itself; `EvalRule` is a recursive
function over `Rules`, the rules of the templates with all rules inside them, and
the constant `Depth` says how deep each is nested: rules come from JSON, so none is
a part of itself (`RuleAssumption`). `TemplateAssumption` says that the rules of
the templates are among them.
Facts are what JSON allows. `True` and `False` are not the numbers 1 and 0: rules
compare them as equal (`Same`), as Python does, but the normaliser asks `is True`
and derives nothing from a 1. Lists and objects are opaque (`IsContainer`); as
`child_insurance_kind` they make the normaliser raise (`Unhashable`). A number
beyond `MaxFloat` cannot be compared (`Compare`, an `OverflowError`). What a request
raises that is no PlannerError is answered 500.
Left out: the shape errors of templates nobody validated; fractions;
recommendations and texts.

**Toposort** is Kahn's algorithm twice: `VisitAny`, `Accept`, `Reject` are the
validation of a whole template; `PopLeast`, `Return`, `RaiseCycle` the ordering of
its eligible part. Edges carry tags so that a list may hold an edge twice.

**Reminders** goes from settings to mails: PUT in its statements (`FindProfile`,
`CreateProfile`, `RefreshProfile`, `CreateClash`, `UpsertProfile`), `Unsubscribe`,
`RotateUnsubscribeToken`, the scan (`BeginScan`, `CheckProfile`, `SelectTasks`,
`EnqueueDueSoon`, `FailAtProfile`, `Crash`), and in outline the tasks
(`ChangeTask`) and the dispatcher (`Dispatch`). History variables record who
consented to which address, who opted out, and for which plans PUTs with different
addresses (or with and without one) overlapped (`mixed`).
Left out: locale, timezone, the mail's text; a token is the pair that is signed.

**TemplateCatalog** is one template: its files, the rows of `template_versions`
and the plans made from them. Each statement of a request is an action
(`ResolveById`, `ResolveByKey`, `ResolveUpgrade`, then `CreatePlan`; `ReadRow`,
then `RecomputePlan`; `LockRow`, `ValidateFile`, `Publish`; `Fail` for every
error), and so is each look of a starting process (`BeginStart`, `LookAt`,
`RegisterDefaults`, `FailStart`). Between any two of them a file may be replaced
(`EditFile`) or an operator may insert a draft or withdraw a version
(`InsertDraft`, `Withdraw`): nothing in the code does so, but publication,
`deprecated_at` and the hashes exist for people who do. A file's content stands
for its hash. Which contents are valid for which version is a constant (Toposort
has the validation). `VersionOf` and `KeyOf` are `parse_template_key` and
`derive_template_key`; they are no inverses, `birth_de/v02` is a key of version 2.
The database starts empty or as the migration of 2026-03-12 leaves it.
Left out: the listings, which only read; `changelog_md`; timestamps other than
"deprecated_at is set"; plans deleted with their source (`ON DELETE SET NULL`):
no code deletes plans.

**FrontendTaskList** is the page with the task list, from click to answer:
`ToggleDone`, `ForceComplete`, `SetChildInsuranceKind` show a change and send a
call; `UpdateStatus`, `PatchFacts`, `ReadPlan`, `ReadTasks` are the server's side,
one step each (PlanStore has what requests do to each other there); `LoseCall`
and the failing branches are the network's; `ShowUpdated`, `ShowPrevious`,
`DecisionFailed`, `LoadAfterDecision`, `ShowLoaded`, `LoadFailed`, `Reload` are
what the page does with answers. `previousTasks` is the list a click closed over.
Assumed: one page, nobody else changes the plan, the server is done with a call
that has failed on the page, dependencies are hard (all that are ever stored
are), a plan has at most one decision task (the repository's templates do).
Left out: sorting, badges, the confirmation dialogs (a click stands for a
confirmed one), `in_progress` (the page never sends it).

`MC...` modules give the constants small values. `...Proofs` modules hold theorems.
Definitions commented as mutants are bugs somebody might write; no specification
uses them.

## 3. Runs

| Run | Bounds | Shows |
|---|---|---|
| outbox_claims | 2 rows, 2 workers, days of 4 ticks with a window of 2, MaxRun = StuckAfter = 1, RecoverRun 0, 2 attempts, 1 crash, horizon 7 | with tasks faster than recovery: exclusive claims, coherent and final outcomes, duplicates only after an unrecorded acceptance, refinement of ReminderDelivery |
| outbox_slow | 1 row, 2 workers, MaxRun = RecoverRun = 3, days of 6, horizon 10 | what survives slow tasks: retries inside the window, sends close to the window |
| outbox_liveness | 2 rows, 1 worker, batches of 1, 1 crash, horizon 6 | every due reminder settles |
| plan_one_at_a_time | 1 request in flight, 5 in a run, 4 patches' worth of facts, 3 tasks | the plan's promises and the refinement of AtomicPlan |
| plan_concurrent | 2 overlapping requests, 4 in a run | rows never go missing |
| reminders | 2 plans, 1 client, 1 scan, 3 days, 2 changes, 1 rotation, 1 failure | consent, opt-out, working links, the mail of the day |
| reminders_overlap | 1 plan, 2 addresses, 2 clients, 2 scans, 3 days, 2 changes, 1 failure | consent unless overlapping PUTs named different addresses, links and the mail of the day, with overlaps |
| toposort | all graphs of 4 tasks with up to 3 edges, an edge listed twice | both passes are right |
| planning | v1 and v2 of birth_de with 14 bodies and 11 patches in any number and order; about 1000 templates of one task, one per rule of up to 2 clauses, with 16 fact maps and a patch; numbers up to MaxFloat = 2 and one beyond | one insurance task, nothing waits for a decision, choices survive patches and the upgrade, a task is planned exactly if its rule is true, the runner agrees |
| template_catalog | 2 versions, both of them defaults, one of them perhaps a draft, 3 keys, 2 contents (one valid for version 2 only), 2 plans, 2 requests, 2 starting processes, 1 intervention | plans hold validated templates, published rows and old plans are stable, upgrades climb, start-up registers |
| frontend_task_list | 3 tasks, one of them a decision, 3 kinds, 2 calls in flight | a page at rest is true or shows an error; it blocks what the server refuses |

Some bounds deserve a reason. Two workers and two rows are the least with which
a claim can be stolen while another row is in a batch; a horizon of almost two
days lets a row be put off overnight, fail, and be tried again. Days are short
because only the order of "claimed", "window closes" and "abandoned" matters.
Two overlapping requests suffice for every lost update, and a third after them
shows what the loss does to a later one (`plan_stale_snapshot`); three tasks
give a dependency, a decision and a task that comes and goes. Three days show a
row put off, the scan of the next day, and that day ending. Graphs of four tasks
contain loops, two-cycles, three-cycles, diamond halves and isolated tasks.
Two versions, two requests and one intervention are enough for every race of a
publication, a creation or a recompute with a deployment, a withdrawal or another
publication; with two processes starting there is one that loses. On the page two
calls cross; more only repeat it, and the proof has any number. Its three tasks
are one that waits for the decision, one that comes with it, and the decision,
which goes and comes back.

One more run is expected to fail. It states what a document of the repository
says and the code does not do, and TLC finds the counterexample:

| Run | Statement | What happens |
|---|---|---|
| plan_stale_snapshot | tasks that are eligible again are reactivated (MILESTONES.md:117) | a recompute on the fast path, overlapping another, puts back the snapshot it read, which claims to match the facts; the next recompute trusts it, and the task stays skipped |

Fourteen configurations beside the runs refute something and are run by hand
(`tlc -config PlanLostPatch.cfg MCPlanStore`). Each states something that is not
true, a claim of a document or the plain form of a property whose exceptions the
runs above allow for, and TLC finds the counterexample:

| Configuration | Module, property | What happens |
|---|---|---|
| OutboxQuietHours | MCNotificationOutbox, SendsInWindow | no mail outside the window (NOTIFICATIONS_TESTING.md); the window is checked against the start of the task |
| PlanLostPatch | MCPlanStore, PatchesSurvive | merged facts are saved (API.md); of two overlapping patches, both answered 200, one disappears |
| PlanStaleCheck | MCPlanStore, CompletionRespectsDependencies | blocked tasks answer 409 (API.md); a dependency is reopened between check and commit |
| RemindersDailyCap | MCReminders, DailyCap | a daily cap (API.md); rows of two days are sent on one |
| RemindersOptOut | MCReminders, OptOutStopsMails | opt-out of reminder mails (API.md); rows already written are still sent |
| RemindersConsent | MCReminders, ConsentedAddress | a PUT sets the settings (API.md); two overlapping PUTs that name different addresses mix address and consent |
| PlannerLastDay | MCPlanning, FailuresArePlannerErrors | planner failures are PlannerErrors (planner/errors.py); a deadline after 9999-12-31 is an OverflowError, a list as kind of insurance a TypeError, both answered 500 |
| OutboxDuplicate | MCNotificationOutbox, DuplicateOnlyIfUnrecorded | delivery is idempotent (MILESTONES.md:85); a slow task is taken for dead, its row is sent twice without crash or lost answer |
| PlanLostDone | MCPlanStore, RecomputeKeepsDone | done tasks stay done (API.md:97); a recompute dismisses a task completed after it read it |
| PlanningUpgrade | MCPlanning, UpgradeKeepsInsurance | the same insurance task before and after an upgrade; a kind derived once outlives the parents' insurance it came from, version 1 plans by the latter, version 2 by the former |
| CatalogPublishGap | MCTemplateCatalog, PublishedWasValidated | publish validates the file (API.md:127); the file is replaced between validation and hash, and the catalog vouches for something nobody validated (its plans fail, none is invalid) |
| CatalogDowngrade | MCTemplateCatalog, UpgradesGoUp | an upgrade leads to a higher version; after the latest one is withdrawn, a plan of it is upgraded to the one before, although GET plan says no upgrade is available |
| FrontendCrossed | MCFrontendTaskList, ScreenIsTrue | the screen at rest shows the stored tasks; a list read before an update was served is shown after its answer, without an error |
| FrontendReopened | MCFrontendTaskList, ReopenedIsHonest | blocked on the page means refused by the server; a task done while the plan was recomputed keeps its old dependencies, which count again when it is reopened |

Three more, PlanPatchesApart, PlanRecomputesApart and PlanCompletionsApart, check the
theorems of PlanStoreProofs about requests that overlap in some ways only: two
requests at once, three in a run, the forbidden overlaps cut off by a CONSTRAINT.
They finish without an error.

**Fairness** is assumed in `outbox_liveness` alone. `WF Step(w)`: a task that runs
goes on, since every call it makes returns (the provider's within its timeout of
10 s, the database's without waiting for locks). `WF (some worker begins)`: beat
starts a dispatch task every five minutes. `SF Tick`: time passes; strong because
the assumption on the duration of tasks disables the clock now and then. Crashes
are not fair and are bounded.

**Timing** is assumed, not taken from the code: `MaxRun` bounds a task, `RecoverRun`
its recovery phase, `ScanRun` a scan. The properties under "if every task ends
before recovery takes its rows for abandoned" need `MaxRun <= StuckAfter` and
`RecoverRun = 0`; a batch of 100 mails with a timeout of 10 s each can take longer
than the 15 minutes, which is what OutboxDuplicate shows. In Reminders, a day
ends only after a scan started that day is over or dead.

## 4. Proofs

*NotificationOutboxProofs.* `TypeCorrect`, `RetriesAlwaysInSendWindow` and
`SendsAlwaysNearWindow` hold however slow the tasks are. The others hold under
`FastWorkers == MaxRun <= StuckAfter /\ RecoverRun = 0`, for any number of rows,
workers, crashes, any window and any backoff: `ClaimsAreExclusive`,
`OutcomesAreCoherent`, `DuplicatesOnlyIfUnrecorded`, `FinalRowsAreFinal`,
`OutboxImplementsDelivery`. Exclusive claims are not inductive: nothing in them
says why recovery may take a row. The invariant
`IInv == TypeOK /\ CurrentOK /\ ClaimInvariant` adds that a task is no older than
MaxRun (`TaskTiming`), that what it holds carries its start time
(`ClaimStamped`), that a claimed row was due (`ClaimWasDue`), that recovery holds
only rows nobody else holds and leaves them in the future (`RecoveryOfAbandoned`),
and that acceptances are accounted for (`AcceptancesAccounted`). The proof has one
lemma per action. The refinement needs `AbsentOK` besides: rows that are not there
have no history.
For the send window, `WindowInvariant` adds that a copy of a row whose time is
outside the window, which only a row nobody has put off yet can be, has the
stored time: a flush writes only columns that differ from the copy, and so always
writes the new time over such a one. `SendsAlwaysNearWindow` rests on `RunTiming`,
the assumption on the speed of tasks as an invariant.

*PlanStoreProofs.* Whatever overlaps: `TypeCorrect`, `PlannedTasksAlwaysExist`,
`DependenciesAlwaysExist`, for any planner, normaliser, template and number of
requests. Their invariant is `IInv == TypeOK /\ StoreInvariant`: rows are never
deleted, so whatever a session has seen is still there (`CopiesRemain`).
The other properties are lost by some overlaps, and the theorems say by which:
each holds, for any number of requests, as long as those do not happen.
`PatchesApart` (no two patches overlap) is enough for `PatchesSurviveApart`: a
recompute writes back facts it has read and normalised, which are no change
(`PatchInv`). `RecomputesApart` (no two requests that recompute overlap) is enough
for `UntouchedTasksFollowPlanApart` and `FastPathIsSoundApart`, which has the property
the run plan_stale_snapshot refutes (`EligibleIsReactivated`) and its converse: a recompute has read the stored snapshot and the
stored rows of the tasks nobody has touched since (`RecomputeInv`).
`CompletionsApart` (nobody completes a task while a recompute has read the rows or
while another request sets a status other than done) is enough for
`RecomputeKeepsDoneApart`, `CompletedWhileDoneApart` and
`CompletionRespectsDependenciesApart`: a recompute knows every task that is done
and then leaves that as it is (`RowsKnowDone`), and a request that completes a task
sees its stored dependencies (`RowKnowsDone`). PlanLostPatch, PlanStaleSnapshot,
PlanLostDone and PlanStaleCheck show what happens without. `StoreImplementsAtomicPlan`
needs that no requests overlap at all (`NoOverlap`): copies are what is stored
(`Fresh`).

*TemplateCatalogProofs.* For any versions, keys, files, plans, requests, starting
processes and number of interventions: `CatalogIsInvariant`, and from it
`PlansStayValid`, `UpgradesAlwaysClimb`, `PublishedRowsAreKept`,
`OldPlansStayStable`, `BootstrapAlwaysRegisters`. Nothing in "a plan keeps its
template" says why a hash read from a row a while ago still is the row's; the
invariant `CatalogInvariant` adds that rows that are no drafts have a hash
(`RowsHashed`), that plans and creating requests carry the hash of such a row
(`PlansPinned`, `CreatesPinned`), recomputing ones that of their plan
(`RecomputesPinned`), that the holder of a draft's lock is alone and the row still
a draft (`PublishersAlone`), and that a starting process has registered or will
add every default it has looked at (`DefaultsLookedAt`).

*FrontendTaskListProofs.* For any tasks, plans and number of overlapping calls:
`PageInvariantHolds`, `ErrorsTellDivergence`, `BlockedStaysHonest`. `PageInvariant`
relates the screen to the store while calls are on their way: a task without a
call is shown as stored, the answer to one with a call is the stored row
(`ShownAgree`), what has been loaded is still so (`LoadedAgree`), the dependencies
are the snapshot's and the rows' (`DependenciesAgree`); the rest says that loads
do not overlap each other or a decision (`LoadsAlone`) and that lists kept for
later name stored tasks only (`ListsAreStored`, `CallersListed`).

*ToposortProofs.* For any tasks and any list of edges: `LoopIsSound`,
`DependenciesComeFirst`, `OutcomesAreRight`, `ValidatedTemplatesNeverCycle`,
`OrderIsDetermined`. `PassInvariant` adds to the loop invariant that the order has
as many entries as tasks were taken (`TakenOnce`), that whatever a task depends on
was taken before it (`EdgesPointForward`), and that only whole templates are found
good (`ValidationIsSound`). A task of a cycle that is taken first would have been
waiting for another one; "first" needs that a set of numbers has a least one
(`LeastExists`), which follows from the library's theorem that finite sets do not
shrink for ever.

*RemindersProofs.* For any plans, addresses, tasks, days, requests and scans. All
rest on `BaseInvariant`: types, that a scan visits profiles that exist, and that
what it is about to enqueue is sendable by its copy.
`OptOutAlwaysReachesScans` needs that an opt-out is never taken back and that the
copies of a scan say what had happened when it began, or have expired
(`OptOutsKept`). `ConsentUnlessMixed` assumes nothing: as long as PUTs of a plan that
overlap name one address, stored settings and copies that allow mails name an
address that was agreed to, and a PUT about to write finds the address of its copy
or its own, and consent it did not know of was to its own (`ConsentKept`).
`ConsentedAddressApart` follows where no two PUTs of a plan overlap (`PutsApart`);
RemindersConsent shows why the addresses matter. `LinksWork` assumes
that scans do not overlap (`ScansApart`) or that no token is rotated: a hash a scan
has in its copy is stored, and a copy of an older version comes before any mail of
the newer one (`LinksKept`). `RemindedEveryDay` assumes nothing: a profile nothing
has happened to today is still before each of today's scans, or has been served
(`ScanOfToday`), rows of today list the tasks due soon, and there is no row or
scan of a later day (`DailyKept`).

*BirthFactsProofs.* `NormalizeIsIdempotent` is what `FactsAssumption` of PlanStore
asks of the normaliser; `MigrationIsAbsorbed` says that normalising migrated facts
is normalising the facts, so that a migration nobody runs is not missed.

*PlanningProofs.* For any templates, rules, facts and patches, from
`RuleAssumption` and `TemplateAssumption` alone: `RulesDecide`,
`OneTaskInsuresTheChild`, `ParentsAreNotAsked`, `DependenciesArePlanned`,
`DecisionsSurvive`, `RecomputeChangesNothing`.

The argument has two halves. The first is about rules. A recursive function is, to
the prover, some function that satisfies its equation, if there is one. That there
is one is `RecursionExists`: rules have depths, functions that are right up to a
depth exist for every depth (else there would be a least depth without one) and
agree where they are both right, and together they are the function. The same
argument, a least counterexample, gives induction over rules (`RuleInduction`): a
set of rules that has every rule whose clauses it has, has them all. So evaluation
ends in one of four ways, true, false, PlannerRuleError or OverflowError
(`EvalRuleEquation`), and `EvaluationIsLogic` follows by induction: for a rule whose
operators are known, short-circuits, negations and missing facts come to Boolean
logic, unless a number is too large to be compared.

The second half is about the plan. None of the properties is inductive: they say
nothing about where the plan came from. `PlanInvariant` does: there is no plan, or
the stored plan is what the planner makes of the stored planned facts, and these
are in normal form if the template is one of birth_de. Normal facts have exactly
one of the three kinds of insurance (`NormalFacts`), and each task of version 2 is
planned for one of them (`InsuranceIsActive`). `ParentsAreNotAsked` is about parents
whose insurance is stored as true and false: the numbers 1 and 0 derive "unknown",
and leave the decision task.

With a hypothesis each:
`RunnerExpectsThePlan`, that deadlines of templates outside birth_de name the event
date, which nothing in the code checks (`ReferencesAgree`; for birth_de it is
proved); `ThreeCausesOf500`, that clients send no date with a deadline beyond the
calendar, no number too large for a float and no list or object as kind of insurance
(`ClientsAreTame`), and rules compare with no such number (`RulesFitFloats`):
without these nothing but a PlannerError is raised; PlannerLastDay shows what
happens otherwise; `UpgradesSucceed`, that what clients send as a date is a date of the
calendar (`ClientsSendDates`): a plan of version 1 whose facts were not changed
without a recompute can always be upgraded, since all of them have child_benefit,
whose deadline is the last. `PreparingTwice`, which also
says that prepared facts never make the normaliser raise, and `PlannerKeepsItsPromise` are what
PlanStore assumes of its normaliser and its planner, of the code's, so that the
theorems about PlanStore are about them.

The type invariants and inductive invariants (`TypeOK`, `ClaimInvariant`,
`StoreInvariant`, `LoopInvariant`, `CatalogInvariant`, `PageInvariant`,
`PlanInvariant`) are invariants TLC confirms too; as the proofs contain them, or
the properties follow from them, no run repeats them.

Only model-checked: liveness (`EveryReminderSettles`), which TLAPS does not reach.
Every safety property and every action property of a passing run is proved, some
under the hypotheses named above.

## 5. Plan

Done, in this order: NotificationOutbox with ReminderDelivery and proofs;
PlanStore with AtomicPlan and proofs; Reminders; Toposort; Planner, BirthFacts,
BirthTemplates, Planning; TemplateCatalog and FrontendTaskList with proofs; the
upgrade in Planning.

PlanStore needs no variant with the real planner: its theorems hold for any planner
and normaliser that keep their assumptions, and PlanningProofs shows that those of
the code do.

Not modelled: HTTP serialisation and CORS, the DDL of the migrations (run once),
mail texts, configuration and deployment, and pages of the frontend that load
once and show: they keep no state and decide nothing the properties are about.
