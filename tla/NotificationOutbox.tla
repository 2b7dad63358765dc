------------------------- MODULE NotificationOutbox -------------------------
(***************************************************************************)
(* The notification outbox and the Celery workers that dispatch it.        *)
(*                                                                         *)
(* A row of the table notification_outbox is one reminder mail.  The       *)
(* scanner inserts it; every five minutes beat starts a dispatch task,     *)
(* which recovers rows that stay "sending" for too long, claims the due    *)
(* "pending" rows and, one after the other, hands each to the mail         *)
(* provider and records the answer.  Several tasks may run at once, and    *)
(* each may die at any point.  Nothing but the row itself coordinates them.*)
(*                                                                         *)
(* Two details of the code decide what can go wrong:                       *)
(*  - a task reads the wall clock once, when it starts, and uses that      *)
(*    value for every comparison and every timestamp it writes;            *)
(*  - the session is built with expire_on_commit=False, so session.get in  *)
(*    mark_sent and its siblings returns the copy of the row the task      *)
(*    claimed, and a flush writes the columns that differ from that copy   *)
(*    whatever the row has become meanwhile.                               *)
(*                                                                         *)
(* A database transaction is one step.  A tick of the clock is a unit of   *)
(* wall-clock time; a day has DayLen of them.                              *)
(***************************************************************************)
EXTENDS Integers, Sequences, FiniteSets

CONSTANTS
  Items,        \* the rows there may be, one per dedupe key
  NoItem,       \* not one of them
  Workers,      \* the worker processes that can run a dispatch task
  DayLen,       \* ticks in a day
  WindowOpen,   \* first tick of a day in which mails may be sent
  WindowClose,  \* last tick of a day in which mails may be sent
  StuckAfter,   \* age after which a "sending" row counts as abandoned
  Backoff,      \* Backoff[k]: the delays, jitter included, after the k-th failure
  MaxAttempts,  \* failed attempts after which a row is dead
  BatchLimit,   \* rows one task claims at most
  MaxRun,       \* ASSUMED: ticks between the start of a task and its end
  RecoverRun,   \* ASSUMED: ticks between the start of a task and the end of its recovery
  ScanRun,      \* ASSUMED: ticks between the start of a scan and its last insert
  Horizon,      \* BOUND: the clock stops here
  MaxCrashes    \* BOUND: tasks that die or raise

ASSUME WindowAssumption ==
  /\ DayLen \in Nat \ {0}
  /\ WindowOpen \in Nat /\ WindowClose \in Nat
  /\ WindowOpen <= WindowClose /\ WindowClose < DayLen

ASSUME NoItemAssumption == NoItem \notin Items

ASSUME LimitAssumption ==
  /\ StuckAfter \in Nat /\ MaxAttempts \in Nat \ {0} /\ BatchLimit \in Nat \ {0}
  /\ Backoff \in Seq(SUBSET Nat) /\ Backoff # << >>
  /\ \A k \in DOMAIN Backoff : Backoff[k] # {}

ASSUME BoundAssumption ==
  /\ MaxRun \in Nat /\ RecoverRun \in Nat /\ ScanRun \in Nat
  /\ Horizon \in Nat /\ MaxCrashes \in Nat

VARIABLES
  clock,      \* wall clock
  outbox,     \* the table: outbox[i] is the row of dedupe key i
  pc,         \* where each worker is
  now,        \* the time its task read when it started
  batch,      \* rows it has still to deal with (read by recovery, or claimed)
  cache,      \* its session's copy of the rows in batch
  current,    \* the row it has handed to the provider, or NoItem
  result,     \* the provider's answer for that row
  accepted,   \* history: mails the provider accepted for a row
  unrecorded, \* history: those whose acceptance no task can record any more
  crashes     \* tasks that died so far

worker == <<pc, now, batch, cache, current, result>>
history == <<accepted, unrecorded, crashes>>
vars == <<clock, outbox, worker, history>>

-----------------------------------------------------------------------------
(* Rows                                                                    *)

Status == {"absent", "pending", "sending", "sent", "dead"}
FailureClass == {"none", "retryable", "permanent"}
Never == -1        \* sent_at IS NULL

Row == [status : Status, failure_class : FailureClass, next_attempt_at : Nat,
        attempt_count : Nat, sent_at : Nat \cup {Never}, updated_at : Nat]

NewRow(status, t) ==
  [status |-> status, failure_class |-> "none", next_attempt_at |-> t,
   attempt_count |-> 0, sent_at |-> Never, updated_at |-> t]

NoRow == NewRow("absent", 0)
NoCache == [i \in Items |-> NoRow]

\* What a flush leaves of row when a session that loaded it as old has set it
\* to new: only the columns that changed in the session are written.
Written(inRow, old, new) == IF new = old THEN inRow ELSE new

Flush(row, old, new) ==
  [status          |-> Written(row.status, old.status, new.status),
   failure_class   |-> Written(row.failure_class, old.failure_class, new.failure_class),
   next_attempt_at |-> Written(row.next_attempt_at, old.next_attempt_at, new.next_attempt_at),
   attempt_count   |-> Written(row.attempt_count, old.attempt_count, new.attempt_count),
   sent_at         |-> Written(row.sent_at, old.sent_at, new.sent_at),
   updated_at      |-> Written(row.updated_at, old.updated_at, new.updated_at)]

-----------------------------------------------------------------------------
(* The send window                                                         *)

TimeOfDay(t) == t % DayLen

WithinSendWindow(t) == TimeOfDay(t) \in WindowOpen..WindowClose

\* Today's opening before it, tomorrow's at any later time: also for a time
\* inside today's window.
NextSendWindowStart(t) ==
  IF TimeOfDay(t) < WindowOpen
  THEN t - TimeOfDay(t) + WindowOpen
  ELSE t - TimeOfDay(t) + DayLen + WindowOpen

\* Mutant: the backoff may end in the night.
IntoSendWindowUnshifted(t) == t

IntoSendWindow(t) == IF WithinSendWindow(t) THEN t ELSE NextSendWindowStart(t)

\* Mutant: the dispatcher does not look at the window.
QuietHoursIgnored(t) == FALSE

\* The dispatcher's check, made of the time its task started.
QuietHours(t) == ~WithinSendWindow(t)

-----------------------------------------------------------------------------
(* What each operation makes of the copy of the row it works on            *)

Recovered(row, t) ==
  [row EXCEPT !.status = "pending", !.failure_class = "retryable",
              !.next_attempt_at = NextSendWindowStart(t), !.updated_at = t]

\* Mutant: the claim is not stamped.
ClaimedUnstamped(row, t) == [row EXCEPT !.status = "sending"]

Claimed(row, t) == [row EXCEPT !.status = "sending", !.updated_at = t]

\* Mutant: quiet hours count as an attempt.
RescheduledCounting(row, t) ==
  [row EXCEPT !.status = "pending", !.failure_class = "none",
              !.attempt_count = @ + 1,
              !.next_attempt_at = NextSendWindowStart(t), !.updated_at = t]

Rescheduled(row, t) ==
  [row EXCEPT !.status = "pending", !.failure_class = "none",
              !.next_attempt_at = NextSendWindowStart(t), !.updated_at = t]

Sent(row, t) ==
  [row EXCEPT !.status = "sent", !.failure_class = "none", !.sent_at = t,
              !.updated_at = t]

Dead(row, t) ==
  [row EXCEPT !.status = "dead", !.failure_class = "permanent",
              !.attempt_count = @ + 1, !.next_attempt_at = t, !.updated_at = t]

RetryDelays(attempts) ==
  Backoff[IF attempts > Len(Backoff) THEN Len(Backoff) ELSE attempts]

Retried(row, t, delay) ==
  [row EXCEPT !.status = "pending", !.failure_class = "retryable",
              !.attempt_count = @ + 1,
              !.next_attempt_at = IntoSendWindow(t + delay), !.updated_at = t]

\* Mutant: the limit is compared with the count before this attempt.
FailedOneMore(row, t, class) ==
  IF class = "permanent" \/ row.attempt_count >= MaxAttempts
  THEN {Dead(row, t)}
  ELSE {Retried(row, t, d) : d \in RetryDelays(row.attempt_count + 1)}

\* The rows a failed attempt may leave behind.
Failed(row, t, class) ==
  IF class = "permanent" \/ row.attempt_count + 1 >= MaxAttempts
  THEN {Dead(row, t)}
  ELSE {Retried(row, t, d) : d \in RetryDelays(row.attempt_count + 1)}

-----------------------------------------------------------------------------
(* State                                                                   *)

Location == {"idle", "recover", "recovering", "lock", "dispatch", "record"}
Result == {"none", "sent", "retryable", "permanent"}

Init ==
  /\ clock = 0
  /\ outbox = NoCache
  /\ pc = [w \in Workers |-> "idle"]
  /\ now = [w \in Workers |-> 0]
  /\ batch = [w \in Workers |-> {}]
  /\ cache = [w \in Workers |-> NoCache]
  /\ current = [w \in Workers |-> NoItem]
  /\ result = [w \in Workers |-> "none"]
  /\ accepted = [i \in Items |-> 0]
  /\ unrecorded = [i \in Items |-> 0]
  /\ crashes = 0

-----------------------------------------------------------------------------
(* The scanner's insert and the clock                                      *)

\* The dedupe key is unique: a second insert of it changes nothing.
Enqueue(i) ==
  /\ outbox[i].status = "absent"
  /\ \E t \in 0..clock :
       /\ clock - t <= ScanRun
       /\ outbox' = [outbox EXCEPT ![i] = NewRow("pending", t)]
  /\ UNCHANGED <<clock, worker, history>>

\* Time does not wait for a worker; that a task ends within MaxRun ticks and
\* leaves its recovery phase within RecoverRun is what the model assumes of
\* the workers' speed.
Tick ==
  /\ clock < Horizon
  /\ \A w \in Workers :
       /\ pc[w] # "idle" => clock < now[w] + MaxRun
       /\ pc[w] \in {"recover", "recovering"} => clock < now[w] + RecoverRun
  /\ clock' = clock + 1
  /\ UNCHANGED <<outbox, worker, history>>

-----------------------------------------------------------------------------
(* A dispatch task                                                         *)

BeginDispatch(w) ==
  /\ pc[w] = "idle"
  /\ pc' = [pc EXCEPT ![w] = "recover"]
  /\ now' = [now EXCEPT ![w] = clock]
  /\ UNCHANGED <<clock, outbox, batch, cache, current, result, history>>

\* Mutants: recovery takes rows of exactly StuckAfter; of any status; the
\* young ones instead of the old.
StuckInclusive(t) ==
  {i \in Items : /\ outbox[i].status = "sending"
                 /\ outbox[i].updated_at <= t - StuckAfter}

StuckAnyStatus(t) ==
  {i \in Items : /\ outbox[i].status # "absent"
                 /\ outbox[i].updated_at < t - StuckAfter}

StuckYoung(t) ==
  {i \in Items : /\ outbox[i].status = "sending"
                 /\ outbox[i].updated_at > t - StuckAfter}

Stuck(t) ==
  {i \in Items : /\ outbox[i].status = "sending"
                 /\ outbox[i].updated_at < t - StuckAfter}

\* The SELECT of recover_stuck_sending takes no locks.
RecoverSelect(w) ==
  /\ pc[w] = "recover"
  /\ batch' = [batch EXCEPT ![w] = Stuck(now[w])]
  /\ cache' = [cache EXCEPT ![w] =
                 [i \in Items |-> IF i \in Stuck(now[w]) THEN outbox[i] ELSE NoRow]]
  /\ pc' = [pc EXCEPT ![w] = IF Stuck(now[w]) = {} THEN "lock" ELSE "recovering"]
  /\ UNCHANGED <<clock, outbox, now, current, result, history>>

RecoverCommit(w) ==
  /\ pc[w] = "recovering"
  /\ outbox' = [i \in Items |->
                  IF i \in batch[w]
                  THEN Flush(outbox[i], cache[w][i], Recovered(cache[w][i], now[w]))
                  ELSE outbox[i]]
  /\ pc' = [pc EXCEPT ![w] = "lock"]
  /\ batch' = [batch EXCEPT ![w] = {}]
  /\ cache' = [cache EXCEPT ![w] = NoCache]
  /\ UNCHANGED <<clock, now, current, result, history>>

Due(t) ==
  {i \in Items : outbox[i].status = "pending" /\ outbox[i].next_attempt_at <= t}

\* The BatchLimit rows that have been due the longest.
Batches(t) ==
  {S \in SUBSET Due(t) :
     /\ Cardinality(S) <= BatchLimit
     /\ S # Due(t) => Cardinality(S) = BatchLimit
     /\ \A i \in S, j \in Due(t) \ S :
          outbox[i].next_attempt_at <= outbox[j].next_attempt_at}

\* SELECT ... FOR UPDATE SKIP LOCKED, the update and the commit.
LockPendingBatch(w) ==
  /\ pc[w] = "lock"
  /\ \E S \in Batches(now[w]) :
       LET claimed == [i \in Items |-> Claimed(outbox[i], now[w])] IN
       /\ outbox' = [i \in Items |-> IF i \in S THEN claimed[i] ELSE outbox[i]]
       /\ cache' = [cache EXCEPT ![w] =
                      [i \in Items |-> IF i \in S THEN claimed[i] ELSE NoRow]]
       /\ batch' = [batch EXCEPT ![w] = S]
       /\ pc' = [pc EXCEPT ![w] = IF S = {} THEN "idle" ELSE "dispatch"]
       /\ now' = IF S = {} THEN [now EXCEPT ![w] = 0] ELSE now
  /\ UNCHANGED <<clock, current, result, history>>

\* The task goes through its rows in the order the SELECT returned them.
IsNext(w, i) ==
  /\ i \in batch[w]
  /\ \A j \in batch[w] : cache[w][i].next_attempt_at <= cache[w][j].next_attempt_at

\* Worker w is done with row i: on to the next row, or the task ends.
DoneWith(w, i) ==
  LET rest == batch[w] \ {i} IN
  /\ batch' = [batch EXCEPT ![w] = rest]
  /\ cache' = [cache EXCEPT ![w][i] = NoRow]
  /\ pc' = [pc EXCEPT ![w] = IF rest = {} THEN "idle" ELSE "dispatch"]
  /\ now' = IF rest = {} THEN [now EXCEPT ![w] = 0] ELSE now
  /\ current' = [current EXCEPT ![w] = NoItem]
  /\ result' = [result EXCEPT ![w] = "none"]

\* The commit of worker w, which has turned its copy of row i into new.
Store(w, i, new) ==
  outbox' = [outbox EXCEPT ![i] = Flush(outbox[i], cache[w][i], new)]

RescheduleQuietHours(w) ==
  /\ pc[w] = "dispatch"
  /\ QuietHours(now[w])
  /\ \E i \in Items :
       /\ IsNext(w, i)
       /\ Store(w, i, Rescheduled(cache[w][i], now[w]))
       /\ DoneWith(w, i)
  /\ UNCHANGED <<clock, history>>

\* What the provider may do with a mail and what the task learns of it: a
\* request that times out or breaks counts as retryable whether or not the
\* provider took the mail.
Answers ==
  {[taken |-> TRUE,  result |-> "sent"],
   [taken |-> TRUE,  result |-> "retryable"],
   [taken |-> FALSE, result |-> "retryable"],
   [taken |-> FALSE, result |-> "permanent"]}

Bump(n, b) == IF b THEN n + 1 ELSE n

ProviderSend(w) ==
  /\ pc[w] = "dispatch"
  /\ ~QuietHours(now[w])
  /\ \E i \in Items, a \in Answers :
       /\ IsNext(w, i)
       /\ current' = [current EXCEPT ![w] = i]
       /\ result' = [result EXCEPT ![w] = a.result]
       /\ accepted' = [accepted EXCEPT ![i] = Bump(@, a.taken)]
       /\ unrecorded' =
            [unrecorded EXCEPT ![i] = Bump(@, a.taken /\ a.result # "sent")]
  /\ pc' = [pc EXCEPT ![w] = "record"]
  /\ UNCHANGED <<clock, outbox, now, batch, cache, crashes>>

MarkSent(w) ==
  /\ pc[w] = "record"
  /\ result[w] = "sent"
  /\ Store(w, current[w], Sent(cache[w][current[w]], now[w]))
  /\ DoneWith(w, current[w])
  /\ UNCHANGED <<clock, history>>

MarkFailedOrRetry(w) ==
  /\ pc[w] = "record"
  /\ result[w] # "sent"
  /\ \E new \in Failed(cache[w][current[w]], now[w], result[w]) :
       Store(w, current[w], new)
  /\ DoneWith(w, current[w])
  /\ UNCHANGED <<clock, history>>

\* The process dies, or an exception leaves the task: its session is gone and
\* with it the answer it may hold.  Celery does not run the task again.
Crash(w) ==
  /\ pc[w] # "idle"
  /\ crashes < MaxCrashes
  /\ crashes' = crashes + 1
  /\ unrecorded' = [i \in Items |->
       Bump(unrecorded[i], i = current[w] /\ result[w] = "sent")]
  /\ pc' = [pc EXCEPT ![w] = "idle"]
  /\ now' = [now EXCEPT ![w] = 0]
  /\ batch' = [batch EXCEPT ![w] = {}]
  /\ cache' = [cache EXCEPT ![w] = NoCache]
  /\ current' = [current EXCEPT ![w] = NoItem]
  /\ result' = [result EXCEPT ![w] = "none"]
  /\ UNCHANGED <<clock, outbox, accepted>>

-----------------------------------------------------------------------------
(* Specification                                                           *)

Step(w) ==
  \/ RecoverSelect(w) \/ RecoverCommit(w) \/ LockPendingBatch(w)
  \/ RescheduleQuietHours(w) \/ ProviderSend(w) \/ MarkSent(w)
  \/ MarkFailedOrRetry(w)

Next ==
  \/ Tick
  \/ \E i \in Items : Enqueue(i)
  \/ \E w \in Workers : BeginDispatch(w) \/ Step(w) \/ Crash(w)

Spec == Init /\ [][Next]_vars

\* Time passes whatever the workers do; a task that runs goes on (every call
\* it makes returns, the provider's within its timeout); beat keeps starting
\* tasks as long as a worker is free.
Fairness ==
  /\ SF_vars(Tick)
  /\ \A w \in Workers : WF_vars(Step(w))
  /\ WF_vars(\E w \in Workers : BeginDispatch(w))

FairSpec == Spec /\ Fairness

-----------------------------------------------------------------------------
(* What holds however slow the workers are                                 *)

\* Every variable has its type.
TypeOK ==
  /\ clock \in Nat
  /\ outbox \in [Items -> Row]
  /\ pc \in [Workers -> Location]
  /\ now \in [Workers -> Nat]
  /\ batch \in [Workers -> SUBSET Items]
  /\ cache \in [Workers -> [Items -> Row]]
  /\ current \in [Workers -> Items \cup {NoItem}]
  /\ result \in [Workers -> Result]
  /\ accepted \in [Items -> Nat]
  /\ unrecorded \in [Items -> Nat]
  /\ crashes \in Nat

\* A row that waits for another attempt waits for a time at which mails may
\* be sent: neither the backoff nor the recovery schedules one into the night
\* (mark_failed_or_retry and recover_stuck_sending).
RetriesInSendWindow ==
  \A i \in Items :
    (outbox[i].status = "pending" /\ outbox[i].failure_class # "none")
      => WithinSendWindow(outbox[i].next_attempt_at)

\* No mail leaves later than a task may run after the send window closed: the
\* only check is made of the time the task started (dispatch_pending).
SendsNearWindow ==
  [][accepted' # accepted =>
       \E t \in 0..clock : clock - t <= MaxRun /\ WithinSendWindow(t)]_vars

-----------------------------------------------------------------------------
(* What holds if every task ends before recovery takes its rows for        *)
(* abandoned: MaxRun <= StuckAfter, and RecoverRun = 0                     *)

Holds(w, i) == pc[w] \in {"dispatch", "record"} /\ i \in batch[w]

\* No two tasks hold the same row, and the copy of a row a task holds is the
\* row: what it will flush is computed from what is stored.
ExclusiveClaim ==
  \A w \in Workers, i \in Items :
    Holds(w, i) =>
      /\ outbox[i].status = "sending"
      /\ outbox[i] = cache[w][i]
      /\ \A v \in Workers \ {w} : ~Holds(v, i)

\* The columns agree on how a row ended: sent rows carry the time and no
\* failure, dead rows are permanent failures, and a row that may be tried
\* again has attempts left.
OutcomeCoherent ==
  \A i \in Items :
    LET row == outbox[i] IN
    /\ row.status = "sent" <=> row.sent_at # Never
    /\ row.status = "sent" => row.failure_class = "none"
    /\ row.status = "dead" <=> row.failure_class = "permanent"
    /\ row.status \in {"pending", "sending"} => row.attempt_count < MaxAttempts

\* A recipient gets a second mail for a row only after an acceptance that no
\* task could record (a timeout after the provider took the mail, or a task
\* that died before it stored the answer).
DuplicateOnlyIfUnrecorded ==
  \A i \in Items : accepted[i] <= unrecorded[i] + 1

\* A row that is sent or dead stays as it is, and no step takes back a failed
\* attempt.
FinalIsFinal ==
  [][\A i \in Items :
       /\ outbox[i].status \in {"sent", "dead"} => outbox'[i] = outbox[i]
       /\ outbox'[i].attempt_count >= outbox[i].attempt_count]_vars

\* Worker w has the provider's yes for row i and has not stored it.
InFlight(w, i) == pc[w] = "record" /\ current[w] = i /\ result[w] = "sent"

\* Why all this holds.  A task is not older than MaxRun, and what it holds
\* carries its own start time; so a row old enough for recovery has lost its
\* holder.  Recovery puts a row off to a time after the tick in which it runs,
\* so nobody claims the row before every recovery that has read it is over.
\* And the provider's acceptances are all accounted for: as a row that is
\* sent, an answer in flight, or an unrecorded one.
TaskTiming ==
  \A w \in Workers :
    /\ pc[w] # "idle" => now[w] <= clock /\ clock <= now[w] + MaxRun
    /\ pc[w] \in {"recover", "recovering"} => clock = now[w]

ClaimStamped ==
  \A w \in Workers, i \in Items : Holds(w, i) => outbox[i].updated_at = now[w]

ClaimWasDue ==
  \A i \in Items :
    outbox[i].status = "sending" => outbox[i].next_attempt_at <= outbox[i].updated_at

RecoveryOfAbandoned ==
  \A w \in Workers : pc[w] = "recovering" =>
    \A i \in batch[w] :
      /\ cache[w][i].status = "sending"
      /\ cache[w][i].next_attempt_at <= now[w]
      /\ \A v \in Workers : ~Holds(v, i)
      /\ \/ outbox[i].status = "sending"
         \/ outbox[i].status = "pending" /\ outbox[i].next_attempt_at > clock

AcceptancesAccounted ==
  \A i \in Items :
    accepted[i] = IF outbox[i].status = "sent" \/ \E w \in Workers : InFlight(w, i)
                  THEN unrecorded[i] + 1
                  ELSE unrecorded[i]

ClaimInvariant ==
  /\ TaskTiming /\ ClaimStamped /\ ClaimWasDue /\ RecoveryOfAbandoned
  /\ ExclusiveClaim /\ OutcomeCoherent /\ AcceptancesAccounted

\* The life of one row is a reminder's delivery as ReminderDelivery tells it.
Delivery(i) == INSTANCE ReminderDelivery WITH
  status <- outbox[i].status, attempts <- outbox[i].attempt_count,
  accepted <- accepted[i], unrecorded <- unrecorded[i]

\* Every row is delivered at least once or given up after MaxAttempts
\* failures, has one outcome, and is mailed again only after an acceptance
\* that was not recorded: \A i \in Items : Delivery(i)!Spec, with the
\* quantifier moved inside, where TLC can evaluate it.
ImplementsDelivery ==
  /\ \A i \in Items : Delivery(i)!Init
  /\ [][\A i \in Items : [Delivery(i)!Next]_(Delivery(i)!vars)]_vars

-----------------------------------------------------------------------------
(* What the documentation says and the code does not keep                  *)

\* No mail leaves outside the send window ("ausserhalb wird auf pending
\* rescheduled", docs/NOTIFICATIONS_TESTING.md): dispatch_pending compares the
\* time the task started, not the time of the send.
SendsInWindow == [][accepted' # accepted => WithinSendWindow(clock)]_vars

-----------------------------------------------------------------------------
(* Liveness, under Fairness                                                *)

Final(i) == outbox[i].status \in {"sent", "dead"}

\* What no dispatch task before the horizon will look at again.
BeyondHorizon(i) ==
  \/ outbox[i].status = "pending" /\ outbox[i].next_attempt_at > Horizon
  \/ outbox[i].status = "sending" /\ outbox[i].updated_at >= Horizon - StuckAfter

\* Every reminder that is due gets an outcome or is put off to a time the
\* model does not reach: a crashed task's rows are picked up again, no row
\* starves behind others, retries end.
EveryReminderSettles ==
  \A i \in Items :
    outbox[i].status \in {"pending", "sending"} ~> (Final(i) \/ BeyondHorizon(i))

=============================================================================
