----------------------- MODULE NotificationOutboxProofs -----------------------
(***************************************************************************)
(* Theorems about NotificationOutbox, for every number of rows and workers *)
(* and every value of the other constants.                                 *)
(***************************************************************************)
EXTENDS NotificationOutbox, TLAPS

-----------------------------------------------------------------------------
(* The send window and the rows                                            *)

\* The opening that next_send_window_start returns is a later time.
LEMMA NextSendWindowStartIsLater ==
  ASSUME NEW t \in Nat
  PROVE  /\ NextSendWindowStart(t) \in Nat
         /\ NextSendWindowStart(t) > t
<1>1. TimeOfDay(t) \in 0..(DayLen - 1)
  BY WindowAssumption DEF TimeOfDay
<1>2. t - TimeOfDay(t) + DayLen > t
  BY <1>1, WindowAssumption
<1> QED
  BY <1>1, <1>2, WindowAssumption, SMTT(30) DEF NextSendWindowStart

LEMMA IntoSendWindowType ==
  ASSUME NEW t \in Nat PROVE IntoSendWindow(t) \in Nat
BY NextSendWindowStartIsLater DEF IntoSendWindow

\* A flush writes a row, whatever was stored and cached.
LEMMA FlushType ==
  ASSUME NEW row \in Row, NEW old \in Row, NEW new \in Row
  PROVE  Flush(row, old, new) \in Row
BY DEF Flush, Written, Row

\* A flush over the row that was loaded stores the session's row.
LEMMA FlushFresh ==
  ASSUME NEW row \in Row, NEW new \in Row
  PROVE  Flush(row, row, new) = new
BY DEF Flush, Written, Row

LEMMA RowOperationType ==
  ASSUME NEW row \in Row, NEW t \in Nat
  PROVE  /\ Recovered(row, t) \in Row
         /\ Claimed(row, t) \in Row
         /\ Rescheduled(row, t) \in Row
         /\ Sent(row, t) \in Row
         /\ Dead(row, t) \in Row
<1>1. NextSendWindowStart(t) \in Nat
  BY NextSendWindowStartIsLater
<1>2. Recovered(row, t) \in Row
  BY <1>1 DEF Recovered, Row, Status, FailureClass
<1>3. Claimed(row, t) \in Row
  BY DEF Claimed, Row, Status, FailureClass
<1>4. Rescheduled(row, t) \in Row
  BY <1>1 DEF Rescheduled, Row, Status, FailureClass
<1>5. Sent(row, t) \in Row
  BY DEF Sent, Row, Status, FailureClass
<1>6. Dead(row, t) \in Row
  <2>1. row.attempt_count + 1 \in Nat
    BY DEF Row
  <2> QED
    BY <2>1 DEF Dead, Row, Status, FailureClass
<1> QED
  BY <1>2, <1>3, <1>4, <1>5, <1>6

LEMMA RetryDelaysType ==
  ASSUME NEW n \in Nat \ {0}
  PROVE  RetryDelays(n) \in SUBSET Nat
<1>1. Len(Backoff) \in Nat \ {0}
  BY LimitAssumption
<1> QED
  BY <1>1, LimitAssumption DEF RetryDelays

LEMMA FailedType ==
  ASSUME NEW row \in Row, NEW t \in Nat, NEW class, NEW new \in Failed(row, t, class)
  PROVE  new \in Row
<1>1. CASE new = Dead(row, t)
  BY <1>1, RowOperationType
<1>2. CASE \E d \in RetryDelays(row.attempt_count + 1) : new = Retried(row, t, d)
  <2>1. row.attempt_count + 1 \in Nat \ {0}
    BY DEF Row
  <2>2. PICK d \in Nat : new = Retried(row, t, d)
    BY <1>2, <2>1, RetryDelaysType
  <2>3. IntoSendWindow(t + d) \in Nat
    BY <2>2, IntoSendWindowType
  <2> QED
    BY <2>1, <2>2, <2>3 DEF Retried, Row, Status, FailureClass
<1> QED
  BY <1>1, <1>2 DEF Failed

LEMMA NewRowType ==
  ASSUME NEW status \in Status, NEW t \in Nat PROVE NewRow(status, t) \in Row
BY DEF NewRow, Row, FailureClass, Never

LEMMA NoRowType == NoRow \in Row /\ NoCache \in [Items -> Row]
BY NewRowType DEF NoRow, NoCache, Status

-----------------------------------------------------------------------------
(* Type correctness                                                        *)

LEMMA DoneWithType ==
  ASSUME TypeOK, NEW w \in Workers, NEW i \in Items, DoneWith(w, i)
  PROVE  /\ pc' \in [Workers -> Location]
         /\ now' \in [Workers -> Nat]
         /\ batch' \in [Workers -> SUBSET Items]
         /\ cache' \in [Workers -> [Items -> Row]]
         /\ current' \in [Workers -> Items \cup {NoItem}]
         /\ result' \in [Workers -> Result]
<1>1. cache' \in [Workers -> [Items -> Row]]
  BY NoRowType DEF TypeOK, DoneWith
<1> QED
  BY <1>1 DEF TypeOK, DoneWith, Location, Result

LEMMA StoreType ==
  ASSUME TypeOK, NEW w \in Workers, NEW i \in Items, NEW new \in Row,
         Store(w, i, new)
  PROVE  outbox' \in [Items -> Row]
BY FlushType DEF TypeOK, Store

\* A worker at "record" has handed a row to the provider; no other worker has
\* an answer.
CurrentOK ==
  \A w \in Workers :
    /\ pc[w] = "record" => current[w] \in batch[w]
    /\ pc[w] # "record" => result[w] = "none"

LEMMA InitType == Init => TypeOK /\ CurrentOK
BY NoRowType DEF Init, TypeOK, CurrentOK, Location, Result

LEMMA StepType ==
  ASSUME TypeOK, CurrentOK, [Next]_vars
  PROVE  TypeOK' /\ CurrentOK'
<1> USE DEF Location, Result
<1>1. CASE Tick
  BY <1>1 DEF TypeOK, CurrentOK, Tick, worker, history
<1>2. ASSUME NEW i \in Items, Enqueue(i)
      PROVE  TypeOK' /\ CurrentOK'
  <2>1. PICK t \in 0..clock : outbox' = [outbox EXCEPT ![i] = NewRow("pending", t)]
    BY <1>2 DEF Enqueue
  <2>2. NewRow("pending", t) \in Row
    BY <2>1, NewRowType DEF TypeOK, Status
  <2> QED
    BY <1>2, <2>1, <2>2 DEF TypeOK, CurrentOK, Enqueue, worker, history
<1>3. ASSUME NEW w \in Workers, BeginDispatch(w)
      PROVE  TypeOK' /\ CurrentOK'
  BY <1>3 DEF TypeOK, CurrentOK, BeginDispatch, history
<1>4. ASSUME NEW w \in Workers, RecoverSelect(w)
      PROVE  TypeOK' /\ CurrentOK'
  <2>1. Stuck(now[w]) \in SUBSET Items
    BY DEF Stuck
  <2>2. [i \in Items |-> IF i \in Stuck(now[w]) THEN outbox[i] ELSE NoRow]
          \in [Items -> Row]
    BY NoRowType DEF TypeOK
  <2>3. batch' \in [Workers -> SUBSET Items] /\ cache' \in [Workers -> [Items -> Row]]
    BY <1>4, <2>1, <2>2 DEF TypeOK, RecoverSelect
  <2>4. TypeOK'
    BY <1>4, <2>3 DEF TypeOK, RecoverSelect, history
  <2>5. CurrentOK'
    BY <1>4 DEF TypeOK, CurrentOK, RecoverSelect
  <2> QED
    BY <2>4, <2>5
<1>5. ASSUME NEW w \in Workers, RecoverCommit(w)
      PROVE  TypeOK' /\ CurrentOK'
  <2>1. ASSUME NEW i \in Items
        PROVE  Flush(outbox[i], cache[w][i], Recovered(cache[w][i], now[w])) \in Row
    BY FlushType, RowOperationType DEF TypeOK
  <2>2. outbox' \in [Items -> Row]
    BY <1>5, <2>1 DEF TypeOK, RecoverCommit
  <2>3. cache' \in [Workers -> [Items -> Row]]
    BY <1>5, NoRowType DEF TypeOK, RecoverCommit
  <2>4. TypeOK'
    BY <1>5, <2>2, <2>3 DEF TypeOK, RecoverCommit, history
  <2>5. CurrentOK'
    BY <1>5 DEF TypeOK, CurrentOK, RecoverCommit
  <2> QED
    BY <2>4, <2>5
<1>6. ASSUME NEW w \in Workers, LockPendingBatch(w)
      PROVE  TypeOK' /\ CurrentOK'
  <2> DEFINE claimed == [i \in Items |-> Claimed(outbox[i], now[w])]
             copies(S) == [i \in Items |-> IF i \in S THEN claimed[i] ELSE NoRow]
  <2>1. PICK S \in SUBSET Items :
          /\ outbox' = [i \in Items |-> IF i \in S THEN claimed[i] ELSE outbox[i]]
          /\ cache' = [cache EXCEPT ![w] = copies(S)]
          /\ batch' = [batch EXCEPT ![w] = S]
          /\ pc' = [pc EXCEPT ![w] = IF S = {} THEN "idle" ELSE "dispatch"]
          /\ now' = IF S = {} THEN [now EXCEPT ![w] = 0] ELSE now
    BY <1>6 DEF LockPendingBatch, Batches, Due
  <2>2. claimed \in [Items -> Row]
    BY RowOperationType DEF TypeOK
  <2> HIDE DEF claimed
  <2>3. copies(S) \in [Items -> Row]
    BY <2>2, NoRowType
  <2> HIDE DEF copies
  <2>4. cache' \in [Workers -> [Items -> Row]]
    BY <2>1, <2>3 DEF TypeOK
  <2>5. outbox' \in [Items -> Row]
    BY <2>1, <2>2 DEF TypeOK
  <2>6. TypeOK'
    BY <1>6, <2>1, <2>4, <2>5 DEF TypeOK, LockPendingBatch, history
  <2>7. CurrentOK'
    BY <1>6, <2>1 DEF TypeOK, CurrentOK, LockPendingBatch
  <2> QED
    BY <2>6, <2>7
<1>7. ASSUME NEW w \in Workers, RescheduleQuietHours(w)
      PROVE  TypeOK' /\ CurrentOK'
  <2>1. PICK i \in Items : /\ IsNext(w, i)
                           /\ Store(w, i, Rescheduled(cache[w][i], now[w]))
                           /\ DoneWith(w, i)
    BY <1>7 DEF RescheduleQuietHours
  <2>2. Rescheduled(cache[w][i], now[w]) \in Row
    BY RowOperationType DEF TypeOK
  <2>3. outbox' \in [Items -> Row]
    BY <2>1, <2>2, StoreType
  <2>4. TypeOK'
    BY <1>7, <2>1, <2>3, DoneWithType DEF TypeOK, RescheduleQuietHours, history
  <2>5. CurrentOK'
    BY <2>1 DEF TypeOK, CurrentOK, DoneWith
  <2> QED
    BY <2>4, <2>5
<1>8. ASSUME NEW w \in Workers, ProviderSend(w)
      PROVE  TypeOK' /\ CurrentOK'
  <2>1. PICK i \in Items, a \in Answers :
          /\ IsNext(w, i)
          /\ current' = [current EXCEPT ![w] = i]
          /\ result' = [result EXCEPT ![w] = a.result]
          /\ accepted' = [accepted EXCEPT ![i] = Bump(accepted[i], a.taken)]
          /\ unrecorded' = [unrecorded EXCEPT
               ![i] = Bump(unrecorded[i], a.taken /\ a.result # "sent")]
    BY <1>8 DEF ProviderSend
  <2>2. a.result \in Result
    BY <2>1 DEF Answers
  <2>3. accepted' \in [Items -> Nat] /\ unrecorded' \in [Items -> Nat]
    BY <2>1 DEF TypeOK, Bump
  <2>4. TypeOK'
    BY <1>8, <2>1, <2>2, <2>3 DEF TypeOK, ProviderSend
  <2>5. CurrentOK'
    BY <1>8, <2>1 DEF TypeOK, CurrentOK, ProviderSend, IsNext
  <2> QED
    BY <2>4, <2>5
<1>9. ASSUME NEW w \in Workers, MarkSent(w)
      PROVE  TypeOK' /\ CurrentOK'
  <2>1. current[w] \in Items
    BY <1>9 DEF MarkSent, CurrentOK, TypeOK
  <2>2. Sent(cache[w][current[w]], now[w]) \in Row
    BY <2>1, RowOperationType DEF TypeOK
  <2>3. outbox' \in [Items -> Row]
    BY <1>9, <2>1, <2>2, StoreType DEF MarkSent
  <2>4. TypeOK'
    BY <1>9, <2>1, <2>3, DoneWithType DEF TypeOK, MarkSent, history
  <2>5. CurrentOK'
    BY <1>9, <2>1 DEF TypeOK, CurrentOK, MarkSent, DoneWith
  <2> QED
    BY <2>4, <2>5
<1>10. ASSUME NEW w \in Workers, MarkFailedOrRetry(w)
       PROVE  TypeOK' /\ CurrentOK'
  <2>1. current[w] \in Items
    BY <1>10 DEF MarkFailedOrRetry, CurrentOK, TypeOK
  <2>2. PICK new \in Failed(cache[w][current[w]], now[w], result[w]) :
          Store(w, current[w], new)
    BY <1>10 DEF MarkFailedOrRetry
  <2>3. new \in Row
    BY <2>1, <2>2, FailedType DEF TypeOK
  <2>4. outbox' \in [Items -> Row]
    BY <2>1, <2>2, <2>3, StoreType
  <2>5. TypeOK'
    BY <1>10, <2>1, <2>4, DoneWithType DEF TypeOK, MarkFailedOrRetry, history
  <2>6. CurrentOK'
    BY <1>10, <2>1 DEF TypeOK, CurrentOK, MarkFailedOrRetry, DoneWith
  <2> QED
    BY <2>5, <2>6
<1>11. ASSUME NEW w \in Workers, Crash(w)
       PROVE  TypeOK' /\ CurrentOK'
  <2>1. unrecorded' \in [Items -> Nat]
    BY <1>11 DEF TypeOK, Crash, Bump
  <2>2. cache' \in [Workers -> [Items -> Row]]
    BY <1>11, NoRowType DEF TypeOK, Crash
  <2>3. TypeOK'
    BY <1>11, <2>1, <2>2 DEF TypeOK, Crash
  <2>4. CurrentOK'
    BY <1>11 DEF TypeOK, CurrentOK, Crash
  <2> QED
    BY <2>3, <2>4
<1>12. CASE UNCHANGED vars
  BY <1>12 DEF TypeOK, CurrentOK, vars, worker, history
<1> QED
  BY <1>1, <1>2, <1>3, <1>4, <1>5, <1>6, <1>7, <1>8, <1>9, <1>10, <1>11, <1>12
     DEF Next, Step

\* Every reachable state has the types TypeOK gives, with no assumption on how
\* fast the workers are.
THEOREM TypeCorrect == Spec => []TypeOK
<1>1. Init => TypeOK /\ CurrentOK
  BY InitType
<1>2. TypeOK /\ CurrentOK /\ [Next]_vars => (TypeOK /\ CurrentOK)'
  BY StepType
<1> QED
  BY <1>1, <1>2, PTL DEF Spec

-----------------------------------------------------------------------------
(* Exclusive claims                                                        *)

\* Every task ends before recovery takes its rows for abandoned, and recovery
\* takes less than a tick.
FastWorkers == MaxRun <= StuckAfter /\ RecoverRun = 0

IInv == TypeOK /\ CurrentOK /\ ClaimInvariant

LEMMA InitClaim == Init => ClaimInvariant
BY DEF Init, ClaimInvariant, TaskTiming, ClaimStamped, ClaimWasDue,
       RecoveryOfAbandoned, ExclusiveClaim, OutcomeCoherent, AcceptancesAccounted,
       Holds, InFlight, NoCache, NoRow, NewRow, Never

\* A row some worker holds is its own copy of it, so what it stores is what
\* it computed.
LEMMA HolderStores ==
  ASSUME IInv, NEW w \in Workers, NEW i \in Items, Holds(w, i), NEW new \in Row,
         Store(w, i, new)
  PROVE  outbox' = [outbox EXCEPT ![i] = new]
<1>1. outbox[i] = cache[w][i] /\ outbox[i] \in Row
  BY DEF IInv, ClaimInvariant, ExclusiveClaim, TypeOK
<1> QED
  BY <1>1, FlushFresh DEF Store

\* The holder of a row records an outcome for it and is done with it.
LEMMA HolderRecords ==
  ASSUME IInv, NEW w \in Workers, NEW i \in Items, Holds(w, i), DoneWith(w, i),
         NEW new \in Row, outbox' = [outbox EXCEPT ![i] = new],
         new.status \in {"pending", "sent", "dead"},
         new.status = "sent" <=> InFlight(w, i),
         new.status = "sent" <=> new.sent_at # Never,
         new.status = "sent" => new.failure_class = "none",
         new.status = "dead" <=> new.failure_class = "permanent",
         new.status = "pending" => new.attempt_count < MaxAttempts,
         pc[w] = "record" => current[w] = i,
         UNCHANGED <<clock, history>>
  PROVE  ClaimInvariant'
<1> DEFINE rest == batch[w] \ {i}
<1>0. TypeOK /\ CurrentOK /\ ClaimInvariant
  BY DEF IInv
<1>1. \A v \in Workers : v # w => /\ pc'[v] = pc[v] /\ now'[v] = now[v]
                                  /\ batch'[v] = batch[v] /\ cache'[v] = cache[v]
                                  /\ current'[v] = current[v] /\ result'[v] = result[v]
  BY <1>0 DEF DoneWith, TypeOK
<1>2. /\ pc'[w] \in {"idle", "dispatch"}
      /\ pc'[w] # "idle" => now'[w] = now[w]
      /\ batch'[w] = rest
      /\ \A j \in Items : j # i => cache'[w][j] = cache[w][j]
  BY <1>0 DEF DoneWith, TypeOK
<1>3. /\ outbox'[i] = new
      /\ \A j \in Items : j # i => outbox'[j] = outbox[j]
  BY <1>0 DEF TypeOK
<1>4. \A v \in Workers, j \in Items : (Holds(v, j))' => Holds(v, j) /\ j # i
  BY <1>0, <1>1, <1>2 DEF Holds, ClaimInvariant, ExclusiveClaim
<1>5. \A v \in Workers, j \in Items : (InFlight(v, j))' <=> InFlight(v, j) /\ j # i
  BY <1>0, <1>1, <1>2 DEF InFlight, ClaimInvariant, ExclusiveClaim, CurrentOK, Holds
<1>6. TaskTiming'
  BY <1>0, <1>1, <1>2 DEF ClaimInvariant, TaskTiming, Holds
<1>7. ClaimStamped'
  BY <1>0, <1>1, <1>2, <1>3, <1>4 DEF ClaimInvariant, ClaimStamped, Holds
<1>8. ClaimWasDue'
  BY <1>0, <1>3 DEF ClaimInvariant, ClaimWasDue
<1>9. RecoveryOfAbandoned'
  <2> SUFFICES ASSUME NEW v \in Workers, pc'[v] = "recovering", NEW j \in batch'[v]
               PROVE  /\ cache'[v][j].status = "sending"
                      /\ cache'[v][j].next_attempt_at <= now'[v]
                      /\ \A u \in Workers : ~(Holds(u, j))'
                      /\ \/ outbox'[j].status = "sending"
                         \/ outbox'[j].status = "pending"
                            /\ outbox'[j].next_attempt_at > clock'
    BY DEF RecoveryOfAbandoned, Holds
  <2>1. v # w /\ j \in batch[v] /\ j \in Items /\ pc[v] = "recovering"
    BY <1>0, <1>1, <1>2 DEF TypeOK
  <2>2. j # i
    BY <1>0, <2>1 DEF ClaimInvariant, RecoveryOfAbandoned
  <2> QED
    BY <1>0, <1>1, <1>3, <1>4, <2>1, <2>2 DEF ClaimInvariant, RecoveryOfAbandoned
<1>10. ExclusiveClaim'
  <2> SUFFICES ASSUME NEW v \in Workers, NEW j \in Items, (Holds(v, j))'
               PROVE  /\ outbox'[j].status = "sending"
                      /\ outbox'[j] = cache'[v][j]
                      /\ \A u \in Workers \ {v} : ~(Holds(u, j))'
    BY DEF ExclusiveClaim, Holds
  <2>1. Holds(v, j) /\ j # i
    BY <1>4
  <2>2. cache'[v][j] = cache[v][j] /\ outbox'[j] = outbox[j]
    BY <1>1, <1>2, <1>3, <2>1
  <2> QED
    BY <1>0, <1>4, <2>1, <2>2 DEF ClaimInvariant, ExclusiveClaim
<1>11. OutcomeCoherent'
  BY <1>0, <1>3 DEF ClaimInvariant, OutcomeCoherent
<1>12. AcceptancesAccounted'
  <2> SUFFICES ASSUME NEW j \in Items
               PROVE  accepted[j] =
                        IF outbox'[j].status = "sent" \/ \E v \in Workers : (InFlight(v, j))'
                        THEN unrecorded[j] + 1 ELSE unrecorded[j]
    BY DEF AcceptancesAccounted, InFlight, history
  <2>1. CASE j # i
    BY <1>0, <1>3, <1>5, <2>1 DEF ClaimInvariant, AcceptancesAccounted
  <2>2. CASE j = i
    <3>1. outbox[i].status = "sending"
      BY <1>0 DEF ClaimInvariant, ExclusiveClaim
    <3>2. \A v \in Workers : InFlight(v, i) => v = w
      BY <1>0 DEF ClaimInvariant, ExclusiveClaim, InFlight, Holds, CurrentOK
    <3> QED
      BY <1>0, <1>3, <1>5, <2>2, <3>1, <3>2 DEF ClaimInvariant, AcceptancesAccounted
  <2> QED
    BY <2>1, <2>2
<1> QED
  BY <1>6, <1>7, <1>8, <1>9, <1>10, <1>11, <1>12 DEF ClaimInvariant

\* A step that leaves the rows, the claims, the answers and the tallies alone.
LEMMA ClaimsUntouched ==
  ASSUME IInv, NEW w \in Workers,
         \A v \in Workers : v # w => pc'[v] = pc[v] /\ batch'[v] = batch[v],
         pc[w] \notin {"dispatch", "record"}, pc'[w] \notin {"dispatch", "record"},
         UNCHANGED <<outbox, result, current, accepted, unrecorded>>
  PROVE  /\ \A v \in Workers, j \in Items : (Holds(v, j))' <=> Holds(v, j)
         /\ AcceptancesAccounted'
<1>1. \A v \in Workers, j \in Items : (Holds(v, j))' <=> Holds(v, j)
  BY DEF Holds
<1>2. \A v \in Workers, j \in Items : (InFlight(v, j))' <=> InFlight(v, j)
  BY DEF InFlight
<1> QED
  BY <1>1, <1>2 DEF IInv, ClaimInvariant, AcceptancesAccounted

LEMMA TickClaim ==
  ASSUME IInv, FastWorkers, Tick PROVE ClaimInvariant'
<1>0. TypeOK /\ ClaimInvariant
  BY DEF IInv
<1>1. UNCHANGED <<outbox, pc, now, batch, cache, current, result, accepted, unrecorded>>
  BY DEF Tick, worker, history
<1>2. \A w \in Workers : pc[w] \notin {"recover", "recovering"}
  BY <1>0 DEF Tick, FastWorkers, ClaimInvariant, TaskTiming, TypeOK
<1>3. TaskTiming'
  BY <1>0, <1>1, <1>2, BoundAssumption DEF Tick, ClaimInvariant, TaskTiming, TypeOK
<1>4. RecoveryOfAbandoned'
  BY <1>1, <1>2 DEF RecoveryOfAbandoned
<1>5. /\ ClaimStamped' /\ ClaimWasDue' /\ ExclusiveClaim' /\ OutcomeCoherent'
      /\ AcceptancesAccounted'
  BY <1>0, <1>1 DEF ClaimInvariant, ClaimStamped, ClaimWasDue, ExclusiveClaim,
                    OutcomeCoherent, AcceptancesAccounted, Holds, InFlight
<1> QED
  BY <1>3, <1>4, <1>5 DEF ClaimInvariant

LEMMA EnqueueClaim ==
  ASSUME IInv, NEW i \in Items, Enqueue(i) PROVE ClaimInvariant'
<1>0. TypeOK /\ ClaimInvariant
  BY DEF IInv
<1>1. PICK t \in 0..clock : outbox' = [outbox EXCEPT ![i] = NewRow("pending", t)]
  BY DEF Enqueue
<1>2. UNCHANGED <<clock, pc, now, batch, cache, current, result, accepted, unrecorded>>
  BY DEF Enqueue, worker, history
<1>3. /\ outbox'[i] = NewRow("pending", t) /\ outbox[i].status = "absent"
      /\ \A j \in Items : j # i => outbox'[j] = outbox[j]
  BY <1>0, <1>1 DEF Enqueue, TypeOK
<1>4. \A w \in Workers : ~Holds(w, i)
  BY <1>0, <1>3 DEF ClaimInvariant, ExclusiveClaim
<1>5. \A w \in Workers, j \in Items : (Holds(w, j))' <=> Holds(w, j)
  BY <1>2 DEF Holds
<1>6. TaskTiming'
  BY <1>0, <1>2 DEF ClaimInvariant, TaskTiming
<1>7. ClaimStamped' /\ ExclusiveClaim'
  BY <1>0, <1>2, <1>3, <1>4, <1>5 DEF ClaimInvariant, ClaimStamped, ExclusiveClaim
<1>8. ClaimWasDue' /\ OutcomeCoherent'
  BY <1>0, <1>3, LimitAssumption DEF ClaimInvariant, ClaimWasDue, OutcomeCoherent, NewRow
<1>9. RecoveryOfAbandoned'
  <2> SUFFICES ASSUME NEW v \in Workers, pc[v] = "recovering", NEW j \in batch[v]
               PROVE  /\ cache[v][j].status = "sending"
                      /\ cache[v][j].next_attempt_at <= now[v]
                      /\ \A u \in Workers : ~Holds(u, j)
                      /\ \/ outbox'[j].status = "sending"
                         \/ outbox'[j].status = "pending"
                            /\ outbox'[j].next_attempt_at > clock
    BY <1>2 DEF RecoveryOfAbandoned, Holds
  <2>1. j # i /\ j \in Items
    BY <1>0, <1>3 DEF ClaimInvariant, RecoveryOfAbandoned, TypeOK
  <2> QED
    BY <1>0, <1>3, <2>1 DEF ClaimInvariant, RecoveryOfAbandoned
<1>10. AcceptancesAccounted'
  <2>1. \A w \in Workers, j \in Items : (InFlight(w, j))' <=> InFlight(w, j)
    BY <1>2 DEF InFlight
  <2>2. outbox'[i].status # "sent"
    BY <1>3 DEF NewRow
  <2> QED
    BY <1>0, <1>2, <1>3, <2>1, <2>2 DEF ClaimInvariant, AcceptancesAccounted
<1> QED
  BY <1>6, <1>7, <1>8, <1>9, <1>10 DEF ClaimInvariant

LEMMA BeginDispatchClaim ==
  ASSUME IInv, NEW w \in Workers, BeginDispatch(w) PROVE ClaimInvariant'
<1>0. TypeOK /\ ClaimInvariant
  BY DEF IInv
<1>1. /\ pc[w] = "idle" /\ pc'[w] = "recover" /\ now'[w] = clock
      /\ \A v \in Workers : v # w => pc'[v] = pc[v] /\ now'[v] = now[v]
      /\ UNCHANGED <<clock, outbox, batch, cache, current, result, accepted, unrecorded>>
  BY <1>0 DEF BeginDispatch, TypeOK, history
<1>2. (\A v \in Workers, j \in Items : (Holds(v, j))' <=> Holds(v, j)) /\ AcceptancesAccounted'
  BY <1>1, ClaimsUntouched
<1>3. TaskTiming'
  BY <1>0, <1>1, BoundAssumption DEF ClaimInvariant, TaskTiming, TypeOK
<1>4. ClaimStamped' /\ ExclusiveClaim'
  BY <1>0, <1>1, <1>2 DEF ClaimInvariant, ClaimStamped, ExclusiveClaim, Holds
<1>5. ClaimWasDue' /\ OutcomeCoherent'
  BY <1>0, <1>1 DEF ClaimInvariant, ClaimWasDue, OutcomeCoherent
<1>6. RecoveryOfAbandoned'
  BY <1>0, <1>1, <1>2 DEF ClaimInvariant, RecoveryOfAbandoned, TypeOK
<1> QED
  BY <1>2, <1>3, <1>4, <1>5, <1>6 DEF ClaimInvariant

\* Where the timing assumption is used: a row old enough to be recovered has
\* no holder, who would be older than MaxRun.
LEMMA RecoverSelectClaim ==
  ASSUME IInv, FastWorkers, NEW w \in Workers, RecoverSelect(w) PROVE ClaimInvariant'
<1>0. TypeOK /\ ClaimInvariant
  BY DEF IInv
<1>1. /\ pc[w] = "recover" /\ pc'[w] \in {"lock", "recovering"}
      /\ batch'[w] = Stuck(now[w])
      /\ \A i \in Stuck(now[w]) : cache'[w][i] = outbox[i]
      /\ \A v \in Workers : v # w => /\ pc'[v] = pc[v] /\ batch'[v] = batch[v]
                                     /\ cache'[v] = cache[v]
      /\ UNCHANGED <<clock, outbox, now, current, result, accepted, unrecorded>>
  BY <1>0 DEF RecoverSelect, TypeOK, history, Stuck
<1>2. (\A v \in Workers, j \in Items : (Holds(v, j))' <=> Holds(v, j)) /\ AcceptancesAccounted'
  BY <1>1, ClaimsUntouched
<1>3. now[w] = clock
  BY <1>0, <1>1 DEF ClaimInvariant, TaskTiming
<1>4. \A v \in Workers, i \in Stuck(now[w]) : ~Holds(v, i)
  <2> SUFFICES ASSUME NEW v \in Workers, NEW i \in Stuck(now[w]), Holds(v, i)
               PROVE  FALSE
    OBVIOUS
  <2>1. i \in Items /\ outbox[i].updated_at < now[w] - StuckAfter
    BY DEF Stuck
  <2>2. outbox[i].updated_at = now[v]
    BY <1>0, <2>1 DEF ClaimInvariant, ClaimStamped
  <2>3. clock <= now[v] + MaxRun
    BY <1>0 DEF ClaimInvariant, TaskTiming, Holds
  <2> QED
    BY <1>0, <1>3, <2>1, <2>2, <2>3, BoundAssumption, LimitAssumption
       DEF FastWorkers, TypeOK
<1>5. \A i \in Stuck(now[w]) :
        /\ outbox[i].status = "sending"
        /\ outbox[i].next_attempt_at <= now[w]
  <2> SUFFICES ASSUME NEW i \in Stuck(now[w])
               PROVE  /\ outbox[i].status = "sending"
                      /\ outbox[i].next_attempt_at <= now[w]
    OBVIOUS
  <2>1. /\ i \in Items /\ outbox[i].status = "sending"
        /\ outbox[i].updated_at < now[w] - StuckAfter
    BY DEF Stuck
  <2>2. outbox[i].next_attempt_at <= outbox[i].updated_at
    BY <1>0, <2>1 DEF ClaimInvariant, ClaimWasDue
  <2>3. outbox[i] \in Row /\ now[w] \in Nat
    BY <1>0, <2>1 DEF TypeOK
  <2> QED
    BY <2>1, <2>2, <2>3, LimitAssumption DEF Row
<1>6. TaskTiming'
  BY <1>0, <1>1 DEF ClaimInvariant, TaskTiming
<1>7. ClaimStamped' /\ ExclusiveClaim'
  BY <1>0, <1>1, <1>2 DEF ClaimInvariant, ClaimStamped, ExclusiveClaim, Holds
<1>8. ClaimWasDue' /\ OutcomeCoherent'
  BY <1>0, <1>1 DEF ClaimInvariant, ClaimWasDue, OutcomeCoherent
<1>9. RecoveryOfAbandoned'
  <2> SUFFICES ASSUME NEW v \in Workers, pc'[v] = "recovering", NEW i \in batch'[v]
               PROVE  /\ cache'[v][i].status = "sending"
                      /\ cache'[v][i].next_attempt_at <= now[v]
                      /\ \A u \in Workers : ~Holds(u, i)
                      /\ \/ outbox[i].status = "sending"
                         \/ outbox[i].status = "pending" /\ outbox[i].next_attempt_at > clock
    <3>1. \A v \in Workers : batch'[v] \in SUBSET Items
      BY <1>0, <1>1 DEF Stuck, TypeOK
    <3> QED
      BY <1>1, <1>2, <3>1 DEF RecoveryOfAbandoned
  <2>1. CASE v = w
    BY <1>1, <1>4, <1>5, <2>1
  <2>2. CASE v # w
    BY <1>0, <1>1, <2>2 DEF ClaimInvariant, RecoveryOfAbandoned
  <2> QED
    BY <2>1, <2>2
<1> QED
  BY <1>2, <1>6, <1>7, <1>8, <1>9 DEF ClaimInvariant

\* What recovery leaves of a row it has read, whoever wrote to it since.
LEMMA RecoveredRow ==
  ASSUME IInv, NEW w \in Workers, pc[w] = "recovering", NEW i \in batch[w],
         NEW row, row = Flush(outbox[i], cache[w][i], Recovered(cache[w][i], now[w]))
  PROVE  /\ row.status = "pending"
         /\ row.next_attempt_at > clock
         /\ row.failure_class # "permanent"
         /\ row.attempt_count = outbox[i].attempt_count
         /\ row.sent_at = outbox[i].sent_at
<1>0. TypeOK /\ ClaimInvariant
  BY DEF IInv
<1> DEFINE old == cache[w][i]
           new == Recovered(old, now[w])
<1>1. i \in Items /\ outbox[i] \in Row /\ old \in Row /\ now[w] \in Nat
  BY <1>0 DEF TypeOK
<1>2. /\ old.status = "sending" /\ old.next_attempt_at <= now[w] /\ clock = now[w]
      /\ outbox[i].status \in {"sending", "pending"}
  BY <1>0 DEF ClaimInvariant, RecoveryOfAbandoned, TaskTiming
<1>3. /\ new.status = "pending" /\ new.failure_class = "retryable"
      /\ new.next_attempt_at = NextSendWindowStart(now[w])
      /\ new.attempt_count = old.attempt_count /\ new.sent_at = old.sent_at
  BY <1>1 DEF Recovered, Row
<1>4. new.next_attempt_at \in Nat /\ new.next_attempt_at > now[w]
  BY <1>1, <1>3, NextSendWindowStartIsLater
<1>5. old.next_attempt_at \in Nat
  BY <1>1 DEF Row
<1>6. new.next_attempt_at # old.next_attempt_at
  BY <1>1, <1>2, <1>4, <1>5
<1>7. outbox[i].failure_class # "permanent"
  BY <1>0, <1>1, <1>2 DEF ClaimInvariant, OutcomeCoherent
<1> HIDE DEF new, old
<1>8. row = Flush(outbox[i], old, new)
  BY DEF new, old
<1> QED
  BY <1>2, <1>3, <1>4, <1>6, <1>7, <1>8 DEF Flush, Written

LEMMA RecoverCommitClaim ==
  ASSUME IInv, NEW w \in Workers, RecoverCommit(w) PROVE ClaimInvariant'
<1>0. TypeOK /\ ClaimInvariant
  BY DEF IInv
<1>1. /\ pc[w] = "recovering" /\ pc'[w] = "lock" /\ batch'[w] = {}
      /\ \A v \in Workers : v # w => /\ pc'[v] = pc[v] /\ batch'[v] = batch[v]
                                     /\ cache'[v] = cache[v]
      /\ UNCHANGED <<clock, now, current, result, accepted, unrecorded>>
  BY <1>0 DEF RecoverCommit, TypeOK, history
<1>2. \A i \in Items \ batch[w] : outbox'[i] = outbox[i]
  BY DEF RecoverCommit
<1>3. \A i \in batch[w] : /\ outbox'[i].status = "pending"
                          /\ outbox'[i].next_attempt_at > clock
                          /\ outbox'[i].failure_class # "permanent"
                          /\ outbox'[i].attempt_count = outbox[i].attempt_count
                          /\ outbox'[i].sent_at = outbox[i].sent_at
  <2> SUFFICES ASSUME NEW i \in batch[w]
               PROVE  /\ outbox'[i].status = "pending"
                      /\ outbox'[i].next_attempt_at > clock
                      /\ outbox'[i].failure_class # "permanent"
                      /\ outbox'[i].attempt_count = outbox[i].attempt_count
                      /\ outbox'[i].sent_at = outbox[i].sent_at
    OBVIOUS
  <2>1. outbox'[i] = Flush(outbox[i], cache[w][i], Recovered(cache[w][i], now[w]))
    BY <1>0 DEF RecoverCommit, TypeOK
  <2> QED
    BY <1>1, <2>1, RecoveredRow
<1>4. \A i \in batch[w] : /\ i \in Items
                          /\ outbox[i].status \in {"sending", "pending"}
                          /\ \A v \in Workers : ~Holds(v, i)
  BY <1>0, <1>1 DEF ClaimInvariant, RecoveryOfAbandoned, TypeOK
<1>5. \A v \in Workers, j \in Items : (Holds(v, j))' <=> Holds(v, j)
  BY <1>1 DEF Holds
<1>6. \A v \in Workers, j \in Items : (InFlight(v, j))' <=> InFlight(v, j)
  BY <1>1 DEF InFlight
<1>7. TaskTiming'
  BY <1>0, <1>1 DEF ClaimInvariant, TaskTiming
<1>8. ClaimStamped'
  BY <1>0, <1>1, <1>2, <1>4, <1>5 DEF ClaimInvariant, ClaimStamped
<1>9. ExclusiveClaim'
  <2> SUFFICES ASSUME NEW v \in Workers, NEW j \in Items, (Holds(v, j))'
               PROVE  /\ outbox'[j].status = "sending"
                      /\ outbox'[j] = cache'[v][j]
                      /\ \A u \in Workers \ {v} : ~(Holds(u, j))'
    BY DEF ExclusiveClaim, Holds
  <2>1. Holds(v, j) /\ j \notin batch[w] /\ v # w
    BY <1>1, <1>4, <1>5 DEF Holds
  <2> QED
    BY <1>0, <1>1, <1>2, <1>5, <2>1 DEF ClaimInvariant, ExclusiveClaim
<1>10. ClaimWasDue'
  BY <1>0, <1>2, <1>3 DEF ClaimInvariant, ClaimWasDue
<1>11. OutcomeCoherent'
  BY <1>0, <1>2, <1>3, <1>4 DEF ClaimInvariant, OutcomeCoherent
<1>12. RecoveryOfAbandoned'
  <2> SUFFICES ASSUME NEW v \in Workers, pc'[v] = "recovering", NEW j \in batch'[v]
               PROVE  /\ cache'[v][j].status = "sending"
                      /\ cache'[v][j].next_attempt_at <= now[v]
                      /\ \A u \in Workers : ~(Holds(u, j))'
                      /\ \/ outbox'[j].status = "sending"
                         \/ outbox'[j].status = "pending"
                            /\ outbox'[j].next_attempt_at > clock
    BY <1>1 DEF RecoveryOfAbandoned, Holds
  <2>1. v # w /\ pc[v] = "recovering" /\ j \in batch[v] /\ j \in Items
    BY <1>0, <1>1 DEF TypeOK
  <2> QED
    BY <1>0, <1>1, <1>2, <1>3, <1>5, <2>1 DEF ClaimInvariant, RecoveryOfAbandoned
<1>13. AcceptancesAccounted'
  <2>1. \A j \in Items : outbox'[j].status = "sent" <=> outbox[j].status = "sent"
    BY <1>2, <1>3, <1>4
  <2> QED
    BY <1>0, <1>1, <1>6, <2>1 DEF ClaimInvariant, AcceptancesAccounted
<1> QED
  BY <1>7, <1>8, <1>9, <1>10, <1>11, <1>12, <1>13 DEF ClaimInvariant

LEMMA LockPendingBatchClaim ==
  ASSUME IInv, NEW w \in Workers, LockPendingBatch(w) PROVE ClaimInvariant'
<1>0. TypeOK /\ CurrentOK /\ ClaimInvariant
  BY DEF IInv
<1> DEFINE claimed == [i \in Items |-> Claimed(outbox[i], now[w])]
<1>1. PICK S \in SUBSET Due(now[w]) :
        /\ outbox' = [i \in Items |-> IF i \in S THEN claimed[i] ELSE outbox[i]]
        /\ cache' = [cache EXCEPT ![w] =
                       [i \in Items |-> IF i \in S THEN claimed[i] ELSE NoRow]]
        /\ batch' = [batch EXCEPT ![w] = S]
        /\ pc' = [pc EXCEPT ![w] = IF S = {} THEN "idle" ELSE "dispatch"]
        /\ now' = IF S = {} THEN [now EXCEPT ![w] = 0] ELSE now
  BY DEF LockPendingBatch, Batches
<1>2. /\ pc[w] = "lock" /\ pc'[w] \in {"idle", "dispatch"} /\ batch'[w] = S
      /\ S # {} => now' = now
      /\ pc'[w] # "idle" => now'[w] = now[w]
      /\ \A v \in Workers : v # w => /\ pc'[v] = pc[v] /\ batch'[v] = batch[v]
                                     /\ cache'[v] = cache[v] /\ now'[v] = now[v]
      /\ UNCHANGED <<clock, current, result, accepted, unrecorded>>
  BY <1>0, <1>1 DEF LockPendingBatch, TypeOK, history
<1>3. /\ \A i \in Items \ S : outbox'[i] = outbox[i]
      /\ \A i \in S : /\ outbox'[i] = Claimed(outbox[i], now[w])
                      /\ cache'[w][i] = outbox'[i]
  BY <1>0, <1>1 DEF Due, TypeOK
<1>4. \A i \in S : /\ i \in Items /\ outbox[i] \in Row
                   /\ outbox[i].status = "pending" /\ outbox[i].next_attempt_at <= now[w]
  BY <1>0 DEF Due, TypeOK
<1>5. \A i \in S : /\ outbox'[i].status = "sending" /\ outbox'[i].updated_at = now[w]
                   /\ outbox'[i].next_attempt_at <= now[w]
                   /\ outbox'[i].failure_class = outbox[i].failure_class
                   /\ outbox'[i].attempt_count = outbox[i].attempt_count
                   /\ outbox'[i].sent_at = outbox[i].sent_at
  BY <1>3, <1>4 DEF Claimed, Row
<1>6. \A i \in S, v \in Workers : ~Holds(v, i)
  BY <1>0, <1>4 DEF ClaimInvariant, ExclusiveClaim
<1>7. \A v \in Workers, j \in Items :
        (Holds(v, j))' <=> Holds(v, j) \/ (v = w /\ j \in S)
  BY <1>0, <1>1, <1>2 DEF Holds, TypeOK
<1>8. \A v \in Workers, j \in Items : (InFlight(v, j))' <=> InFlight(v, j)
  BY <1>2 DEF InFlight
<1>9. TaskTiming'
  BY <1>0, <1>2 DEF ClaimInvariant, TaskTiming
<1>10. ClaimStamped'
  <2> SUFFICES ASSUME NEW v \in Workers, NEW j \in Items, (Holds(v, j))'
               PROVE  outbox'[j].updated_at = now'[v]
    BY DEF ClaimStamped, Holds
  <2>1. CASE v = w /\ j \in S
    BY <1>2, <1>5, <2>1
  <2>2. CASE Holds(v, j)
    <3>1. j \notin S /\ v # w
      BY <1>2, <1>6, <2>2 DEF Holds
    <3> QED
      BY <1>0, <1>2, <1>3, <2>2, <3>1 DEF ClaimInvariant, ClaimStamped
  <2> QED
    BY <1>7, <2>1, <2>2
<1>11. ExclusiveClaim'
  <2> SUFFICES ASSUME NEW v \in Workers, NEW j \in Items, (Holds(v, j))'
               PROVE  /\ outbox'[j].status = "sending"
                      /\ outbox'[j] = cache'[v][j]
                      /\ \A u \in Workers \ {v} : ~(Holds(u, j))'
    BY DEF ExclusiveClaim, Holds
  <2>1. CASE v = w /\ j \in S
    BY <1>3, <1>5, <1>6, <1>7, <2>1
  <2>2. CASE Holds(v, j)
    <3>1. j \notin S /\ v # w
      BY <1>2, <1>6, <2>2 DEF Holds
    <3> QED
      BY <1>0, <1>2, <1>3, <1>7, <2>2, <3>1 DEF ClaimInvariant, ExclusiveClaim
  <2> QED
    BY <1>7, <2>1, <2>2
<1>12. ClaimWasDue'
  BY <1>0, <1>3, <1>5 DEF ClaimInvariant, ClaimWasDue
<1>13. OutcomeCoherent'
  BY <1>0, <1>3, <1>4, <1>5 DEF ClaimInvariant, OutcomeCoherent
<1>14. RecoveryOfAbandoned'
  <2> SUFFICES ASSUME NEW v \in Workers, pc'[v] = "recovering", NEW j \in batch'[v]
               PROVE  /\ cache'[v][j].status = "sending"
                      /\ cache'[v][j].next_attempt_at <= now'[v]
                      /\ \A u \in Workers : ~(Holds(u, j))'
                      /\ \/ outbox'[j].status = "sending"
                         \/ outbox'[j].status = "pending"
                            /\ outbox'[j].next_attempt_at > clock
    BY <1>2 DEF RecoveryOfAbandoned, Holds
  <2>1. v # w /\ pc[v] = "recovering" /\ j \in batch[v] /\ j \in Items
    BY <1>0, <1>2 DEF TypeOK
  <2>2. /\ cache[v][j].status = "sending"
        /\ cache[v][j].next_attempt_at <= now[v]
        /\ \A u \in Workers : ~Holds(u, j)
        /\ \/ outbox[j].status = "sending"
           \/ outbox[j].status = "pending" /\ outbox[j].next_attempt_at > clock
    BY <1>0, <2>1 DEF ClaimInvariant, RecoveryOfAbandoned
  <2>3. j \notin S
    <3>1. now[w] <= clock /\ now[w] \in Nat /\ clock \in Nat
      BY <1>0, <1>2 DEF ClaimInvariant, TaskTiming, TypeOK
    <3>2. outbox[j].next_attempt_at \in Nat
      BY <1>0, <2>1 DEF TypeOK, Row
    <3> QED
      BY <1>4, <2>2, <3>1, <3>2
  <2> QED
    BY <1>2, <1>3, <1>7, <2>1, <2>2, <2>3
<1>15. AcceptancesAccounted'
  <2>1. \A j \in Items : outbox'[j].status = "sent" <=> outbox[j].status = "sent"
    BY <1>3, <1>4, <1>5
  <2> QED
    BY <1>0, <1>2, <1>8, <2>1 DEF ClaimInvariant, AcceptancesAccounted
<1> QED
  BY <1>9, <1>10, <1>11, <1>12, <1>13, <1>14, <1>15 DEF ClaimInvariant

\* What the holder of a row knows of it.
LEMMA HeldRow ==
  ASSUME IInv, NEW w \in Workers, NEW i \in Items, Holds(w, i)
  PROVE  /\ cache[w][i] = outbox[i] /\ outbox[i] \in Row /\ now[w] \in Nat
         /\ outbox[i].status = "sending"
         /\ outbox[i].sent_at = Never /\ outbox[i].failure_class # "permanent"
         /\ outbox[i].attempt_count < MaxAttempts
BY DEF IInv, ClaimInvariant, ExclusiveClaim, OutcomeCoherent, TypeOK, Row

LEMMA RescheduleClaim ==
  ASSUME IInv, NEW w \in Workers, RescheduleQuietHours(w) PROVE ClaimInvariant'
<1>1. PICK i \in Items : /\ IsNext(w, i)
                         /\ Store(w, i, Rescheduled(cache[w][i], now[w]))
                         /\ DoneWith(w, i)
  BY DEF RescheduleQuietHours
<1> DEFINE new == Rescheduled(cache[w][i], now[w])
<1>2. Holds(w, i) /\ ~InFlight(w, i) /\ pc[w] # "record"
  BY <1>1 DEF RescheduleQuietHours, Holds, IsNext, InFlight
<1>3. new \in Row
  BY <1>2, HeldRow, RowOperationType
<1>4. /\ new.status = "pending" /\ new.failure_class = "none"
      /\ new.attempt_count < MaxAttempts /\ new.sent_at = Never
  BY <1>2, HeldRow DEF Rescheduled, Row
<1> HIDE DEF new
<1>5. outbox' = [outbox EXCEPT ![i] = new]
  BY <1>1, <1>2, <1>3, HolderStores DEF new
<1> QED
  BY <1>1, <1>2, <1>3, <1>4, <1>5, HolderRecords DEF RescheduleQuietHours

LEMMA MarkSentClaim ==
  ASSUME IInv, NEW w \in Workers, MarkSent(w) PROVE ClaimInvariant'
<1> DEFINE i == current[w]
           new == Sent(cache[w][i], now[w])
<1>1. i \in Items /\ Holds(w, i) /\ InFlight(w, i)
  BY DEF IInv, TypeOK, CurrentOK, MarkSent, Holds, InFlight
<1>2. new \in Row
  BY <1>1, HeldRow, RowOperationType
<1>3. new.status = "sent" /\ new.failure_class = "none" /\ new.sent_at # Never
  BY <1>1, HeldRow DEF Sent, Row, Never
<1>4. Store(w, i, new) /\ DoneWith(w, i) /\ UNCHANGED <<clock, history>>
  BY DEF MarkSent
<1> HIDE DEF new, i
<1>5. outbox' = [outbox EXCEPT ![i] = new]
  BY <1>1, <1>2, <1>4, HolderStores
<1>6. pc[w] = "record" => current[w] = i
  BY DEF i
<1> QED
  BY <1>1, <1>2, <1>3, <1>4, <1>5, <1>6, HolderRecords

\* What a failed attempt makes of a row that has attempts left.
LEMMA FailedRow ==
  ASSUME NEW row \in Row, NEW t \in Nat, NEW class, NEW new \in Failed(row, t, class),
         row.sent_at = Never
  PROVE  /\ new.status \in {"pending", "dead"}
         /\ new.attempt_count = row.attempt_count + 1
         /\ new.sent_at = Never
         /\ new.status = "dead" <=> new.failure_class = "permanent"
         /\ new.status = "pending" => new.attempt_count < MaxAttempts
<1>1. CASE new = Dead(row, t)
  BY <1>1 DEF Dead, Row
<1>2. CASE new # Dead(row, t)
  <2>1. /\ row.attempt_count + 1 < MaxAttempts
        /\ \E d \in RetryDelays(row.attempt_count + 1) : new = Retried(row, t, d)
    BY <1>2, LimitAssumption DEF Failed, Row
  <2> QED
    BY <2>1 DEF Retried, Row
<1> QED
  BY <1>1, <1>2

LEMMA MarkFailedClaim ==
  ASSUME IInv, NEW w \in Workers, MarkFailedOrRetry(w) PROVE ClaimInvariant'
<1> DEFINE i == current[w]
<1>1. i \in Items /\ Holds(w, i) /\ ~InFlight(w, i)
  BY DEF IInv, TypeOK, CurrentOK, MarkFailedOrRetry, Holds, InFlight
<1>2. PICK new \in Failed(cache[w][i], now[w], result[w]) : Store(w, i, new)
  BY DEF MarkFailedOrRetry
<1>3. cache[w][i] \in Row /\ now[w] \in Nat /\ cache[w][i].sent_at = Never
  BY <1>1, HeldRow
<1>4. new \in Row
  BY <1>2, <1>3, FailedType
<1>5. /\ new.status \in {"pending", "dead"}
      /\ new.sent_at = Never
      /\ new.status = "dead" <=> new.failure_class = "permanent"
      /\ new.status = "pending" => new.attempt_count < MaxAttempts
  BY <1>2, <1>3, FailedRow
<1>6. DoneWith(w, i) /\ UNCHANGED <<clock, history>>
  BY DEF MarkFailedOrRetry
<1>7. pc[w] = "record" => current[w] = i
  OBVIOUS
<1> HIDE DEF i
<1>8. outbox' = [outbox EXCEPT ![i] = new]
  BY <1>1, <1>2, <1>4, HolderStores
<1> QED
  BY <1>1, <1>4, <1>5, <1>6, <1>7, <1>8, HolderRecords

LEMMA ProviderSendClaim ==
  ASSUME IInv, NEW w \in Workers, ProviderSend(w) PROVE ClaimInvariant'
<1>0. TypeOK /\ CurrentOK /\ ClaimInvariant
  BY DEF IInv
<1>1. PICK i \in Items, a \in Answers :
        /\ IsNext(w, i)
        /\ current' = [current EXCEPT ![w] = i]
        /\ result' = [result EXCEPT ![w] = a.result]
        /\ accepted' = [accepted EXCEPT ![i] = Bump(accepted[i], a.taken)]
        /\ unrecorded' = [unrecorded EXCEPT
             ![i] = Bump(unrecorded[i], a.taken /\ a.result # "sent")]
  BY DEF ProviderSend
<1>2. /\ pc[w] = "dispatch" /\ pc' = [pc EXCEPT ![w] = "record"]
      /\ UNCHANGED <<clock, outbox, now, batch, cache>>
  BY DEF ProviderSend
<1>3. Holds(w, i)
  BY <1>1, <1>2 DEF Holds, IsNext
<1>4. \A v \in Workers, j \in Items : (Holds(v, j))' <=> Holds(v, j)
  BY <1>0, <1>2 DEF Holds, TypeOK
<1>5. TaskTiming' /\ ClaimStamped' /\ ClaimWasDue' /\ OutcomeCoherent'
  BY <1>0, <1>2, <1>4
     DEF ClaimInvariant, TaskTiming, ClaimStamped, ClaimWasDue, OutcomeCoherent, TypeOK
<1>6. ExclusiveClaim'
  BY <1>0, <1>2, <1>4 DEF ClaimInvariant, ExclusiveClaim
<1>7. RecoveryOfAbandoned'
  BY <1>0, <1>2, <1>4 DEF ClaimInvariant, RecoveryOfAbandoned, TypeOK
<1>8. AcceptancesAccounted'
  <2>1. \A v \in Workers, j \in Items :
          (InFlight(v, j))' <=> IF v = w THEN j = i /\ a.result = "sent" ELSE InFlight(v, j)
    BY <1>0, <1>1, <1>2 DEF InFlight, TypeOK
  <2>2. \A v \in Workers : ~InFlight(v, i)
    BY <1>0, <1>2, <1>3 DEF ClaimInvariant, ExclusiveClaim, InFlight, Holds, CurrentOK
  <2>3. \A j \in Items : ~InFlight(w, j)
    BY <1>2 DEF InFlight
  <2>4. outbox[i].status # "sent"
    BY <1>3, HeldRow
  <2>5. accepted[i] = unrecorded[i] /\ unrecorded[i] \in Nat
    BY <1>0, <2>2, <2>4 DEF ClaimInvariant, AcceptancesAccounted, TypeOK
  <2>6. accepted'[i] = IF a.result = "sent" THEN unrecorded'[i] + 1 ELSE unrecorded'[i]
    BY <1>0, <1>1, <2>5 DEF TypeOK, Bump, Answers
  <2>7. (outbox'[i].status = "sent" \/ \E v \in Workers : (InFlight(v, i))')
          <=> a.result = "sent"
    BY <1>2, <2>1, <2>2, <2>4
  <2>8. \A j \in Items : j # i => accepted'[j] = accepted[j] /\ unrecorded'[j] = unrecorded[j]
    BY <1>0, <1>1 DEF TypeOK
  <2>9. \A j \in Items : j # i =>
          ((\E v \in Workers : (InFlight(v, j))') <=> \E v \in Workers : InFlight(v, j))
    BY <2>1, <2>3
  <2> QED
    BY <1>0, <1>2, <2>6, <2>7, <2>8, <2>9 DEF ClaimInvariant, AcceptancesAccounted
<1> QED
  BY <1>5, <1>6, <1>7, <1>8 DEF ClaimInvariant

LEMMA CrashClaim ==
  ASSUME IInv, NEW w \in Workers, Crash(w) PROVE ClaimInvariant'
<1>0. TypeOK /\ CurrentOK /\ ClaimInvariant
  BY DEF IInv
<1>1. /\ pc'[w] = "idle"
      /\ \A v \in Workers : v # w => /\ pc'[v] = pc[v] /\ now'[v] = now[v]
                                     /\ batch'[v] = batch[v] /\ cache'[v] = cache[v]
                                     /\ current'[v] = current[v] /\ result'[v] = result[v]
      /\ UNCHANGED <<clock, outbox, accepted>>
      /\ \A i \in Items : unrecorded'[i] =
           Bump(unrecorded[i], i = current[w] /\ result[w] = "sent")
  BY <1>0 DEF Crash, TypeOK
<1>2. \A v \in Workers, j \in Items : (Holds(v, j))' <=> Holds(v, j) /\ v # w
  BY <1>1 DEF Holds
<1>3. \A v \in Workers, j \in Items : (InFlight(v, j))' <=> InFlight(v, j) /\ v # w
  BY <1>1 DEF InFlight
<1>4. TaskTiming' /\ ClaimStamped' /\ ClaimWasDue' /\ OutcomeCoherent'
  BY <1>0, <1>1, <1>2
     DEF ClaimInvariant, TaskTiming, ClaimStamped, ClaimWasDue, OutcomeCoherent, Holds
<1>5. ExclusiveClaim'
  BY <1>0, <1>1, <1>2 DEF ClaimInvariant, ExclusiveClaim
<1>6. RecoveryOfAbandoned'
  <2> SUFFICES ASSUME NEW v \in Workers, pc'[v] = "recovering", NEW j \in batch'[v]
               PROVE  /\ cache'[v][j].status = "sending"
                      /\ cache'[v][j].next_attempt_at <= now'[v]
                      /\ \A u \in Workers : ~(Holds(u, j))'
                      /\ \/ outbox[j].status = "sending"
                         \/ outbox[j].status = "pending" /\ outbox[j].next_attempt_at > clock
    BY <1>1 DEF RecoveryOfAbandoned, Holds
  <2>1. v # w /\ j \in Items
    BY <1>0, <1>1 DEF TypeOK
  <2> QED
    BY <1>0, <1>1, <1>2, <2>1 DEF ClaimInvariant, RecoveryOfAbandoned
<1>7. AcceptancesAccounted'
  <2> SUFFICES ASSUME NEW j \in Items
               PROVE  accepted[j] =
                        IF outbox[j].status = "sent" \/ \E v \in Workers : (InFlight(v, j))'
                        THEN unrecorded'[j] + 1 ELSE unrecorded'[j]
    BY <1>1 DEF AcceptancesAccounted, InFlight
  <2>1. j = current[w] /\ result[w] = "sent" <=> InFlight(w, j)
    BY <1>0 DEF InFlight, CurrentOK
  <2>2. CASE InFlight(w, j)
    <3>1. Holds(w, j)
      BY <1>0, <2>2 DEF InFlight, Holds, CurrentOK
    <3>2. \A v \in Workers \ {w} : ~InFlight(v, j)
      BY <1>0, <3>1 DEF ClaimInvariant, ExclusiveClaim, InFlight, Holds, CurrentOK
    <3>3. outbox[j].status # "sent"
      BY <3>1, HeldRow
    <3> QED
      BY <1>0, <1>1, <1>3, <2>1, <2>2, <3>2, <3>3
         DEF ClaimInvariant, AcceptancesAccounted, Bump, TypeOK
  <2>3. CASE ~InFlight(w, j)
    <3>1. (\E v \in Workers : (InFlight(v, j))') <=> \E v \in Workers : InFlight(v, j)
      BY <1>3, <2>3
    <3>2. unrecorded'[j] = unrecorded[j]
      BY <1>1, <2>1, <2>3 DEF Bump
    <3> QED
      BY <1>0, <3>1, <3>2 DEF ClaimInvariant, AcceptancesAccounted
  <2> QED
    BY <2>2, <2>3
<1> QED
  BY <1>4, <1>5, <1>6, <1>7 DEF ClaimInvariant

LEMMA StepClaim ==
  ASSUME IInv, FastWorkers, [Next]_vars PROVE IInv'
<1>1. TypeOK' /\ CurrentOK'
  BY StepType DEF IInv
<1>2. CASE UNCHANGED vars
  BY <1>2 DEF IInv, ClaimInvariant, TaskTiming, ClaimStamped, ClaimWasDue,
              RecoveryOfAbandoned, ExclusiveClaim, OutcomeCoherent,
              AcceptancesAccounted, Holds, InFlight, TypeOK, CurrentOK,
              vars, worker, history
<1>3. CASE Next
  <2>1. ClaimInvariant'
    BY <1>3, TickClaim, EnqueueClaim, BeginDispatchClaim, RecoverSelectClaim,
       RecoverCommitClaim, LockPendingBatchClaim, RescheduleClaim,
       ProviderSendClaim, MarkSentClaim, MarkFailedClaim, CrashClaim
       DEF Next, Step
  <2> QED
    BY <1>1, <2>1 DEF IInv
<1> QED
  BY <1>2, <1>3

\* With fast workers no two tasks hold a row, and a task's copy of a row it
\* holds is the row.
THEOREM ClaimsAreExclusive ==
  ASSUME FastWorkers PROVE Spec => []ExclusiveClaim
<1>1. Init => IInv
  BY InitType, InitClaim DEF IInv
<1>2. IInv /\ [Next]_vars => IInv'
  BY StepClaim
<1>3. IInv => ExclusiveClaim
  BY DEF IInv, ClaimInvariant
<1> QED
  BY <1>1, <1>2, <1>3, PTL DEF Spec

\* With fast workers the columns of a row agree on its outcome.
THEOREM OutcomesAreCoherent ==
  ASSUME FastWorkers PROVE Spec => []OutcomeCoherent
<1>1. Init => IInv
  BY InitType, InitClaim DEF IInv
<1>2. IInv /\ [Next]_vars => IInv'
  BY StepClaim
<1>3. IInv => OutcomeCoherent
  BY DEF IInv, ClaimInvariant
<1> QED
  BY <1>1, <1>2, <1>3, PTL DEF Spec

\* With fast workers a second mail follows only an unrecorded acceptance.
THEOREM DuplicatesOnlyIfUnrecorded ==
  ASSUME FastWorkers PROVE Spec => []DuplicateOnlyIfUnrecorded
<1>1. Init => IInv
  BY InitType, InitClaim DEF IInv
<1>2. IInv /\ [Next]_vars => IInv'
  BY StepClaim
<1>3. IInv => DuplicateOnlyIfUnrecorded
  BY DEF IInv, ClaimInvariant, AcceptancesAccounted, DuplicateOnlyIfUnrecorded, TypeOK
<1> QED
  BY <1>1, <1>2, <1>3, PTL DEF Spec

-----------------------------------------------------------------------------
(* The life of a row: final rows and the refinement of ReminderDelivery    *)

AbsentOK == \A j \in Items : outbox[j].status = "absent" => outbox[j].attempt_count = 0

\* What a step does to row j, seen from outside.
RowStep(j) ==
  /\ [Delivery(j)!Next]_(Delivery(j)!vars)
  /\ outbox[j].status \in {"sent", "dead"} => outbox'[j] = outbox[j]
  /\ outbox'[j].attempt_count >= outbox[j].attempt_count
  /\ outbox'[j].status = "absent" => outbox'[j] = outbox[j]

LEMMA RowUntouched ==
  ASSUME TypeOK, NEW j \in Items, outbox'[j] = outbox[j],
         accepted'[j] = accepted[j], unrecorded'[j] = unrecorded[j]
  PROVE  RowStep(j)
BY DEF RowStep, Delivery!vars, TypeOK, Row

\* An item nobody has an answer for has no acceptance pending.
LEMMA NoneInFlight ==
  ASSUME IInv, NEW j \in Items, outbox[j].status # "sent",
         \A w \in Workers : ~InFlight(w, j)
  PROVE  accepted[j] = unrecorded[j]
BY DEF IInv, ClaimInvariant, AcceptancesAccounted

LEMMA UnheldNotInFlight ==
  ASSUME IInv, NEW w \in Workers, NEW j \in Items, ~Holds(w, j)
  PROVE  ~InFlight(w, j)
BY DEF IInv, CurrentOK, Holds, InFlight

LEMMA HeldByOne ==
  ASSUME IInv, NEW w \in Workers, NEW j \in Items, Holds(w, j), ~InFlight(w, j)
  PROVE  accepted[j] = unrecorded[j]
<1>1. \A v \in Workers : ~InFlight(v, j)
  BY UnheldNotInFlight DEF IInv, ClaimInvariant, ExclusiveClaim
<1> QED
  BY <1>1, HeldRow, NoneInFlight

LEMMA EnqueueRow ==
  ASSUME IInv, AbsentOK, NEW i \in Items, Enqueue(i), NEW j \in Items
  PROVE  RowStep(j)
<1>1. PICK t \in 0..clock : outbox' = [outbox EXCEPT ![i] = NewRow("pending", t)]
  BY DEF Enqueue
<1>2. accepted' = accepted /\ unrecorded' = unrecorded /\ outbox[i].status = "absent"
  BY DEF Enqueue, history
<1>3. CASE j # i
  BY <1>1, <1>2, <1>3, RowUntouched DEF IInv, TypeOK
<1>4. CASE j = i
  <2>1. outbox'[j].status = "pending" /\ outbox'[j].attempt_count = 0
    BY <1>1, <1>4 DEF IInv, TypeOK, NewRow
  <2>2. outbox[j].attempt_count = 0
    BY <1>2, <1>4 DEF AbsentOK
  <2> QED
    BY <1>2, <1>4, <2>1, <2>2 DEF RowStep, Delivery!Next, Delivery!Submit
<1> QED
  BY <1>3, <1>4

LEMMA RecoverCommitRow ==
  ASSUME IInv, NEW w \in Workers, RecoverCommit(w), NEW j \in Items
  PROVE  RowStep(j)
<1>1. pc[w] = "recovering" /\ accepted' = accepted /\ unrecorded' = unrecorded
  BY DEF RecoverCommit, history
<1>2. CASE j \notin batch[w]
  BY <1>1, <1>2, RowUntouched DEF RecoverCommit, IInv
<1>3. CASE j \in batch[w]
  <2>1. outbox'[j] = Flush(outbox[j], cache[w][j], Recovered(cache[w][j], now[w]))
    BY <1>3 DEF RecoverCommit
  <2>2. outbox'[j].status = "pending" /\ outbox'[j].attempt_count = outbox[j].attempt_count
    BY <1>1, <1>3, <2>1, RecoveredRow
  <2>3. outbox[j].status \in {"sending", "pending"} /\ \A v \in Workers : ~Holds(v, j)
    BY <1>1, <1>3 DEF IInv, ClaimInvariant, RecoveryOfAbandoned
  <2>4. accepted[j] = unrecorded[j]
    BY <2>3, UnheldNotInFlight, NoneInFlight
  <2>5. outbox[j].attempt_count \in Nat
    BY DEF IInv, TypeOK, Row
  <2> QED
    BY <1>1, <2>2, <2>3, <2>4, <2>5
       DEF RowStep, Delivery!Next, Delivery!Release, Delivery!vars
<1> QED
  BY <1>2, <1>3

LEMMA LockPendingBatchRow ==
  ASSUME IInv, NEW w \in Workers, LockPendingBatch(w), NEW j \in Items
  PROVE  RowStep(j)
<1> DEFINE claimed == [i \in Items |-> Claimed(outbox[i], now[w])]
<1>1. PICK S \in SUBSET Due(now[w]) :
        outbox' = [i \in Items |-> IF i \in S THEN claimed[i] ELSE outbox[i]]
  BY DEF LockPendingBatch, Batches
<1>2. accepted' = accepted /\ unrecorded' = unrecorded
  BY DEF LockPendingBatch, history
<1>3. CASE j \notin S
  BY <1>1, <1>2, <1>3, RowUntouched DEF IInv
<1>4. CASE j \in S
  <2>1. outbox'[j] = Claimed(outbox[j], now[w]) /\ outbox[j].status = "pending"
    BY <1>1, <1>4 DEF Due
  <2>2. outbox'[j].status = "sending" /\ outbox'[j].attempt_count = outbox[j].attempt_count
        /\ outbox[j].attempt_count \in Nat
    BY <2>1 DEF Claimed, IInv, TypeOK, Row
  <2> QED
    BY <1>2, <2>1, <2>2 DEF RowStep, Delivery!Next, Delivery!Claim
<1> QED
  BY <1>3, <1>4

LEMMA RescheduleRow ==
  ASSUME IInv, NEW w \in Workers, RescheduleQuietHours(w), NEW j \in Items
  PROVE  RowStep(j)
<1>1. PICK i \in Items : /\ IsNext(w, i)
                         /\ Store(w, i, Rescheduled(cache[w][i], now[w]))
  BY DEF RescheduleQuietHours
<1> DEFINE new == Rescheduled(cache[w][i], now[w])
<1>2. Holds(w, i) /\ ~InFlight(w, i) /\ accepted' = accepted /\ unrecorded' = unrecorded
  BY <1>1 DEF RescheduleQuietHours, Holds, IsNext, InFlight, history
<1>3. new \in Row
  BY <1>2, HeldRow, RowOperationType
<1>4. new.status = "pending" /\ new.attempt_count = outbox[i].attempt_count
  BY <1>2, HeldRow DEF Rescheduled, Row
<1> HIDE DEF new
<1>5. outbox' = [outbox EXCEPT ![i] = new]
  BY <1>1, <1>2, <1>3, HolderStores DEF new
<1>6. CASE j # i
  BY <1>2, <1>5, <1>6, RowUntouched DEF IInv, TypeOK
<1>7. CASE j = i
  <2>1. outbox'[j] = new /\ outbox[j].attempt_count \in Nat
    BY <1>5, <1>7 DEF IInv, TypeOK, Row
  <2>2. outbox[j].status = "sending" /\ accepted[j] = unrecorded[j]
    BY <1>2, <1>7, HeldRow, HeldByOne
  <2> QED
    BY <1>2, <1>4, <1>7, <2>1, <2>2 DEF RowStep, Delivery!Next, Delivery!Release
<1> QED
  BY <1>6, <1>7

LEMMA ProviderSendRow ==
  ASSUME IInv, NEW w \in Workers, ProviderSend(w), NEW j \in Items
  PROVE  RowStep(j)
<1>1. PICK i \in Items, a \in Answers :
        /\ IsNext(w, i)
        /\ accepted' = [accepted EXCEPT ![i] = Bump(accepted[i], a.taken)]
        /\ unrecorded' = [unrecorded EXCEPT
             ![i] = Bump(unrecorded[i], a.taken /\ a.result # "sent")]
  BY DEF ProviderSend
<1>2. Holds(w, i) /\ ~InFlight(w, i) /\ outbox' = outbox
  BY <1>1 DEF ProviderSend, Holds, IsNext, InFlight
<1>3. CASE j # i
  BY <1>1, <1>2, <1>3, RowUntouched DEF IInv, TypeOK
<1>4. CASE j = i
  <2>1. outbox[j].status = "sending" /\ accepted[j] = unrecorded[j]
    BY <1>2, <1>4, HeldRow, HeldByOne
  <2>2. accepted[j] \in Nat /\ unrecorded[j] \in Nat /\ outbox[j].attempt_count \in Nat
    BY DEF IInv, TypeOK, Row
  <2>3. CASE a.taken
    <3>1. /\ accepted'[j] = accepted[j] + 1
          /\ unrecorded'[j] \in {unrecorded[j], unrecorded[j] + 1}
      BY <1>1, <1>4, <2>3 DEF Bump, IInv, TypeOK
    <3> QED
      BY <1>2, <2>1, <2>2, <3>1 DEF RowStep, Delivery!Next, Delivery!Accept
  <2>4. CASE ~a.taken
    <3>1. accepted'[j] = accepted[j] /\ unrecorded'[j] = unrecorded[j]
      BY <1>1, <1>4, <2>4 DEF Bump, IInv, TypeOK
    <3> QED
      BY <1>2, <3>1, RowUntouched DEF IInv
  <2> QED
    BY <2>3, <2>4
<1> QED
  BY <1>3, <1>4

LEMMA MarkSentRow ==
  ASSUME IInv, NEW w \in Workers, MarkSent(w), NEW j \in Items
  PROVE  RowStep(j)
<1> DEFINE i == current[w]
           new == Sent(cache[w][i], now[w])
<1>1. i \in Items /\ Holds(w, i) /\ InFlight(w, i)
  BY DEF IInv, TypeOK, CurrentOK, MarkSent, Holds, InFlight
<1>2. /\ new \in Row
      /\ new.status = "sent" /\ new.attempt_count = outbox[i].attempt_count
  <2>1. cache[w][i] = outbox[i] /\ outbox[i] \in Row /\ now[w] \in Nat
    BY <1>1, HeldRow
  <2>2. new \in Row
    BY <2>1, RowOperationType
  <2> QED
    BY <2>1, <2>2 DEF Sent, Row
<1>3. Store(w, i, new) /\ accepted' = accepted /\ unrecorded' = unrecorded
  BY DEF MarkSent, history
<1> HIDE DEF new, i
<1>4. outbox' = [outbox EXCEPT ![i] = new]
  BY <1>1, <1>2, <1>3, HolderStores
<1>5. CASE j # i
  BY <1>3, <1>4, <1>5, RowUntouched DEF IInv, TypeOK
<1>6. CASE j = i
  <2>1. outbox'[j] = new /\ outbox[j].attempt_count \in Nat
    BY <1>4, <1>6 DEF IInv, TypeOK, Row
  <2>2. outbox[j].status = "sending"
    BY <1>1, <1>6, HeldRow
  <2>3. accepted[j] = unrecorded[j] + 1
    BY <1>1, <1>6 DEF IInv, ClaimInvariant, AcceptancesAccounted
  <2> QED
    BY <1>2, <1>3, <1>6, <2>1, <2>2, <2>3 DEF RowStep, Delivery!Next, Delivery!Confirm
<1> QED
  BY <1>5, <1>6

LEMMA MarkFailedRow ==
  ASSUME IInv, NEW w \in Workers, MarkFailedOrRetry(w), NEW j \in Items
  PROVE  RowStep(j)
<1> DEFINE i == current[w]
<1>1. i \in Items /\ Holds(w, i) /\ ~InFlight(w, i)
  BY DEF IInv, TypeOK, CurrentOK, MarkFailedOrRetry, Holds, InFlight
<1>2. PICK new \in Failed(cache[w][i], now[w], result[w]) : Store(w, i, new)
  BY DEF MarkFailedOrRetry
<1>3. /\ cache[w][i] = outbox[i] /\ cache[w][i] \in Row /\ now[w] \in Nat
      /\ cache[w][i].sent_at = Never
  BY <1>1, HeldRow
<1>4. new \in Row
  BY <1>2, <1>3, FailedType
<1>5. /\ new.status \in {"pending", "dead"}
      /\ new.attempt_count = outbox[i].attempt_count + 1
      /\ new.status = "pending" => new.attempt_count < MaxAttempts
  BY <1>2, <1>3, FailedRow
<1>6. accepted' = accepted /\ unrecorded' = unrecorded
  BY DEF MarkFailedOrRetry, history
<1> HIDE DEF i
<1>7. outbox' = [outbox EXCEPT ![i] = new]
  BY <1>1, <1>2, <1>4, HolderStores
<1>8. CASE j # i
  BY <1>6, <1>7, <1>8, RowUntouched DEF IInv, TypeOK
<1>9. CASE j = i
  <2>1. outbox'[j] = new /\ outbox[j].attempt_count \in Nat
    BY <1>7, <1>9 DEF IInv, TypeOK, Row
  <2>2. /\ outbox[j].status = "sending" /\ accepted[j] = unrecorded[j]
        /\ outbox[j].attempt_count < MaxAttempts
    BY <1>1, <1>9, HeldRow, HeldByOne
  <2> QED
    BY <1>5, <1>6, <1>9, <2>1, <2>2 DEF RowStep, Delivery!Next, Delivery!Fail
<1> QED
  BY <1>8, <1>9

LEMMA CrashRow ==
  ASSUME IInv, NEW w \in Workers, Crash(w), NEW j \in Items
  PROVE  RowStep(j)
<1>1. /\ outbox' = outbox /\ accepted' = accepted
      /\ unrecorded'[j] = Bump(unrecorded[j], j = current[w] /\ result[w] = "sent")
  BY DEF Crash
<1>2. CASE InFlight(w, j)
  <2>1. Holds(w, j)
    BY <1>2 DEF IInv, CurrentOK, InFlight, Holds
  <2>2. outbox[j].status = "sending" /\ outbox[j].attempt_count \in Nat
    BY <2>1, HeldRow DEF Row
  <2>3. accepted[j] = unrecorded[j] + 1
    BY <1>2 DEF IInv, ClaimInvariant, AcceptancesAccounted
  <2>4. unrecorded'[j] = unrecorded[j] + 1
    BY <1>1, <1>2 DEF InFlight, Bump
  <2> QED
    BY <1>1, <2>2, <2>3, <2>4 DEF RowStep, Delivery!Next, Delivery!Forget
<1>3. CASE ~InFlight(w, j)
  <2>1. unrecorded'[j] = unrecorded[j]
    BY <1>1, <1>3 DEF IInv, CurrentOK, InFlight, Bump
  <2> QED
    BY <1>1, <2>1, RowUntouched DEF IInv
<1> QED
  BY <1>2, <1>3

LEMMA EveryStepIsARowStep ==
  ASSUME IInv, AbsentOK, [Next]_vars, NEW j \in Items
  PROVE  RowStep(j)
<1>1. CASE \/ Tick \/ UNCHANGED vars
           \/ \E w \in Workers : BeginDispatch(w) \/ RecoverSelect(w)
  <2>1. outbox' = outbox /\ accepted' = accepted /\ unrecorded' = unrecorded
    BY <1>1 DEF Tick, vars, BeginDispatch, RecoverSelect, history
  <2> QED
    BY <2>1, RowUntouched DEF IInv
<1> QED
  BY <1>1, EnqueueRow, RecoverCommitRow, LockPendingBatchRow, RescheduleRow,
     ProviderSendRow, MarkSentRow, MarkFailedRow, CrashRow DEF Next, Step

LEMMA StepAbsent ==
  ASSUME IInv, AbsentOK, [Next]_vars PROVE AbsentOK'
<1> SUFFICES ASSUME NEW j \in Items, outbox'[j].status = "absent"
             PROVE  outbox'[j].attempt_count = 0
  BY DEF AbsentOK
<1>1. RowStep(j)
  BY EveryStepIsARowStep
<1> QED
  BY <1>1 DEF RowStep, AbsentOK

LEMMA InitAbsent == Init => AbsentOK
BY DEF Init, AbsentOK, NoCache, NoRow, NewRow

\* With fast workers a row that is sent or dead never changes, and no failed
\* attempt is taken back.
THEOREM FinalRowsAreFinal ==
  ASSUME FastWorkers PROVE Spec => FinalIsFinal
<1>1. Init => IInv /\ AbsentOK
  BY InitType, InitClaim, InitAbsent DEF IInv
<1>2. IInv /\ AbsentOK /\ [Next]_vars => (IInv /\ AbsentOK)'
  BY StepClaim, StepAbsent
<1>3. IInv /\ AbsentOK /\ [Next]_vars =>
        [\A i \in Items :
           /\ outbox[i].status \in {"sent", "dead"} => outbox'[i] = outbox[i]
           /\ outbox'[i].attempt_count >= outbox[i].attempt_count]_vars
  BY EveryStepIsARowStep DEF RowStep
<1> QED
  BY <1>1, <1>2, <1>3, PTL DEF Spec, FinalIsFinal

\* With fast workers every row lives the life ReminderDelivery describes.
THEOREM OutboxImplementsDelivery ==
  ASSUME FastWorkers PROVE Spec => ImplementsDelivery
<1>1. Init => IInv /\ AbsentOK
  BY InitType, InitClaim, InitAbsent DEF IInv
<1>2. IInv /\ AbsentOK /\ [Next]_vars => (IInv /\ AbsentOK)'
  BY StepClaim, StepAbsent
<1>3. Init => \A i \in Items : Delivery(i)!Init
  BY DEF Init, NoCache, NoRow, NewRow, Delivery!Init
<1>4. IInv /\ AbsentOK /\ [Next]_vars =>
        [\A i \in Items : [Delivery(i)!Next]_(Delivery(i)!vars)]_vars
  BY EveryStepIsARowStep DEF RowStep
<1> QED
  BY <1>1, <1>2, <1>3, <1>4, PTL DEF Spec, ImplementsDelivery

-----------------------------------------------------------------------------
(* The send window, however slow the workers are                           *)

\* Euclid's division has one remainder.
LEMMA RemainderUnique ==
  ASSUME NEW a \in Nat, NEW b \in Nat, NEW o \in 0..(DayLen - 1), NEW r \in 0..(DayLen - 1),
         DayLen * a + o = DayLen * b + r
  PROVE  r = o
<1>1. CASE a > b
  <2>1. PICK k \in Nat : a = b + 1 + k
    BY <1>1
  <2>2. DayLen * a = DayLen * b + DayLen + DayLen * k /\ DayLen * k >= 0
    BY <2>1, WindowAssumption
  <2> QED
    BY <2>2, WindowAssumption
<1>2. CASE a < b
  <2>1. PICK k \in Nat : b = a + 1 + k
    BY <1>2
  <2>2. DayLen * b = DayLen * a + DayLen + DayLen * k /\ DayLen * k >= 0
    BY <2>1, WindowAssumption
  <2> QED
    BY <2>2, WindowAssumption
<1>3. CASE a = b
  BY <1>3, WindowAssumption
<1> QED
  BY <1>1, <1>2, <1>3

LEMMA DivisionOfTimes ==
  ASSUME NEW t \in Nat
  PROVE  /\ t = DayLen * (t \div DayLen) + TimeOfDay(t)
         /\ TimeOfDay(t) \in 0..(DayLen - 1) /\ t \div DayLen \in Nat
BY WindowAssumption DEF TimeOfDay

\* The time of day of an opening is WindowOpen, on any day.
LEMMA OpeningOfDay ==
  ASSUME NEW q \in Nat
  PROVE  DayLen * q + WindowOpen \in Nat /\ WithinSendWindow(DayLen * q + WindowOpen)
<1> DEFINE t == DayLen * q + WindowOpen
<1>1. t \in Nat
  BY WindowAssumption
<1>2. PICK b \in Nat, r \in 0..(DayLen - 1) : t = DayLen * b + r /\ r = TimeOfDay(t)
  BY <1>1, DivisionOfTimes
<1>3. WindowOpen \in 0..(DayLen - 1)
  BY WindowAssumption
<1>4. TimeOfDay(t) = WindowOpen
  BY <1>2, <1>3, RemainderUnique
<1> QED
  BY <1>1, <1>4, WindowAssumption DEF WithinSendWindow

\* What next_send_window_start returns is an opening.
LEMMA NextSendWindowStartOpens ==
  ASSUME NEW t \in Nat PROVE WithinSendWindow(NextSendWindowStart(t))
<1>0. PICK q \in Nat : t = DayLen * q + TimeOfDay(t) /\ TimeOfDay(t) \in Nat
  BY DivisionOfTimes
<1>1. t - TimeOfDay(t) = DayLen * q
  BY <1>0, WindowAssumption
<1>2. DayLen * q + DayLen = DayLen * (q + 1) /\ q + 1 \in Nat /\ DayLen * q \in Nat
  BY WindowAssumption
<1>3. CASE TimeOfDay(t) < WindowOpen
  BY <1>1, <1>3, OpeningOfDay DEF NextSendWindowStart
<1>4. CASE ~(TimeOfDay(t) < WindowOpen)
  <2>1. NextSendWindowStart(t) = DayLen * (q + 1) + WindowOpen
    BY <1>1, <1>2, <1>4 DEF NextSendWindowStart
  <2> QED
    BY <1>2, <2>1, OpeningOfDay
<1> QED
  BY <1>3, <1>4

LEMMA IntoSendWindowIsWithin ==
  ASSUME NEW t \in Nat PROVE WithinSendWindow(IntoSendWindow(t))
BY NextSendWindowStartOpens DEF IntoSendWindow

InWindow(row) == WithinSendWindow(row.next_attempt_at)

\* Two tasks may hold a row, and one may flush over what the other has stored.
\* But a row whose time is outside the window has never been put off, so every
\* copy of it still has that time, and whoever puts it off writes another one.
WindowInvariant ==
  /\ RetriesInSendWindow
  /\ \A w \in Workers : \A i \in batch[w] :
       /\ outbox[i].status # "absent"
       /\ cache[w][i].status = "sending"
       /\ ~InWindow(outbox[i]) => cache[w][i].next_attempt_at = outbox[i].next_attempt_at
  /\ \A w \in Workers : pc[w] = "record" => WithinSendWindow(now[w])

LEMMA FlushIntoWindow ==
  ASSUME NEW row, NEW old, NEW new,
         old.status = "sending", new.status # "sending",
         ~InWindow(row) => old.next_attempt_at = row.next_attempt_at,
         InWindow(new)
  PROVE  /\ Flush(row, old, new).status = new.status
         /\ InWindow(Flush(row, old, new))
BY DEF Flush, Written, InWindow

\* Rows of worker w get a new status and a time in the window; w lets go of them.
LEMMA PuttingOffKeepsWindow ==
  ASSUME TypeOK, WindowInvariant, NEW w \in Workers, NEW S \in SUBSET batch[w],
         NEW new \in [S -> Row],
         \A i \in S : new[i].status \in {"pending", "dead"} /\ InWindow(new[i]),
         outbox' = [i \in Items |-> IF i \in S THEN Flush(outbox[i], cache[w][i], new[i])
                                    ELSE outbox[i]],
         batch' = [batch EXCEPT ![w] = @ \ S],
         \A v \in Workers : \A i \in batch'[v] : cache'[v][i] = cache[v][i],
         \A v \in Workers : pc'[v] = "record" => pc[v] = "record" /\ now'[v] = now[v]
  PROVE  WindowInvariant'
<1>1. \A i \in S : /\ i \in Items
                   /\ outbox'[i].status = new[i].status
                   /\ InWindow(outbox'[i])
  <2> SUFFICES ASSUME NEW i \in S
               PROVE  /\ i \in Items
                      /\ outbox'[i].status = new[i].status
                      /\ InWindow(outbox'[i])
    OBVIOUS
  <2>1. i \in Items /\ i \in batch[w]
    BY DEF TypeOK
  <2>2. outbox'[i] = Flush(outbox[i], cache[w][i], new[i])
    BY <2>1
  <2>3. /\ cache[w][i].status = "sending" /\ new[i].status # "sending" /\ InWindow(new[i])
        /\ ~InWindow(outbox[i]) => cache[w][i].next_attempt_at = outbox[i].next_attempt_at
    BY <2>1 DEF WindowInvariant
  <2> QED
    BY <2>1, <2>2, <2>3, FlushIntoWindow
<1>2. \A i \in Items \ S : outbox'[i] = outbox[i]
  OBVIOUS
<1>3. \A v \in Workers : batch'[v] \subseteq batch[v] /\ batch[v] \subseteq Items
  BY DEF TypeOK
<1>4. RetriesInSendWindow'
  BY <1>1, <1>2 DEF WindowInvariant, RetriesInSendWindow, InWindow
<1>5. ASSUME NEW v \in Workers, NEW i \in batch'[v]
      PROVE  /\ outbox'[i].status # "absent"
             /\ cache'[v][i].status = "sending"
             /\ ~InWindow(outbox'[i]) => cache'[v][i].next_attempt_at = outbox'[i].next_attempt_at
  <2>1. i \in batch[v] /\ i \in Items /\ cache'[v][i] = cache[v][i]
    BY <1>3
  <2>2. CASE i \in S
    <3>1. new[i].status # "absent" /\ cache[v][i].status = "sending"
      BY <2>1, <2>2 DEF WindowInvariant
    <3> QED
      BY <1>1, <2>1, <2>2, <3>1
  <2>3. CASE i \notin S
    BY <1>2, <2>1, <2>3 DEF WindowInvariant
  <2> QED
    BY <2>2, <2>3
<1>6. \A v \in Workers : pc'[v] = "record" => WithinSendWindow(now'[v])
  BY DEF WindowInvariant
<1> QED
  BY <1>4, <1>5, <1>6 DEF WindowInvariant, InWindow

\* The same for one row.
LEMMA RecordingKeepsWindow ==
  ASSUME TypeOK, WindowInvariant, NEW w \in Workers, NEW i \in batch[w], NEW new \in Row,
         new.status \in {"pending", "dead"}, InWindow(new),
         Store(w, i, new), DoneWith(w, i)
  PROVE  WindowInvariant'
<1> DEFINE N == [j \in {i} |-> new]
<1>0. i \in Items
  BY DEF TypeOK
<1>1. N \in [{i} -> Row] /\ {i} \in SUBSET batch[w]
  OBVIOUS
<1>2. \A j \in {i} : N[j].status \in {"pending", "dead"} /\ InWindow(N[j])
  OBVIOUS
<1>3. outbox' = [j \in Items |-> IF j \in {i} THEN Flush(outbox[j], cache[w][j], N[j])
                                 ELSE outbox[j]]
  BY <1>0 DEF Store, TypeOK
<1>4. batch' = [batch EXCEPT ![w] = @ \ {i}]
  BY DEF DoneWith
<1>5. \A v \in Workers : \A j \in batch'[v] : cache'[v][j] = cache[v][j]
  BY <1>0, <1>4 DEF DoneWith, TypeOK
<1>6. \A v \in Workers : pc'[v] = "record" => pc[v] = "record" /\ now'[v] = now[v]
  BY DEF DoneWith, TypeOK
<1> HIDE DEF N
<1> QED
  BY <1>1, <1>2, <1>3, <1>4, <1>5, <1>6, PuttingOffKeepsWindow

LEMMA WindowInit == Init => WindowInvariant
BY DEF Init, WindowInvariant, RetriesInSendWindow, NoCache, NoRow, NewRow

LEMMA WindowStep ==
  ASSUME TypeOK, CurrentOK, WindowInvariant, [Next]_vars
  PROVE  WindowInvariant'
<1>1. CASE Tick \/ UNCHANGED vars
  BY <1>1 DEF Tick, vars, worker, WindowInvariant, RetriesInSendWindow, InWindow
<1>2. ASSUME NEW i \in Items, Enqueue(i)
      PROVE  WindowInvariant'
  <2>1. PICK t \in 0..clock : outbox' = [outbox EXCEPT ![i] = NewRow("pending", t)]
    BY <1>2 DEF Enqueue
  <2>2. outbox'[i].failure_class = "none" /\ outbox[i].status = "absent"
    BY <1>2, <2>1 DEF Enqueue, NewRow, TypeOK
  <2>3. \A j \in Items \ {i} : outbox'[j] = outbox[j]
    BY <2>1 DEF TypeOK
  <2>4. \A w \in Workers : batch[w] \subseteq Items \ {i}
    BY <2>2 DEF WindowInvariant, TypeOK
  <2> QED
    BY <1>2, <2>2, <2>3, <2>4
       DEF Enqueue, worker, WindowInvariant, RetriesInSendWindow, InWindow
<1>3. ASSUME NEW w \in Workers, BeginDispatch(w)
      PROVE  WindowInvariant'
  BY <1>3 DEF BeginDispatch, TypeOK, WindowInvariant, RetriesInSendWindow, InWindow
<1>4. ASSUME NEW w \in Workers, RecoverSelect(w)
      PROVE  WindowInvariant'
  <2>1. \A v \in Workers \ {w} : batch'[v] = batch[v] /\ cache'[v] = cache[v] /\ pc'[v] = pc[v]
    BY <1>4 DEF RecoverSelect, TypeOK
  <2>2. pc'[w] # "record" /\ \A i \in batch'[w] : /\ i \in Items
                                                  /\ cache'[w][i] = outbox[i]
                                                  /\ outbox[i].status = "sending"
    BY <1>4 DEF RecoverSelect, Stuck, TypeOK
  <2>3. outbox' = outbox /\ now' = now
    BY <1>4 DEF RecoverSelect
  <2>4. ASSUME NEW v \in Workers, NEW i \in batch'[v]
        PROVE  /\ outbox'[i].status # "absent"
               /\ cache'[v][i].status = "sending"
               /\ ~InWindow(outbox'[i]) => cache'[v][i].next_attempt_at = outbox'[i].next_attempt_at
    <3>1. CASE v = w
      BY <2>2, <2>3, <3>1
    <3>2. CASE v # w
      BY <2>1, <2>3, <3>2 DEF WindowInvariant
    <3> QED
      BY <3>1, <3>2
  <2>5. \A v \in Workers : pc'[v] = "record" => WithinSendWindow(now'[v])
    BY <2>1, <2>2, <2>3 DEF WindowInvariant
  <2>6. RetriesInSendWindow'
    BY <2>3 DEF WindowInvariant, RetriesInSendWindow
  <2> QED
    BY <2>4, <2>5, <2>6 DEF WindowInvariant, InWindow
<1>5. ASSUME NEW w \in Workers, RecoverCommit(w)
      PROVE  WindowInvariant'
  <2> DEFINE new == [i \in batch[w] |-> Recovered(cache[w][i], now[w])]
  <2>1. now[w] \in Nat /\ cache[w] \in [Items -> Row] /\ batch[w] \subseteq Items
    BY DEF TypeOK
  <2>2. new \in [batch[w] -> Row]
    BY <2>1, RowOperationType
  <2>3. \A i \in batch[w] : new[i].status \in {"pending", "dead"} /\ InWindow(new[i])
    BY <2>1, NextSendWindowStartOpens DEF Recovered, InWindow, Row
  <2>4. outbox' = [i \in Items |-> IF i \in batch[w] THEN Flush(outbox[i], cache[w][i], new[i])
                                   ELSE outbox[i]]
    BY <1>5 DEF RecoverCommit
  <2>5. batch' = [batch EXCEPT ![w] = @ \ batch[w]]
    BY <1>5 DEF RecoverCommit
  <2>6. \A v \in Workers : \A i \in batch'[v] : cache'[v][i] = cache[v][i]
    BY <1>5 DEF RecoverCommit, TypeOK
  <2>7. \A v \in Workers : pc'[v] = "record" => pc[v] = "record" /\ now'[v] = now[v]
    BY <1>5 DEF RecoverCommit, TypeOK
  <2> HIDE DEF new
  <2> QED
    BY <2>2, <2>3, <2>4, <2>5, <2>6, <2>7, PuttingOffKeepsWindow
<1>6. ASSUME NEW w \in Workers, LockPendingBatch(w)
      PROVE  WindowInvariant'
  <2>1. PICK S \in SUBSET Items :
          /\ outbox' = [i \in Items |-> IF i \in S THEN Claimed(outbox[i], now[w]) ELSE outbox[i]]
          /\ cache' = [cache EXCEPT ![w] = [i \in Items |-> IF i \in S THEN Claimed(outbox[i], now[w]) ELSE NoRow]]
          /\ batch' = [batch EXCEPT ![w] = S]
          /\ pc' = [pc EXCEPT ![w] = IF S = {} THEN "idle" ELSE "dispatch"]
          /\ now' = IF S = {} THEN [now EXCEPT ![w] = 0] ELSE now
    BY <1>6 DEF LockPendingBatch, Batches, Due
  <2>2. \A i \in Items : /\ outbox'[i].next_attempt_at = outbox[i].next_attempt_at
                         /\ i \in S => outbox'[i].status = "sending"
                         /\ i \notin S => outbox'[i] = outbox[i]
    BY <2>1 DEF TypeOK, Claimed, Row
  <2>3. \A v \in Workers \ {w} : batch'[v] = batch[v] /\ cache'[v] = cache[v]
                                 /\ pc'[v] = pc[v] /\ now'[v] = now[v]
    BY <2>1 DEF TypeOK
  <2>4. batch'[w] = S /\ pc'[w] # "record" /\ \A i \in S : cache'[w][i] = outbox'[i]
    BY <2>1 DEF TypeOK
  <2>5. \A v \in Workers : batch[v] \subseteq Items
    BY DEF TypeOK
  <2>6. RetriesInSendWindow'
    BY <2>2 DEF WindowInvariant, RetriesInSendWindow
  <2>7. ASSUME NEW v \in Workers, NEW i \in batch'[v]
        PROVE  /\ outbox'[i].status # "absent"
               /\ cache'[v][i].status = "sending"
               /\ ~InWindow(outbox'[i]) => cache'[v][i].next_attempt_at = outbox'[i].next_attempt_at
    BY <2>2, <2>3, <2>4, <2>5 DEF WindowInvariant, InWindow
  <2> QED
    BY <2>3, <2>4, <2>6, <2>7 DEF WindowInvariant, InWindow
<1>7. ASSUME NEW w \in Workers, RescheduleQuietHours(w)
      PROVE  WindowInvariant'
  <2>1. PICK i \in Items : /\ i \in batch[w]
                           /\ Store(w, i, Rescheduled(cache[w][i], now[w]))
                           /\ DoneWith(w, i)
    BY <1>7 DEF RescheduleQuietHours, IsNext
  <2>2. now[w] \in Nat /\ cache[w][i] \in Row
    BY DEF TypeOK
  <2>3. InWindow(Rescheduled(cache[w][i], now[w]))
        /\ Rescheduled(cache[w][i], now[w]).status = "pending"
    BY <2>2, NextSendWindowStartOpens DEF Rescheduled, InWindow, Row
  <2> QED
    BY <2>1, <2>2, <2>3, RowOperationType, RecordingKeepsWindow
<1>8. ASSUME NEW w \in Workers, ProviderSend(w)
      PROVE  WindowInvariant'
  <2>1. outbox' = outbox /\ batch' = batch /\ cache' = cache /\ now' = now
    BY <1>8 DEF ProviderSend
  <2>2. WithinSendWindow(now[w]) /\ \A v \in Workers \ {w} : pc'[v] = pc[v]
    BY <1>8 DEF ProviderSend, QuietHours, TypeOK
  <2>3. \A v \in Workers : pc'[v] = "record" => WithinSendWindow(now'[v])
    BY <2>1, <2>2 DEF WindowInvariant
  <2> QED
    BY <2>1, <2>3 DEF WindowInvariant, RetriesInSendWindow, InWindow
<1>9. ASSUME NEW w \in Workers, MarkSent(w)
      PROVE  WindowInvariant'
  <2> DEFINE i == current[w]
             new == Sent(cache[w][i], now[w])
  <2>1. i \in batch[w] /\ i \in Items /\ cache[w][i] \in Row
    BY <1>9 DEF MarkSent, CurrentOK, TypeOK
  <2>2. cache[w][i].status = "sending"
    BY <2>1 DEF WindowInvariant
  <2>3. new.status = "sent" /\ new.next_attempt_at = cache[w][i].next_attempt_at
    BY <2>1 DEF Sent, Row
  <2>4. outbox' = [outbox EXCEPT ![i] = Flush(outbox[i], cache[w][i], new)] /\ DoneWith(w, i)
    BY <1>9 DEF MarkSent, Store
  <2> HIDE DEF new
  <2>5. outbox'[i].status = "sent" /\ outbox'[i].next_attempt_at = outbox[i].next_attempt_at
    BY <2>1, <2>2, <2>3, <2>4 DEF Flush, Written, TypeOK
  <2>6. \A j \in Items \ {i} : outbox'[j] = outbox[j]
    BY <2>4 DEF TypeOK
  <2> HIDE DEF i
  <2>7. \A v \in Workers : \A j \in batch'[v] :
          j \in Items /\ j \in batch[v] /\ cache'[v][j] = cache[v][j]
    BY <2>1, <2>4 DEF DoneWith, TypeOK
  <2>8. \A v \in Workers : pc'[v] = "record" => pc[v] = "record" /\ now'[v] = now[v]
    BY <2>4 DEF DoneWith, TypeOK
  <2>9. RetriesInSendWindow'
    BY <2>5, <2>6 DEF WindowInvariant, RetriesInSendWindow
  <2>10. ASSUME NEW v \in Workers, NEW j \in batch'[v]
         PROVE  /\ outbox'[j].status # "absent"
                /\ cache'[v][j].status = "sending"
                /\ ~InWindow(outbox'[j]) => cache'[v][j].next_attempt_at = outbox'[j].next_attempt_at
    BY <2>5, <2>6, <2>7 DEF WindowInvariant, InWindow
  <2> QED
    BY <2>8, <2>9, <2>10 DEF WindowInvariant, InWindow
<1>10. ASSUME NEW w \in Workers, MarkFailedOrRetry(w)
       PROVE  WindowInvariant'
  <2> DEFINE i == current[w]
  <2>1. i \in batch[w] /\ i \in Items /\ cache[w][i] \in Row /\ now[w] \in Nat
    BY <1>10 DEF MarkFailedOrRetry, CurrentOK, TypeOK
  <2>2. PICK new \in Failed(cache[w][i], now[w], result[w]) : Store(w, i, new) /\ DoneWith(w, i)
    BY <1>10 DEF MarkFailedOrRetry
  <2>3. new \in Row
    BY <2>1, <2>2, FailedType
  <2>4. new.status \in {"pending", "dead"} /\ InWindow(new)
    <3>1. CASE new = Dead(cache[w][i], now[w])
      <4>1. WithinSendWindow(now[w])
        BY <1>10 DEF MarkFailedOrRetry, WindowInvariant
      <4> QED
        BY <2>1, <3>1, <4>1 DEF Dead, InWindow, Row
    <3>2. CASE \E d \in RetryDelays(cache[w][i].attempt_count + 1) :
                 new = Retried(cache[w][i], now[w], d)
      <4>1. cache[w][i].attempt_count + 1 \in Nat \ {0}
        BY <2>1 DEF Row
      <4>2. PICK d \in Nat : new = Retried(cache[w][i], now[w], d)
        BY <3>2, <4>1, RetryDelaysType
      <4>3. WithinSendWindow(IntoSendWindow(now[w] + d))
        BY <2>1, IntoSendWindowIsWithin
      <4> QED
        BY <2>1, <4>2, <4>3 DEF Retried, InWindow, Row
    <3> QED
      BY <2>2, <3>1, <3>2 DEF Failed
  <2> HIDE DEF i
  <2> QED
    BY <2>1, <2>2, <2>3, <2>4, RecordingKeepsWindow
<1>11. ASSUME NEW w \in Workers, Crash(w)
       PROVE  WindowInvariant'
  BY <1>11 DEF Crash, TypeOK, WindowInvariant, RetriesInSendWindow, InWindow
<1> QED
  BY <1>1, <1>2, <1>3, <1>4, <1>5, <1>6, <1>7, <1>8, <1>9, <1>10, <1>11 DEF Next, Step

\* A row that waits for another attempt waits for a time in the send window,
\* even if tasks overtake each other (mark_failed_or_retry,
\* recover_stuck_sending, reschedule_quiet_hours).
THEOREM RetriesAlwaysInSendWindow == Spec => []RetriesInSendWindow
<1>1. Init => TypeOK /\ CurrentOK /\ WindowInvariant
  BY InitType, WindowInit
<1>2. TypeOK /\ CurrentOK /\ WindowInvariant /\ [Next]_vars
        => (TypeOK /\ CurrentOK /\ WindowInvariant)'
  BY StepType, WindowStep
<1>3. WindowInvariant => RetriesInSendWindow
  BY DEF WindowInvariant
<1> QED
  BY <1>1, <1>2, <1>3, PTL DEF Spec

\* What the model assumes of the speed of tasks, as an invariant.
RunTiming == \A w \in Workers : pc[w] # "idle" => now[w] <= clock /\ clock <= now[w] + MaxRun

LEMMA RunTimingStep ==
  ASSUME TypeOK, RunTiming, [Next]_vars
  PROVE  RunTiming'
<1> USE DEF TypeOK, RunTiming, Location
<1>1. CASE Tick
  BY <1>1, BoundAssumption DEF Tick, worker
<1>2. ASSUME NEW i \in Items, Enqueue(i) PROVE RunTiming'
  BY <1>2 DEF Enqueue, worker
<1>3. ASSUME NEW w \in Workers, BeginDispatch(w) PROVE RunTiming'
  BY <1>3, BoundAssumption DEF BeginDispatch
<1>4. ASSUME NEW w \in Workers, RecoverSelect(w) \/ RecoverCommit(w) \/ ProviderSend(w)
      PROVE  RunTiming'
  BY <1>4 DEF RecoverSelect, RecoverCommit, ProviderSend
<1>5. ASSUME NEW w \in Workers, LockPendingBatch(w) PROVE RunTiming'
  BY <1>5 DEF LockPendingBatch
<1>6. ASSUME NEW w \in Workers, NEW i, pc[w] # "idle", DoneWith(w, i), clock' = clock PROVE RunTiming'
  <2>1. \A v \in Workers : pc'[v] # "idle" => pc[v] # "idle" /\ now'[v] = now[v]
    BY <1>6 DEF DoneWith
  <2> QED
    BY <1>6, <2>1
<1>7. ASSUME NEW w \in Workers, Crash(w) PROVE RunTiming'
  BY <1>7 DEF Crash
<1>8. CASE UNCHANGED vars
  BY <1>8 DEF vars, worker
<1> QED
  BY <1>1, <1>2, <1>3, <1>4, <1>5, <1>6, <1>7, <1>8
     DEF Next, Step, RescheduleQuietHours, MarkSent, MarkFailedOrRetry

\* No mail leaves later than a task may run after the send window closed.
THEOREM SendsAlwaysNearWindow == Spec => SendsNearWindow
<1>1. Init => TypeOK /\ CurrentOK /\ RunTiming
  BY InitType DEF Init, RunTiming
<1>2. TypeOK /\ CurrentOK /\ RunTiming /\ [Next]_vars
        => (TypeOK /\ CurrentOK /\ RunTiming)'
  BY StepType, RunTimingStep
<1>3. TypeOK /\ CurrentOK /\ RunTiming /\ [Next]_vars =>
        [accepted' # accepted =>
           \E t \in 0..clock : clock - t <= MaxRun /\ WithinSendWindow(t)]_vars
  <2> SUFFICES ASSUME TypeOK, RunTiming, Next, accepted' # accepted
               PROVE  \E t \in 0..clock : clock - t <= MaxRun /\ WithinSendWindow(t)
    BY DEF vars, history
  <2>1. PICK w \in Workers : ProviderSend(w)
    BY DEF Next, Step, Tick, Enqueue, BeginDispatch, RecoverSelect, RecoverCommit,
           LockPendingBatch, RescheduleQuietHours, MarkSent, MarkFailedOrRetry, Crash, history
  <2>2. WithinSendWindow(now[w]) /\ pc[w] # "idle"
    BY <2>1 DEF ProviderSend, QuietHours
  <2>3. now[w] \in 0..clock /\ clock - now[w] <= MaxRun
    BY <2>2, BoundAssumption DEF TypeOK, RunTiming
  <2> QED
    BY <2>2, <2>3
<1> QED
  BY <1>1, <1>2, <1>3, PTL DEF Spec, SendsNearWindow

=============================================================================
