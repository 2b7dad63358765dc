-------------------------- MODULE ReminderDelivery --------------------------
(***************************************************************************)
(* What the outbox promises for one reminder, whoever dispatches it and    *)
(* whenever: it is delivered at least once or given up after MaxAttempts   *)
(* failures, it gets one outcome, and the provider gets it a second time   *)
(* only if an earlier acceptance could not be recorded.                    *)
(*                                                                         *)
(* There are no workers, no clock and no copies of the row here.           *)
(* NotificationOutbox implements this for every row, provided its tasks    *)
(* are faster than the recovery of abandoned rows.                         *)
(***************************************************************************)
EXTENDS Naturals

CONSTANT MaxAttempts

VARIABLES
  status,      \* "absent", "pending", "sending", "sent" or "dead"
  attempts,    \* failed attempts on record
  accepted,    \* mails the provider accepted
  unrecorded   \* those whose acceptance will never be on record

vars == <<status, attempts, accepted, unrecorded>>

Init ==
  /\ status = "absent"
  /\ attempts = 0
  /\ accepted = 0
  /\ unrecorded = 0

Submit ==
  /\ status = "absent"
  /\ status' = "pending"
  /\ UNCHANGED <<attempts, accepted, unrecorded>>

Claim ==
  /\ status = "pending"
  /\ status' = "sending"
  /\ UNCHANGED <<attempts, accepted, unrecorded>>

\* The claim is given up without an attempt on record: quiet hours, or
\* recovery of a row whose claimant died.
Release ==
  /\ status = "sending"
  /\ accepted = unrecorded
  /\ status' = "pending"
  /\ UNCHANGED <<attempts, accepted, unrecorded>>

\* The provider takes the mail; its answer reaches the claimant or is lost.
Accept ==
  /\ status = "sending"
  /\ accepted = unrecorded
  /\ accepted' = accepted + 1
  /\ unrecorded' \in {unrecorded, unrecorded + 1}
  /\ UNCHANGED <<status, attempts>>

\* The claimant dies with the answer.
Forget ==
  /\ status = "sending"
  /\ accepted = unrecorded + 1
  /\ unrecorded' = accepted
  /\ UNCHANGED <<status, attempts, accepted>>

Confirm ==
  /\ status = "sending"
  /\ accepted = unrecorded + 1
  /\ status' = "sent"
  /\ UNCHANGED <<attempts, accepted, unrecorded>>

Fail ==
  /\ status = "sending"
  /\ accepted = unrecorded
  /\ attempts < MaxAttempts
  /\ attempts' = attempts + 1
  /\ status' \in {"pending", "dead"}
  /\ status' = "pending" => attempts' < MaxAttempts
  /\ UNCHANGED <<accepted, unrecorded>>

Next ==
  Submit \/ Claim \/ Release \/ Accept \/ Forget \/ Confirm \/ Fail

Spec == Init /\ [][Next]_vars

=============================================================================
