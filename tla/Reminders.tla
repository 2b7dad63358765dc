----------------------------- MODULE Reminders -----------------------------
(***************************************************************************)
(* From a client's settings to a reminder mail: the profiles, the daily    *)
(* scan that turns due tasks into rows of the outbox, the links by which   *)
(* recipients opt out, and, in outline, the dispatcher                     *)
(* (NotificationOutbox has it in full).                                    *)
(*                                                                         *)
(* A scan reads every profile when it starts and keeps these copies, until *)
(* a rollback of its session expires them all.  It looks at profiles, the  *)
(* sent mails and the tasks in statements of their own and writes a row    *)
(* and the hash of its opt-out token in one commit.  The day it works for  *)
(* is that of its start.                                                   *)
(*                                                                         *)
(* A token is <<profile, version>>: the code signs that pair, and what is  *)
(* stored of it is a hash.                                                 *)
(***************************************************************************)
EXTENDS Naturals, FiniteSets

CONSTANTS
  Profiles,      \* the plans, each with at most one profile
  Emails,        \* addresses
  NoEmail,       \* email IS NULL
  Blank,         \* what a client may send that is no address: white space
  Bodies,        \* the bodies of PUT notification-profile
  Tasks,
  PlanOf,        \* PlanOf[k]: the plan (here: its profile) that task k belongs to
  DueOn,         \* DueOn[k]: the day task k is due
  LookAhead,     \* days ahead of which a task is due soon
  Clients,       \* requests that can be in flight at once
  Scans,         \* scans that can run at once
  MaxDay,        \* BOUND: the last day
  MaxChanges,    \* BOUND: PUTs and changes of tasks
  MaxRotations,  \* BOUND: rotations of a token
  MaxFailures    \* BOUND: profiles a scan fails at, scans that die

Days == 0..MaxDay
MaxPerDay == 1      \* max_reminders_per_day: nothing sets another value

ASSUME InputAssumption ==
  /\ NoEmail \notin Emails /\ Blank \notin Emails /\ Blank # NoEmail
  /\ Bodies \subseteq
       [email : Emails \cup {NoEmail, Blank}, consent : BOOLEAN, enabled : BOOLEAN]
  /\ PlanOf \in [Tasks -> Profiles] /\ DueOn \in [Tasks -> Nat]

ASSUME BoundAssumption ==
  {LookAhead, MaxDay, MaxChanges, MaxRotations, MaxFailures} \subseteq Nat

VARIABLES
  day,        \* the local date
  profiles,   \* the table notification_profiles
  outbox,     \* outbox[p][d]: the row whose dedupe key is profile p, day d
  todo,       \* the tasks whose status is todo
  client,     \* PUT requests: where each is, its body and its copy of the profile
  scan,       \* scans: where each is, its day, copies, and profiles still to visit
  consented,  \* history: the addresses whose reminders a client agreed to
  optedOut,   \* history: the profiles somebody opted out of
  mixed,      \* history: profiles for which PUTs that named different addresses overlapped
  excused,    \* history: profiles that changed, or that a scan failed at, today
  scanned,    \* history: a scan started today is over
  changes, rotations, failures

history == <<consented, optedOut, mixed, excused, scanned>>
counters == <<changes, rotations, failures>>
vars == <<day, profiles, outbox, todo, client, scan, history, counters>>

-----------------------------------------------------------------------------
(* Profiles and tokens                                                     *)

NoToken == <<>>
Token(p, version) == <<p, version>>
Tokens == {NoToken} \cup {Token(p, v) : p \in Profiles, v \in 1..(MaxRotations + 1)}

Profile == [email : Emails \cup {NoEmail}, consent : BOOLEAN, enabled : BOOLEAN,
            unsubscribed : BOOLEAN, version : 1..(MaxRotations + 1), hash : Tokens]

NoProfile == [email |-> "no profile"]
Expired == [email |-> "expired"]

NewProfile == [email |-> NoEmail, consent |-> FALSE, enabled |-> TRUE,
               unsubscribed |-> FALSE, version |-> 1, hash |-> NoToken]

StoredEmail(email) == IF email = Blank THEN NoEmail ELSE email

\* Mutant: consent is not asked for.
IsSendableWithoutConsent(profile) ==
  profile.email # NoEmail /\ ~profile.unsubscribed /\ profile.enabled

IsSendable(profile) ==
  /\ profile.email # NoEmail
  /\ profile.consent
  /\ ~profile.unsubscribed
  /\ profile.enabled

Column(stored, copy, new) == IF new = copy THEN stored ELSE new

\* Mutant: consent once given stays, whatever the address.
UpsertedKeepingConsent(stored, copy, body) ==
  [stored EXCEPT !.email = Column(@, copy.email, StoredEmail(body.email)),
                 !.consent = @ \/ body.consent,
                 !.enabled = Column(@, copy.enabled, body.enabled)]

\* Mutant: giving consent ends an opt-out.
UpsertedResubscribing(stored, copy, body) ==
  [stored EXCEPT !.email = Column(@, copy.email, StoredEmail(body.email)),
                 !.consent = Column(@, copy.consent, body.consent),
                 !.enabled = Column(@, copy.enabled, body.enabled),
                 !.unsubscribed = @ /\ ~body.consent]

\* What a PUT leaves of a row it read as copy.
Upserted(stored, copy, body) ==
  [stored EXCEPT !.email = Column(@, copy.email, StoredEmail(body.email)),
                 !.consent = Column(@, copy.consent, body.consent),
                 !.enabled = Column(@, copy.enabled, body.enabled)]

\* Mutant: the hash of the token stays with the scan.
IssuedUnsaved(stored, copy, p) == stored

\* A scan that holds the copy stores the hash of the token it hands out.
Issued(stored, copy, p) ==
  [stored EXCEPT !.hash = Column(@, copy.hash, Token(p, copy.version))]

Rotated(stored, p) ==
  [stored EXCEPT !.version = @ + 1, !.hash = Token(p, stored.version + 1)]

-----------------------------------------------------------------------------
(* Rows of the outbox                                                      *)

NotSent == MaxDay + 1

Row == [status : {"pending", "sent", "dead"}, to_email : Emails,
        token : Tokens \ {NoToken}, tasks : SUBSET Tasks, sent_on : Days \cup {NotSent}]

NoRow == [status |-> "absent"]

NewRow(email, token, tasks) ==
  [status |-> "pending", to_email |-> email, token |-> token, tasks |-> tasks,
   sent_on |-> NotSent]

\* Mutant: counts what was ever sent.
SentOnAnyDay(p, d) == Cardinality({e \in Days : outbox[p][e].status = "sent"})

SentOn(p, d) ==
  Cardinality({e \in Days : outbox[p][e].status = "sent" /\ outbox[p][e].sent_on = d})

DueSoon(p, d) == {k \in todo : PlanOf[k] = p /\ DueOn[k] \in d..(d + LookAhead)}

-----------------------------------------------------------------------------
(* State                                                                   *)

NoCopies == [p \in Profiles |-> NoProfile]
IdleClient == [at |-> "idle"]
IdleScan == [at |-> "idle"]

Init ==
  /\ day = 0
  /\ profiles = [p \in Profiles |-> NoProfile]
  /\ outbox = [p \in Profiles |-> [d \in Days |-> NoRow]]
  /\ todo = Tasks
  /\ client = [c \in Clients |-> IdleClient]
  /\ scan = [s \in Scans |-> IdleScan]
  /\ consented = {} /\ optedOut = {} /\ mixed = {} /\ excused = {} /\ scanned = FALSE
  /\ changes = 0 /\ rotations = 0 /\ failures = 0

-----------------------------------------------------------------------------
(* PUT notification-profile                                                *)

\* Another PUT for p is in flight, for another address (none is another, too).
Crosses(p, body) ==
  \E c \in Clients :
    /\ client[c].at # "idle" /\ client[c].profile = p
    /\ StoredEmail(client[c].body.email) # StoredEmail(body.email)

\* get_or_create: the SELECT.
FindProfile(c) ==
  /\ client[c].at = "idle"
  /\ changes < MaxChanges
  /\ changes' = changes + 1
  /\ \E p \in Profiles, body \in Bodies :
       /\ client' = [client EXCEPT ![c] =
            [at |-> IF profiles[p] = NoProfile THEN "create" ELSE "update",
             profile |-> p, body |-> body, copy |-> profiles[p]]]
       /\ mixed' = IF Crosses(p, body) THEN mixed \cup {p} ELSE mixed
  /\ UNCHANGED <<day, profiles, outbox, todo, scan, consented, optedOut, excused, scanned,
                 rotations, failures>>

\* get_or_create: an empty profile is committed ...
CreateProfile(c) ==
  /\ client[c].at = "create"
  /\ profiles[client[c].profile] = NoProfile
  /\ profiles' = [profiles EXCEPT ![client[c].profile] = NewProfile]
  /\ client' = [client EXCEPT ![c].at = "refresh"]
  /\ UNCHANGED <<day, outbox, todo, scan, history, counters>>

\* ... and read back.
RefreshProfile(c) ==
  /\ client[c].at = "refresh"
  /\ client' = [client EXCEPT ![c].at = "update", ![c].copy = profiles[client[c].profile]]
  /\ UNCHANGED <<day, profiles, outbox, todo, scan, history, counters>>

\* uq_notification_profiles_plan_id: another request was faster, 500.
CreateClash(c) ==
  /\ client[c].at = "create"
  /\ profiles[client[c].profile] # NoProfile
  /\ client' = [client EXCEPT ![c] = IdleClient]
  /\ UNCHANGED <<day, profiles, outbox, todo, scan, history, counters>>

UpsertProfile(c) ==
  /\ client[c].at = "update"
  /\ LET p == client[c].profile
         body == client[c].body
         email == StoredEmail(body.email)
     IN  /\ profiles' = [profiles EXCEPT ![p] = Upserted(@, client[c].copy, body)]
         /\ consented' = IF body.consent /\ email # NoEmail
                         THEN consented \cup {<<p, email>>} ELSE consented
         /\ excused' = excused \cup {p}
  /\ client' = [client EXCEPT ![c] = IdleClient]
  /\ UNCHANGED <<day, outbox, todo, scan, optedOut, mixed, scanned, counters>>

-----------------------------------------------------------------------------
(* Opt-out, rotation, and what happens to tasks and time                   *)

\* The recipient of a mail follows its link; whose hash it is opts out.  A
\* token nobody has the hash of changes nothing, and the answer is the same.
Unsubscribe ==
  \E q \in Profiles, d \in Days, p \in Profiles :
    /\ outbox[q][d].status = "sent"
    /\ profiles[p] # NoProfile
    /\ profiles[p].hash = outbox[q][d].token
    /\ ~profiles[p].unsubscribed
    /\ profiles' = [profiles EXCEPT ![p].unsubscribed = TRUE]
    /\ optedOut' = optedOut \cup {p}
    /\ excused' = excused \cup {p}
    /\ UNCHANGED <<day, outbox, todo, client, scan, consented, mixed, scanned, counters>>

\* No endpoint calls it.
RotateUnsubscribeToken(p) ==
  /\ profiles[p] # NoProfile
  /\ rotations < MaxRotations
  /\ rotations' = rotations + 1
  /\ profiles' = [profiles EXCEPT ![p] = Rotated(@, p)]
  /\ UNCHANGED <<day, outbox, todo, client, scan, history, changes, failures>>

\* A task is started, completed, skipped or reopened (PlanStore).
ChangeTask(k) ==
  /\ changes < MaxChanges
  /\ changes' = changes + 1
  /\ todo' = IF k \in todo THEN todo \ {k} ELSE todo \cup {k}
  /\ excused' = excused \cup {PlanOf[k]}
  /\ UNCHANGED <<day, profiles, outbox, client, scan, consented, optedOut, mixed,
                 scanned, rotations, failures>>

\* ASSUMED: beat starts a scan every day, and it ends or dies before midnight.
\* A scan started by hand may go on.
NextDay ==
  /\ day < MaxDay /\ scanned
  /\ day' = day + 1
  /\ excused' = {} /\ scanned' = FALSE
  /\ UNCHANGED <<profiles, outbox, todo, client, scan, consented, optedOut, mixed, counters>>

-----------------------------------------------------------------------------
(* The dispatcher, in outline: rows are sent, on the day they are claimed  *)
(* or a later one, to the address they carry, or given up                  *)

Dispatch(p, d) ==
  /\ outbox[p][d].status = "pending"
  /\ \E status \in {"sent", "dead"} :
       outbox' = [outbox EXCEPT ![p][d].status = status,
                                ![p][d].sent_on = IF status = "sent" THEN day ELSE NotSent]
  /\ UNCHANGED <<day, profiles, todo, client, scan, history, counters>>

-----------------------------------------------------------------------------
(* A scan                                                                  *)

\* A scan goes on to its next profile, or is over.
GoOn(s, left, copies) ==
  /\ scan' = [scan EXCEPT ![s] =
       IF left = {} THEN IdleScan
       ELSE [at |-> "next", day |-> @.day, left |-> left, copy |-> copies, gone |-> @.gone]]
  /\ scanned' = (scanned \/ (left = {} /\ scan[s].day = day))

AllExpired == [p \in Profiles |-> Expired]

BeginScan(s) ==
  /\ scan[s].at = "idle"
  /\ LET found == {p \in Profiles : profiles[p] # NoProfile}
     IN  IF found = {}
         THEN scanned' = TRUE /\ UNCHANGED scan
         ELSE /\ scan' = [scan EXCEPT ![s] = [at |-> "next", day |-> day, left |-> found,
                                              copy |-> profiles, gone |-> optedOut]]
              /\ UNCHANGED scanned
  /\ UNCHANGED <<day, profiles, outbox, todo, client, consented, optedOut, mixed, excused, counters>>

\* The copy of profile p a scan looks at: loaded again if it has expired.
CopyOf(s, p) == IF scan[s].copy[p] = Expired THEN profiles[p] ELSE scan[s].copy[p]

\* Can p be sent to, and has it had its mail of the day?
CheckProfile(s) ==
  /\ scan[s].at = "next"
  /\ \E p \in scan[s].left :
       LET copies == [scan[s].copy EXCEPT ![p] = CopyOf(s, p)]
       IN  IF IsSendable(copies[p]) /\ SentOn(p, scan[s].day) < MaxPerDay
           THEN /\ scan' = [scan EXCEPT ![s] =
                     [at |-> "tasks", day |-> @.day, left |-> @.left, copy |-> copies,
                      gone |-> @.gone, profile |-> p]]
                /\ UNCHANGED scanned
           ELSE GoOn(s, scan[s].left \ {p}, copies)
  /\ UNCHANGED <<day, profiles, outbox, todo, client, consented, optedOut, mixed, excused, counters>>

SelectTasks(s) ==
  /\ scan[s].at = "tasks"
  /\ LET p == scan[s].profile
         tasks == DueSoon(p, scan[s].day)
     IN  IF tasks = {}
         THEN GoOn(s, scan[s].left \ {p}, scan[s].copy)
         ELSE /\ scan' = [scan EXCEPT ![s] =
                   [at |-> "enqueue", day |-> @.day, left |-> @.left, copy |-> @.copy,
                    gone |-> @.gone, profile |-> p, tasks |-> tasks]]
              /\ UNCHANGED scanned
  /\ UNCHANGED <<day, profiles, outbox, todo, client, consented, optedOut, mixed, excused, counters>>

\* The flush of the token locks the profile until the commit, so this is one
\* step.  If the day's row is there already, everything is rolled back.
EnqueueDueSoon(s) ==
  /\ scan[s].at = "enqueue"
  /\ LET p == scan[s].profile
         d == scan[s].day
         copy == scan[s].copy[p]
         new == Issued(profiles[p], copy, p)
     IN  IF outbox[p][d] = NoRow
         THEN /\ profiles' = [profiles EXCEPT ![p] = new]
              /\ outbox' = [outbox EXCEPT ![p][d] =
                              NewRow(copy.email, Token(p, copy.version), scan[s].tasks)]
              /\ GoOn(s, scan[s].left \ {p},
                      [scan[s].copy EXCEPT ![p].hash = Token(p, copy.version)])
         ELSE /\ GoOn(s, scan[s].left \ {p}, AllExpired)
              /\ UNCHANGED <<profiles, outbox>>
  /\ UNCHANGED <<day, todo, client, consented, optedOut, mixed, excused, counters>>

\* An exception at one profile: rollback, on to the next.
FailAtProfile(s) ==
  /\ scan[s].at # "idle"
  /\ failures < MaxFailures
  /\ failures' = failures + 1
  /\ \E p \in scan[s].left :
       /\ scan[s].at # "next" => p = scan[s].profile
       /\ GoOn(s, scan[s].left \ {p}, AllExpired)
       /\ excused' = excused \cup {p}
  /\ UNCHANGED <<day, profiles, outbox, todo, client, consented, optedOut, mixed, changes, rotations>>

\* The process dies.
Crash(s) ==
  /\ scan[s].at # "idle"
  /\ failures < MaxFailures
  /\ failures' = failures + 1
  /\ GoOn(s, {}, NoCopies)
  /\ excused' = excused \cup scan[s].left
  /\ UNCHANGED <<day, profiles, outbox, todo, client, consented, optedOut, mixed, changes, rotations>>

-----------------------------------------------------------------------------
(* Specification                                                           *)

Next ==
  \/ \E c \in Clients :
       \/ FindProfile(c) \/ CreateProfile(c) \/ RefreshProfile(c) \/ CreateClash(c)
       \/ UpsertProfile(c)
  \/ Unsubscribe
  \/ \E p \in Profiles : RotateUnsubscribeToken(p)
  \/ \E k \in Tasks : ChangeTask(k)
  \/ NextDay
  \/ \E p \in Profiles, d \in Days : Dispatch(p, d)
  \/ \E s \in Scans :
       \/ BeginScan(s) \/ CheckProfile(s) \/ SelectTasks(s) \/ EnqueueDueSoon(s)
       \/ FailAtProfile(s) \/ Crash(s)

Spec == Init /\ [][Next]_vars

-----------------------------------------------------------------------------
(* Properties                                                              *)

ClientState ==
  {IdleClient} \cup
  [at : {"create", "refresh", "update"}, profile : Profiles, body : Bodies, copy : Profile \cup {NoProfile}]

ScanCopies == [Profiles -> Profile \cup {NoProfile, Expired}]

ScanState ==
  {IdleScan}
  \cup [at : {"next"}, day : Days, left : SUBSET Profiles, copy : ScanCopies,
        gone : SUBSET Profiles]
  \cup [at : {"tasks"}, day : Days, left : SUBSET Profiles, copy : ScanCopies,
        gone : SUBSET Profiles, profile : Profiles]
  \cup [at : {"enqueue"}, day : Days, left : SUBSET Profiles, copy : ScanCopies,
        gone : SUBSET Profiles, profile : Profiles, tasks : SUBSET Tasks]

\* Every variable has its type; in particular an address is stored stripped,
\* or not at all.
TypeOK ==
  /\ day \in Days
  /\ profiles \in [Profiles -> Profile \cup {NoProfile}]
  /\ outbox \in [Profiles -> [Days -> Row \cup {NoRow}]]
  /\ todo \in SUBSET Tasks
  /\ client \in [Clients -> ClientState]
  /\ scan \in [Scans -> ScanState]
  /\ consented \in SUBSET (Profiles \X Emails)
  /\ optedOut \in SUBSET Profiles /\ mixed \in SUBSET Profiles /\ excused \in SUBSET Profiles
  /\ scanned \in BOOLEAN
  /\ changes \in 0..MaxChanges /\ rotations \in 0..MaxRotations /\ failures \in 0..MaxFailures

\* No two PUTs for the same plan are in flight at once.
PutsApart ==
  \A b, c \in Clients :
    client[b].at # "idle" /\ client[c].at # "idle" /\ client[b].profile = client[c].profile => b = c

\* No two scans are.
ScansApart ==
  \A s, t \in Scans : scan[s].at # "idle" /\ scan[t].at # "idle" => s = t

\* A reminder is addressed to nobody who has not agreed to it: consent given
\* for one address never lets a mail go to another, although a scan works
\* with copies of profiles and a PUT writes column by column.
ConsentedAddress ==
  \A p \in Profiles, d \in Days :
    outbox[p][d] # NoRow => <<p, outbox[p][d].to_email>> \in consented

\* The same, and no assumption on PUTs except that those for one plan that
\* overlap name one address: consent given and withdrawn by overlapping PUTs,
\* column by column and from old copies, is never consent to what an earlier or
\* later PUT names.  With two addresses at once it may be (RemindersConsent.cfg).
ConsentedUnlessMixed ==
  \A p \in Profiles \ mixed, d \in Days :
    outbox[p][d] # NoRow => <<p, outbox[p][d].to_email>> \in consented

\* The link in every reminder works until its token is rotated: the scan that
\* writes the row stores the hash, and neither a PUT, another scan nor a
\* rollback takes it away.
LinkWorks ==
  \A p \in Profiles, d \in Days :
    outbox[p][d] # NoRow /\ outbox[p][d].token = Token(p, profiles[p].version)
      => profiles[p].hash = outbox[p][d].token

\* Once somebody has opted out, no scan that starts later prepares a reminder
\* for the profile, whatever a PUT says (docs/API.md: sendable only if not
\* unsubscribed).
OptOutReachesScans ==
  \A s \in Scans : scan[s].at = "enqueue" => scan[s].profile \notin scan[s].gone

\* A day does not end without the reminder of a profile that had tasks due
\* soon and could be sent to all day: the day's row is there and lists exactly
\* these tasks, or a mail was sent today.  Failures at other profiles, rows of
\* other days and scans run by hand do not prevent it.
RemindedDaily ==
  [][day' # day =>
       \A p \in Profiles \ excused :
         profiles[p] # NoProfile /\ IsSendable(profiles[p]) /\ DueSoon(p, day) # {} =>
           \/ outbox[p][day] # NoRow /\ outbox[p][day].tasks = DueSoon(p, day)
           \/ \E d \in Days : outbox[p][d].status = "sent" /\ outbox[p][d].sent_on = day]_vars

-----------------------------------------------------------------------------
(* What the documentation says and the code does not keep                  *)

\* At most max_reminders_per_day mails a day go to a profile (docs/API.md:
\* daily cap).
DailyCap == \A p \in Profiles, d \in Days : SentOn(p, d) <= MaxPerDay

\* Nobody who has opted out gets another mail (docs/API.md: opt-out for
\* reminder mails).
OptOutStopsMails ==
  [][\A p \in Profiles, d \in Days :
       outbox[p][d].status # "sent" /\ outbox'[p][d].status = "sent" => p \notin optedOut]_vars

=============================================================================
