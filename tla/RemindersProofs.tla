-------------------------- MODULE RemindersProofs --------------------------
(***************************************************************************)
(* Theorems about Reminders, for any plans, addresses, tasks, days and     *)
(* numbers of requests and scans in flight.                                *)
(***************************************************************************)
EXTENDS Reminders, FiniteSetTheorems, TLAPS

-----------------------------------------------------------------------------
(* Profiles                                                                *)

LEMMA ProfileIsNothingElse ==
  ASSUME NEW x \in Profile
  PROVE  x # NoProfile /\ x # Expired
<1>1. "consent" \in DOMAIN x
  BY DEF Profile
<1>2. DOMAIN NoProfile = {"email"} /\ DOMAIN Expired = {"email"}
  BY DEF NoProfile, Expired
<1>3. "consent" \notin {"email"}
  OBVIOUS
<1> QED
  BY <1>1, <1>2, <1>3

LEMMA NewProfileType == NewProfile \in Profile
BY BoundAssumption DEF NewProfile, Profile, Tokens

LEMMA StoredEmailType ==
  ASSUME NEW body \in Bodies
  PROVE  StoredEmail(body.email) \in Emails \cup {NoEmail} /\ body.consent \in BOOLEAN
         /\ body.enabled \in BOOLEAN
BY InputAssumption DEF StoredEmail

LEMMA UpsertedType ==
  ASSUME NEW stored \in Profile, NEW copy \in Profile, NEW body \in Bodies
  PROVE  /\ Upserted(stored, copy, body) \in Profile
         /\ Upserted(stored, copy, body).unsubscribed = stored.unsubscribed
         /\ Upserted(stored, copy, body).version = stored.version
         /\ Upserted(stored, copy, body).hash = stored.hash
BY StoredEmailType DEF Upserted, Profile, Column

LEMMA IssuedType ==
  ASSUME NEW stored \in Profile, NEW copy \in Profile, NEW p \in Profiles
  PROVE  /\ Token(p, copy.version) \in Tokens \ {NoToken}
         /\ Issued(stored, copy, p) \in Profile
         /\ Issued(stored, copy, p).email = stored.email
         /\ Issued(stored, copy, p).consent = stored.consent
         /\ Issued(stored, copy, p).enabled = stored.enabled
         /\ Issued(stored, copy, p).unsubscribed = stored.unsubscribed
         /\ Issued(stored, copy, p).version = stored.version
         /\ Issued(stored, copy, p).hash = Column(stored.hash, copy.hash, Token(p, copy.version))
<1>1. Token(p, copy.version) \in Tokens
  BY DEF Tokens, Profile
<1>2. Token(p, copy.version) # NoToken
  BY DEF Token, NoToken
<1>3. Column(stored.hash, copy.hash, Token(p, copy.version)) \in Tokens
  BY <1>1 DEF Column, Profile
<1> HIDE DEF Column
<1> QED
  BY <1>1, <1>2, <1>3 DEF Issued, Profile

LEMMA RotatedType ==
  ASSUME NEW stored \in Profile, NEW p \in Profiles, stored.version <= MaxRotations
  PROVE  /\ Rotated(stored, p) \in Profile
         /\ Rotated(stored, p).email = stored.email
         /\ Rotated(stored, p).consent = stored.consent
         /\ Rotated(stored, p).enabled = stored.enabled
         /\ Rotated(stored, p).unsubscribed = stored.unsubscribed
         /\ Rotated(stored, p).version = stored.version + 1
         /\ Rotated(stored, p).hash = Token(p, stored.version + 1)
<1>1. stored.version + 1 \in 1..(MaxRotations + 1)
  BY BoundAssumption DEF Profile
<1>2. Token(p, stored.version + 1) \in Tokens
  BY <1>1 DEF Tokens
<1> HIDE DEF Token
<1> QED
  BY <1>1, <1>2 DEF Rotated, Profile

-----------------------------------------------------------------------------
(* Types, and what requests and scans know                                 *)

\* What becomes of profiles from one state to the next.
Stays(p) == profiles[p] # NoProfile => profiles'[p] # NoProfile

VersionsCounted ==
  \A p \in Profiles : profiles[p] # NoProfile => profiles[p].version <= rotations + 1

\* A request that goes on after the SELECT or the INSERT has found its profile.
ClientsKnow ==
  \A c \in Clients :
    /\ client[c].at \in {"refresh", "update"} => profiles[client[c].profile] # NoProfile
    /\ client[c].at = "update" => client[c].copy \in Profile

\* A scan visits profiles that exist, and prepares mails only for those whose
\* copy says that they may be sent to.
ScanKnows(s) ==
  /\ scan[s].at # "idle" =>
       \A p \in scan[s].left : scan[s].copy[p] # NoProfile /\ profiles[p] # NoProfile
  /\ scan[s].at \in {"tasks", "enqueue"} =>
       /\ scan[s].profile \in scan[s].left
       /\ scan[s].copy[scan[s].profile] \in Profile
       /\ IsSendable(scan[s].copy[scan[s].profile])

BaseInvariant ==
  /\ TypeOK
  /\ VersionsCounted
  /\ ClientsKnow
  /\ \A s \in Scans : ScanKnows(s)

LEMMA InitBase == Init => BaseInvariant
<1> SUFFICES ASSUME Init PROVE BaseInvariant
  OBVIOUS
<1>1. TypeOK
  <2>1. day \in Days /\ changes \in 0..MaxChanges /\ rotations \in 0..MaxRotations
        /\ failures \in 0..MaxFailures
    BY BoundAssumption DEF Init, Days
  <2>2. client \in [Clients -> ClientState] /\ scan \in [Scans -> ScanState]
    BY DEF Init, ClientState, ScanState
  <2> QED
    BY <2>1, <2>2 DEF Init, TypeOK
<1> QED
  BY <1>1
  DEF Init, BaseInvariant, VersionsCounted, ClientsKnow, ScanKnows, IdleClient, IdleScan

\* The fields of a scan that runs.
LEMMA ScanFields ==
  ASSUME TypeOK, NEW s \in Scans, scan[s].at # "idle"
  PROVE  /\ scan[s].at \in {"next", "tasks", "enqueue"}
         /\ scan[s].day \in Days /\ scan[s].left \in SUBSET Profiles
         /\ scan[s].copy \in ScanCopies /\ scan[s].gone \in SUBSET Profiles
         /\ scan[s].at \in {"tasks", "enqueue"} => scan[s].profile \in Profiles
         /\ scan[s].at = "enqueue" => scan[s].tasks \in SUBSET Tasks
<1>1. scan[s] \in ScanState
  BY DEF TypeOK
<1> HIDE DEF ScanCopies, Days
<1> QED
  BY <1>1 DEF ScanState, IdleScan

\* A scan that goes on keeps its day and what it knew of opt-outs.
LEMMA GoOnEffect ==
  ASSUME TypeOK, NEW s \in Scans, scan[s].at # "idle",
         NEW left \in SUBSET Profiles, NEW copies \in ScanCopies, GoOn(s, left, copies)
  PROVE  /\ scan' \in [Scans -> ScanState] /\ scanned' \in BOOLEAN
         /\ \A t \in Scans \ {s} : scan'[t] = scan[t]
         /\ left = {} => scan'[s].at = "idle"
         /\ left # {} => /\ scan'[s].at = "next" /\ scan'[s].day = scan[s].day
                         /\ scan'[s].left = left /\ scan'[s].copy = copies
                         /\ scan'[s].gone = scan[s].gone
<1> DEFINE new == IF left = {} THEN IdleScan
                  ELSE [at |-> "next", day |-> scan[s].day, left |-> left, copy |-> copies,
                        gone |-> scan[s].gone]
<1>1. scan[s].day \in Days /\ scan[s].gone \in SUBSET Profiles
  BY ScanFields
<1>2. new \in ScanState
  <2> HIDE DEF ScanCopies, Days
  <2> QED
    BY <1>1 DEF ScanState
<1>3. scan' = [scan EXCEPT ![s] = new] /\ scan \in [Scans -> ScanState]
  BY DEF GoOn, TypeOK
<1>4. scan'[s] = new /\ scan' \in [Scans -> ScanState] /\ \A t \in Scans \ {s} : scan'[t] = scan[t]
  <2> HIDE DEF new
  <2> QED
    BY <1>2, <1>3
<1>5. scanned' \in BOOLEAN
  BY DEF GoOn, TypeOK
<1> QED
  BY <1>4, <1>5 DEF IdleScan

\* A scan that has loaded p if its copy had expired.
Loaded(s, p) == [scan[s].copy EXCEPT ![p] = CopyOf(s, p)]

LEMMA LoadedType ==
  ASSUME BaseInvariant, NEW s \in Scans, scan[s].at # "idle", NEW p \in scan[s].left
  PROVE  /\ p \in Profiles
         /\ Loaded(s, p) \in ScanCopies /\ Loaded(s, p)[p] \in Profile
         /\ Loaded(s, p)[p] \in {scan[s].copy[p], profiles[p]}
         /\ scan[s].copy[p] # Expired => Loaded(s, p)[p] = scan[s].copy[p]
         /\ \A q \in Profiles \ {p} : Loaded(s, p)[q] = scan[s].copy[q]
<1>1. p \in Profiles /\ scan[s].copy \in [Profiles -> Profile \cup {NoProfile, Expired}]
  BY ScanFields DEF BaseInvariant, ScanCopies
<1>2. scan[s].copy[p] # NoProfile /\ profiles[p] # NoProfile
  BY DEF BaseInvariant, ScanKnows
<1>3. profiles[p] \in Profile
  BY <1>1, <1>2 DEF BaseInvariant, TypeOK
<1>4. CopyOf(s, p) \in Profile /\ CopyOf(s, p) \in {scan[s].copy[p], profiles[p]}
      /\ (scan[s].copy[p] # Expired => CopyOf(s, p) = scan[s].copy[p])
  BY <1>1, <1>2, <1>3 DEF CopyOf
<1> QED
  BY <1>1, <1>4 DEF Loaded, ScanCopies

\* What CheckProfile does.
LEMMA CheckEffect ==
  ASSUME BaseInvariant, NEW s \in Scans, CheckProfile(s)
  PROVE  \E p \in scan[s].left :
           /\ scan[s].at = "next"
           /\ \/ /\ IsSendable(Loaded(s, p)[p]) /\ SentOn(p, scan[s].day) < MaxPerDay
                 /\ scan' = [scan EXCEPT ![s] =
                               [at |-> "tasks", day |-> scan[s].day, left |-> scan[s].left,
                                copy |-> Loaded(s, p), gone |-> scan[s].gone, profile |-> p]]
                 /\ scan'[s] \in ScanState /\ scan' \in [Scans -> ScanState]
                 /\ scanned' = scanned
              \/ /\ ~(IsSendable(Loaded(s, p)[p]) /\ SentOn(p, scan[s].day) < MaxPerDay)
                 /\ GoOn(s, scan[s].left \ {p}, Loaded(s, p))
<1>1. scan[s].at = "next"
  BY DEF CheckProfile
<1>2. PICK p \in scan[s].left :
        IF IsSendable(Loaded(s, p)[p]) /\ SentOn(p, scan[s].day) < MaxPerDay
        THEN /\ scan' = [scan EXCEPT ![s] =
                           [at |-> "tasks", day |-> scan[s].day, left |-> scan[s].left,
                            copy |-> Loaded(s, p), gone |-> scan[s].gone, profile |-> p]]
             /\ scanned' = scanned
        ELSE GoOn(s, scan[s].left \ {p}, Loaded(s, p))
  BY Zenon DEF CheckProfile, Loaded
<1>3. p \in Profiles /\ Loaded(s, p) \in ScanCopies
  BY <1>1, LoadedType
<1>4. [at |-> "tasks", day |-> scan[s].day, left |-> scan[s].left,
       copy |-> Loaded(s, p), gone |-> scan[s].gone, profile |-> p] \in ScanState
  <2>1. /\ scan[s].day \in Days /\ scan[s].left \in SUBSET Profiles
        /\ scan[s].gone \in SUBSET Profiles
    BY <1>1, ScanFields DEF BaseInvariant
  <2> HIDE DEF ScanCopies, Days, Loaded
  <2> QED
    BY <1>3, <2>1 DEF ScanState
<1>5. scan \in [Scans -> ScanState]
  BY DEF BaseInvariant, TypeOK
<1> HIDE DEF GoOn, Loaded, IsSendable, SentOn, MaxPerDay
<1>6. CASE IsSendable(Loaded(s, p)[p]) /\ SentOn(p, scan[s].day) < MaxPerDay
  <2>1. /\ scan' = [scan EXCEPT ![s] =
                           [at |-> "tasks", day |-> scan[s].day, left |-> scan[s].left,
                            copy |-> Loaded(s, p), gone |-> scan[s].gone, profile |-> p]]
        /\ scanned' = scanned
    BY <1>2, <1>6
  <2>2. scan'[s] \in ScanState /\ scan' \in [Scans -> ScanState]
    BY <1>4, <1>5, <2>1
  <2> QED
    BY <1>1, <1>6, <2>1, <2>2
<1>7. CASE ~(IsSendable(Loaded(s, p)[p]) /\ SentOn(p, scan[s].day) < MaxPerDay)
  BY <1>1, <1>2, <1>7
<1> QED
  BY <1>6, <1>7

\* What SelectTasks does.
LEMMA SelectEffect ==
  ASSUME BaseInvariant, NEW s \in Scans, SelectTasks(s)
  PROVE  LET p == scan[s].profile
         IN  /\ scan[s].at = "tasks"
             /\ \/ /\ DueSoon(p, scan[s].day) # {}
                   /\ scan' = [scan EXCEPT ![s] =
                                 [at |-> "enqueue", day |-> scan[s].day, left |-> scan[s].left,
                                  copy |-> scan[s].copy, gone |-> scan[s].gone, profile |-> p,
                                  tasks |-> DueSoon(p, scan[s].day)]]
                   /\ scan'[s] \in ScanState /\ scan' \in [Scans -> ScanState]
                   /\ scanned' = scanned
                \/ DueSoon(p, scan[s].day) = {} /\ GoOn(s, scan[s].left \ {p}, scan[s].copy)
<1> DEFINE p == scan[s].profile
           due == DueSoon(p, scan[s].day)
           new == [at |-> "enqueue", day |-> scan[s].day, left |-> scan[s].left,
                   copy |-> scan[s].copy, gone |-> scan[s].gone, profile |-> p, tasks |-> due]
<1>1. scan[s].at = "tasks"
  BY DEF SelectTasks
<1>2. IF due = {}
      THEN GoOn(s, scan[s].left \ {p}, scan[s].copy)
      ELSE scan' = [scan EXCEPT ![s] = new] /\ scanned' = scanned
  BY Zenon DEF SelectTasks
<1>3. due \in SUBSET Tasks
  BY DEF DueSoon, BaseInvariant, TypeOK
<1>4. new \in ScanState
  <2>1. /\ scan[s].day \in Days /\ scan[s].left \in SUBSET Profiles /\ scan[s].copy \in ScanCopies
        /\ scan[s].gone \in SUBSET Profiles /\ p \in Profiles
    BY <1>1, ScanFields DEF BaseInvariant
  <2> HIDE DEF ScanCopies, Days, due, p
  <2> QED
    BY <1>3, <2>1 DEF ScanState
<1>5. scan \in [Scans -> ScanState]
  BY DEF BaseInvariant, TypeOK
<1>6. CASE due # {}
  <2> HIDE DEF new, due
  <2>1. scan' = [scan EXCEPT ![s] = new] /\ scanned' = scanned
    BY <1>2, <1>6
  <2>2. scan'[s] \in ScanState /\ scan' \in [Scans -> ScanState]
    BY <1>4, <1>5, <2>1
  <2> QED
    BY <1>1, <1>6, <2>1, <2>2 DEF new, due
<1>7. CASE due = {}
  BY <1>1, <1>2, <1>7
<1> QED
  BY <1>6, <1>7

\* What EnqueueDueSoon does.
LEMMA EnqueueEffect ==
  ASSUME BaseInvariant, NEW s \in Scans, EnqueueDueSoon(s)
  PROVE  LET p == scan[s].profile
             d == scan[s].day
             copy == scan[s].copy[p]
             row == NewRow(copy.email, Token(p, copy.version), scan[s].tasks)
             copies == [scan[s].copy EXCEPT ![p].hash = Token(p, copy.version)]
         IN  /\ scan[s].at = "enqueue" /\ p \in Profiles /\ p \in scan[s].left /\ d \in Days
             /\ profiles[p] \in Profile /\ copy \in Profile /\ IsSendable(copy)
             /\ \/ /\ outbox[p][d] = NoRow
                   /\ row \in Row
                   /\ profiles' = [profiles EXCEPT ![p] = Issued(profiles[p], copy, p)]
                   /\ outbox' = [outbox EXCEPT ![p][d] = row]
                   /\ copies \in ScanCopies
                   /\ GoOn(s, scan[s].left \ {p}, copies)
                \/ /\ outbox[p][d] # NoRow
                   /\ GoOn(s, scan[s].left \ {p}, AllExpired)
                   /\ UNCHANGED <<profiles, outbox>>
<1> DEFINE p == scan[s].profile
           d == scan[s].day
           copy == scan[s].copy[p]
           row == NewRow(copy.email, Token(p, copy.version), scan[s].tasks)
           copies == [scan[s].copy EXCEPT ![p].hash = Token(p, copy.version)]
<1>1. scan[s].at = "enqueue"
  BY DEF EnqueueDueSoon
<1>2. p \in Profiles /\ d \in Days /\ scan[s].tasks \in SUBSET Tasks /\ scan[s].copy \in ScanCopies
  BY <1>1, ScanFields DEF BaseInvariant
<1>3. p \in scan[s].left /\ copy \in Profile /\ IsSendable(copy)
  BY <1>1 DEF BaseInvariant, ScanKnows
<1>4. profiles[p] \in Profile
  BY <1>1, <1>2, <1>3 DEF BaseInvariant, ScanKnows, TypeOK
<1>5. Token(p, copy.version) \in Tokens \ {NoToken}
  BY <1>2, <1>3, IssuedType
<1>6. copy.email \in Emails
  BY <1>3 DEF IsSendable, Profile
<1>7. row \in Row
  <2>1. NotSent \in Days \cup {NotSent}
    OBVIOUS
  <2> HIDE DEF p, d, copy, Token
  <2> QED
    BY <1>2, <1>5, <1>6, <2>1 DEF NewRow, Row
<1>8. copies \in ScanCopies
  <2>1. [copy EXCEPT !.hash = Token(p, copy.version)] \in Profile
    BY <1>3, <1>5 DEF Profile
  <2>2. copies = [scan[s].copy EXCEPT ![p] = [copy EXCEPT !.hash = Token(p, copy.version)]]
    OBVIOUS
  <2> QED
    BY <1>2, <2>1, <2>2 DEF ScanCopies
<1>9. IF outbox[p][d] = NoRow
      THEN /\ profiles' = [profiles EXCEPT ![p] = Issued(profiles[p], copy, p)]
           /\ outbox' = [outbox EXCEPT ![p][d] = row]
           /\ GoOn(s, scan[s].left \ {p}, copies)
      ELSE GoOn(s, scan[s].left \ {p}, AllExpired) /\ UNCHANGED <<profiles, outbox>>
  BY Zenon DEF EnqueueDueSoon
<1> QED
  BY <1>1, <1>2, <1>3, <1>4, <1>7, <1>8, <1>9

LEMMA Written ==
  ASSUME TypeOK, NEW p \in Profiles, NEW new \in Profile, profiles' = [profiles EXCEPT ![p] = new]
  PROVE  /\ profiles' \in [Profiles -> Profile \cup {NoProfile}]
         /\ profiles'[p] = new
         /\ \A q \in Profiles \ {p} : profiles'[q] = profiles[q]
         /\ \A q \in Profiles : Stays(q)
BY ProfileIsNothingElse DEF TypeOK, Stays

LEMMA ClientFields ==
  ASSUME TypeOK, NEW c \in Clients, client[c].at # "idle"
  PROVE  /\ client[c].at \in {"create", "refresh", "update"}
         /\ client[c].profile \in Profiles /\ client[c].body \in Bodies
         /\ client[c].copy \in Profile \cup {NoProfile}
<1>1. client[c] \in ClientState
  BY DEF TypeOK
<1> HIDE DEF Profile
<1> QED
  BY <1>1 DEF ClientState, IdleClient

\* Whoever knew of a profile still does.
LEMMA KnowledgeStays ==
  ASSUME TypeOK, \A q \in Profiles : Stays(q)
  PROVE  /\ ClientsKnow /\ UNCHANGED client => ClientsKnow'
         /\ \A s \in Scans : ScanKnows(s) /\ scan'[s] = scan[s] => ScanKnows(s)'
<1>1. ASSUME ClientsKnow, UNCHANGED client PROVE ClientsKnow'
  <2>1. \A c \in Clients : client[c].at \in {"refresh", "update"} => client[c].profile \in Profiles
    BY ClientFields
  <2> QED
    BY <1>1, <2>1 DEF ClientsKnow, Stays
<1>2. ASSUME NEW s \in Scans, ScanKnows(s), scan'[s] = scan[s] PROVE ScanKnows(s)'
  <2>1. scan[s].at # "idle" => scan[s].left \in SUBSET Profiles
    BY ScanFields
  <2> QED
    BY <1>2, <2>1 DEF ScanKnows, Stays
<1> QED
  BY <1>1, <1>2

LEMMA GoOnKnows ==
  ASSUME BaseInvariant, NEW s \in Scans, scan[s].at # "idle",
         NEW left \in SUBSET scan[s].left, NEW copies \in ScanCopies, GoOn(s, left, copies),
         \A q \in left : copies[q] # NoProfile,
         \A q \in Profiles : Stays(q)
  PROVE  scan' \in [Scans -> ScanState] /\ scanned' \in BOOLEAN /\ \A t \in Scans : ScanKnows(t)'
<1>1. scan[s].left \in SUBSET Profiles /\ TypeOK
  BY ScanFields DEF BaseInvariant
<1>2. left \in SUBSET Profiles
  BY <1>1
<1>3. /\ scan' \in [Scans -> ScanState] /\ scanned' \in BOOLEAN
      /\ \A t \in Scans \ {s} : scan'[t] = scan[t]
      /\ left = {} => scan'[s].at = "idle"
      /\ left # {} => scan'[s].at = "next" /\ scan'[s].left = left /\ scan'[s].copy = copies
  BY <1>1, <1>2, GoOnEffect
<1>4. ScanKnows(s)'
  <2>1. \A q \in left : profiles'[q] # NoProfile
    BY <1>1 DEF BaseInvariant, ScanKnows, Stays
  <2> QED
    BY <1>3, <2>1 DEF ScanKnows
<1>5. \A t \in Scans \ {s} : ScanKnows(t)'
  BY <1>1, <1>3, KnowledgeStays DEF BaseInvariant
<1> QED
  BY <1>3, <1>4, <1>5

LEMMA GoOnWithoutKnows ==
  ASSUME BaseInvariant, NEW s \in Scans, scan[s].at # "idle",
         NEW p, NEW copies \in ScanCopies, GoOn(s, scan[s].left \ {p}, copies),
         \A q \in scan[s].left \ {p} : copies[q] # NoProfile,
         \A q \in Profiles : Stays(q)
  PROVE  scan' \in [Scans -> ScanState] /\ scanned' \in BOOLEAN /\ \A t \in Scans : ScanKnows(t)'
<1>1. scan[s].left \ {p} \in SUBSET scan[s].left
  OBVIOUS
<1> QED
  BY <1>1, GoOnKnows

\* Steps of requests, of recipients, of tasks and of time.
LEMMA OtherStepsBase ==
  ASSUME BaseInvariant,
         \/ \E c \in Clients :
              FindProfile(c) \/ CreateProfile(c) \/ RefreshProfile(c) \/ CreateClash(c)
              \/ UpsertProfile(c)
         \/ Unsubscribe
         \/ \E p \in Profiles : RotateUnsubscribeToken(p)
         \/ \E k \in Tasks : ChangeTask(k)
         \/ NextDay
         \/ \E p \in Profiles, d \in Days : Dispatch(p, d)
  PROVE  BaseInvariant'
<1> USE DEF BaseInvariant
<1>1. ASSUME NEW c \in Clients, FindProfile(c) PROVE BaseInvariant'
  <2>1. PICK p \in Profiles, body \in Bodies :
          /\ client' = [client EXCEPT ![c] =
               [at |-> IF profiles[p] = NoProfile THEN "create" ELSE "update",
                profile |-> p, body |-> body, copy |-> profiles[p]]]
          /\ mixed' \in {mixed, mixed \cup {p}}
    BY <1>1 DEF FindProfile
  <2> DEFINE new == [at |-> IF profiles[p] = NoProfile THEN "create" ELSE "update",
                     profile |-> p, body |-> body, copy |-> profiles[p]]
  <2>2. UNCHANGED <<day, profiles, outbox, todo, scan, consented, optedOut, excused, scanned,
                    rotations, failures>>
        /\ changes' = changes + 1 /\ changes < MaxChanges
    BY <1>1 DEF FindProfile
  <2>3. new \in ClientState
    BY DEF ClientState, TypeOK
  <2>4. client' \in [Clients -> ClientState] /\ client'[c] = new
        /\ \A d \in Clients \ {c} : client'[d] = client[d]
    <3> HIDE DEF new
    <3> QED
      BY <2>1, <2>3 DEF TypeOK, new
  <2>5. TypeOK'
    <3>1. changes' \in 0..MaxChanges /\ mixed' \in SUBSET Profiles
      BY <2>1, <2>2, BoundAssumption DEF TypeOK
    <3> HIDE DEF new
    <3> QED
      BY <2>2, <2>4, <3>1 DEF TypeOK
  <2>6. ClientsKnow'
    <3>1. new.at \in {"refresh", "update"} =>
            profiles[new.profile] # NoProfile /\ new.copy \in Profile
      BY DEF TypeOK
    <3> HIDE DEF new
    <3> QED
      BY <2>2, <2>4, <3>1 DEF ClientsKnow
  <2>7. \A s \in Scans : ScanKnows(s)'
    BY <2>2 DEF ScanKnows
  <2> QED
    BY <2>2, <2>5, <2>6, <2>7 DEF VersionsCounted
<1>2. ASSUME NEW c \in Clients, CreateProfile(c) PROVE BaseInvariant'
  <2> DEFINE p == client[c].profile
  <2>1. p \in Profiles /\ client[c].at = "create"
    BY <1>2, ClientFields DEF CreateProfile
  <2>2. /\ profiles' = [profiles EXCEPT ![p] = NewProfile]
        /\ client' = [client EXCEPT ![c].at = "refresh"]
        /\ UNCHANGED <<day, outbox, todo, scan, consented, optedOut, mixed, excused, scanned,
                       changes, rotations, failures>>
    BY <1>2 DEF CreateProfile, history, counters
  <2>3. /\ profiles' \in [Profiles -> Profile \cup {NoProfile}] /\ profiles'[p] = NewProfile
        /\ \A q \in Profiles \ {p} : profiles'[q] = profiles[q]
        /\ \A q \in Profiles : Stays(q)
    BY <2>1, <2>2, NewProfileType, Written
  <2>4. [client[c] EXCEPT !.at = "refresh"] \in ClientState
    <3>1. client[c] \in ClientState /\ client[c].at # "idle"
      BY <2>1 DEF TypeOK
    <3>2. client[c] \in [at : {"create", "refresh", "update"}, profile : Profiles,
                         body : Bodies, copy : Profile \cup {NoProfile}]
      BY <3>1 DEF ClientState, IdleClient
    <3> HIDE DEF BaseInvariant
    <3> QED
      BY <3>2 DEF ClientState
  <2>5. client' \in [Clients -> ClientState] /\ client'[c] = [client[c] EXCEPT !.at = "refresh"]
        /\ \A d \in Clients \ {c} : client'[d] = client[d]
    <3>1. client \in [Clients -> ClientState]
      BY DEF TypeOK
    <3>2. client' = [client EXCEPT ![c] = [client[c] EXCEPT !.at = "refresh"]]
      BY <2>2
    <3> QED
      BY <2>4, <3>1, <3>2
  <2>6. client'[c].profile = p /\ client'[c].at = "refresh"
    BY <2>1, <2>5 DEF TypeOK, ClientState, IdleClient
  <2>7. TypeOK'
    BY <2>2, <2>3, <2>5 DEF TypeOK
  <2>8. ClientsKnow'
    <3>1. profiles'[p] # NoProfile
      BY <2>3, NewProfileType, ProfileIsNothingElse
    <3>2. \A d \in Clients : client[d].at \in {"refresh", "update"} => client[d].profile \in Profiles
      BY ClientFields
    <3> QED
      BY ZenonT(40), <2>3, <2>5, <2>6, <3>1, <3>2 DEF ClientsKnow, Stays
  <2>9. \A s \in Scans : ScanKnows(s)'
    BY <2>2, <2>3, KnowledgeStays
  <2>10. VersionsCounted'
    BY <2>2, <2>3 DEF VersionsCounted, NewProfile, TypeOK
  <2> QED
    BY <2>7, <2>8, <2>9, <2>10
<1>3. ASSUME NEW c \in Clients, RefreshProfile(c) PROVE BaseInvariant'
  <2> DEFINE new == [client[c] EXCEPT !.at = "update", !.copy = profiles[client[c].profile]]
  <2>1. /\ client[c].at = "refresh" /\ client' = [client EXCEPT ![c] = new]
        /\ UNCHANGED <<day, profiles, outbox, todo, scan, consented, optedOut, mixed, excused, scanned,
                       changes, rotations, failures>>
    BY <1>3 DEF RefreshProfile, history, counters
  <2>2. client[c].profile \in Profiles /\ profiles[client[c].profile] \in Profile
    BY <2>1, ClientFields DEF ClientsKnow, TypeOK
  <2>3. new \in ClientState /\ new.profile = client[c].profile
        /\ new.copy = profiles[client[c].profile]
    <3>1. client[c] \in [at : {"create", "refresh", "update"}, profile : Profiles,
                           body : Bodies, copy : Profile \cup {NoProfile}]
      BY <2>1 DEF TypeOK, ClientState, IdleClient
    <3>2. new \in [at : {"create", "refresh", "update"}, profile : Profiles,
                   body : Bodies, copy : Profile \cup {NoProfile}]
          /\ new.profile = client[c].profile /\ new.copy = profiles[client[c].profile]
      <4> HIDE DEF Profile
      <4> QED
        BY <2>2, <3>1
    <3> QED
      BY <3>2 DEF ClientState
  <2>4. client' \in [Clients -> ClientState] /\ client'[c] = new
        /\ \A d \in Clients \ {c} : client'[d] = client[d]
    <3> HIDE DEF new
    <3> QED
      BY <2>1, <2>3 DEF TypeOK
  <2> HIDE DEF new
  <2>5. TypeOK'
    BY <2>1, <2>4 DEF TypeOK
  <2>6. ClientsKnow'
    BY <2>1, <2>2, <2>3, <2>4, ProfileIsNothingElse DEF ClientsKnow
  <2> QED
    BY <2>1, <2>5, <2>6 DEF VersionsCounted, ScanKnows
<1>4. ASSUME NEW c \in Clients, CreateClash(c) PROVE BaseInvariant'
  BY <1>4 DEF CreateClash, history, counters, TypeOK, VersionsCounted, ClientsKnow, ScanKnows,
              ClientState, IdleClient
<1>5. ASSUME NEW c \in Clients, UpsertProfile(c) PROVE BaseInvariant'
  <2> DEFINE p == client[c].profile
             body == client[c].body
             new == Upserted(profiles[p], client[c].copy, body)
  <2>1. p \in Profiles /\ body \in Bodies /\ profiles[p] \in Profile /\ client[c].copy \in Profile
    BY <1>5, ClientFields DEF UpsertProfile, ClientsKnow, TypeOK
  <2>2. /\ profiles' = [profiles EXCEPT ![p] = new]
        /\ client' = [client EXCEPT ![c] = IdleClient]
        /\ consented' \in {consented, consented \cup {<<p, StoredEmail(body.email)>>}}
        /\ StoredEmail(body.email) = NoEmail => consented' = consented
        /\ excused' = excused \cup {p}
        /\ UNCHANGED <<day, outbox, todo, scan, optedOut, mixed, scanned, changes, rotations, failures>>
    BY <1>5 DEF UpsertProfile, counters
  <2>3. new \in Profile /\ new.version = profiles[p].version
    BY <2>1, UpsertedType
  <2>4. consented' \in SUBSET (Profiles \X Emails)
    <3>1. CASE StoredEmail(body.email) \in Emails
      <4>1. consented \in SUBSET (Profiles \X Emails)
        BY DEF TypeOK
      <4>2. <<p, StoredEmail(body.email)>> \in Profiles \X Emails
        BY <2>1, <3>1
      <4> QED
        BY <2>2, <4>1, <4>2
    <3>2. CASE StoredEmail(body.email) = NoEmail
      BY <2>2, <3>2 DEF TypeOK
    <3> QED
      BY <2>1, <3>1, <3>2, StoredEmailType
  <2> HIDE DEF new
  <2>5. /\ profiles' \in [Profiles -> Profile \cup {NoProfile}] /\ profiles'[p] = new
        /\ \A q \in Profiles \ {p} : profiles'[q] = profiles[q]
        /\ \A q \in Profiles : Stays(q)
    BY <2>1, <2>2, <2>3, Written
  <2>6. client' \in [Clients -> ClientState] /\ client'[c].at = "idle"
        /\ \A d \in Clients \ {c} : client'[d] = client[d]
    BY <2>2 DEF TypeOK, ClientState, IdleClient
  <2>7. TypeOK'
    BY <2>1, <2>2, <2>4, <2>5, <2>6 DEF TypeOK
  <2>8. ClientsKnow'
    <3>1. \A d \in Clients : client[d].at \in {"refresh", "update"} => client[d].profile \in Profiles
      BY ClientFields
    <3> QED
      BY <2>5, <2>6, <3>1 DEF ClientsKnow, Stays
  <2>9. \A s \in Scans : ScanKnows(s)'
    BY <2>2, <2>5, KnowledgeStays
  <2>10. VersionsCounted'
    BY <2>1, <2>2, <2>3, <2>5, ProfileIsNothingElse DEF VersionsCounted
  <2> QED
    BY <2>7, <2>8, <2>9, <2>10
<1>6. ASSUME Unsubscribe PROVE BaseInvariant'
  <2>1. PICK p \in Profiles :
          /\ profiles[p] # NoProfile
          /\ profiles' = [profiles EXCEPT ![p].unsubscribed = TRUE]
          /\ optedOut' = optedOut \cup {p} /\ excused' = excused \cup {p}
          /\ UNCHANGED <<day, outbox, todo, client, scan, consented, mixed, scanned,
                         changes, rotations, failures>>
    BY <1>6 DEF Unsubscribe, counters
  <2> DEFINE new == [profiles[p] EXCEPT !.unsubscribed = TRUE]
  <2>2. profiles[p] \in Profile
    BY <2>1 DEF TypeOK
  <2>3. new \in Profile /\ new.version = profiles[p].version
    BY <2>2 DEF Profile
  <2>4. profiles' = [profiles EXCEPT ![p] = new]
    BY <2>1
  <2> HIDE DEF new
  <2>5. /\ profiles' \in [Profiles -> Profile \cup {NoProfile}] /\ profiles'[p] = new
        /\ \A q \in Profiles \ {p} : profiles'[q] = profiles[q]
        /\ \A q \in Profiles : Stays(q)
    BY <2>3, <2>4, Written
  <2>6. TypeOK'
    BY <2>1, <2>5 DEF TypeOK
  <2>7. ClientsKnow' /\ \A s \in Scans : ScanKnows(s)'
    BY <2>1, <2>5, KnowledgeStays
  <2>8. VersionsCounted'
    BY <2>1, <2>3, <2>5 DEF VersionsCounted
  <2> QED
    BY <2>6, <2>7, <2>8
<1>7. ASSUME NEW p \in Profiles, RotateUnsubscribeToken(p) PROVE BaseInvariant'
  <2> DEFINE new == Rotated(profiles[p], p)
  <2>1. /\ profiles[p] # NoProfile /\ rotations < MaxRotations /\ rotations' = rotations + 1
        /\ profiles' = [profiles EXCEPT ![p] = new]
        /\ UNCHANGED <<day, outbox, todo, client, scan, consented, optedOut, mixed, excused, scanned,
                       changes, failures>>
    BY <1>7 DEF RotateUnsubscribeToken, history
  <2>2. profiles[p] \in Profile /\ rotations \in 0..MaxRotations /\ rotations' \in 0..MaxRotations
    BY <2>1, BoundAssumption DEF TypeOK
  <2>3. profiles[p].version \in Nat /\ profiles[p].version <= rotations + 1
        /\ profiles[p].version <= MaxRotations
    BY <2>1, <2>2, BoundAssumption DEF VersionsCounted, Profile
  <2>4. new \in Profile /\ new.version = profiles[p].version + 1
    BY <2>2, <2>3, RotatedType
  <2> HIDE DEF new
  <2>5. /\ profiles' \in [Profiles -> Profile \cup {NoProfile}] /\ profiles'[p] = new
        /\ \A q \in Profiles \ {p} : profiles'[q] = profiles[q]
        /\ \A q \in Profiles : Stays(q)
    BY <2>1, <2>4, Written
  <2>6. TypeOK'
    BY <2>1, <2>2, <2>5 DEF TypeOK
  <2>7. ClientsKnow' /\ \A s \in Scans : ScanKnows(s)'
    BY <2>1, <2>5, KnowledgeStays
  <2>8. VersionsCounted'
    <3> SUFFICES ASSUME NEW q \in Profiles, profiles'[q] # NoProfile
                 PROVE  profiles'[q].version <= rotations' + 1
      BY DEF VersionsCounted
    <3>1. CASE q = p
      BY <2>1, <2>2, <2>3, <2>4, <2>5, <3>1
    <3>2. CASE q # p
      <4>1. profiles[q] \in Profile /\ profiles[q].version <= rotations + 1
        BY <2>5, <3>2 DEF VersionsCounted, TypeOK
      <4>2. profiles[q].version \in Nat
        BY <4>1 DEF Profile
      <4> QED
        BY <2>1, <2>2, <2>5, <3>2, <4>1, <4>2
    <3> QED
      BY <3>1, <3>2
  <2> QED
    BY <2>6, <2>7, <2>8
<1>8. ASSUME NEW k \in Tasks, ChangeTask(k) PROVE BaseInvariant'
  <2>1. PlanOf[k] \in Profiles
    BY InputAssumption
  <2>2. /\ changes' \in 0..MaxChanges /\ todo' \in SUBSET Tasks
        /\ excused' = excused \cup {PlanOf[k]}
    BY <1>8, BoundAssumption DEF ChangeTask, TypeOK
  <2>3. UNCHANGED <<day, profiles, outbox, client, scan, consented, optedOut, mixed, scanned,
                    rotations, failures>>
    BY <1>8 DEF ChangeTask
  <2>4. TypeOK'
    BY <2>1, <2>2, <2>3 DEF TypeOK
  <2> QED
    BY <2>3, <2>4 DEF VersionsCounted, ClientsKnow, ScanKnows
<1>9. ASSUME NextDay PROVE BaseInvariant'
  <2>1. day' \in Days
    BY <1>9, BoundAssumption DEF NextDay, TypeOK, Days
  <2>2. /\ excused' = {} /\ scanned' = FALSE
        /\ UNCHANGED <<profiles, outbox, todo, client, scan, consented, optedOut, mixed,
                       changes, rotations, failures>>
    BY <1>9 DEF NextDay, counters
  <2>3. TypeOK'
    BY <2>1, <2>2 DEF TypeOK
  <2> QED
    BY <2>2, <2>3 DEF VersionsCounted, ClientsKnow, ScanKnows
<1>10. ASSUME NEW p \in Profiles, NEW d \in Days, Dispatch(p, d) PROVE BaseInvariant'
  <2>1. PICK status \in {"sent", "dead"} :
          outbox' = [outbox EXCEPT ![p][d].status = status,
                                   ![p][d].sent_on = IF status = "sent" THEN day ELSE NotSent]
    BY <1>10 DEF Dispatch
  <2>2. outbox[p][d] \in Row
    BY <1>10 DEF Dispatch, TypeOK, NoRow
  <2>3. [outbox[p][d] EXCEPT !.status = status, !.sent_on = IF status = "sent" THEN day ELSE NotSent]
          \in Row
    BY <2>2 DEF Row, TypeOK
  <2>4. outbox' \in [Profiles -> [Days -> Row \cup {NoRow}]]
    BY ZenonT(40), <2>1, <2>3 DEF TypeOK
  <2> QED
    BY SMTT(30), <1>10, <2>4
    DEF Dispatch, history, counters, TypeOK, VersionsCounted, ClientsKnow, ScanKnows
<1> QED
  BY <1>1, <1>2, <1>3, <1>4, <1>5, <1>6, <1>7, <1>8, <1>9, <1>10

\* What a scan does to profiles and rows when it writes one.
LEMMA EnqueueWrites ==
  ASSUME BaseInvariant, NEW s \in Scans, EnqueueDueSoon(s)
  PROVE  /\ profiles' \in [Profiles -> Profile \cup {NoProfile}]
         /\ outbox' \in [Profiles -> [Days -> Row \cup {NoRow}]]
         /\ VersionsCounted'
         /\ \A q \in Profiles : Stays(q)
<1> DEFINE p == scan[s].profile
           d == scan[s].day
           copy == scan[s].copy[p]
           row == NewRow(copy.email, Token(p, copy.version), scan[s].tasks)
           new == Issued(profiles[p], copy, p)
<1>1. p \in Profiles /\ d \in Days /\ profiles[p] \in Profile /\ copy \in Profile
  BY EnqueueEffect
<1>2. \/ /\ row \in Row /\ profiles' = [profiles EXCEPT ![p] = new]
         /\ outbox' = [outbox EXCEPT ![p][d] = row]
      \/ UNCHANGED <<profiles, outbox>>
  BY EnqueueEffect
<1>3. new \in Profile /\ new.version = profiles[p].version
  BY ZenonT(40), <1>1, IssuedType
<1>4. rotations' = rotations
  BY DEF EnqueueDueSoon, counters
<1> HIDE DEF row, new
<1>5. CASE row \in Row /\ profiles' = [profiles EXCEPT ![p] = new]
           /\ outbox' = [outbox EXCEPT ![p][d] = row]
  <2>1. /\ profiles' \in [Profiles -> Profile \cup {NoProfile}] /\ profiles'[p] = new
        /\ \A q \in Profiles \ {p} : profiles'[q] = profiles[q]
        /\ \A q \in Profiles : Stays(q)
    BY <1>1, <1>3, <1>5, Written DEF BaseInvariant
  <2>2. outbox' \in [Profiles -> [Days -> Row \cup {NoRow}]]
    <3> HIDE DEF p, d
    <3> QED
      BY <1>1, <1>5 DEF BaseInvariant, TypeOK
  <2>3. VersionsCounted'
    BY <1>1, <1>3, <1>4, <2>1, ProfileIsNothingElse DEF BaseInvariant, VersionsCounted
  <2> QED
    BY <2>1, <2>2, <2>3
<1>6. CASE UNCHANGED <<profiles, outbox>>
  BY <1>4, <1>6 DEF BaseInvariant, TypeOK, VersionsCounted, Stays
<1> QED
  BY <1>2, <1>5, <1>6

LEMMA ScanStepsBase ==
  ASSUME BaseInvariant, NEW s \in Scans,
         \/ BeginScan(s) \/ CheckProfile(s) \/ SelectTasks(s) \/ EnqueueDueSoon(s)
         \/ FailAtProfile(s) \/ Crash(s)
  PROVE  BaseInvariant'
<1>0. TypeOK /\ VersionsCounted /\ ClientsKnow /\ (\A t \in Scans : ScanKnows(t))
  BY DEF BaseInvariant
<1>1. ASSUME BeginScan(s) PROVE BaseInvariant'
  <2> DEFINE found == {p \in Profiles : profiles[p] # NoProfile}
             new == [at |-> "next", day |-> day, left |-> found, copy |-> profiles,
                     gone |-> optedOut]
  <2>1. /\ \/ scanned' = TRUE /\ UNCHANGED scan
           \/ scan' = [scan EXCEPT ![s] = new] /\ UNCHANGED scanned
        /\ UNCHANGED <<day, profiles, outbox, todo, client, consented, optedOut, mixed, excused,
                       changes, rotations, failures>>
    BY <1>1 DEF BeginScan, counters
  <2>2. new \in ScanState
    BY <1>0 DEF TypeOK, ScanState, ScanCopies
  <2>3. CASE scanned' = TRUE /\ UNCHANGED scan
    BY <1>0, <2>1, <2>3 DEF BaseInvariant, TypeOK, VersionsCounted, ClientsKnow, ScanKnows
  <2>4. CASE scan' = [scan EXCEPT ![s] = new] /\ UNCHANGED scanned
    <3>1. new.at = "next" /\ new.left = found /\ new.copy = profiles
      OBVIOUS
    <3>2. scan' \in [Scans -> ScanState] /\ scan'[s] = new
          /\ \A t \in Scans \ {s} : scan'[t] = scan[t]
      <4> HIDE DEF new
      <4> QED
        BY <1>0, <2>2, <2>4 DEF TypeOK
    <3> HIDE DEF new
    <3>3. TypeOK'
      BY <1>0, <2>1, <2>4, <3>2 DEF TypeOK
    <3>4. ScanKnows(s)'
      BY <2>1, <3>1, <3>2 DEF ScanKnows
    <3>5. \A t \in Scans \ {s} : ScanKnows(t)'
      BY <1>0, <2>1, <3>2 DEF ScanKnows
    <3> QED
      BY <1>0, <2>1, <3>3, <3>4, <3>5 DEF BaseInvariant, VersionsCounted, ClientsKnow
  <2> QED
    BY <2>1, <2>3, <2>4
<1>2. ASSUME scan' \in [Scans -> ScanState], scanned' \in BOOLEAN, \A t \in Scans : ScanKnows(t)',
             UNCHANGED <<day, profiles, outbox, todo, client, consented, optedOut, mixed, excused,
                         changes, rotations, failures>>
      PROVE  BaseInvariant'
  BY <1>0, <1>2 DEF BaseInvariant, TypeOK, VersionsCounted, ClientsKnow
<1>3. ASSUME CheckProfile(s) PROVE BaseInvariant'
  <2>1. UNCHANGED <<day, profiles, outbox, todo, client, consented, optedOut, mixed, excused,
                    changes, rotations, failures>>
    BY <1>3 DEF CheckProfile, counters
  <2>2. PICK p \in scan[s].left :
          /\ scan[s].at = "next"
          /\ \/ /\ IsSendable(Loaded(s, p)[p])
                /\ scan' = [scan EXCEPT ![s] =
                               [at |-> "tasks", day |-> scan[s].day, left |-> scan[s].left,
                                copy |-> Loaded(s, p), gone |-> scan[s].gone, profile |-> p]]
                /\ scan' \in [Scans -> ScanState]
                /\ scanned' = scanned
             \/ GoOn(s, scan[s].left \ {p}, Loaded(s, p))
    BY <1>3, CheckEffect
  <2>3. /\ p \in Profiles /\ Loaded(s, p) \in ScanCopies /\ Loaded(s, p)[p] \in Profile
        /\ \A q \in Profiles \ {p} : Loaded(s, p)[q] = scan[s].copy[q]
        /\ scan[s].left \in SUBSET Profiles
    BY <1>0, <2>2, LoadedType, ScanFields
  <2>4. \A q \in scan[s].left : Loaded(s, p)[q] # NoProfile
    BY <1>0, <2>2, <2>3, ProfileIsNothingElse DEF ScanKnows
  <2>5. CASE GoOn(s, scan[s].left \ {p}, Loaded(s, p))
    <3>1. \A q \in Profiles : Stays(q)
      BY <2>1 DEF Stays
    <3>2. scan' \in [Scans -> ScanState] /\ scanned' \in BOOLEAN /\ \A t \in Scans : ScanKnows(t)'
      <4>1. scan[s].at # "idle" /\ \A q \in scan[s].left \ {p} : Loaded(s, p)[q] # NoProfile
        BY <2>2, <2>4
      <4>2. Loaded(s, p) \in ScanCopies
        BY <2>3
      <4> QED
        BY ZenonT(40), <2>5, <3>1, <4>1, <4>2, GoOnWithoutKnows
    <3> QED
      BY <1>2, <2>1, <3>2
  <2>6. CASE /\ IsSendable(Loaded(s, p)[p])
             /\ scan' = [scan EXCEPT ![s] =
                            [at |-> "tasks", day |-> scan[s].day, left |-> scan[s].left,
                             copy |-> Loaded(s, p), gone |-> scan[s].gone, profile |-> p]]
             /\ scan' \in [Scans -> ScanState]
             /\ scanned' = scanned
    <3>1. /\ scan'[s].at = "tasks" /\ scan'[s].left = scan[s].left
          /\ scan'[s].copy = Loaded(s, p) /\ scan'[s].profile = p
          /\ \A t \in Scans \ {s} : scan'[t] = scan[t]
      BY <1>0, <2>6 DEF TypeOK
    <3>2. ScanKnows(s)'
      BY <1>0, <2>1, <2>2, <2>3, <2>4, <2>6, <3>1 DEF ScanKnows
    <3>3. \A t \in Scans : ScanKnows(t)'
      BY <1>0, <2>1, <3>1, <3>2 DEF ScanKnows
    <3> QED
      BY <1>0, <1>2, <2>1, <2>6, <3>3 DEF TypeOK
  <2> QED
    BY <2>2, <2>5, <2>6
<1>4. ASSUME SelectTasks(s) PROVE BaseInvariant'
  <2>0. PICK p : p = scan[s].profile
    OBVIOUS
  <2> DEFINE due == DueSoon(p, scan[s].day)
  <2>1. UNCHANGED <<day, profiles, outbox, todo, client, consented, optedOut, mixed, excused,
                    changes, rotations, failures>>
    BY <1>4 DEF SelectTasks, counters
  <2>2. /\ scan[s].at = "tasks"
        /\ \/ /\ scan' = [scan EXCEPT ![s] =
                             [at |-> "enqueue", day |-> scan[s].day, left |-> scan[s].left,
                              copy |-> scan[s].copy, gone |-> scan[s].gone, profile |-> p,
                              tasks |-> due]]
              /\ scan' \in [Scans -> ScanState]
              /\ scanned' = scanned
           \/ GoOn(s, scan[s].left \ {p}, scan[s].copy)
    BY <1>4, <2>0, SelectEffect
  <2>3. scan[s].copy \in ScanCopies /\ \A q \in scan[s].left : scan[s].copy[q] # NoProfile
    BY <1>0, <2>2, ScanFields DEF ScanKnows
  <2>4. CASE GoOn(s, scan[s].left \ {p}, scan[s].copy)
    <3>1. \A q \in Profiles : Stays(q)
      BY <2>1 DEF Stays
    <3>2. scan' \in [Scans -> ScanState] /\ scanned' \in BOOLEAN /\ \A t \in Scans : ScanKnows(t)'
      <4>1. scan[s].at # "idle" /\ \A q \in scan[s].left \ {p} : scan[s].copy[q] # NoProfile
        BY <2>2, <2>3
      <4> QED
        BY <2>3, <2>4, <3>1, <4>1, GoOnWithoutKnows
    <3> QED
      BY <1>2, <2>1, <3>2
  <2>5. CASE /\ scan' = [scan EXCEPT ![s] =
                            [at |-> "enqueue", day |-> scan[s].day, left |-> scan[s].left,
                             copy |-> scan[s].copy, gone |-> scan[s].gone, profile |-> p,
                             tasks |-> due]]
             /\ scan' \in [Scans -> ScanState]
             /\ scanned' = scanned
    <3>1. /\ scan'[s].at = "enqueue" /\ scan'[s].left = scan[s].left
          /\ scan'[s].copy = scan[s].copy /\ scan'[s].profile = scan[s].profile
          /\ \A t \in Scans \ {s} : scan'[t] = scan[t]
      BY <1>0, <2>0, <2>5 DEF TypeOK
    <3>2. ScanKnows(s)'
      BY <1>0, <2>1, <2>2, <3>1 DEF ScanKnows
    <3>3. \A t \in Scans : ScanKnows(t)'
      BY <1>0, <2>1, <3>1, <3>2 DEF ScanKnows
    <3> QED
      BY <1>0, <1>2, <2>1, <2>5, <3>3 DEF TypeOK
  <2> QED
    BY <2>2, <2>4, <2>5
<1>5. AllExpired \in ScanCopies /\ NoCopies \in ScanCopies /\ \A q \in Profiles : AllExpired[q] # NoProfile
  <2>1. Expired # NoProfile
    BY DEF Expired, NoProfile
  <2> QED
    BY <2>1 DEF AllExpired, NoCopies, ScanCopies
<1>6. ASSUME EnqueueDueSoon(s) PROVE BaseInvariant'
  <2>0. PICK p, copies :
          /\ p = scan[s].profile
          /\ copies = [scan[s].copy EXCEPT ![p].hash = Token(p, scan[s].copy[p].version)]
    OBVIOUS
  <2>1. UNCHANGED <<day, todo, client, consented, optedOut, mixed, excused, changes, rotations, failures>>
    BY <1>6 DEF EnqueueDueSoon, counters
  <2>2. /\ profiles' \in [Profiles -> Profile \cup {NoProfile}]
        /\ outbox' \in [Profiles -> [Days -> Row \cup {NoRow}]]
        /\ VersionsCounted'
        /\ \A q \in Profiles : Stays(q)
    BY <1>6, EnqueueWrites
  <2>3. /\ scan[s].at = "enqueue"
        /\ \/ copies \in ScanCopies /\ GoOn(s, scan[s].left \ {p}, copies)
           \/ GoOn(s, scan[s].left \ {p}, AllExpired)
    BY <1>6, <2>0, EnqueueEffect
  <2>4. scan[s].left \in SUBSET Profiles /\ scan[s].copy \in ScanCopies
    BY <1>0, <2>3, ScanFields
  <2>5. \A q \in scan[s].left \ {p} : copies[q] = scan[s].copy[q] /\ copies[q] # NoProfile
    BY <1>0, <2>0, <2>3, <2>4 DEF ScanKnows, ScanCopies
  <2>6. scan' \in [Scans -> ScanState] /\ scanned' \in BOOLEAN /\ \A t \in Scans : ScanKnows(t)'
    <3>1. CASE copies \in ScanCopies /\ GoOn(s, scan[s].left \ {p}, copies)
      <4>1. scan[s].at # "idle"
        BY <2>3
      <4>2. \A q \in scan[s].left \ {p} : copies[q] # NoProfile
        BY <2>5
      <4>3. \A q \in Profiles : Stays(q)
        BY <2>2
      <4> QED
        BY ZenonT(40), <3>1, <4>1, <4>2, <4>3, GoOnWithoutKnows
    <3>2. CASE GoOn(s, scan[s].left \ {p}, AllExpired)
      <4>1. scan[s].at # "idle" /\ \A q \in scan[s].left \ {p} : AllExpired[q] # NoProfile
        BY <1>5, <2>3, <2>4
      <4>2. AllExpired \in ScanCopies
        BY <1>5
      <4>3. \A q \in Profiles : Stays(q)
        BY <2>2
      <4> QED
        BY ZenonT(40), <3>2, <4>1, <4>2, <4>3, GoOnWithoutKnows
    <3> QED
      BY <2>3, <3>1, <3>2
  <2>7. ClientsKnow'
    BY <1>0, <2>1, <2>2, KnowledgeStays
  <2>8. TypeOK'
    BY <1>0, <2>1, <2>2, <2>6 DEF TypeOK
  <2> QED
    BY <2>2, <2>6, <2>7, <2>8 DEF BaseInvariant
<1>7. ASSUME NEW left \in SUBSET scan[s].left, NEW copies \in {AllExpired, NoCopies},
             scan[s].at # "idle", GoOn(s, left, copies),
             copies = NoCopies => left = {},
             failures < MaxFailures, failures' = failures + 1, excused' \in SUBSET Profiles,
             UNCHANGED <<day, profiles, outbox, todo, client, consented, optedOut, mixed, changes, rotations>>
      PROVE  BaseInvariant'
  <2>1. scan[s].left \in SUBSET Profiles
    BY <1>0, <1>7, ScanFields
  <2>2. \A q \in left : copies[q] # NoProfile
    BY <1>5, <1>7, <2>1
  <2>3. \A q \in Profiles : Stays(q)
    BY <1>7 DEF Stays
  <2>4. scan' \in [Scans -> ScanState] /\ scanned' \in BOOLEAN /\ \A t \in Scans : ScanKnows(t)'
    BY <1>5, <1>7, <2>2, <2>3, GoOnKnows
  <2>5. failures' \in 0..MaxFailures
    BY <1>0, <1>7, BoundAssumption DEF TypeOK
  <2> QED
    BY <1>0, <1>7, <2>4, <2>5 DEF BaseInvariant, TypeOK, VersionsCounted, ClientsKnow
<1>8. ASSUME FailAtProfile(s) PROVE BaseInvariant'
  <2>1. PICK p \in scan[s].left : GoOn(s, scan[s].left \ {p}, AllExpired) /\ excused' = excused \cup {p}
    BY <1>8 DEF FailAtProfile
  <2>2. scan[s].at # "idle" /\ scan[s].left \in SUBSET Profiles
    BY <1>0, <1>8, ScanFields DEF FailAtProfile
  <2>3. excused' \in SUBSET Profiles
    BY <1>0, <2>1, <2>2 DEF TypeOK
  <2>4. AllExpired = NoCopies => scan[s].left \ {p} = {}
    BY <1>5, <2>1, <2>2 DEF NoCopies
  <2> QED
    BY <1>7, <1>8, <2>1, <2>2, <2>3, <2>4 DEF FailAtProfile
<1>9. ASSUME Crash(s) PROVE BaseInvariant'
  <2>1. scan[s].at # "idle" /\ scan[s].left \in SUBSET Profiles
    BY <1>0, <1>9, ScanFields DEF Crash
  <2>2. excused' \in SUBSET Profiles
    BY <1>0, <1>9, <2>1 DEF Crash, TypeOK
  <2>3. GoOn(s, {}, NoCopies) /\ {} \in SUBSET scan[s].left
    BY <1>9 DEF Crash
  <2> QED
    BY <1>7, <1>9, <2>1, <2>2, <2>3 DEF Crash
<1> QED
  BY <1>1, <1>3, <1>4, <1>6, <1>8, <1>9

LEMMA NextBase == BaseInvariant /\ [Next]_vars => BaseInvariant'
<1> SUFFICES ASSUME BaseInvariant, [Next]_vars PROVE BaseInvariant'
  OBVIOUS
<1>1. CASE UNCHANGED vars
  BY <1>1 DEF vars, history, counters, BaseInvariant, TypeOK, VersionsCounted, ClientsKnow, ScanKnows
<1>2. CASE Next
  BY <1>2, OtherStepsBase, ScanStepsBase DEF Next
<1> QED
  BY <1>1, <1>2

LEMMA AlwaysBase == Spec => []BaseInvariant
BY InitBase, NextBase, PTL DEF Spec

\* Every variable has its type, whatever overlaps.
THEOREM TypeCorrect == Spec => []TypeOK
<1>1. BaseInvariant => TypeOK
  BY DEF BaseInvariant
<1> QED
  BY <1>1, AlwaysBase, PTL

-----------------------------------------------------------------------------
(* What a step does to the copies of a scan                                *)

ScanStep(s) ==
  BeginScan(s) \/ CheckProfile(s) \/ SelectTasks(s) \/ EnqueueDueSoon(s)
  \/ FailAtProfile(s) \/ Crash(s)

\* The scan begins, with the profiles as they are ...
Begins(s) ==
  /\ scan[s].at = "idle" /\ scan'[s].at = "next"
  /\ scan'[s].day = day /\ scan'[s].gone = optedOut
  /\ scan'[s].left = {p \in Profiles : profiles[p] # NoProfile}
  /\ scan'[s].copy = profiles

\* ... or goes on with the copies it had, reloaded or expired ones.
Continues(s) ==
  /\ scan[s].at # "idle"
  /\ scan'[s].day = scan[s].day /\ scan'[s].gone = scan[s].gone
  /\ scan'[s].left \subseteq scan[s].left
  /\ \A p \in scan'[s].left : scan'[s].copy[p] \in {scan[s].copy[p], profiles[p], Expired}

LEMMA GoOnContinues ==
  ASSUME BaseInvariant, NEW s \in Scans, scan[s].at # "idle",
         NEW left \in SUBSET scan[s].left, NEW copies \in ScanCopies, GoOn(s, left, copies),
         \A p \in left : copies[p] \in {scan[s].copy[p], profiles[p], Expired}
  PROVE  /\ \A t \in Scans \ {s} : scan'[t] = scan[t]
         /\ scan'[s].at = "idle" \/ Continues(s)
<1>1. scan[s].left \in SUBSET Profiles /\ TypeOK
  BY ScanFields DEF BaseInvariant
<1>2. left \in SUBSET Profiles
  BY <1>1
<1>3. /\ \A t \in Scans \ {s} : scan'[t] = scan[t]
      /\ left = {} => scan'[s].at = "idle"
      /\ left # {} => scan'[s].at = "next" /\ scan'[s].day = scan[s].day /\ scan'[s].left = left
                      /\ scan'[s].copy = copies /\ scan'[s].gone = scan[s].gone
  BY <1>1, <1>2, GoOnEffect
<1> QED
  BY <1>3 DEF Continues

LEMMA ScanStepCopies ==
  ASSUME BaseInvariant, NEW s \in Scans, ScanStep(s)
  PROVE  /\ \A t \in Scans \ {s} : scan'[t] = scan[t]
         /\ scan'[s].at = "idle" \/ Begins(s) \/ Continues(s)
<1>0. TypeOK
  BY DEF BaseInvariant
<1>1. AllExpired \in ScanCopies /\ NoCopies \in ScanCopies
      /\ \A p \in Profiles : AllExpired[p] = Expired
  BY DEF AllExpired, NoCopies, ScanCopies
<1>2. CASE BeginScan(s)
  BY <1>0, <1>2 DEF BeginScan, Begins, TypeOK
<1>3. CASE CheckProfile(s)
  <2>1. PICK p \in scan[s].left :
          /\ scan[s].at = "next"
          /\ \/ scan' = [scan EXCEPT ![s] =
                           [at |-> "tasks", day |-> scan[s].day, left |-> scan[s].left,
                            copy |-> Loaded(s, p), gone |-> scan[s].gone, profile |-> p]]
             \/ GoOn(s, scan[s].left \ {p}, Loaded(s, p))
    BY <1>3, CheckEffect
  <2>2. /\ scan[s].at # "idle" /\ Loaded(s, p) \in ScanCopies
        /\ Loaded(s, p)[p] \in {scan[s].copy[p], profiles[p]}
        /\ \A q \in Profiles \ {p} : Loaded(s, p)[q] = scan[s].copy[q]
        /\ scan[s].left \in SUBSET Profiles
    BY <1>0, <2>1, LoadedType, ScanFields
  <2>3. \A q \in scan[s].left : Loaded(s, p)[q] \in {scan[s].copy[q], profiles[q], Expired}
    BY <2>2
  <2>4. CASE GoOn(s, scan[s].left \ {p}, Loaded(s, p))
    <3>1. /\ scan[s].left \ {p} \in SUBSET scan[s].left
          /\ \A q \in scan[s].left \ {p} : Loaded(s, p)[q] \in {scan[s].copy[q], profiles[q], Expired}
      BY <2>3
    <3>2. scan[s].at # "idle" /\ Loaded(s, p) \in ScanCopies
      BY <2>2
    <3> QED
      BY <2>4, <3>1, <3>2, GoOnContinues
  <2>5. CASE scan' = [scan EXCEPT ![s] =
                        [at |-> "tasks", day |-> scan[s].day, left |-> scan[s].left,
                         copy |-> Loaded(s, p), gone |-> scan[s].gone, profile |-> p]]
    <3>1. /\ scan'[s].day = scan[s].day /\ scan'[s].left = scan[s].left
          /\ scan'[s].copy = Loaded(s, p) /\ scan'[s].gone = scan[s].gone
          /\ \A t \in Scans \ {s} : scan'[t] = scan[t]
      BY <1>0, <2>5 DEF TypeOK
    <3> QED
      BY <2>2, <2>3, <3>1 DEF Continues
  <2> QED
    BY <2>1, <2>4, <2>5
<1>4. CASE SelectTasks(s)
  <2>0. PICK p, due : p = scan[s].profile /\ due = DueSoon(p, scan[s].day)
    OBVIOUS
  <2>1. /\ scan[s].at = "tasks"
        /\ \/ scan' = [scan EXCEPT ![s] =
                         [at |-> "enqueue", day |-> scan[s].day, left |-> scan[s].left,
                          copy |-> scan[s].copy, gone |-> scan[s].gone, profile |-> p,
                          tasks |-> due]]
           \/ GoOn(s, scan[s].left \ {p}, scan[s].copy)
    BY <1>4, <2>0, SelectEffect
  <2>2. scan[s].at # "idle" /\ scan[s].copy \in ScanCopies
    BY <1>0, <2>1, ScanFields
  <2>3. CASE GoOn(s, scan[s].left \ {p}, scan[s].copy)
    <3>1. /\ scan[s].left \ {p} \in SUBSET scan[s].left
          /\ \A q \in scan[s].left \ {p} : scan[s].copy[q] \in {scan[s].copy[q], profiles[q], Expired}
      OBVIOUS
    <3> QED
      BY <2>2, <2>3, <3>1, GoOnContinues
  <2>4. CASE scan' = [scan EXCEPT ![s] =
                        [at |-> "enqueue", day |-> scan[s].day, left |-> scan[s].left,
                         copy |-> scan[s].copy, gone |-> scan[s].gone, profile |-> p,
                         tasks |-> due]]
    <3>1. /\ scan'[s].day = scan[s].day /\ scan'[s].left = scan[s].left
          /\ scan'[s].copy = scan[s].copy /\ scan'[s].gone = scan[s].gone
          /\ \A t \in Scans \ {s} : scan'[t] = scan[t]
      BY <1>0, <2>4 DEF TypeOK
    <3> QED
      BY <2>2, <3>1 DEF Continues
  <2> QED
    BY <2>1, <2>3, <2>4
<1>5. CASE EnqueueDueSoon(s)
  <2>0. PICK p, copies :
          /\ p = scan[s].profile
          /\ copies = [scan[s].copy EXCEPT ![p].hash = Token(p, scan[s].copy[p].version)]
    OBVIOUS
  <2>1. /\ scan[s].at = "enqueue"
        /\ \/ copies \in ScanCopies /\ GoOn(s, scan[s].left \ {p}, copies)
           \/ GoOn(s, scan[s].left \ {p}, AllExpired)
    BY <1>5, <2>0, EnqueueEffect
  <2>2. scan[s].at # "idle" /\ scan[s].left \in SUBSET Profiles /\ scan[s].copy \in ScanCopies
    BY <1>0, <2>1, ScanFields
  <2>3. /\ scan[s].left \ {p} \in SUBSET scan[s].left
        /\ \A q \in scan[s].left \ {p} : copies[q] \in {scan[s].copy[q], profiles[q], Expired}
        /\ \A q \in scan[s].left \ {p} : AllExpired[q] \in {scan[s].copy[q], profiles[q], Expired}
    BY <1>1, <2>0, <2>2 DEF ScanCopies
  <2>4. CASE copies \in ScanCopies /\ GoOn(s, scan[s].left \ {p}, copies)
    BY <2>2, <2>3, <2>4, GoOnContinues
  <2>5. CASE GoOn(s, scan[s].left \ {p}, AllExpired)
    BY <1>1, <2>2, <2>3, <2>5, GoOnContinues
  <2> QED
    BY <2>1, <2>4, <2>5
<1>6. CASE FailAtProfile(s)
  <2>1. PICK p \in scan[s].left : GoOn(s, scan[s].left \ {p}, AllExpired)
    BY <1>6 DEF FailAtProfile
  <2>2. scan[s].at # "idle" /\ scan[s].left \in SUBSET Profiles
    BY <1>0, <1>6, ScanFields DEF FailAtProfile
  <2>3. /\ scan[s].left \ {p} \in SUBSET scan[s].left
        /\ \A q \in scan[s].left \ {p} : AllExpired[q] \in {scan[s].copy[q], profiles[q], Expired}
    BY <1>1, <2>2
  <2> QED
    BY <1>1, <2>1, <2>2, <2>3, GoOnContinues
<1>7. CASE Crash(s)
  <2>1. scan[s].at # "idle" /\ GoOn(s, {}, NoCopies)
    BY <1>7 DEF Crash
  <2>2. {} \in SUBSET Profiles
    OBVIOUS
  <2> QED
    BY <1>0, <1>1, <2>1, <2>2, GoOnEffect
<1> QED
  BY <1>2, <1>3, <1>4, <1>5, <1>6, <1>7 DEF ScanStep

\* A scan writes nothing of a profile but the hash of its token.
SameSettings(x, y) ==
  /\ x.email = y.email /\ x.consent = y.consent /\ x.enabled = y.enabled
  /\ x.unsubscribed = y.unsubscribed /\ x.version = y.version

LEMMA ScanStepProfiles ==
  ASSUME BaseInvariant, NEW s \in Scans, ScanStep(s)
  PROVE  /\ \A q \in Profiles : profiles[q] = NoProfile <=> profiles'[q] = NoProfile
         /\ \A q \in Profiles : SameSettings(profiles[q], profiles'[q])
         /\ UNCHANGED <<day, todo, client, consented, optedOut, mixed, changes, rotations>>
<1>1. UNCHANGED <<day, todo, client, consented, optedOut, mixed, changes, rotations>>
  BY DEF ScanStep, BeginScan, CheckProfile, SelectTasks, EnqueueDueSoon, FailAtProfile, Crash, counters
<1>2. CASE UNCHANGED profiles
  BY <1>1, <1>2 DEF SameSettings
<1>3. CASE EnqueueDueSoon(s)
  <2>0. PICK p, copy, new : /\ p = scan[s].profile /\ copy = scan[s].copy[p]
                            /\ new = Issued(profiles[p], copy, p)
    OBVIOUS
  <2>1. /\ p \in Profiles /\ profiles[p] \in Profile /\ copy \in Profile
        /\ profiles' = [profiles EXCEPT ![p] = new] \/ UNCHANGED profiles
    BY <1>3, <2>0, EnqueueEffect
  <2>2. new \in Profile /\ SameSettings(profiles[p], new)
    <3>0. p \in Profiles /\ profiles[p] \in Profile /\ copy \in Profile
      BY <2>1
    <3>1. \A stored \in Profile : \A x \in Profile : \A q \in Profiles :
            Issued(stored, x, q) \in Profile /\ SameSettings(stored, Issued(stored, x, q))
      BY IssuedType DEF SameSettings
    <3> QED
      BY <2>0, <3>0, <3>1
  <2>3. CASE profiles' = [profiles EXCEPT ![p] = new]
    <3>1. profiles'[p] = new /\ \A q \in Profiles \ {p} : profiles'[q] = profiles[q]
      BY <2>1, <2>2, <2>3, Written DEF BaseInvariant
    <3>2. profiles[p] # NoProfile /\ new # NoProfile
      BY <2>1, <2>2, ProfileIsNothingElse
    <3>3. \A q \in Profiles : SameSettings(profiles[q], profiles[q])
      BY DEF SameSettings
    <3> QED
      BY <1>1, <2>2, <3>1, <3>2, <3>3
  <2> QED
    BY <1>2, <2>1, <2>3
<1> QED
  BY <1>2, <1>3 DEF ScanStep, BeginScan, CheckProfile, SelectTasks, FailAtProfile, Crash

-----------------------------------------------------------------------------
(* Opt-outs                                                                *)

\* An opt-out is never taken back, and a scan's copy of somebody who had opted
\* out when it began says so, or has expired.
OptOutsKept ==
  /\ \A p \in optedOut : profiles[p] # NoProfile /\ profiles[p].unsubscribed
  /\ \A s \in Scans : scan[s].at # "idle" =>
       /\ scan[s].gone \subseteq optedOut
       /\ \A p \in scan[s].gone \cap scan[s].left :
            scan[s].copy[p] = Expired \/ scan[s].copy[p].unsubscribed

LEMMA ScanStepOptOuts ==
  ASSUME BaseInvariant, OptOutsKept, NEW s \in Scans, ScanStep(s)
  PROVE  OptOutsKept'
<1>1. UNCHANGED optedOut /\ \A p \in optedOut : profiles'[p] # NoProfile /\ profiles'[p].unsubscribed
  <2>1. optedOut \subseteq Profiles
    BY DEF BaseInvariant, TypeOK
  <2> QED
    BY <2>1, ScanStepProfiles DEF OptOutsKept, SameSettings
<1>2. ASSUME NEW t \in Scans, scan'[t].at # "idle"
      PROVE  /\ scan'[t].gone \subseteq optedOut
             /\ \A p \in scan'[t].gone \cap scan'[t].left :
                  scan'[t].copy[p] = Expired \/ scan'[t].copy[p].unsubscribed
  <2>1. CASE t # s
    BY <1>2, <2>1, ScanStepCopies DEF OptOutsKept
  <2>2. CASE t = s /\ Begins(s)
    BY <2>2 DEF Begins, OptOutsKept
  <2>3. CASE t = s /\ Continues(s)
    BY <2>3 DEF Continues, OptOutsKept
  <2> QED
    BY <1>2, <2>1, <2>2, <2>3, ScanStepCopies
<1> QED
  BY <1>1, <1>2 DEF OptOutsKept

LEMMA NextOptOuts == BaseInvariant /\ OptOutsKept /\ [Next]_vars => OptOutsKept'
<1> SUFFICES ASSUME BaseInvariant, OptOutsKept, [Next]_vars PROVE OptOutsKept'
  OBVIOUS
<1>0. /\ profiles \in [Profiles -> Profile \cup {NoProfile}] /\ optedOut \subseteq Profiles
  BY DEF BaseInvariant, TypeOK
\* Of the steps of others it matters what they do to opt-outs.
<1>1. ASSUME UNCHANGED scan, optedOut \subseteq optedOut',
             \A p \in optedOut' : profiles'[p] # NoProfile /\ profiles'[p].unsubscribed
      PROVE  OptOutsKept'
  BY <1>1 DEF OptOutsKept
<1>2. ASSUME NEW c \in Clients, CreateProfile(c) PROVE OptOutsKept'
  <2>1. client[c].profile \in Profiles
    BY <1>2, ClientFields DEF CreateProfile, BaseInvariant
  <2>2. \A p \in optedOut : profiles'[p] = profiles[p]
    BY <1>0, <1>2, <2>1 DEF CreateProfile, OptOutsKept
  <2> QED
    BY <1>1, <1>2, <2>2 DEF CreateProfile, OptOutsKept, history
<1>3. ASSUME NEW c \in Clients, UpsertProfile(c) PROVE OptOutsKept'
  <2>0. PICK p, new : /\ p = client[c].profile
                      /\ new = Upserted(profiles[p], client[c].copy, client[c].body)
    OBVIOUS
  <2>1. /\ p \in Profiles /\ client[c].body \in Bodies /\ profiles[p] \in Profile
        /\ client[c].copy \in Profile /\ profiles' = [profiles EXCEPT ![p] = new]
    BY <1>0, <1>3, <2>0, ClientFields DEF UpsertProfile, BaseInvariant, ClientsKnow
  <2>2. new \in Profile /\ new.unsubscribed = profiles[p].unsubscribed
    BY <2>0, <2>1, UpsertedType
  <2>3. profiles'[p] = new /\ \A q \in Profiles \ {p} : profiles'[q] = profiles[q]
    BY <1>0, <2>1
  <2>4. \A q \in optedOut : profiles'[q] # NoProfile /\ profiles'[q].unsubscribed
    BY <1>0, <2>2, <2>3, ProfileIsNothingElse DEF OptOutsKept
  <2> QED
    BY <1>1, <1>3, <2>4 DEF UpsertProfile
<1>4. ASSUME Unsubscribe PROVE OptOutsKept'
  <2>1. PICK p \in Profiles :
          /\ profiles[p] # NoProfile
          /\ profiles' = [profiles EXCEPT ![p].unsubscribed = TRUE]
          /\ optedOut' = optedOut \cup {p} /\ UNCHANGED scan
    BY <1>4 DEF Unsubscribe
  <2> DEFINE new == [profiles[p] EXCEPT !.unsubscribed = TRUE]
  <2>2. new \in Profile /\ new.unsubscribed
    BY <1>0, <2>1 DEF Profile
  <2>3. profiles'[p] = new /\ \A q \in Profiles \ {p} : profiles'[q] = profiles[q]
    BY <1>0, <2>1
  <2> HIDE DEF new
  <2>4. \A q \in optedOut' : profiles'[q] # NoProfile /\ profiles'[q].unsubscribed
    BY <1>0, <2>1, <2>2, <2>3, ProfileIsNothingElse DEF OptOutsKept
  <2> QED
    BY <1>1, <2>1, <2>4
<1>5. ASSUME NEW p \in Profiles, RotateUnsubscribeToken(p) PROVE OptOutsKept'
  <2>0. PICK new : new = Rotated(profiles[p], p)
    OBVIOUS
  <2>1. /\ profiles[p] \in Profile /\ rotations < MaxRotations /\ rotations \in Nat
        /\ profiles' = [profiles EXCEPT ![p] = new]
    BY <1>0, <1>5, <2>0 DEF RotateUnsubscribeToken, BaseInvariant, TypeOK
  <2>2. profiles[p].version <= MaxRotations
    BY <1>5, <2>1, BoundAssumption DEF RotateUnsubscribeToken, BaseInvariant, VersionsCounted, Profile
  <2>3. new \in Profile /\ new.unsubscribed = profiles[p].unsubscribed
    BY <2>0, <2>1, <2>2, RotatedType
  <2>4. profiles'[p] = new /\ \A q \in Profiles \ {p} : profiles'[q] = profiles[q]
    BY <1>0, <2>1
  <2>5. \A q \in optedOut : profiles'[q] # NoProfile /\ profiles'[q].unsubscribed
    BY <1>0, <2>3, <2>4, ProfileIsNothingElse DEF OptOutsKept
  <2> QED
    BY <1>1, <1>5, <2>5 DEF RotateUnsubscribeToken, history
<1>6. ASSUME \/ \E c \in Clients : FindProfile(c) \/ RefreshProfile(c) \/ CreateClash(c)
             \/ \E k \in Tasks : ChangeTask(k)
             \/ NextDay
             \/ \E p \in Profiles, d \in Days : Dispatch(p, d)
             \/ UNCHANGED vars
      PROVE  OptOutsKept'
  <2>1. UNCHANGED <<profiles, scan, optedOut>>
    BY <1>6 DEF FindProfile, RefreshProfile, CreateClash, ChangeTask, NextDay, Dispatch, vars, history
  <2> QED
    BY <1>1, <2>1 DEF OptOutsKept
<1>7. ASSUME NEW s \in Scans, ScanStep(s) PROVE OptOutsKept'
  BY <1>7, ScanStepOptOuts
<1> QED
  BY <1>2, <1>3, <1>4, <1>5, <1>6, <1>7 DEF Next, ScanStep

\* Whoever has opted out is not prepared a reminder for by any later scan,
\* whatever requests, rotations and failures come in between.
THEOREM OptOutAlwaysReachesScans == Spec => []OptOutReachesScans
<1>1. Init => OptOutsKept
  BY DEF Init, OptOutsKept, IdleScan
<1>2. BaseInvariant /\ OptOutsKept => OptOutReachesScans
  <2> SUFFICES ASSUME BaseInvariant, OptOutsKept, NEW s \in Scans, scan[s].at = "enqueue",
                      scan[s].profile \in scan[s].gone
               PROVE  FALSE
    BY DEF OptOutReachesScans
  <2> DEFINE p == scan[s].profile
  <2>1. p \in scan[s].left /\ scan[s].copy[p] \in Profile /\ ~scan[s].copy[p].unsubscribed
    BY DEF BaseInvariant, ScanKnows, IsSendable
  <2>2. scan[s].copy[p] = Expired \/ scan[s].copy[p].unsubscribed
    BY <2>1 DEF OptOutsKept
  <2> QED
    BY <2>1, <2>2, ProfileIsNothingElse
<1> QED
  BY <1>1, <1>2, NextOptOuts, AlwaysBase, PTL DEF Spec

-----------------------------------------------------------------------------
(* Consent, unless PUTs that name different addresses overlap              *)

Agreed(agreed, p, x) == x.consent /\ x.email # NoEmail => <<p, x.email>> \in agreed

Puts(c, p) == client[c].at # "idle" /\ client[c].profile = p
Named(c) == StoredEmail(client[c].body.email)

\* A request that is about to write finds the address of its copy or the one it
\* names itself, and if somebody consented meanwhile, it was to the latter.
ClientAgrees(c) ==
  LET p == client[c].profile
  IN  /\ profiles[p].email \in {client[c].copy.email, Named(c)}
      /\ profiles[p].consent /\ ~client[c].copy.consent /\ Named(c) # NoEmail
           => <<p, Named(c)>> \in consented

\* PUTs that overlap name one address.
OneAddress ==
  \A p \in Profiles \ mixed : \A b, c \in Clients :
    Puts(b, p) /\ Puts(c, p) => Named(b) = Named(c)

\* And what profiles and the scans' copies of them say of consent is true.
ConsentKept ==
  /\ ConsentedUnlessMixed
  /\ \A p \in Profiles \ mixed : profiles[p] \in Profile => Agreed(consented, p, profiles[p])
  /\ \A s \in Scans : scan[s].at # "idle" =>
       \A p \in scan[s].left \ mixed :
         scan[s].copy[p] \in Profile => Agreed(consented, p, scan[s].copy[p])
  /\ \A c \in Clients :
       client[c].at = "update" /\ client[c].profile \notin mixed => ClientAgrees(c)
  /\ OneAddress

\* Nobody's step but the request's own disturbs what it is about to write, if the
\* settings stay.
LEMMA AgreesOn ==
  ASSUME NEW c \in Clients, client'[c] = client[c], consented \subseteq consented',
         profiles'[client[c].profile].email = profiles[client[c].profile].email,
         profiles'[client[c].profile].consent = profiles[client[c].profile].consent,
         ClientAgrees(c)
  PROVE  ClientAgrees(c)'
BY DEF ClientAgrees, Named

\* A request in flight is the one it was.
LEMMA OneAddressOn ==
  ASSUME OneAddress, mixed \subseteq mixed',
         \A c \in Clients : client'[c].at # "idle" =>
           client[c].at # "idle" /\ client'[c].profile = client[c].profile
           /\ client'[c].body = client[c].body
  PROVE  OneAddress'
BY DEF OneAddress, Puts, Named

\* Steps of the scan.
LEMMA ScanStepConsent ==
  ASSUME BaseInvariant, ConsentKept, NEW s \in Scans, ScanStep(s)
  PROVE  ConsentKept'
<1>0. UNCHANGED <<consented, client, mixed>> /\ TypeOK
  BY ScanStepProfiles DEF BaseInvariant
<1>1. ASSUME NEW p \in Profiles \ mixed, profiles'[p] \in Profile
      PROVE  Agreed(consented', p, profiles'[p])
  <2>1. profiles[p] \in Profile
    BY <1>0, <1>1, ScanStepProfiles, ProfileIsNothingElse DEF TypeOK
  <2> QED
    BY <1>0, <2>1, ScanStepProfiles DEF ConsentKept, Agreed, SameSettings
<1>2. ASSUME NEW t \in Scans, scan'[t].at # "idle", NEW p \in scan'[t].left \ mixed,
             scan'[t].copy[p] \in Profile
      PROVE  Agreed(consented', p, scan'[t].copy[p])
  <2>0. \A q \in Profiles \ mixed : profiles[q] \in Profile => Agreed(consented, q, profiles[q])
    BY DEF ConsentKept
  <2>1. CASE t # s
    BY <1>0, <1>2, <2>1, ScanStepCopies DEF ConsentKept, Agreed
  <2>2. CASE t = s /\ Begins(s)
    BY <1>0, <1>2, <2>0, <2>2 DEF Begins, Agreed
  <2>3. CASE t = s /\ Continues(s)
    <3>1. p \in Profiles /\ scan[s].at # "idle" /\ p \in scan[s].left
      BY <1>0, <1>2, <2>3, ScanFields DEF Continues
    <3>2. scan'[s].copy[p] \in {scan[s].copy[p], profiles[p]}
      BY <1>2, <2>3, ProfileIsNothingElse DEF Continues
    <3>3. Agreed(consented, p, scan'[s].copy[p])
      BY <1>2, <2>0, <2>3, <3>1, <3>2 DEF ConsentKept
    <3> QED
      BY <1>0, <2>3, <3>3 DEF Agreed
  <2> QED
    BY <1>2, <2>1, <2>2, <2>3, ScanStepCopies
<1>3. ConsentedUnlessMixed'
  <2>1. CASE UNCHANGED outbox
    BY <1>0, <2>1 DEF ConsentKept, ConsentedUnlessMixed
  <2>2. CASE EnqueueDueSoon(s)
    <3>0. PICK p, d, copy, row :
            /\ p = scan[s].profile /\ d = scan[s].day /\ copy = scan[s].copy[p]
            /\ row = NewRow(copy.email, Token(p, copy.version), scan[s].tasks)
      OBVIOUS
    <3>1. /\ p \in Profiles /\ d \in Days /\ p \in scan[s].left /\ copy \in Profile
          /\ IsSendable(copy) /\ scan[s].at # "idle"
          /\ outbox' = [outbox EXCEPT ![p][d] = row] \/ UNCHANGED outbox
      BY <2>2, <3>0, EnqueueEffect
    <3>2. row.to_email = copy.email
      BY <3>0 DEF NewRow
    <3>3. p \notin mixed => <<p, copy.email>> \in consented
      BY <3>0, <3>1 DEF ConsentKept, Agreed, IsSendable
    <3>4. CASE outbox' = [outbox EXCEPT ![p][d] = row]
      <4>1. ASSUME NEW q \in Profiles \ mixed, NEW e \in Days, outbox'[q][e] # NoRow
            PROVE  <<q, outbox'[q][e].to_email>> \in consented
        <5>1. CASE q = p /\ e = d
          BY <1>0, <3>1, <3>2, <3>3, <3>4, <5>1 DEF TypeOK
        <5>2. CASE ~(q = p /\ e = d)
          BY <1>0, <3>1, <3>4, <4>1, <5>2 DEF TypeOK, ConsentKept, ConsentedUnlessMixed
        <5> QED
          BY <5>1, <5>2
      <4> QED
        BY <1>0, <4>1 DEF ConsentedUnlessMixed
    <3> QED
      BY <2>1, <3>1, <3>4
  <2> QED
    BY <2>1, <2>2 DEF ScanStep, BeginScan, CheckProfile, SelectTasks, FailAtProfile, Crash
<1>4. ASSUME NEW c \in Clients, client'[c].at = "update", client'[c].profile \notin mixed'
      PROVE  ClientAgrees(c)'
  <2>1. client[c].profile \in Profiles /\ ClientAgrees(c) /\ client'[c] = client[c]
    BY <1>0, <1>4, ClientFields DEF ConsentKept
  <2>2. SameSettings(profiles[client[c].profile], profiles'[client[c].profile])
    BY <2>1, ScanStepProfiles
  <2> QED
    BY <1>0, <2>1, <2>2, AgreesOn DEF SameSettings
<1>5. OneAddress'
  BY <1>0, OneAddressOn DEF ConsentKept
<1> QED
  BY <1>0, <1>1, <1>2, <1>3, <1>4, <1>5 DEF ConsentKept

LEMMA NextConsent ==
  ASSUME BaseInvariant, ConsentKept, [Next]_vars
  PROVE  ConsentKept'
<1>0. TypeOK /\ profiles \in [Profiles -> Profile \cup {NoProfile}]
  BY DEF BaseInvariant, TypeOK
\* Of the steps of others it matters what they do to settings and consent.
<1>1. ASSUME UNCHANGED <<scan, outbox>>, consented \subseteq consented', mixed \subseteq mixed',
             \A p \in Profiles \ mixed' : profiles'[p] \in Profile =>
               \/ /\ profiles[p] \in Profile /\ profiles'[p].email = profiles[p].email
                  /\ profiles'[p].consent = profiles[p].consent
               \/ Agreed(consented', p, profiles'[p]),
             \A c \in Clients :
               client'[c].at = "update" /\ client'[c].profile \notin mixed' => ClientAgrees(c)',
             OneAddress'
      PROVE  ConsentKept'
  <2>1. ConsentedUnlessMixed'
    BY <1>1 DEF ConsentKept, ConsentedUnlessMixed
  <2>2. \A p \in Profiles \ mixed' : profiles'[p] \in Profile => Agreed(consented', p, profiles'[p])
    BY <1>1 DEF ConsentKept, Agreed
  <2>3. \A s \in Scans : scan'[s].at # "idle" =>
          \A p \in scan'[s].left \ mixed' :
            scan'[s].copy[p] \in Profile => Agreed(consented', p, scan'[s].copy[p])
    BY <1>1 DEF ConsentKept, Agreed
  <2> QED
    BY <1>1, <2>1, <2>2, <2>3 DEF ConsentKept
<1>2. ASSUME NEW c \in Clients, FindProfile(c) PROVE ConsentKept'
  <2>1. PICK p \in Profiles, body \in Bodies :
          /\ client' = [client EXCEPT ![c] =
               [at |-> IF profiles[p] = NoProfile THEN "create" ELSE "update",
                profile |-> p, body |-> body, copy |-> profiles[p]]]
          /\ mixed' = IF Crosses(p, body) THEN mixed \cup {p} ELSE mixed
    BY <1>2 DEF FindProfile
  <2>2. UNCHANGED <<profiles, scan, outbox, consented>> /\ client[c].at = "idle"
    BY <1>2 DEF FindProfile
  <2>3. /\ client'[c].profile = p /\ client'[c].body = body /\ client'[c].copy = profiles[p]
        /\ \A d \in Clients : d # c => client'[d] = client[d]
    BY <1>0, <2>1 DEF TypeOK
  <2>4. ASSUME NEW d \in Clients, client'[d].at = "update", client'[d].profile \notin mixed'
        PROVE  ClientAgrees(d)'
    <3>1. CASE d = c
      BY <2>2, <2>3, <3>1 DEF ClientAgrees
    <3>2. CASE d # c
      <4>1. client'[d] = client[d] /\ ClientAgrees(d)
        BY <2>1, <2>3, <2>4, <3>2 DEF ConsentKept
      <4> QED
        BY <2>2, <4>1, AgreesOn
    <3> QED
      BY <3>1, <3>2
  <2>5. OneAddress'
    <3> SUFFICES ASSUME NEW q \in Profiles \ mixed', NEW b \in Clients, NEW d \in Clients,
                        Puts(b, q)', Puts(d, q)'
                 PROVE  Named(b)' = Named(d)'
      BY DEF OneAddress
    <3>1. ASSUME NEW e \in Clients, e # c, Puts(e, p)', p \notin mixed'
          PROVE  Named(e)' = StoredEmail(body.email)
      BY <2>1, <2>3, <3>1 DEF Crosses, Puts, Named
    <3>2. Named(c)' = StoredEmail(body.email)
      BY <2>3 DEF Named
    <3>3. CASE b = c \/ d = c
      <4>1. q = p
        BY <2>3, <3>3 DEF Puts
      <4> QED
        BY <3>1, <3>2, <3>3, <4>1
    <3>4. CASE b # c /\ d # c
      <4>1. q \notin mixed /\ client'[b] = client[b] /\ client'[d] = client[d]
        BY <2>1, <2>3, <3>4
      <4> QED
        BY <4>1 DEF ConsentKept, OneAddress, Puts, Named
    <3> QED
      BY <3>3, <3>4
  <2> QED
    BY <1>1, <2>1, <2>2, <2>4, <2>5 DEF ConsentKept
<1>3. ASSUME NEW c \in Clients, RefreshProfile(c) PROVE ConsentKept'
  <2>1. /\ UNCHANGED <<profiles, scan, outbox, consented, mixed>> /\ client[c].at = "refresh"
        /\ client' = [client EXCEPT ![c] = [client[c] EXCEPT !.at = "update",
                                                  !.copy = profiles[client[c].profile]]]
    BY <1>3 DEF RefreshProfile, history
  <2>2. client[c] \in [at : {"create", "refresh", "update"}, profile : Profiles,
                       body : Bodies, copy : Profile \cup {NoProfile}]
    BY <1>0, <2>1 DEF TypeOK, ClientState, IdleClient
  <2>3. /\ client'[c].profile = client[c].profile /\ client'[c].body = client[c].body
        /\ client'[c].copy = profiles[client[c].profile]
        /\ \A d \in Clients : d # c => client'[d] = client[d]
    <3>1. client'[c] = [client[c] EXCEPT !.at = "update", !.copy = profiles[client[c].profile]]
          /\ \A d \in Clients : d # c => client'[d] = client[d]
      BY <1>0, <2>1 DEF TypeOK
    <3> HIDE DEF Profile
    <3> QED
      BY <2>2, <3>1
  <2>4. ASSUME NEW d \in Clients, client'[d].at = "update", client'[d].profile \notin mixed'
        PROVE  ClientAgrees(d)'
    <3>1. CASE d = c
      BY <2>1, <2>3, <3>1 DEF ClientAgrees
    <3>2. CASE d # c
      <4>1. client'[d] = client[d] /\ ClientAgrees(d)
        BY <2>1, <2>3, <2>4, <3>2 DEF ConsentKept
      <4> QED
        BY <2>1, <4>1, AgreesOn
    <3> QED
      BY <3>1, <3>2
  <2>5. OneAddress'
    BY <2>1, <2>3, OneAddressOn DEF ConsentKept
  <2> QED
    BY <1>1, <2>1, <2>4, <2>5 DEF ConsentKept
<1>4. ASSUME NEW c \in Clients, CreateProfile(c) \/ CreateClash(c) PROVE ConsentKept'
  <2>0. PICK p : p = client[c].profile
    OBVIOUS
  <2>1. /\ p \in Profiles /\ client[c].at = "create"
        /\ \/ profiles[p] = NoProfile /\ profiles' = [profiles EXCEPT ![p] = NewProfile]
           \/ UNCHANGED profiles
        /\ UNCHANGED <<scan, outbox, consented, mixed>>
    BY <1>0, <1>4, <2>0, ClientFields DEF CreateProfile, CreateClash, history
  <2>2. /\ client'[c].at # "update"
        /\ client'[c].at # "idle" => client'[c].profile = client[c].profile
                                     /\ client'[c].body = client[c].body
        /\ \A d \in Clients : d # c => client'[d] = client[d]
    BY <1>0, <1>4 DEF CreateProfile, CreateClash, TypeOK, ClientState, IdleClient
  <2>3. Agreed(consented', p, NewProfile)
    BY DEF Agreed, NewProfile
  <2>4. \A q \in Profiles :
          profiles'[q] = profiles[q] \/ (q = p /\ profiles[p] = NoProfile /\ profiles'[q] = NewProfile)
    BY <1>0, <2>1
  <2>5. ASSUME NEW d \in Clients, client'[d].at = "update", client'[d].profile \notin mixed'
        PROVE  ClientAgrees(d)'
    <3>1. client'[d] = client[d] /\ ClientAgrees(d)
      BY <2>1, <2>2, <2>5 DEF ConsentKept
    <3>2. client[d].profile \in Profiles /\ profiles[client[d].profile] # NoProfile
      BY <2>5, <3>1, ClientFields DEF BaseInvariant, ClientsKnow
    <3>3. profiles'[client[d].profile] = profiles[client[d].profile]
      BY <2>4, <3>2
    <3> QED
      BY <2>1, <3>1, <3>3, AgreesOn
  <2>6. OneAddress'
    BY <2>1, <2>2, OneAddressOn DEF ConsentKept
  <2>7. \A q \in Profiles \ mixed' : profiles'[q] \in Profile =>
          \/ /\ profiles[q] \in Profile /\ profiles'[q].email = profiles[q].email
             /\ profiles'[q].consent = profiles[q].consent
          \/ Agreed(consented', q, profiles'[q])
    BY <2>3, <2>4
  <2> QED
    BY <1>1, <2>1, <2>5, <2>6, <2>7
<1>5. ASSUME NEW c \in Clients, UpsertProfile(c) PROVE ConsentKept'
  <2>0. PICK p, body, copy, new, email :
          /\ p = client[c].profile /\ body = client[c].body /\ copy = client[c].copy
          /\ new = Upserted(profiles[p], copy, body) /\ email = StoredEmail(body.email)
    OBVIOUS
  <2>1. /\ p \in Profiles /\ body \in Bodies /\ profiles[p] \in Profile /\ copy \in Profile
        /\ profiles' = [profiles EXCEPT ![p] = new]
        /\ client' = [client EXCEPT ![c] = IdleClient] /\ client[c].at = "update"
        /\ consented' = IF body.consent /\ email # NoEmail
                        THEN consented \cup {<<p, email>>} ELSE consented
        /\ UNCHANGED <<scan, outbox, mixed>>
    BY <1>0, <1>5, <2>0, ClientFields DEF UpsertProfile, BaseInvariant, ClientsKnow
  <2>2. /\ profiles'[p] = new /\ \A q \in Profiles \ {p} : profiles'[q] = profiles[q]
        /\ client'[c].at = "idle" /\ \A d \in Clients : d # c => client'[d] = client[d]
    BY <1>0, <2>1 DEF TypeOK, IdleClient
  \* The address is that of the request; consent is its own, or was given for it.
  <2>3. p \notin mixed => new.email = email /\ Agreed(consented', p, new)
    <3> SUFFICES ASSUME p \notin mixed PROVE new.email = email /\ Agreed(consented', p, new)
      OBVIOUS
    <3>1. /\ profiles[p].email \in {copy.email, email}
          /\ profiles[p].consent /\ ~copy.consent /\ email # NoEmail => <<p, email>> \in consented
      BY <2>0, <2>1 DEF ConsentKept, ClientAgrees, Named
    <3>2. /\ new.email = Column(profiles[p].email, copy.email, email)
          /\ new.consent = Column(profiles[p].consent, copy.consent, body.consent)
      BY <2>0, <2>1 DEF Upserted, Profile
    <3>3. new.email = email
      BY <3>1, <3>2 DEF Column
    <3>4. body.consent \in BOOLEAN /\ copy.consent \in BOOLEAN /\ profiles[p].consent \in BOOLEAN
      BY <2>1, InputAssumption DEF Profile
    <3>5. new.consent => body.consent \/ (profiles[p].consent /\ ~copy.consent)
      BY <3>2, <3>4 DEF Column
    <3> QED
      BY <2>1, <3>1, <3>3, <3>5 DEF Agreed
  <2>4. consented \subseteq consented'
    BY <2>1
  <2>5. ASSUME NEW d \in Clients, client'[d].at = "update", client'[d].profile \notin mixed'
        PROVE  ClientAgrees(d)'
    <3>1. d # c /\ client'[d] = client[d] /\ ClientAgrees(d) /\ client[d].profile \in Profiles
      BY <1>0, <2>1, <2>2, <2>5, ClientFields DEF ConsentKept
    <3>2. CASE client[d].profile = p
      <4>1. Named(d) = email /\ p \notin mixed
        BY <2>0, <2>1, <2>5, <3>1, <3>2 DEF ConsentKept, OneAddress, Puts, Named
      <4>2. Named(d)' = email
        BY <3>1, <4>1 DEF Named
      <4>3. new.email = email /\ (new.consent /\ email # NoEmail => <<p, email>> \in consented')
        BY <2>3, <4>1 DEF Agreed
      <4> QED
        BY <2>2, <3>1, <3>2, <4>2, <4>3 DEF ClientAgrees
    <3>3. CASE client[d].profile # p
      BY <2>2, <2>4, <3>1, <3>3, AgreesOn
    <3> QED
      BY <3>2, <3>3
  <2>6. OneAddress'
    BY <2>1, <2>2, OneAddressOn DEF ConsentKept
  <2>7. \A q \in Profiles \ mixed' : profiles'[q] \in Profile =>
          \/ /\ profiles[q] \in Profile /\ profiles'[q].email = profiles[q].email
             /\ profiles'[q].consent = profiles[q].consent
          \/ Agreed(consented', q, profiles'[q])
    BY <2>1, <2>2, <2>3
  <2> QED
    BY <1>1, <2>1, <2>4, <2>5, <2>6, <2>7
<1>6. ASSUME \/ Unsubscribe
             \/ \E p \in Profiles : RotateUnsubscribeToken(p)
      PROVE  ConsentKept'
  <2>1. UNCHANGED <<client, scan, outbox, consented, mixed>>
    BY <1>6 DEF Unsubscribe, RotateUnsubscribeToken, history
  <2>2. \A q \in Profiles : profiles'[q] = profiles[q]
          \/ (/\ profiles[q] \in Profile /\ profiles'[q].email = profiles[q].email
              /\ profiles'[q].consent = profiles[q].consent)
    <3>1. CASE Unsubscribe
      <4>1. PICK p \in Profiles : profiles[p] # NoProfile
                                  /\ profiles' = [profiles EXCEPT ![p].unsubscribed = TRUE]
        BY <3>1 DEF Unsubscribe
      <4> QED
        BY <1>0, <4>1 DEF Profile
    <3>2. CASE \E p \in Profiles : RotateUnsubscribeToken(p)
      <4>1. PICK p \in Profiles : profiles[p] # NoProfile
                                  /\ profiles' = [profiles EXCEPT ![p] = Rotated(@, p)]
        BY <3>2 DEF RotateUnsubscribeToken
      <4>2. profiles[p] \in Profile
        BY <1>0, <4>1
      <4>3. Rotated(profiles[p], p).email = profiles[p].email
            /\ Rotated(profiles[p], p).consent = profiles[p].consent
        BY <4>2 DEF Rotated, Profile
      <4> QED
        BY <1>0, <4>1, <4>2, <4>3
    <3> QED
      BY <1>6, <3>1, <3>2
  <2>3. ASSUME NEW c \in Clients, client'[c].at = "update", client'[c].profile \notin mixed'
        PROVE  ClientAgrees(c)'
    <3>1. client[c].profile \in Profiles /\ client'[c] = client[c] /\ ClientAgrees(c)
      BY <1>0, <2>1, <2>3, ClientFields DEF ConsentKept
    <3>2. /\ profiles'[client[c].profile].email = profiles[client[c].profile].email
          /\ profiles'[client[c].profile].consent = profiles[client[c].profile].consent
      BY <2>2, <3>1
    <3> QED
      BY <2>1, <3>1, <3>2, AgreesOn
  <2>4. OneAddress'
    BY <2>1, OneAddressOn DEF ConsentKept
  <2>5. \A q \in Profiles \ mixed' : profiles'[q] \in Profile =>
          \/ /\ profiles[q] \in Profile /\ profiles'[q].email = profiles[q].email
             /\ profiles'[q].consent = profiles[q].consent
          \/ Agreed(consented', q, profiles'[q])
    BY <2>2
  <2> QED
    BY <1>1, <2>1, <2>3, <2>4, <2>5
<1>7. ASSUME (\E k \in Tasks : ChangeTask(k)) \/ NextDay \/ UNCHANGED vars PROVE ConsentKept'
  <2>1. UNCHANGED <<profiles, client, scan, outbox, consented, mixed>>
    BY <1>7 DEF ChangeTask, NextDay, vars, history
  <2>2. OneAddress'
    BY <2>1, OneAddressOn DEF ConsentKept
  <2>3. ASSUME NEW c \in Clients, client'[c].at = "update", client'[c].profile \notin mixed'
        PROVE  ClientAgrees(c)'
    BY <2>1, <2>3, AgreesOn DEF ConsentKept
  <2> QED
    BY <1>1, <2>1, <2>2, <2>3 DEF ConsentKept
<1>8. ASSUME NEW p \in Profiles, NEW d \in Days, Dispatch(p, d) PROVE ConsentKept'
  <2>1. PICK status \in {"sent", "dead"} :
          outbox' = [outbox EXCEPT ![p][d].status = status,
                                   ![p][d].sent_on = IF status = "sent" THEN day ELSE NotSent]
    BY <1>8 DEF Dispatch
  <2>2. outbox[p][d] \in Row /\ outbox[p][d] # NoRow
    BY <1>0, <1>8 DEF Dispatch, TypeOK, NoRow
  <2>3. \A q \in Profiles, e \in Days :
          \/ outbox'[q][e] = outbox[q][e]
          \/ outbox[q][e] # NoRow /\ outbox'[q][e].to_email = outbox[q][e].to_email
    BY <1>0, <2>1, <2>2 DEF TypeOK, Row
  <2>4. UNCHANGED <<profiles, client, scan, consented, mixed>>
    BY <1>8 DEF Dispatch, history
  <2>5. ConsentedUnlessMixed'
    BY <2>3, <2>4 DEF ConsentKept, ConsentedUnlessMixed
  <2>6. OneAddress'
    BY <2>4, OneAddressOn DEF ConsentKept
  <2>7. ASSUME NEW c \in Clients, client'[c].at = "update", client'[c].profile \notin mixed'
        PROVE  ClientAgrees(c)'
    BY <2>4, <2>7, AgreesOn DEF ConsentKept
  <2> QED
    BY <2>4, <2>5, <2>6, <2>7 DEF ConsentKept, Agreed
<1>9. ASSUME NEW s \in Scans, ScanStep(s) PROVE ConsentKept'
  BY <1>9, ScanStepConsent
<1> QED
  BY <1>2, <1>3, <1>4, <1>5, <1>6, <1>7, <1>8, <1>9 DEF Next, ScanStep

\* A reminder is addressed to nobody who has not agreed to it, whatever overlaps,
\* if PUTs of one plan that overlap name one address.
THEOREM ConsentUnlessMixed == Spec => []ConsentedUnlessMixed
<1>1. Init => ConsentKept
  BY ProfileIsNothingElse
  DEF Init, ConsentKept, ConsentedUnlessMixed, OneAddress, Puts, IdleScan, IdleClient
<1>2. BaseInvariant /\ ConsentKept /\ [Next]_vars => ConsentKept'
  BY NextConsent
<1>3. ConsentKept => ConsentedUnlessMixed
  BY DEF ConsentKept
<1> QED
  BY <1>1, <1>2, <1>3, AlwaysBase, PTL DEF Spec

\* PUTs that do not overlap at all are not mixed.
LEMMA ApartIsNotMixed ==
  ASSUME TypeOK, mixed = {}, PutsApart', [Next]_vars PROVE mixed' = {}
<1>1. ASSUME NEW c \in Clients, FindProfile(c) PROVE mixed' = {}
  <2>1. PICK p \in Profiles, body \in Bodies :
          /\ client' = [client EXCEPT ![c] =
               [at |-> IF profiles[p] = NoProfile THEN "create" ELSE "update",
                profile |-> p, body |-> body, copy |-> profiles[p]]]
          /\ mixed' = IF Crosses(p, body) THEN mixed \cup {p} ELSE mixed
    BY <1>1 DEF FindProfile
  <2>2. /\ client'[c].at # "idle" /\ client'[c].profile = p /\ client[c].at = "idle"
        /\ \A d \in Clients : d # c => client'[d] = client[d]
    BY <1>1, <2>1 DEF FindProfile, TypeOK
  <2>3. ~Crosses(p, body)
    BY <2>2 DEF Crosses, PutsApart
  <2> QED
    BY <2>1, <2>3
<1>2. CASE ~\E c \in Clients : FindProfile(c)
  BY <1>2 DEF Next, vars, history, CreateProfile, RefreshProfile, CreateClash, UpsertProfile,
    Unsubscribe, RotateUnsubscribeToken, ChangeTask, NextDay, Dispatch,
    BeginScan, CheckProfile, SelectTasks, EnqueueDueSoon, FailAtProfile, Crash
<1> QED
  BY <1>1, <1>2

\* If no two PUTs of the same plan overlap, a reminder is addressed to nobody who
\* has not agreed to it, although scans decide on old copies.
THEOREM ConsentedAddressApart == Spec /\ []PutsApart => []ConsentedAddress
<1>1. Init => mixed = {}
  BY DEF Init
<1>2. TypeOK /\ mixed = {} /\ PutsApart' /\ [Next]_vars => (mixed = {})'
  BY ApartIsNotMixed
<1>3. mixed = {} /\ ConsentedUnlessMixed => ConsentedAddress
  BY DEF ConsentedUnlessMixed, ConsentedAddress
<1> QED
  BY <1>1, <1>2, <1>3, ConsentUnlessMixed, TypeCorrect, PTL DEF Spec

-----------------------------------------------------------------------------
(* Links, if tokens are not rotated or scans do not overlap                *)

\* A row's token is of a version its profile has had.
RowTokens ==
  \A p \in Profiles, d \in Days : outbox[p][d] # NoRow =>
    profiles[p] # NoProfile /\ \E v \in 1..profiles[p].version : outbox[p][d].token = Token(p, v)

\* What the copy x of profile p may differ in from what is stored: a token
\* whose hash the copy has is stored; if the copy is of an older version, no
\* mail of the newer one is prepared yet.
CopyFits(p, x) ==
  /\ x.version <= profiles[p].version
  /\ x.version = profiles[p].version /\ x.hash = Token(p, x.version)
       => profiles[p].hash = x.hash
  /\ x.version < profiles[p].version =>
       \A d \in Days : outbox[p][d] # NoRow => outbox[p][d].token # Token(p, profiles[p].version)

LinksKept ==
  /\ LinkWorks
  /\ RowTokens
  /\ \A s \in Scans : scan[s].at # "idle" =>
       \A p \in scan[s].left : scan[s].copy[p] \in Profile => CopyFits(p, scan[s].copy[p])

LEMMA StoredFits ==
  ASSUME NEW p \in Profiles, profiles[p] \in Profile
  PROVE  CopyFits(p, profiles[p])
BY DEF CopyFits, Profile

\* Steps that leave tokens alone.
LEMMA LinksUntouched ==
  ASSUME BaseInvariant, LinksKept,
         \A p \in Profiles : profiles[p] # NoProfile =>
           /\ profiles'[p] # NoProfile /\ profiles'[p].version = profiles[p].version
           /\ profiles'[p].hash = profiles[p].hash,
         \A p \in Profiles, d \in Days : outbox'[p][d] # NoRow =>
           outbox[p][d] # NoRow /\ outbox'[p][d].token = outbox[p][d].token
  PROVE  /\ LinkWorks' /\ RowTokens'
         /\ \A p \in Profiles : \A x \in Profile :
              profiles[p] # NoProfile /\ CopyFits(p, x) => CopyFits(p, x)'
<1>1. LinkWorks'
  BY DEF LinksKept, LinkWorks, RowTokens
<1>2. RowTokens'
  BY DEF LinksKept, RowTokens
<1>3. ASSUME NEW p \in Profiles, NEW x \in Profile, profiles[p] # NoProfile, CopyFits(p, x)
      PROVE  CopyFits(p, x)'
  BY <1>3 DEF CopyFits
<1> QED
  BY <1>1, <1>2, <1>3

\* The step that writes a row and the hash of its token.
LEMMA EnqueueLinks ==
  ASSUME BaseInvariant, LinksKept, ScansApart \/ MaxRotations = 0,
         NEW s \in Scans, EnqueueDueSoon(s), outbox[scan[s].profile][scan[s].day] = NoRow
  PROVE  /\ LinkWorks' /\ RowTokens'
         /\ \A t \in Scans : \A p \in Profiles : \A x \in Profile :
              /\ scan[t].at # "idle" /\ p \in scan[t].left /\ CopyFits(p, x)
              /\ t = s => p # scan[s].profile
              => CopyFits(p, x)'
<1>0. PICK p, d, copy, row, new :
        /\ p = scan[s].profile /\ d = scan[s].day /\ copy = scan[s].copy[p]
        /\ row = NewRow(copy.email, Token(p, copy.version), scan[s].tasks)
        /\ new = Issued(profiles[p], copy, p)
  OBVIOUS
<1>1. /\ scan[s].at # "idle" /\ p \in Profiles /\ p \in scan[s].left /\ d \in Days
      /\ profiles[p] \in Profile /\ copy \in Profile /\ row \in Row
      /\ profiles' = [profiles EXCEPT ![p] = new]
      /\ outbox' = [outbox EXCEPT ![p][d] = row]
  BY <1>0, EnqueueEffect
<1> DEFINE cur == profiles[p].version
<1>2. CopyFits(p, copy) /\ copy.version \in Nat \ {0} /\ cur \in Nat \ {0} /\ copy.version <= cur
  <2>1. CopyFits(p, copy)
    BY <1>0, <1>1 DEF LinksKept
  <2> QED
    BY <1>1, <2>1 DEF Profile, CopyFits
<1>3. /\ new \in Profile /\ new.version = cur
      /\ new.hash = Column(profiles[p].hash, copy.hash, Token(p, copy.version))
  <2>1. \A stored \in Profile : \A x \in Profile : \A q \in Profiles :
          /\ Issued(stored, x, q) \in Profile /\ Issued(stored, x, q).version = stored.version
          /\ Issued(stored, x, q).hash = Column(stored.hash, x.hash, Token(q, x.version))
    BY IssuedType
  <2>2. p \in Profiles /\ profiles[p] \in Profile /\ copy \in Profile
    BY <1>1
  <2>3. /\ Issued(profiles[p], copy, p) \in Profile
        /\ Issued(profiles[p], copy, p).version = profiles[p].version
        /\ Issued(profiles[p], copy, p).hash
             = Column(profiles[p].hash, copy.hash, Token(p, copy.version))
    BY ONLY <2>1, <2>2
  <2>4. new = Issued(profiles[p], copy, p)
    BY <1>0
  <2> QED
    BY <2>3, <2>4
<1>4. /\ profiles'[p] = new /\ \A q \in Profiles \ {p} : profiles'[q] = profiles[q]
      /\ new # NoProfile /\ profiles[p] # NoProfile
  BY <1>1, <1>3, ProfileIsNothingElse DEF BaseInvariant, TypeOK
<1>5. /\ outbox'[p][d] = row
      /\ \A q \in Profiles, e \in Days : ~(q = p /\ e = d) => outbox'[q][e] = outbox[q][e]
  BY <1>1 DEF BaseInvariant, TypeOK
<1>6. row.token = Token(p, copy.version)
  BY <1>0 DEF NewRow
<1>7. \A u, v : Token(p, u) = Token(p, v) => u = v
  BY DEF Token
\* If the copy is of the current version, the hash of the token is stored.
<1>8. copy.version = cur => new.hash = Token(p, cur)
  BY <1>2, <1>3 DEF CopyFits, Column
\* If it is older, no mail of the current version is prepared.
<1>9. copy.version < cur => \A e \in Days : outbox'[p][e] # NoRow => outbox'[p][e].token # Token(p, cur)
  BY <1>1, <1>2, <1>5, <1>6, <1>7 DEF CopyFits
<1> HIDE DEF cur
<1>10. LinkWorks'
  <2> SUFFICES ASSUME NEW q \in Profiles, NEW e \in Days, outbox'[q][e] # NoRow,
                      outbox'[q][e].token = Token(q, profiles'[q].version)
               PROVE  profiles'[q].hash = outbox'[q][e].token
    BY DEF LinkWorks
  <2>1. CASE q # p
    BY <1>4, <1>5, <2>1 DEF LinksKept, LinkWorks
  <2>2. CASE q = p
    <3>1. outbox'[p][e].token = Token(p, cur)
      BY <1>3, <1>4, <2>2
    <3>2. copy.version = cur
      BY <1>2, <1>9, <2>2, <3>1
    <3> QED
      BY <1>4, <1>8, <2>2, <3>1, <3>2
  <2> QED
    BY <2>1, <2>2
<1>11. RowTokens'
  <2> SUFFICES ASSUME NEW q \in Profiles, NEW e \in Days, outbox'[q][e] # NoRow
               PROVE  profiles'[q] # NoProfile
                      /\ \E v \in 1..profiles'[q].version : outbox'[q][e].token = Token(q, v)
    BY DEF RowTokens
  <2>1. CASE q = p /\ e = d
    <3>1. copy.version \in 1..profiles'[p].version
      BY <1>2, <1>3, <1>4
    <3> QED
      BY <1>4, <1>5, <1>6, <2>1, <3>1
  <2>2. CASE ~(q = p /\ e = d)
    <3>1. profiles[q] # NoProfile
          /\ \E v \in 1..profiles[q].version : outbox'[q][e].token = Token(q, v)
      BY <1>5, <2>2 DEF LinksKept, RowTokens
    <3>2. profiles'[q] # NoProfile /\ profiles'[q].version = profiles[q].version
      BY <1>3, <1>4, <3>1 DEF cur
    <3> QED
      BY <3>1, <3>2
  <2> QED
    BY <2>1, <2>2
<1>12. ASSUME NEW t \in Scans, NEW q \in Profiles, NEW x \in Profile,
              scan[t].at # "idle", q \in scan[t].left, CopyFits(q, x), t = s => q # scan[s].profile
       PROVE  CopyFits(q, x)'
  <2>1. CASE q # p
    BY <1>4, <1>5, <1>12, <2>1 DEF CopyFits
  <2>2. CASE q = p
    <3>1. t # s
      BY <1>0, <1>12, <2>2
    <3>2. MaxRotations = 0
      BY <1>1, <1>12, <3>1 DEF ScansApart
    <3>3. x.version = 1 /\ copy.version = 1 /\ cur = 1
      BY <1>1, <3>2 DEF Profile, cur
    <3> QED
      BY <1>3, <1>4, <1>8, <2>2, <3>3 DEF CopyFits
  <2> QED
    BY <2>1, <2>2
<1> QED
  BY <1>10, <1>11, <1>12

LEMMA ScanStepLinks ==
  ASSUME BaseInvariant, LinksKept, ScansApart \/ MaxRotations = 0, NEW s \in Scans, ScanStep(s)
  PROVE  LinksKept'
<1>0. PICK p : p = scan[s].profile
  OBVIOUS
<1>1. TypeOK
  BY DEF BaseInvariant
\* Tokens, and what becomes of the copies that still count.
<1>2. /\ LinkWorks' /\ RowTokens'
      /\ \A t \in Scans : \A q \in Profiles : \A x \in Profile :
           /\ scan[t].at # "idle" /\ q \in scan[t].left /\ CopyFits(q, x)
           /\ t = s /\ scan'[s].at # "idle" => q \in scan'[s].left
           /\ t = s => scan'[s].at # "idle"
           => CopyFits(q, x)'
  <2>1. CASE UNCHANGED <<profiles, outbox>>
    <3>1. /\ LinkWorks' /\ RowTokens'
          /\ \A q \in Profiles : \A x \in Profile :
               profiles[q] # NoProfile /\ CopyFits(q, x) => CopyFits(q, x)'
      BY <2>1, LinksUntouched
    <3>2. \A t \in Scans : scan[t].at # "idle" => \A q \in scan[t].left : profiles[q] # NoProfile
      BY DEF BaseInvariant, ScanKnows
    <3> QED
      BY <3>1, <3>2
  <2>2. CASE EnqueueDueSoon(s) /\ outbox[scan[s].profile][scan[s].day] = NoRow
    <3>1. /\ LinkWorks' /\ RowTokens'
          /\ \A t \in Scans : \A q \in Profiles : \A x \in Profile :
              /\ scan[t].at # "idle" /\ q \in scan[t].left /\ CopyFits(q, x)
              /\ t = s => q # scan[s].profile
              => CopyFits(q, x)'
      BY <2>2, EnqueueLinks
    <3>2. scan'[s].at # "idle" => p \notin scan'[s].left
      <4>1. PICK copies : copies = [scan[s].copy EXCEPT ![p].hash = Token(p, scan[s].copy[p].version)]
        OBVIOUS
      <4>2. /\ scan[s].at = "enqueue" /\ copies \in ScanCopies
            /\ GoOn(s, scan[s].left \ {p}, copies)
        BY <1>0, <2>2, <4>1, EnqueueEffect
      <4>3. scan[s].at # "idle" /\ scan[s].left \ {p} \in SUBSET Profiles
        BY <1>1, <4>2, ScanFields
      <4>4. /\ scan[s].left \ {p} = {} => scan'[s].at = "idle"
            /\ scan[s].left \ {p} # {} => scan'[s].left = scan[s].left \ {p}
        BY <1>1, <4>2, <4>3, GoOnEffect
      <4> QED
        BY <4>4
    <3> QED
      BY <1>0, <3>1, <3>2
  <2>3. CASE EnqueueDueSoon(s) /\ outbox[scan[s].profile][scan[s].day] # NoRow
    BY <2>1, <2>3, EnqueueEffect
  <2> QED
    BY <2>1, <2>2, <2>3
    DEF ScanStep, BeginScan, CheckProfile, SelectTasks, FailAtProfile, Crash
<1>3. ASSUME NEW t \in Scans, scan'[t].at # "idle", NEW q \in scan'[t].left,
             scan'[t].copy[q] \in Profile
      PROVE  CopyFits(q, scan[t].copy[q])'
  <2>0. PICK x : x = scan'[t].copy[q]
    OBVIOUS
  <2>1. CASE t # s
    <3>1. scan'[t] = scan[t]
      BY <2>1, ScanStepCopies
    <3>2. scan[t].at # "idle" /\ q \in scan[t].left /\ x \in Profile /\ x = scan[t].copy[q]
      BY <1>3, <2>0, <3>1
    <3>3. q \in Profiles /\ CopyFits(q, x)
      BY <1>1, <3>2, ScanFields DEF LinksKept
    <3> QED
      BY <1>2, <2>0, <2>1, <3>2, <3>3
  <2>2. CASE t = s /\ Begins(s)
    <3>1. q \in Profiles /\ x = profiles[q] /\ x \in Profile
      BY <1>3, <2>0, <2>2 DEF Begins
    <3>2. UNCHANGED profiles
      BY <2>2
      DEF Begins, ScanStep, BeginScan, CheckProfile, SelectTasks, EnqueueDueSoon,
          FailAtProfile, Crash
    <3>3. CopyFits(q, x)'
      BY <3>1, <3>2 DEF CopyFits, Profile
    <3> QED
      BY <2>0, <3>3
  <2>3. CASE t = s /\ Continues(s)
    <3>1. q \in Profiles /\ scan[s].at # "idle" /\ q \in scan[s].left
      BY <1>1, <1>3, <2>3, ScanFields DEF Continues
    <3>2. x \in {scan[s].copy[q], profiles[q]} /\ x \in Profile
      BY <1>3, <2>0, <2>3, ProfileIsNothingElse DEF Continues
    <3>3. CopyFits(q, x)
      BY <2>3, <3>1, <3>2, StoredFits DEF LinksKept
    <3> QED
      BY <1>2, <1>3, <2>0, <2>3, <3>1, <3>2, <3>3
  <2> QED
    BY <1>3, <2>1, <2>2, <2>3, ScanStepCopies
<1> QED
  BY <1>2, <1>3 DEF LinksKept

LEMMA NextLinks ==
  ASSUME BaseInvariant, LinksKept, [Next]_vars, ScansApart \/ MaxRotations = 0
  PROVE  LinksKept'
<1>0. TypeOK /\ profiles \in [Profiles -> Profile \cup {NoProfile}]
  BY DEF BaseInvariant, TypeOK
<1>1. \A t \in Scans : scan[t].at # "idle" =>
        \A q \in scan[t].left : q \in Profiles /\ profiles[q] # NoProfile
  BY <1>0, ScanFields DEF BaseInvariant, ScanKnows
\* Steps of others that leave tokens alone.
<1>2. ASSUME UNCHANGED scan,
             \A p \in Profiles : profiles[p] # NoProfile =>
               /\ profiles'[p] # NoProfile /\ profiles'[p].version = profiles[p].version
               /\ profiles'[p].hash = profiles[p].hash,
             \A p \in Profiles, d \in Days : outbox'[p][d] # NoRow =>
               outbox[p][d] # NoRow /\ outbox'[p][d].token = outbox[p][d].token
      PROVE  LinksKept'
  <2>1. /\ LinkWorks' /\ RowTokens'
        /\ \A p \in Profiles : \A x \in Profile :
             profiles[p] # NoProfile /\ CopyFits(p, x) => CopyFits(p, x)'
    BY <1>2, LinksUntouched
  <2>2. ASSUME NEW t \in Scans, scan'[t].at # "idle", NEW q \in scan'[t].left,
               scan'[t].copy[q] \in Profile
        PROVE  CopyFits(q, scan[t].copy[q])'
    <3>0. PICK x : x = scan[t].copy[q]
      OBVIOUS
    <3>1. q \in Profiles /\ profiles[q] # NoProfile /\ x \in Profile
      BY <1>1, <1>2, <2>2, <3>0
    <3>2. CopyFits(q, x)
      BY <1>2, <2>2, <3>0 DEF LinksKept
    <3>3. CopyFits(q, x)'
      BY <2>1, <3>1, <3>2
    <3> QED
      BY <1>2, <3>0, <3>3
  <2> QED
    BY <2>1, <2>2 DEF LinksKept
<1>3. ASSUME \/ \E c \in Clients : FindProfile(c) \/ RefreshProfile(c) \/ CreateClash(c)
             \/ \E k \in Tasks : ChangeTask(k)
             \/ NextDay
             \/ UNCHANGED vars
      PROVE  LinksKept'
  <2>1. UNCHANGED <<profiles, outbox, scan>>
    BY <1>3 DEF FindProfile, RefreshProfile, CreateClash, ChangeTask, NextDay, vars
  <2> QED
    BY <1>2, <2>1
<1>4. ASSUME NEW c \in Clients, CreateProfile(c) PROVE LinksKept'
  <2>0. PICK p : p = client[c].profile
    OBVIOUS
  <2>1. /\ p \in Profiles /\ profiles[p] = NoProfile
        /\ profiles' = [profiles EXCEPT ![p] = NewProfile] /\ UNCHANGED <<outbox, scan>>
    BY <1>0, <1>4, <2>0, ClientFields DEF CreateProfile
  <2>2. \A q \in Profiles : profiles[q] # NoProfile => profiles'[q] = profiles[q]
    BY <1>0, <2>1
  <2> QED
    BY <1>2, <2>1, <2>2
<1>5. ASSUME NEW c \in Clients, UpsertProfile(c) PROVE LinksKept'
  <2>0. PICK p, new : /\ p = client[c].profile
                      /\ new = Upserted(profiles[p], client[c].copy, client[c].body)
    OBVIOUS
  <2>1. /\ p \in Profiles /\ client[c].body \in Bodies /\ profiles[p] \in Profile
        /\ client[c].copy \in Profile /\ profiles' = [profiles EXCEPT ![p] = new]
        /\ UNCHANGED <<outbox, scan>>
    BY <1>0, <1>5, <2>0, ClientFields DEF UpsertProfile, BaseInvariant, ClientsKnow
  <2>2. /\ new \in Profile /\ new.version = profiles[p].version
        /\ new.hash = profiles[p].hash
    BY ZenonT(40), <2>0, <2>1, UpsertedType
  <2>3. profiles'[p] = new /\ \A q \in Profiles \ {p} : profiles'[q] = profiles[q]
    BY <1>0, <2>1
  <2>4. new # NoProfile
    BY <2>2, ProfileIsNothingElse
  <2> QED
    BY <1>2, <2>1, <2>2, <2>3, <2>4
<1>6. ASSUME Unsubscribe PROVE LinksKept'
  <2>1. PICK p \in Profiles : /\ profiles[p] # NoProfile
                              /\ profiles' = [profiles EXCEPT ![p].unsubscribed = TRUE]
                              /\ UNCHANGED <<outbox, scan>>
    BY <1>6 DEF Unsubscribe
  <2>2. PICK new : new = [profiles[p] EXCEPT !.unsubscribed = TRUE]
    OBVIOUS
  <2>3. profiles[p] \in Profile
    BY <1>0, <2>1
  <2>4. new \in Profile /\ new.version = profiles[p].version /\ new.hash = profiles[p].hash
    BY <2>2, <2>3 DEF Profile
  <2>5. profiles'[p] = new /\ \A q \in Profiles \ {p} : profiles'[q] = profiles[q]
    BY <1>0, <2>1, <2>2
  <2>6. new # NoProfile
    BY <2>4, ProfileIsNothingElse
  <2> QED
    BY <1>2, <2>1, <2>4, <2>5, <2>6
\* A rotation: no row has the new token yet, and every copy is older.
<1>7. ASSUME NEW p \in Profiles, RotateUnsubscribeToken(p) PROVE LinksKept'
  <2>0. PICK new : new = Rotated(profiles[p], p)
    OBVIOUS
  <2>1. /\ profiles[p] \in Profile /\ profiles' = [profiles EXCEPT ![p] = new]
        /\ UNCHANGED <<outbox, scan>> /\ profiles[p].version <= MaxRotations
    <3>1. profiles[p] # NoProfile /\ rotations < MaxRotations
      BY <1>7 DEF RotateUnsubscribeToken
    <3>2. profiles[p] \in Profile /\ profiles[p].version <= rotations + 1
      BY <1>0, <3>1 DEF BaseInvariant, VersionsCounted
    <3>3. profiles[p].version \in Nat /\ rotations \in Nat /\ MaxRotations \in Nat
      BY <1>0, <3>2, BoundAssumption DEF TypeOK, Profile
    <3> QED
      BY <1>7, <2>0, <3>1, <3>2, <3>3 DEF RotateUnsubscribeToken
  <2> DEFINE v == profiles[p].version
  <2>2. new \in Profile /\ new.version = v + 1 /\ new.hash = Token(p, v + 1) /\ v \in Nat
    <3>1. Rotated(profiles[p], p) \in Profile
          /\ Rotated(profiles[p], p).version = profiles[p].version + 1
          /\ Rotated(profiles[p], p).hash = Token(p, profiles[p].version + 1)
      BY <2>1, RotatedType
    <3> QED
      BY <2>0, <2>1, <3>1 DEF Profile
  <2>3. profiles'[p] = new /\ \A q \in Profiles \ {p} : profiles'[q] = profiles[q]
    BY <1>0, <2>1
  <2>4. new # NoProfile /\ profiles[p] # NoProfile
    BY <2>1, <2>2, ProfileIsNothingElse
  <2>5. \A d \in Days : outbox[p][d] # NoRow =>
          \E u \in 1..v : outbox[p][d].token = Token(p, u)
    BY DEF LinksKept, RowTokens
  <2>6. \A u, w : Token(p, u) = Token(p, w) => u = w
    BY DEF Token
  <2> HIDE DEF v
  <2>7. \A d \in Days : outbox[p][d] # NoRow => outbox[p][d].token # Token(p, v + 1)
    BY <2>2, <2>5, <2>6
  <2>8. LinkWorks'
    BY <2>1, <2>2, <2>3, <2>7 DEF LinksKept, LinkWorks
  <2>9. RowTokens'
    <3>1. \A u \in 1..v : u \in 1..(v + 1)
      BY <2>2
    <3> QED
      BY <2>1, <2>2, <2>3, <2>4, <2>5, <3>1 DEF LinksKept, RowTokens
  <2>10. ASSUME NEW t \in Scans, scan'[t].at # "idle", NEW q \in scan'[t].left,
                scan'[t].copy[q] \in Profile
         PROVE  CopyFits(q, scan[t].copy[q])'
    <3>0. PICK x : x = scan[t].copy[q]
      OBVIOUS
    <3>1. q \in Profiles /\ x \in Profile /\ CopyFits(q, x)
      BY <1>1, <2>1, <2>10, <3>0 DEF LinksKept
    <3>2. x.version \in Nat
      BY <3>1 DEF Profile
    <3>3. CASE q # p
      BY <2>1, <2>3, <3>0, <3>1, <3>3 DEF CopyFits
    <3>4. CASE q = p
      <4>1. x.version <= v
        BY <3>1, <3>4 DEF CopyFits, v
      <4>2. CopyFits(q, x)'
        BY <2>1, <2>2, <2>3, <2>7, <3>2, <3>4, <4>1 DEF CopyFits
      <4> QED
        BY <2>1, <3>0, <4>2
    <3> QED
      BY <3>3, <3>4
  <2> QED
    BY <2>8, <2>9, <2>10 DEF LinksKept
<1>8. ASSUME NEW p \in Profiles, NEW d \in Days, Dispatch(p, d) PROVE LinksKept'
  <2>1. PICK status \in {"sent", "dead"} :
          outbox' = [outbox EXCEPT ![p][d].status = status,
                                   ![p][d].sent_on = IF status = "sent" THEN day ELSE NotSent]
    BY <1>8 DEF Dispatch
  <2>2. outbox[p][d] \in Row /\ outbox[p][d] # NoRow
    BY <1>0, <1>8 DEF Dispatch, TypeOK, NoRow
  <2>3. \A q \in Profiles, e \in Days :
          \/ outbox'[q][e] = outbox[q][e]
          \/ outbox[q][e] # NoRow /\ outbox'[q][e].token = outbox[q][e].token
    BY <1>0, <2>1, <2>2 DEF TypeOK, Row
  <2>4. UNCHANGED <<profiles, scan>>
    BY <1>8 DEF Dispatch
  <2> QED
    BY <1>2, <2>3, <2>4
<1>9. ASSUME NEW s \in Scans, ScanStep(s) PROVE LinksKept'
  BY <1>9, ScanStepLinks
<1> QED
  BY <1>3, <1>4, <1>5, <1>6, <1>7, <1>8, <1>9 DEF Next, ScanStep

\* The link in every reminder works until its token is rotated, if scans do
\* not overlap or no token is ever rotated (nothing in the code calls for it).
THEOREM LinksWork == Spec /\ [](ScansApart \/ MaxRotations = 0) => []LinkWorks
<1>1. Init => LinksKept
  BY DEF Init, LinksKept, LinkWorks, RowTokens, IdleScan
<1>2. BaseInvariant /\ (ScansApart \/ MaxRotations = 0) /\ LinksKept /\ [Next]_vars => LinksKept'
  BY NextLinks
<1>3. LinksKept => LinkWorks
  BY DEF LinksKept
<1> QED
  BY <1>1, <1>2, <1>3, AlwaysBase, PTL DEF Spec

-----------------------------------------------------------------------------
(* The reminder of the day                                                 *)

\* p has had what it is owed today, if anything.
Served(p) ==
  profiles[p] # NoProfile /\ IsSendable(profiles[p]) /\ DueSoon(p, day) # {} =>
    \/ outbox[p][day] # NoRow /\ outbox[p][day].tasks = DueSoon(p, day)
    \/ \E d \in Days : outbox[p][d].status = "sent" /\ outbox[p][d].sent_on = day

\* What a scan of today knows of profiles nothing has happened to today, and
\* those it has left behind.
ScanOfToday(s) ==
  scan[s].at # "idle" /\ scan[s].day = day =>
    /\ \A p \in Profiles \ excused : p \in scan[s].left \/ Served(p)
    /\ \A p \in scan[s].left \ excused : scan[s].copy[p] \in Profile =>
         (IsSendable(scan[s].copy[p]) <=> IsSendable(profiles[p]))
    /\ scan[s].at = "enqueue" /\ scan[s].profile \notin excused =>
         scan[s].tasks = DueSoon(scan[s].profile, day)

\* Rows and scans are of today or an earlier day, and the row of today lists
\* the tasks due soon.
RowsInTime ==
  \A p \in Profiles, d \in Days : outbox[p][d] # NoRow =>
    d <= day /\ (d = day /\ p \notin excused => outbox[p][d].tasks = DueSoon(p, day))

DailyKept ==
  /\ RowsInTime
  /\ \A s \in Scans : scan[s].at # "idle" => scan[s].day <= day
  /\ \A s \in Scans : ScanOfToday(s)
  /\ scanned => \A p \in Profiles \ excused : Served(p)

\* A step that does not change whether mails can be sent to p, and when.
Undisturbed(p) ==
  /\ profiles'[p] # NoProfile /\ IsSendable(profiles'[p]) => profiles[p] # NoProfile
  /\ profiles[p] # NoProfile => (IsSendable(profiles'[p]) <=> IsSendable(profiles[p]))
  /\ {k \in todo' : PlanOf[k] = p} = {k \in todo : PlanOf[k] = p}

\* Rows stay, list the same tasks, and have been sent when they were sent.
RowsStay ==
  \A p \in Profiles, d \in Days : outbox[p][d] # NoRow =>
    /\ outbox'[p][d] # NoRow /\ outbox'[p][d].tasks = outbox[p][d].tasks
    /\ outbox[p][d].status = "sent" =>
         outbox'[p][d].status = "sent" /\ outbox'[p][d].sent_on = outbox[p][d].sent_on

LEMMA ServedStays ==
  ASSUME BaseInvariant, UNCHANGED day, RowsStay, NEW p \in Profiles, Undisturbed(p)
  PROVE  /\ DueSoon(p, day)' = DueSoon(p, day)
         /\ Served(p) => Served(p)'
<1>1. todo \subseteq Tasks /\ day \in Days
  BY DEF BaseInvariant, TypeOK
<1>2. DueSoon(p, day)' = DueSoon(p, day)
  <2>1. \A k : k \in todo' /\ PlanOf[k] = p <=> k \in todo /\ PlanOf[k] = p
    BY DEF Undisturbed
  <2> QED
    BY <2>1 DEF DueSoon
<1>3. ASSUME Served(p) PROVE Served(p)'
  <2> SUFFICES ASSUME profiles'[p] # NoProfile, IsSendable(profiles'[p]), DueSoon(p, day) # {}
               PROVE  \/ outbox'[p][day] # NoRow /\ outbox'[p][day].tasks = DueSoon(p, day)
                      \/ \E d \in Days : outbox'[p][d].status = "sent"
                                         /\ outbox'[p][d].sent_on = day
    BY <1>2 DEF Served
  <2>1. profiles[p] # NoProfile /\ IsSendable(profiles[p])
    BY DEF Undisturbed
  <2>2. CASE outbox[p][day] # NoRow /\ outbox[p][day].tasks = DueSoon(p, day)
    BY <1>1, <2>2 DEF RowsStay
  <2>3. CASE \E d \in Days : outbox[p][d].status = "sent" /\ outbox[p][d].sent_on = day
    <3>1. PICK d \in Days : outbox[p][d].status = "sent" /\ outbox[p][d].sent_on = day
      BY <2>3
    <3>2. outbox[p][d] # NoRow
      BY <3>1 DEF NoRow
    <3> QED
      BY <3>1, <3>2 DEF RowsStay
  <2> QED
    BY <1>3, <2>1, <2>2, <2>3 DEF Served
<1> QED
  BY <1>2, <1>3

\* What a scan does to rows.
LEMMA ScanStepRows ==
  ASSUME BaseInvariant, NEW s \in Scans, ScanStep(s)
  PROVE  /\ RowsStay
         /\ \A p \in Profiles, d \in Days : outbox[p][d] = NoRow /\ outbox'[p][d] # NoRow =>
              /\ scan[s].at = "enqueue" /\ p = scan[s].profile /\ d = scan[s].day
              /\ outbox'[p][d].tasks = scan[s].tasks
         /\ EnqueueDueSoon(s) => outbox'[scan[s].profile][scan[s].day] # NoRow
<1>1. CASE UNCHANGED outbox /\ ~EnqueueDueSoon(s)
  BY <1>1 DEF RowsStay
<1>2. CASE EnqueueDueSoon(s)
  <2>0. PICK p, d, copy, row :
          /\ p = scan[s].profile /\ d = scan[s].day /\ copy = scan[s].copy[p]
          /\ row = NewRow(copy.email, Token(p, copy.version), scan[s].tasks)
    OBVIOUS
  <2>1. /\ p \in Profiles /\ d \in Days /\ scan[s].at = "enqueue"
        /\ \/ row \in Row /\ outbox[p][d] = NoRow /\ outbox' = [outbox EXCEPT ![p][d] = row]
           \/ outbox[p][d] # NoRow /\ UNCHANGED outbox
    BY <1>2, <2>0, EnqueueEffect
  <2>2. CASE outbox[p][d] # NoRow /\ UNCHANGED outbox
    BY <2>0, <2>2 DEF RowsStay
  <2>3. CASE row \in Row /\ outbox[p][d] = NoRow /\ outbox' = [outbox EXCEPT ![p][d] = row]
    <3>1. row.tasks = scan[s].tasks /\ row.status = "pending"
      BY <2>0 DEF NewRow
    <3>2. row # NoRow
      BY <3>1 DEF NoRow
    <3>3. /\ outbox'[p][d] = row
          /\ \A q \in Profiles, e \in Days : ~(q = p /\ e = d) => outbox'[q][e] = outbox[q][e]
      BY <2>1, <2>3 DEF BaseInvariant, TypeOK
    <3>4. RowsStay
      BY <2>3, <3>3 DEF RowsStay
    <3> QED
      BY ZenonT(40), <2>0, <2>1, <3>1, <3>2, <3>3, <3>4
  <2> QED
    BY <2>1, <2>2, <2>3
<1> QED
  BY <1>1, <1>2 DEF ScanStep, BeginScan, CheckProfile, SelectTasks, FailAtProfile, Crash

LEMMA ScanStepUndisturbed ==
  ASSUME BaseInvariant, NEW s \in Scans, ScanStep(s)
  PROVE  UNCHANGED day /\ excused \subseteq excused' /\ \A p \in Profiles : Undisturbed(p)
<1>1. UNCHANGED <<day, todo>>
  BY ScanStepProfiles
<1>2. excused \subseteq excused'
  BY DEF ScanStep, BeginScan, CheckProfile, SelectTasks, EnqueueDueSoon, FailAtProfile, Crash
<1>3. ASSUME NEW p \in Profiles PROVE Undisturbed(p)
  <2>1. SameSettings(profiles[p], profiles'[p])
        /\ (profiles[p] = NoProfile <=> profiles'[p] = NoProfile)
    BY ScanStepProfiles
  <2>2. IsSendable(profiles'[p]) <=> IsSendable(profiles[p])
    BY <2>1 DEF SameSettings, IsSendable
  <2> QED
    BY <1>1, <2>1, <2>2 DEF Undisturbed
<1> QED
  BY <1>1, <1>2, <1>3

\* A scan that goes on with p still has it before it.
LEMMA GoOnLeaves ==
  ASSUME TypeOK, NEW s \in Scans, scan[s].at # "idle",
         NEW left \in SUBSET Profiles, NEW copies \in ScanCopies, GoOn(s, left, copies)
  PROVE  /\ scan'[s].at # "enqueue"
         /\ \A p \in left : scan'[s].at # "idle" /\ p \in scan'[s].left
         /\ scanned' => scanned \/ (scan'[s].at = "idle" /\ scan[s].day = day)
<1>1. /\ left = {} => scan'[s].at = "idle"
      /\ left # {} => scan'[s].at = "next" /\ scan'[s].left = left
  BY GoOnEffect
<1>2. scanned' = (scanned \/ (left = {} /\ scan[s].day = day))
  BY DEF GoOn
<1> QED
  BY <1>1, <1>2

\* Whom a scan of today leaves behind has been served, or excused.
LEMMA ScanStepLeaves ==
  ASSUME BaseInvariant, DailyKept, NEW s \in Scans, ScanStep(s),
         scan[s].at # "idle", scan[s].day = day,
         NEW p \in scan[s].left, p \notin excused',
         scan'[s].at # "idle" => p \notin scan'[s].left
  PROVE  Served(p)'
<1>0. /\ TypeOK /\ p \in Profiles /\ p \notin excused /\ UNCHANGED day /\ day \in Days
      /\ RowsStay /\ Undisturbed(p) /\ DueSoon(p, day)' = DueSoon(p, day)
      /\ Served(p) => Served(p)'
  <2>1. p \in Profiles /\ TypeOK
    BY ScanFields DEF BaseInvariant
  <2>2. UNCHANGED day /\ excused \subseteq excused' /\ Undisturbed(p)
    BY <2>1, ScanStepUndisturbed
  <2>3. RowsStay
    BY ScanStepRows
  <2>4. DueSoon(p, day)' = DueSoon(p, day) /\ (Served(p) => Served(p)')
    BY <2>1, <2>2, <2>3, ServedStays
  <2> QED
    BY <2>1, <2>2, <2>3, <2>4 DEF TypeOK
<1>1. AllExpired \in ScanCopies /\ scan[s].left \in SUBSET Profiles /\ scan[s].copy \in ScanCopies
  BY <1>0, ScanFields DEF AllExpired, ScanCopies
<1>2. \A q, copies : copies \in ScanCopies /\ GoOn(s, scan[s].left \ {q}, copies) => q = p
  <2> SUFFICES ASSUME NEW q, NEW copies \in ScanCopies, GoOn(s, scan[s].left \ {q}, copies), q # p
               PROVE  FALSE
    OBVIOUS
  <2>1. scan[s].left \ {q} \in SUBSET Profiles /\ p \in scan[s].left \ {q}
    BY <1>1
  <2> QED
    BY <1>0, <2>1, GoOnLeaves
<1>3. CASE CheckProfile(s)
  <2>1. PICK q \in scan[s].left :
          /\ scan[s].at = "next"
          /\ \/ scan' = [scan EXCEPT ![s] =
                           [at |-> "tasks", day |-> scan[s].day, left |-> scan[s].left,
                            copy |-> Loaded(s, q), gone |-> scan[s].gone, profile |-> q]]
             \/ /\ ~(IsSendable(Loaded(s, q)[q]) /\ SentOn(q, scan[s].day) < MaxPerDay)
                /\ GoOn(s, scan[s].left \ {q}, Loaded(s, q))
    BY <1>3, CheckEffect
  <2>2. /\ Loaded(s, q) \in ScanCopies /\ Loaded(s, q)[q] \in Profile
        /\ Loaded(s, q)[q] \in {scan[s].copy[q], profiles[q]}
    BY <2>1, LoadedType
  <2>3. CASE scan' = [scan EXCEPT ![s] =
                        [at |-> "tasks", day |-> scan[s].day, left |-> scan[s].left,
                         copy |-> Loaded(s, q), gone |-> scan[s].gone, profile |-> q]]
    <3>1. scan'[s].at = "tasks" /\ scan'[s].left = scan[s].left
      BY <1>0, <2>3 DEF TypeOK
    <3> QED
      BY <3>1
  <2>4. CASE /\ ~(IsSendable(Loaded(s, q)[q]) /\ SentOn(q, scan[s].day) < MaxPerDay)
             /\ GoOn(s, scan[s].left \ {q}, Loaded(s, q))
    <3>1. q = p
      BY <1>2, <2>2, <2>4
    <3>2. CASE ~IsSendable(Loaded(s, q)[q])
      <4>1. PICK x : x = Loaded(s, q)[q]
        OBVIOUS
      <4>2. x \in Profile /\ x \in {scan[s].copy[p], profiles[p]} /\ ~IsSendable(x)
        BY <2>2, <3>1, <3>2, <4>1
      <4>3. scan[s].copy[p] \in Profile => (IsSendable(scan[s].copy[p]) <=> IsSendable(profiles[p]))
        BY <1>0 DEF DailyKept, ScanOfToday
      <4>4. ~IsSendable(profiles[p])
        BY <4>2, <4>3
      <4> QED
        BY <1>0, <4>4 DEF Served
    <3>3. CASE ~(SentOn(q, scan[s].day) < MaxPerDay)
      <4>1. {e \in Days : outbox[p][e].status = "sent" /\ outbox[p][e].sent_on = day} # {}
        <5> SUFFICES ASSUME {e \in Days : outbox[p][e].status = "sent" /\ outbox[p][e].sent_on = day} = {}
                     PROVE  FALSE
          OBVIOUS
        <5>1. SentOn(p, day) = 0
          BY FS_EmptySet DEF SentOn
        <5> QED
          BY <3>1, <3>3, <5>1 DEF MaxPerDay
      <4> QED
        BY <1>0, <4>1 DEF Served
    <3> QED
      BY <2>4, <3>2, <3>3
  <2> QED
    BY <2>1, <2>3, <2>4
<1>4. CASE SelectTasks(s)
  <2>0. PICK q, due : q = scan[s].profile /\ due = DueSoon(q, scan[s].day)
    OBVIOUS
  <2>1. /\ scan[s].at = "tasks"
        /\ \/ scan' = [scan EXCEPT ![s] =
                         [at |-> "enqueue", day |-> scan[s].day, left |-> scan[s].left,
                          copy |-> scan[s].copy, gone |-> scan[s].gone, profile |-> q,
                          tasks |-> due]]
           \/ due = {} /\ GoOn(s, scan[s].left \ {q}, scan[s].copy)
    BY <1>4, <2>0, SelectEffect
  <2>2. CASE scan' = [scan EXCEPT ![s] =
                        [at |-> "enqueue", day |-> scan[s].day, left |-> scan[s].left,
                         copy |-> scan[s].copy, gone |-> scan[s].gone, profile |-> q,
                         tasks |-> due]]
    <3>1. scan'[s].at = "enqueue" /\ scan'[s].left = scan[s].left
      BY <1>0, <2>2 DEF TypeOK
    <3> QED
      BY <3>1
  <2>3. CASE due = {} /\ GoOn(s, scan[s].left \ {q}, scan[s].copy)
    <3>1. q = p
      BY <1>1, <1>2, <2>3
    <3>2. DueSoon(p, day) = {}
      BY <2>0, <2>3, <3>1
    <3> QED
      BY <1>0, <3>2 DEF Served
  <2> QED
    BY <2>1, <2>2, <2>3
<1>5. CASE EnqueueDueSoon(s)
  <2>0. PICK q, copies : /\ q = scan[s].profile
                         /\ copies = [scan[s].copy EXCEPT ![q].hash = Token(q, scan[s].copy[q].version)]
    OBVIOUS
  <2>1. /\ scan[s].at = "enqueue"
        /\ \/ copies \in ScanCopies /\ GoOn(s, scan[s].left \ {q}, copies)
           \/ GoOn(s, scan[s].left \ {q}, AllExpired)
    BY <1>5, <2>0, EnqueueEffect
  <2>2. q = p
    BY <1>1, <1>2, <2>1
  <2>3. outbox'[p][day] # NoRow
    BY <1>5, <2>0, <2>2, ScanStepRows
  <2>4. outbox'[p][day].tasks = DueSoon(p, day)
    <3>1. CASE outbox[p][day] = NoRow
      <4>1. outbox'[p][day].tasks = scan[s].tasks
        BY <1>0, <2>3, <3>1, ScanStepRows
      <4>2. scan[s].tasks = DueSoon(p, day)
        BY <1>0, <2>0, <2>1, <2>2 DEF DailyKept, ScanOfToday
      <4> QED
        BY <4>1, <4>2
    <3>2. CASE outbox[p][day] # NoRow
      BY <1>0, <3>2 DEF DailyKept, RowsInTime, RowsStay
    <3> QED
      BY <3>1, <3>2
  <2> QED
    BY <1>0, <2>3, <2>4 DEF Served
<1>6. CASE FailAtProfile(s)
  <2>1. PICK q \in scan[s].left : GoOn(s, scan[s].left \ {q}, AllExpired) /\ excused' = excused \cup {q}
    BY <1>6 DEF FailAtProfile
  <2>2. q = p
    BY <1>1, <1>2, <2>1
  <2> QED
    BY <2>1, <2>2
<1>7. CASE Crash(s)
  BY <1>7 DEF Crash
<1> QED
  BY <1>3, <1>4, <1>5, <1>6, <1>7 DEF ScanStep, BeginScan

\* When a scan is over, and when it has selected the tasks of a mail.
LEMMA ScanStepMilestones ==
  ASSUME BaseInvariant, NEW s \in Scans, ScanStep(s)
  PROVE  /\ scanned' => \/ scanned
                        \/ scan[s].at # "idle" /\ scan'[s].at = "idle" /\ scan[s].day = day
                        \/ \A p \in Profiles : profiles[p] = NoProfile
         /\ scan'[s].at = "enqueue" =>
              scan'[s].tasks = DueSoon(scan'[s].profile, scan[s].day)
<1>1. TypeOK /\ AllExpired \in ScanCopies /\ NoCopies \in ScanCopies /\ {} \in SUBSET Profiles
  BY DEF BaseInvariant, AllExpired, NoCopies, ScanCopies
<1>2. \A q, copies : /\ scan[s].at # "idle" /\ copies \in ScanCopies
                     /\ GoOn(s, scan[s].left \ {q}, copies)
        => /\ scan'[s].at # "enqueue"
           /\ scanned' => scanned \/ (scan'[s].at = "idle" /\ scan[s].day = day)
  <2> SUFFICES ASSUME NEW q, NEW copies \in ScanCopies, scan[s].at # "idle",
                      GoOn(s, scan[s].left \ {q}, copies)
               PROVE  /\ scan'[s].at # "enqueue"
                      /\ scanned' => scanned \/ (scan'[s].at = "idle" /\ scan[s].day = day)
    OBVIOUS
  <2>1. scan[s].left \ {q} \in SUBSET Profiles
    BY <1>1, ScanFields
  <2> QED
    BY <1>1, <2>1, GoOnLeaves
<1>3. CASE BeginScan(s)
  <2>1. PICK found : found = {p \in Profiles : profiles[p] # NoProfile}
    OBVIOUS
  <2>2. CASE found = {}
    BY <1>3, <2>1, <2>2 DEF BeginScan
  <2>3. CASE found # {}
    <3>1. scanned' = scanned /\ scan' = [scan EXCEPT ![s] = [at |-> "next", day |-> day,
                                left |-> found, copy |-> profiles, gone |-> optedOut]]
      BY <1>3, <2>1, <2>3 DEF BeginScan
    <3>2. scan'[s].at = "next"
      BY <1>1, <3>1 DEF TypeOK
    <3> QED
      BY <3>1, <3>2
  <2> QED
    BY <2>2, <2>3
<1>4. CASE CheckProfile(s)
  <2>1. PICK q \in scan[s].left :
          /\ scan[s].at = "next"
          /\ \/ /\ scan' = [scan EXCEPT ![s] =
                           [at |-> "tasks", day |-> scan[s].day, left |-> scan[s].left,
                            copy |-> Loaded(s, q), gone |-> scan[s].gone, profile |-> q]]
                /\ scanned' = scanned
             \/ GoOn(s, scan[s].left \ {q}, Loaded(s, q))
    BY <1>4, CheckEffect
  <2>2. Loaded(s, q) \in ScanCopies
    BY <2>1, LoadedType
  <2>3. CASE GoOn(s, scan[s].left \ {q}, Loaded(s, q))
    BY <1>2, <2>1, <2>2, <2>3
  <2>4. CASE /\ scan' = [scan EXCEPT ![s] =
                           [at |-> "tasks", day |-> scan[s].day, left |-> scan[s].left,
                            copy |-> Loaded(s, q), gone |-> scan[s].gone, profile |-> q]]
             /\ scanned' = scanned
    <3>1. scan'[s].at = "tasks"
      BY <1>1, <2>4 DEF TypeOK
    <3> QED
      BY <2>4, <3>1
  <2> QED
    BY <2>1, <2>3, <2>4
<1>5. CASE SelectTasks(s)
  <2>0. PICK q, due : q = scan[s].profile /\ due = DueSoon(q, scan[s].day)
    OBVIOUS
  <2>1. /\ scan[s].at = "tasks"
        /\ \/ /\ scan' = [scan EXCEPT ![s] =
                         [at |-> "enqueue", day |-> scan[s].day, left |-> scan[s].left,
                          copy |-> scan[s].copy, gone |-> scan[s].gone, profile |-> q,
                          tasks |-> due]]
              /\ scanned' = scanned
           \/ GoOn(s, scan[s].left \ {q}, scan[s].copy)
    BY <1>5, <2>0, SelectEffect
  <2>2. scan[s].copy \in ScanCopies
    BY <1>1, <2>1, ScanFields
  <2>3. CASE GoOn(s, scan[s].left \ {q}, scan[s].copy)
    BY <1>2, <2>1, <2>2, <2>3
  <2>4. CASE /\ scan' = [scan EXCEPT ![s] =
                         [at |-> "enqueue", day |-> scan[s].day, left |-> scan[s].left,
                          copy |-> scan[s].copy, gone |-> scan[s].gone, profile |-> q,
                          tasks |-> due]]
             /\ scanned' = scanned
    <3>1. scan'[s].tasks = due /\ scan'[s].profile = q
      BY <1>1, <2>4 DEF TypeOK
    <3> QED
      BY <2>0, <2>4, <3>1
  <2> QED
    BY <2>1, <2>3, <2>4
<1>6. CASE EnqueueDueSoon(s)
  <2>0. PICK q, copies : /\ q = scan[s].profile
                         /\ copies = [scan[s].copy EXCEPT ![q].hash = Token(q, scan[s].copy[q].version)]
    OBVIOUS
  <2>1. /\ scan[s].at = "enqueue"
        /\ \/ copies \in ScanCopies /\ GoOn(s, scan[s].left \ {q}, copies)
           \/ GoOn(s, scan[s].left \ {q}, AllExpired)
    BY <1>6, <2>0, EnqueueEffect
  <2> QED
    BY <1>1, <1>2, <2>1
<1>7. CASE FailAtProfile(s)
  <2>1. PICK q \in scan[s].left : GoOn(s, scan[s].left \ {q}, AllExpired)
    BY <1>7 DEF FailAtProfile
  <2> QED
    BY <1>1, <1>2, <1>7, <2>1 DEF FailAtProfile
<1>8. CASE Crash(s)
  <2>1. GoOn(s, {}, NoCopies) /\ scan[s].at # "idle"
    BY <1>8 DEF Crash
  <2> QED
    BY <1>1, <2>1, GoOnLeaves
<1> QED
  BY <1>3, <1>4, <1>5, <1>6, <1>7, <1>8 DEF ScanStep

LEMMA ScanStepDaily ==
  ASSUME BaseInvariant, DailyKept, NEW s \in Scans, ScanStep(s)
  PROVE  DailyKept'
<1>0. /\ TypeOK /\ day \in Days /\ UNCHANGED day /\ excused \subseteq excused' /\ RowsStay
      /\ \A p \in Profiles : Undisturbed(p) /\ DueSoon(p, day)' = DueSoon(p, day)
                             /\ (Served(p) => Served(p)')
  BY ScanStepUndisturbed, ScanStepRows, ServedStays DEF BaseInvariant, TypeOK
<1>1. RowsInTime'
  <2> SUFFICES ASSUME NEW p \in Profiles, NEW d \in Days, outbox'[p][d] # NoRow
               PROVE  d <= day /\ (d = day /\ p \notin excused' =>
                                     outbox'[p][d].tasks = DueSoon(p, day))
    BY <1>0 DEF RowsInTime
  <2>1. CASE outbox[p][d] # NoRow
    BY <1>0, <2>1 DEF DailyKept, RowsInTime, RowsStay
  <2>2. CASE outbox[p][d] = NoRow
    <3>1. /\ scan[s].at = "enqueue" /\ p = scan[s].profile /\ d = scan[s].day
          /\ outbox'[p][d].tasks = scan[s].tasks
      BY <2>2, ScanStepRows
    <3>2. d <= day
      BY <3>1 DEF DailyKept
    <3>3. d = day /\ p \notin excused => scan[s].tasks = DueSoon(p, day)
      BY <3>1 DEF DailyKept, ScanOfToday
    <3> QED
      BY <1>0, <3>1, <3>2, <3>3
  <2> QED
    BY <2>1, <2>2
<1>2. ASSUME NEW t \in Scans, scan'[t].at # "idle" PROVE scan'[t].day <= day
  <2>1. CASE t # s
    BY <1>2, <2>1, ScanStepCopies DEF DailyKept
  <2>2. CASE t = s /\ Begins(s)
    <3>1. day <= day
      BY <1>0 DEF Days
    <3> QED
      BY <2>2, <3>1 DEF Begins
  <2>3. CASE t = s /\ Continues(s)
    BY <2>3 DEF Continues, DailyKept
  <2> QED
    BY <1>2, <2>1, <2>2, <2>3, ScanStepCopies
<1>3. ASSUME NEW t \in Scans, scan'[t].at # "idle", scan'[t].day = day
      PROVE  /\ \A p \in Profiles \ excused' : p \in scan'[t].left \/ Served(p)'
             /\ \A p \in scan'[t].left \ excused' : scan'[t].copy[p] \in Profile =>
                  (IsSendable(scan'[t].copy[p]) <=> IsSendable(profiles'[p]))
             /\ scan'[t].at = "enqueue" /\ scan'[t].profile \notin excused' =>
                  scan'[t].tasks = DueSoon(scan'[t].profile, day)
  <2>0. \A q \in Profiles : profiles[q] # NoProfile =>
          (IsSendable(profiles'[q]) <=> IsSendable(profiles[q]))
    BY <1>0 DEF Undisturbed
  <2>1. CASE t # s
    <3>1. scan'[t] = scan[t]
      BY <2>1, ScanStepCopies
    <3>2. \A q \in scan[t].left : q \in Profiles /\ profiles[q] # NoProfile
      BY <1>0, <1>3, <3>1, ScanFields DEF BaseInvariant, ScanKnows
    <3> QED
      BY <1>0, <1>3, <2>0, <3>1, <3>2 DEF DailyKept, ScanOfToday
  <2>2. CASE t = s /\ Begins(s)
    <3>1. /\ scan'[s].at = "next" /\ scan'[s].copy = profiles
          /\ \A q \in Profiles : q \in scan'[s].left <=> profiles[q] # NoProfile
          /\ scan'[s].left \subseteq Profiles
      BY <2>2 DEF Begins
    <3>2. \A q \in Profiles : profiles[q] = NoProfile => Served(q)'
      BY <1>0 DEF Served
    <3> QED
      BY <2>0, <2>2, <3>1, <3>2
  <2>3. CASE t = s /\ Continues(s)
    <3>0. /\ scan[s].at # "idle" /\ scan[s].day = day /\ scan'[s].left \subseteq scan[s].left
          /\ \A q \in scan'[s].left : scan'[s].copy[q] \in {scan[s].copy[q], profiles[q], Expired}
      BY <1>3, <2>3 DEF Continues
    <3>1. \A q \in scan[s].left : q \in Profiles /\ profiles[q] # NoProfile
      BY <1>0, <3>0, ScanFields DEF BaseInvariant, ScanKnows
    <3>2. /\ \A q \in Profiles \ excused : q \in scan[s].left \/ Served(q)
          /\ \A q \in scan[s].left \ excused : scan[s].copy[q] \in Profile =>
               (IsSendable(scan[s].copy[q]) <=> IsSendable(profiles[q]))
      BY <3>0 DEF DailyKept, ScanOfToday
    <3>3. ASSUME NEW p \in Profiles \ excused' PROVE p \in scan'[s].left \/ Served(p)'
      BY <1>0, <3>0, <3>2, <3>3, ScanStepLeaves
    <3>4. ASSUME NEW p \in scan'[s].left \ excused', scan'[s].copy[p] \in Profile
          PROVE  IsSendable(scan'[s].copy[p]) <=> IsSendable(profiles'[p])
      <4>1. PICK x : x = scan'[s].copy[p]
        OBVIOUS
      <4>2. x \in Profile /\ x \in {scan[s].copy[p], profiles[p]}
        BY <3>0, <3>4, <4>1, ProfileIsNothingElse
      <4>3. IsSendable(x) <=> IsSendable(profiles[p])
        BY <1>0, <3>0, <3>2, <3>4, <4>2
      <4>4. IsSendable(profiles'[p]) <=> IsSendable(profiles[p])
        BY <2>0, <3>0, <3>1, <3>4
      <4> QED
        BY <4>1, <4>3, <4>4
    <3>5. scan'[s].at = "enqueue" => scan'[s].tasks = DueSoon(scan'[s].profile, day)
      BY <3>0, ScanStepMilestones
    <3> QED
      BY <2>3, <3>3, <3>4, <3>5
  <2> QED
    BY <1>3, <2>1, <2>2, <2>3, ScanStepCopies
<1>4. ASSUME NEW t \in Scans PROVE ScanOfToday(t)'
  <2>1. \A q : DueSoon(q, day)' = DueSoon(q, day)
    BY <1>0, ScanStepProfiles DEF DueSoon
  <2> QED
    BY <1>0, <1>3, <2>1 DEF ScanOfToday
<1>5. ASSUME scanned', NEW p \in Profiles \ excused' PROVE Served(p)'
  <2>1. CASE scanned
    BY <1>0, <1>5, <2>1 DEF DailyKept
  <2>2. CASE scan[s].at # "idle" /\ scan'[s].at = "idle" /\ scan[s].day = day
    <3>1. p \in scan[s].left \/ Served(p)
      BY <1>0, <2>2 DEF DailyKept, ScanOfToday
    <3> QED
      BY <1>0, <2>2, <3>1, ScanStepLeaves
  <2>3. CASE \A q \in Profiles : profiles[q] = NoProfile
    BY <1>0, <2>3 DEF Served
  <2> QED
    BY <1>5, <2>1, <2>2, <2>3, ScanStepMilestones
<1> QED
  BY <1>0, <1>1, <1>2, <1>4, <1>5 DEF DailyKept

LEMMA NextDaily ==
  ASSUME BaseInvariant, DailyKept, [Next]_vars
  PROVE  DailyKept'
<1>0. /\ TypeOK /\ day \in Days /\ profiles \in [Profiles -> Profile \cup {NoProfile}]
      /\ outbox \in [Profiles -> [Days -> Row \cup {NoRow}]]
  BY DEF BaseInvariant, TypeOK
\* Of the steps of others within a day it matters whom they disturb.
<1>1. ASSUME UNCHANGED <<day, scan, scanned>>, excused \subseteq excused', RowsStay,
             \A p \in Profiles, d \in Days : outbox[p][d] = NoRow => outbox'[p][d] = NoRow,
             \A p \in Profiles \ excused' : Undisturbed(p)
      PROVE  DailyKept'
  <2>1. \A p \in Profiles \ excused' : /\ DueSoon(p, day)' = DueSoon(p, day)
                                       /\ Served(p) => Served(p)'
    BY <1>1, ServedStays
  <2>2. RowsInTime'
    BY <1>1, <2>1 DEF DailyKept, RowsInTime, RowsStay
  <2>3. ASSUME NEW t \in Scans PROVE ScanOfToday(t)'
    <3> SUFFICES ASSUME scan[t].at # "idle", scan[t].day = day
                 PROVE  /\ \A p \in Profiles \ excused' : p \in scan[t].left \/ Served(p)'
                        /\ \A p \in scan[t].left \ excused' : scan[t].copy[p] \in Profile =>
                             (IsSendable(scan[t].copy[p]) <=> IsSendable(profiles'[p]))
                        /\ scan[t].at = "enqueue" /\ scan[t].profile \notin excused' =>
                             scan[t].tasks = DueSoon(scan[t].profile, day)'
      BY <1>1 DEF ScanOfToday
    <3>1. \A q \in scan[t].left : q \in Profiles /\ profiles[q] # NoProfile
      BY <1>0, ScanFields DEF BaseInvariant, ScanKnows
    <3>2. scan[t].at = "enqueue" => scan[t].profile \in Profiles
      BY <1>0, ScanFields
    <3>3. /\ \A p \in Profiles \ excused : p \in scan[t].left \/ Served(p)
          /\ \A p \in scan[t].left \ excused : scan[t].copy[p] \in Profile =>
               (IsSendable(scan[t].copy[p]) <=> IsSendable(profiles[p]))
          /\ scan[t].at = "enqueue" /\ scan[t].profile \notin excused =>
               scan[t].tasks = DueSoon(scan[t].profile, day)
      BY DEF DailyKept, ScanOfToday
    <3>4. \A p \in Profiles \ excused' : p \in scan[t].left \/ Served(p)'
      BY <1>1, <2>1, <3>3
    <3>5. \A p \in scan[t].left \ excused' : scan[t].copy[p] \in Profile =>
            (IsSendable(scan[t].copy[p]) <=> IsSendable(profiles'[p]))
      BY <1>1, <3>1, <3>3 DEF Undisturbed
    <3>6. scan[t].at = "enqueue" /\ scan[t].profile \notin excused' =>
            scan[t].tasks = DueSoon(scan[t].profile, day)'
      <4>1. PICK q : q = scan[t].profile
        OBVIOUS
      <4>2. ASSUME scan[t].at = "enqueue", q \notin excused'
            PROVE  scan[t].tasks = DueSoon(q, day)'
        BY <1>1, <2>1, <3>2, <3>3, <4>1, <4>2
      <4>3. DueSoon(q, day)' = {k \in todo' : PlanOf[k] = q /\ DueOn[k] \in day'..(day' + LookAhead)}
        BY DEF DueSoon
      <4> QED
        BY <1>1, <4>1, <4>2
    <3> QED
      BY <3>4, <3>5, <3>6
  <2>4. scanned' => \A p \in Profiles \ excused' : Served(p)'
    BY <1>1, <2>1 DEF DailyKept
  <2> QED
    BY <1>1, <2>2, <2>3, <2>4 DEF DailyKept
\* Steps that leave p's settings and tasks alone.
<1>2. \A p \in Profiles : profiles'[p] = profiles[p] /\ UNCHANGED todo => Undisturbed(p)
  BY DEF Undisturbed
<1>3. UNCHANGED outbox => /\ RowsStay
                          /\ \A p \in Profiles, d \in Days : outbox[p][d] = NoRow => outbox'[p][d] = NoRow
  BY DEF RowsStay
<1>4. ASSUME \/ \E c \in Clients : FindProfile(c) \/ RefreshProfile(c) \/ CreateClash(c)
             \/ UNCHANGED vars
      PROVE  DailyKept'
  <2>1. UNCHANGED <<day, scan, scanned, excused, outbox, profiles, todo>>
    BY <1>4 DEF FindProfile, RefreshProfile, CreateClash, vars, history
  <2> QED
    BY <1>1, <1>2, <1>3, <2>1
<1>5. ASSUME NEW c \in Clients, CreateProfile(c) PROVE DailyKept'
  <2>0. PICK p : p = client[c].profile
    OBVIOUS
  <2>1. /\ p \in Profiles /\ profiles[p] = NoProfile
        /\ profiles' = [profiles EXCEPT ![p] = NewProfile]
        /\ UNCHANGED <<day, scan, scanned, excused, outbox, todo>>
    BY <1>0, <1>5, <2>0, ClientFields DEF CreateProfile, history
  <2>2. profiles'[p] = NewProfile /\ \A q \in Profiles \ {p} : profiles'[q] = profiles[q]
    BY <1>0, <2>1
  <2>3. ~IsSendable(NewProfile)
    BY DEF IsSendable, NewProfile
  <2>4. Undisturbed(p)
    BY <2>1, <2>2, <2>3 DEF Undisturbed
  <2> QED
    BY <1>1, <1>2, <1>3, <2>1, <2>2, <2>4
<1>6. ASSUME (\E c \in Clients : UpsertProfile(c)) \/ Unsubscribe PROVE DailyKept'
  <2>1. PICK p \in Profiles : /\ \A q \in Profiles \ {p} : profiles'[q] = profiles[q]
                              /\ excused' = excused \cup {p}
    <3>1. CASE Unsubscribe
      <4>1. PICK p \in Profiles : /\ profiles' = [profiles EXCEPT ![p].unsubscribed = TRUE]
                                  /\ excused' = excused \cup {p}
        BY <3>1 DEF Unsubscribe
      <4> QED
        BY <1>0, <4>1
    <3>2. ASSUME NEW c \in Clients, UpsertProfile(c)
          PROVE  \E p \in Profiles : /\ \A q \in Profiles \ {p} : profiles'[q] = profiles[q]
                                     /\ excused' = excused \cup {p}
      <4>0. PICK p, new : /\ p = client[c].profile
                          /\ new = Upserted(profiles[p], client[c].copy, client[c].body)
        OBVIOUS
      <4>1. /\ p \in Profiles /\ profiles' = [profiles EXCEPT ![p] = new]
            /\ excused' = excused \cup {p}
        BY <1>0, <3>2, <4>0, ClientFields DEF UpsertProfile
      <4> QED
        BY <1>0, <4>1
    <3> QED
      BY <1>6, <3>1, <3>2
  <2>2. UNCHANGED <<day, scan, scanned, outbox, todo>>
    BY <1>6 DEF UpsertProfile, Unsubscribe
  <2> QED
    BY <1>1, <1>2, <1>3, <2>1, <2>2
<1>7. ASSUME NEW p \in Profiles, RotateUnsubscribeToken(p) PROVE DailyKept'
  <2>0. PICK new : new = Rotated(profiles[p], p)
    OBVIOUS
  <2>1. /\ profiles[p] \in Profile /\ profiles' = [profiles EXCEPT ![p] = new]
        /\ UNCHANGED <<day, scan, scanned, excused, outbox, todo>>
    BY <1>0, <1>7, <2>0 DEF RotateUnsubscribeToken, history
  <2>2. IsSendable(new) <=> IsSendable(profiles[p])
    BY <2>0, <2>1 DEF Rotated, Profile, IsSendable
  <2>3. profiles'[p] = new /\ \A q \in Profiles \ {p} : profiles'[q] = profiles[q]
    BY <1>0, <2>1
  <2>4. Undisturbed(p)
    BY <2>1, <2>2, <2>3, ProfileIsNothingElse DEF Undisturbed
  <2> QED
    BY <1>1, <1>2, <1>3, <2>1, <2>3, <2>4
<1>8. ASSUME NEW k \in Tasks, ChangeTask(k) PROVE DailyKept'
  <2>1. /\ UNCHANGED <<day, scan, scanned, outbox, profiles>>
        /\ todo' = IF k \in todo THEN todo \ {k} ELSE todo \cup {k}
        /\ excused' = excused \cup {PlanOf[k]}
    BY <1>8 DEF ChangeTask
  <2>2. ASSUME NEW p \in Profiles \ excused' PROVE Undisturbed(p)
    <3>1. PlanOf[k] # p
      BY <2>1, <2>2
    <3>2. {j \in todo' : PlanOf[j] = p} = {j \in todo : PlanOf[j] = p}
      BY <2>1, <3>1
    <3> QED
      BY <2>1, <3>2 DEF Undisturbed
  <2> QED
    BY <1>1, <1>3, <2>1, <2>2
\* At midnight everybody is owed again, and no row and no scan is of the new day.
<1>9. ASSUME NextDay PROVE DailyKept'
  <2>1. /\ day' = day + 1 /\ ~scanned' /\ UNCHANGED <<outbox, scan>>
    BY <1>9 DEF NextDay
  <2>2. day \in Nat /\ \A d \in Days : d \in Nat
    BY <1>0 DEF Days
  <2>3. RowsInTime'
    BY <2>1, <2>2 DEF DailyKept, RowsInTime
  <2>4. \A t \in Scans : scan[t].at # "idle" => scan[t].day \in Nat /\ scan[t].day <= day
    BY <1>0, <2>2, ScanFields DEF DailyKept
  <2>5. \A t \in Scans : scan'[t].at # "idle" => scan'[t].day <= day' /\ scan'[t].day # day'
    BY <2>1, <2>2, <2>4
  <2>6. \A t \in Scans : ScanOfToday(t)'
    BY <2>5 DEF ScanOfToday
  <2> QED
    BY <2>1, <2>3, <2>5, <2>6 DEF DailyKept
<1>10. ASSUME NEW p \in Profiles, NEW d \in Days, Dispatch(p, d) PROVE DailyKept'
  <2>1. PICK status \in {"sent", "dead"} :
          outbox' = [outbox EXCEPT ![p][d].status = status,
                                   ![p][d].sent_on = IF status = "sent" THEN day ELSE NotSent]
    BY <1>10 DEF Dispatch
  <2>2. outbox[p][d] \in Row /\ outbox[p][d].status = "pending"
    BY <1>0, <1>10 DEF Dispatch, NoRow
  <2>3. /\ outbox'[p][d].tasks = outbox[p][d].tasks /\ outbox'[p][d].status \in {"sent", "dead"}
        /\ \A q \in Profiles, e \in Days : ~(q = p /\ e = d) => outbox'[q][e] = outbox[q][e]
    BY <1>0, <2>1, <2>2 DEF Row
  <2>4. outbox[p][d] # NoRow /\ outbox'[p][d] # NoRow
    BY <2>2, <2>3 DEF NoRow
  <2>5. RowsStay
    BY <2>2, <2>3, <2>4 DEF RowsStay
  <2>6. UNCHANGED <<day, scan, scanned, excused, profiles, todo>>
    BY <1>10 DEF Dispatch, history
  <2> QED
    BY <1>1, <1>2, <2>3, <2>4, <2>5, <2>6
<1>11. ASSUME NEW s \in Scans, ScanStep(s) PROVE DailyKept'
  BY <1>11, ScanStepDaily
<1> QED
  BY <1>4, <1>5, <1>6, <1>7, <1>8, <1>9, <1>10, <1>11 DEF Next, ScanStep

\* A day does not end without the reminder of a profile that could be sent to
\* all day and had tasks due soon, whatever scans by hand, failures at other
\* profiles and lost races for a row there are.
THEOREM RemindedEveryDay == Spec => RemindedDaily
<1> DEFINE Owed == day' # day => \A p \in Profiles \ excused : Served(p)
<1>1. Init => DailyKept
  BY DEF Init, DailyKept, RowsInTime, ScanOfToday, IdleScan
<1>2. BaseInvariant /\ DailyKept /\ [Next]_vars => DailyKept'
  BY NextDaily
<1>3. DailyKept /\ [Next]_vars => [Owed]_vars
  <2> SUFFICES ASSUME DailyKept, Next, day' # day PROVE \A p \in Profiles \ excused : Served(p)
    OBVIOUS
  <2>1. NextDay
    BY DEF Next, FindProfile, CreateProfile, RefreshProfile, CreateClash, UpsertProfile,
           Unsubscribe, RotateUnsubscribeToken, ChangeTask, Dispatch, BeginScan, CheckProfile,
           SelectTasks, EnqueueDueSoon, FailAtProfile, Crash
  <2> QED
    BY <2>1 DEF NextDay, DailyKept
<1>4. [][Owed]_vars => RemindedDaily
  BY PTL DEF Served, RemindedDaily
<1> QED
  BY <1>1, <1>2, <1>3, <1>4, AlwaysBase, PTL DEF Spec

=============================================================================
