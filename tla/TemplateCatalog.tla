-------------------------- MODULE TemplateCatalog --------------------------
(***************************************************************************)
(* The versions of one template: the files of workflows/<id>/v<n>, the     *)
(* rows of template_versions that say which of them are published and      *)
(* under which hash, and the plans made from them.                         *)
(*                                                                         *)
(* A file's content stands for its SHA-256: different contents have        *)
(* different hashes.  Each statement of a request is a step, because       *)
(* another request, a start-up, a deployment or an operator may come       *)
(* between two of them.  Nothing in the code replaces a file, inserts a    *)
(* draft or withdraws a version; the repository expects people to, and the *)
(* last three actions are theirs.                                          *)
(***************************************************************************)
EXTENDS Naturals

CONSTANTS
  Versions,
  Defaults,   \* the versions bootstrap_defaults and the migration register
  Keys,       \* what a client may send as template_key
  KeyOf,      \* KeyOf[v]: derive_template_key
  VersionOf,  \* VersionOf[k]: parse_template_key; "birth_de/v02" is a key of 2 as well
  Drafts,     \* BOUND: the versions somebody inserts as drafts
  Contents,   \* what a file may hold
  Valid,      \* Valid[v]: the contents load_by_id_version accepts as version v
  NoFile,
  NoHash,     \* compiled_hash is NULL
  NoRow,
  NoPlan,
  Idle,
  Plans,      \* BOUND: the plans that can be made
  Requests,   \* the API requests that can be in flight at once
  Starts,     \* the processes that start up
  MaxByHand   \* BOUND: files changed, drafts inserted and versions withdrawn

ASSUME KeyAssumption ==
  /\ Versions \subseteq Nat /\ Defaults \subseteq Versions /\ Drafts \subseteq Versions
  /\ KeyOf \in [Versions -> Keys] /\ VersionOf \in [Keys -> Versions]
  /\ \A v \in Versions : VersionOf[KeyOf[v]] = v

ASSUME FileAssumption ==
  /\ Valid \in [Versions -> SUBSET Contents]
  /\ NoFile \notin Contents /\ NoHash \notin Contents
  /\ MaxByHand \in Nat

RowStatus == {"draft", "published", "deprecated"}
Hash == Contents \cup {NoHash}

\* withdrawn: deprecated_at is set.
Row == [status : RowStatus, withdrawn : BOOLEAN, hash : Hash]

(* from is upgraded_from_plan_id.  content is the template the stored tasks  *)
(* were planned from; hash, for the properties, the hash the file was        *)
(* compared with when the plan was made.                                     *)
Plan == [key : Keys, version : Versions, from : Plans \cup {NoPlan},
         content : Contents, hash : Hash]

VARIABLES
  files,   \* files[v]: compiled.json of version v
  rows,    \* rows[v]: its row in template_versions
  plans,   \* plans[p]: the row of the plan, as far as its template goes
  req,     \* where each request is, and what it read: version, key and hash to load, the plan
  start,   \* where each starting process is
  todo,    \* the defaults it has not looked at
  adds,    \* adds[s][v]: the hash under which it will register v, if at all
  missed,  \* history: the defaults whose file was missing when it looked
  byHand

starting == <<start, todo, adds, missed>>
vars == <<files, rows, plans, req, starting, byHand>>

Step == {"create", "recompute", "validate", "publish"}
Asked == [step : Step, version : Versions, key : Keys, hash : Hash, plan : Plans \cup {NoPlan}]

ASSUME ValueAssumption == NoRow \notin Row /\ NoPlan \notin Plan \cup Plans
                          /\ Idle \notin Asked

TypeOK ==
  /\ files \in [Versions -> Contents \cup {NoFile}]
  /\ rows \in [Versions -> Row \cup {NoRow}]
  /\ plans \in [Plans -> Plan \cup {NoPlan}]
  /\ req \in [Requests -> Asked \cup {Idle}]
  /\ start \in [Starts -> {"down", "looking", "up"}]
  /\ todo \in [Starts -> SUBSET Defaults]
  /\ adds \in [Starts -> [Versions -> Hash]]
  /\ missed \in [Starts -> SUBSET Defaults]
  /\ byHand \in 0 .. MaxByHand

-----------------------------------------------------------------------------
(* What the catalog answers.                                                 *)

Registered(v) == rows[v] # NoRow

\* The WHERE of resolve_latest_published and get_latest_published_version.
Published(v) == Registered(v) /\ rows[v].status = "published" /\ ~rows[v].withdrawn

\* Mutant: ORDER BY version ASC.
IsEarliest(v) == Published(v) /\ \A w \in Versions : Published(w) => v <= w

\* ORDER BY version DESC LIMIT 1.
IsLatest(v) == Published(v) /\ \A w \in Versions : Published(w) => w <= v

\* Mutant: a file with the stored hash is not validated again.
LoadsTrustingHash(v, hash) ==
  /\ files[v] # NoFile
  /\ IF hash # NoHash THEN files[v] = hash ELSE files[v] \in Valid[v]

\* load_by_id_version: the file is there, has the expected hash if any, and is valid.
Loads(v, hash) ==
  /\ files[v] # NoFile
  /\ hash # NoHash => files[v] = hash
  /\ files[v] \in Valid[v]

-----------------------------------------------------------------------------
(* POST plans and POST upgrade: find the version, load its file, store.      *)

At(r, steps) == req[r] # Idle /\ req[r].step \in steps

Begin(r, asked) ==
  /\ req[r] = Idle
  /\ req' = [req EXCEPT ![r] = asked]
  /\ UNCHANGED <<files, rows, plans, starting, byHand>>

End(r) == req' = [req EXCEPT ![r] = Idle]

Resolved(v, from) ==
  [step |-> "create", version |-> v, key |-> KeyOf[v], hash |-> rows[v].hash, plan |-> from]

\* With a template_id: the latest published version.
ResolveById(r) ==
  \E v \in Versions : IsLatest(v) /\ Begin(r, Resolved(v, NoPlan))

(* With a template_key: its row, if it is published; without a row any file  *)
(* the key names, whatever it holds.                                         *)
ResolveByKey(r, k) ==
  LET v == VersionOf[k]
  IN \/ /\ k = KeyOf[v] /\ Published(v)
        /\ Begin(r, Resolved(v, NoPlan))
     \/ /\ k = KeyOf[v] => ~Registered(v)
        /\ Begin(r, [step |-> "create", version |-> v, key |-> k,
                     hash |-> NoHash, plan |-> NoPlan])

(* upgrade_plan: only the versions are compared.  create_plan asks for the   *)
(* row by its key again, but the session answers with the object it has.     *)
ResolveUpgrade(r, p) ==
  /\ plans[p] # NoPlan
  /\ \E v \in Versions : /\ IsLatest(v) /\ v # plans[p].version
                         /\ Begin(r, Resolved(v, p))

CreatePlan(r) ==
  /\ At(r, {"create"})
  /\ Loads(req[r].version, req[r].hash)
  /\ \E p \in Plans :
       /\ plans[p] = NoPlan
       /\ plans' = [plans EXCEPT ![p] =
            [key |-> req[r].key, version |-> req[r].version, from |-> req[r].plan,
             content |-> files[req[r].version], hash |-> req[r].hash]]
  /\ End(r)
  /\ UNCHANGED <<files, rows, starting, byHand>>

-----------------------------------------------------------------------------
(* A recompute: the row of the plan's key, whatever its status, then the     *)
(* file, then new tasks, or the old ones again if the facts are the same     *)
(* (PlanStore has the rest).                                                 *)

\* Mutant: a recompute that does not compare hashes.
RowHashIgnored(k) == NoHash

RowHash(k) == IF k = KeyOf[VersionOf[k]] /\ Registered(VersionOf[k])
              THEN rows[VersionOf[k]].hash ELSE NoHash

ReadRow(r, p) ==
  /\ plans[p] # NoPlan
  /\ Begin(r, [step |-> "recompute", version |-> VersionOf[plans[p].key],
               key |-> plans[p].key, hash |-> RowHash(plans[p].key), plan |-> p])

\* A path of the plan's own key: the file replaced in the meantime may answer.
RecomputePlan(r) ==
  /\ At(r, {"recompute"})
  /\ Loads(req[r].version, req[r].hash)
  /\ \E fastPath \in BOOLEAN :
       plans' = IF fastPath THEN plans
                ELSE [plans EXCEPT ![req[r].plan].content = files[req[r].version]]
  /\ End(r)
  /\ UNCHANGED <<files, rows, starting, byHand>>

-----------------------------------------------------------------------------
(* POST publish.  SELECT FOR UPDATE keeps the row from everybody else until  *)
(* the request ends.  A published row is returned as it is, any other status *)
(* but draft is refused: neither changes anything.                           *)

\* Mutant: publish without SELECT FOR UPDATE.
LockedNever(v) == FALSE

Locked(v) == \E r \in Requests : At(r, {"validate", "publish"}) /\ req[r].version = v

LockRow(r, v) ==
  /\ Registered(v) /\ ~Locked(v)
  /\ rows[v].status = "draft"
  /\ Begin(r, [step |-> "validate", version |-> v, key |-> KeyOf[v],
               hash |-> NoHash, plan |-> NoPlan])

\* load_by_id_version reads the file ...
ValidateFile(r) ==
  /\ At(r, {"validate"})
  /\ Loads(req[r].version, NoHash)
  /\ req' = [req EXCEPT ![r].step = "publish"]
  /\ UNCHANGED <<files, rows, plans, starting, byHand>>

\* ... and compiled_hash reads it again.
Publish(r) ==
  LET v == req[r].version
  IN /\ At(r, {"publish"})
     /\ files[v] # NoFile
     /\ rows' = [rows EXCEPT ![v].status = "published", ![v].hash = files[v]]
     /\ End(r)
     /\ UNCHANGED <<files, plans, starting, byHand>>

(* Any request may end with nothing stored: the file is missing, has another *)
(* hash or is invalid, the planner rejects the facts, the process dies.  The *)
(* transaction and its lock are gone.                                        *)
Fail(r) ==
  /\ req[r] # Idle
  /\ End(r)
  /\ UNCHANGED <<files, rows, plans, starting, byHand>>

-----------------------------------------------------------------------------
(* A process starts with AUTO_CREATE_SCHEMA: bootstrap_defaults looks at one *)
(* default after the other and adds those without a row, unvalidated, in one *)
(* transaction.                                                              *)

NoAdds == [v \in Versions |-> NoHash]

BeginStart(s) ==
  /\ start[s] = "down"
  /\ start' = [start EXCEPT ![s] = "looking"]
  /\ todo' = [todo EXCEPT ![s] = Defaults]
  /\ UNCHANGED <<files, rows, plans, req, adds, missed, byHand>>

\* Mutant: "return" where bootstrap_defaults has "continue".
RemainingUntilFound(s, v) == IF Registered(v) THEN {} ELSE todo[s] \ {v}

\* A version that has a row is passed over, the next one is looked at.
Remaining(s, v) == todo[s] \ {v}

LookAt(s) ==
  /\ start[s] = "looking"
  /\ \E v \in todo[s] :
       /\ \A w \in todo[s] : v <= w
       /\ todo' = [todo EXCEPT ![s] = Remaining(s, v)]
       /\ adds' = IF Registered(v) \/ files[v] = NoFile THEN adds
                  ELSE [adds EXCEPT ![s][v] = files[v]]
       /\ missed' = IF Registered(v) \/ files[v] # NoFile THEN missed
                    ELSE [missed EXCEPT ![s] = @ \cup {v}]
  /\ UNCHANGED <<files, rows, plans, req, start, byHand>>

Added(s) == {v \in Defaults : adds[s][v] # NoHash}
NewRow(hash) == [status |-> "published", withdrawn |-> FALSE, hash |-> hash]
RowClash(s) == \E v \in Added(s) : Registered(v)

\* The session is closed.
Forget(s) ==
  /\ todo' = [todo EXCEPT ![s] = {}]
  /\ adds' = [adds EXCEPT ![s] = NoAdds]
  /\ missed' = [missed EXCEPT ![s] = {}]

RegisterDefaults(s) ==
  /\ start[s] = "looking" /\ todo[s] = {} /\ ~RowClash(s)
  /\ rows' = [v \in Versions |-> IF v \in Added(s) THEN NewRow(adds[s][v]) ELSE rows[v]]
  /\ start' = [start EXCEPT ![s] = "up"]
  /\ Forget(s)
  /\ UNCHANGED <<files, plans, req, byHand>>

\* The unique keys refuse the whole transaction, or the process dies: no start.
FailStart(s) ==
  /\ start[s] = "looking"
  /\ start' = [start EXCEPT ![s] = "down"]
  /\ Forget(s)
  /\ UNCHANGED <<files, rows, plans, req, byHand>>

-----------------------------------------------------------------------------
(* Deployments and operators.                                                *)

ByHand == byHand < MaxByHand /\ byHand' = byHand + 1

EditFile(v) ==
  /\ ByHand
  /\ \E c \in (Contents \cup {NoFile}) \ {files[v]} : files' = [files EXCEPT ![v] = c]
  /\ UNCHANGED <<rows, plans, req, starting>>

Draft == [status |-> "draft", withdrawn |-> FALSE, hash |-> NoHash]

InsertDraft(v) ==
  /\ ByHand
  /\ v \in Drafts
  /\ ~Registered(v)
  /\ rows' = [rows EXCEPT ![v] = Draft]
  /\ UNCHANGED <<files, plans, req, starting>>

\* The code reads status and deprecated_at; an operator may set both or the date only.
Withdraw(v) ==
  /\ ByHand
  /\ Published(v) /\ ~Locked(v)
  /\ \E status \in {"published", "deprecated"} :
       rows' = [rows EXCEPT ![v].status = status, ![v].withdrawn = TRUE]
  /\ UNCHANGED <<files, plans, req, starting>>

-----------------------------------------------------------------------------

\* A new database, with the drafts somebody inserted, if any ...
Empty ==
  /\ \E D \in SUBSET Drafts : rows = [v \in Versions |-> IF v \in D THEN Draft ELSE NoRow]
  /\ plans = [p \in Plans |-> NoPlan]

(* ... or one the migration has just brought to this schema: the defaults are *)
(* published under the hashes of their files, and an older plan got the       *)
(* version its key names, planned from whatever that file held then.          *)
Migrated ==
  /\ \A v \in Defaults : files[v] # NoFile
  /\ rows = [v \in Versions |-> IF v \in Defaults THEN NewRow(files[v]) ELSE NoRow]
  /\ \E p \in Plans, k \in Keys : \E c \in Valid[VersionOf[k]] :
       plans = [q \in Plans |->
         IF q = p THEN [key |-> k, version |-> VersionOf[k], from |-> NoPlan,
                        content |-> c, hash |-> NoHash]
         ELSE NoPlan]

Init ==
  /\ files \in [Versions -> Contents \cup {NoFile}]
  /\ Empty \/ Migrated
  /\ req = [r \in Requests |-> Idle]
  /\ start = [s \in Starts |-> "down"]
  /\ todo = [s \in Starts |-> {}]
  /\ adds = [s \in Starts |-> NoAdds]
  /\ missed = [s \in Starts |-> {}]
  /\ byHand = 0

RequestNext(r) ==
  \/ ResolveById(r) \/ CreatePlan(r) \/ RecomputePlan(r)
  \/ ValidateFile(r) \/ Publish(r) \/ Fail(r)
  \/ \E k \in Keys : ResolveByKey(r, k)
  \/ \E p \in Plans : ResolveUpgrade(r, p) \/ ReadRow(r, p)
  \/ \E v \in Versions : LockRow(r, v)

StartNext(s) == BeginStart(s) \/ LookAt(s) \/ RegisterDefaults(s) \/ FailStart(s)

OperatorNext(v) == EditFile(v) \/ InsertDraft(v) \/ Withdraw(v)

Next ==
  \/ \E r \in Requests : RequestNext(r)
  \/ \E s \in Starts : StartNext(s)
  \/ \E v \in Versions : OperatorNext(v)

Spec == Init /\ [][Next]_vars

-----------------------------------------------------------------------------
(* A published version stays published or is withdrawn by an operator, and   *)
(* its hash is for good (docs/API.md:124-126), although publish decides on   *)
(* the row in one statement and writes it in another, and start-ups write    *)
(* rows as well.                                                             *)
PublishedForGood ==
  [][\A v \in Versions :
       Registered(v) /\ rows[v].status # "draft" =>
         /\ Registered(v)' /\ rows'[v].status # "draft"
         /\ rows'[v].hash = rows[v].hash
         /\ rows[v].withdrawn => rows'[v] = rows[v]]_vars

(* A plan made from a published version keeps that version's template        *)
(* through every recompute, whatever is deployed, withdrawn or published in  *)
(* between ("Alte Plaene bleiben stabil", docs/MILESTONES.md:172): a         *)
(* recompute fails rather than plan from another file.                       *)
OldPlansStable ==
  [][\A p \in Plans : plans[p] # NoPlan /\ plans[p].hash # NoHash =>
       plans'[p] = plans[p]]_vars

(* Tasks are planned from validated templates only.  Start-ups and the       *)
(* migration publish files nobody validated, and publish may store the hash  *)
(* of a file that replaced the one it validated; loading must find out.      *)
PlansAreValid ==
  \A p \in Plans : plans[p] # NoPlan => plans[p].content \in Valid[plans[p].version]

(* upgrade_plan compares versions for equality only.  Still, a plan made     *)
(* from a published version is upgraded to a higher one, unless its own was  *)
(* withdrawn.  (A plan of an unregistered file may well be downgraded.)      *)
Withdrawn(v) == Registered(v) /\ rows[v].withdrawn

Made(p) == plans[p] # NoPlan
FromPublished(p) == Made(p) /\ plans[p].hash # NoHash

UpgradesClimb ==
  \A p \in Plans :
    Made(p) /\ plans[p].from # NoPlan =>
      LET source == plans[p].from
      IN /\ Made(source)
         /\ FromPublished(source) =>
              plans[p].version > plans[source].version \/ Withdrawn(plans[source].version)

(* When a process comes up every default is in the catalog, except those     *)
(* whose file was missing: of two processes that start together the one      *)
(* whose transaction the unique keys refuse does not come up half registered.*)
BootstrapRegisters ==
  [][\A s \in Starts : start[s] = "looking" /\ start'[s] = "up" =>
       \A v \in Defaults \ missed[s] : Registered(v)']_vars

(* Why: the hash of a plan or of a request that makes one is the hash of a   *)
(* row that is published for good; publishers hold the row of a draft alone. *)
Pinned(v, hash) == Registered(v) /\ rows[v].status # "draft" /\ rows[v].hash = hash

RowsHashed ==
  \A v \in Versions : Registered(v) =>
    /\ rows[v].status # "draft" => rows[v].hash # NoHash
    /\ rows[v].status = "draft" => ~rows[v].withdrawn
    /\ rows[v].status = "deprecated" => rows[v].withdrawn

PlansPinned ==
  \A p \in Plans : Made(p) =>
    /\ plans[p].version = VersionOf[plans[p].key]
    /\ FromPublished(p) => /\ plans[p].key = KeyOf[plans[p].version]
                           /\ plans[p].content = plans[p].hash
                           /\ Pinned(plans[p].version, plans[p].hash)

CreatesPinned ==
  \A r \in Requests : At(r, {"create"}) =>
    LET source == req[r].plan
    IN /\ req[r].version = VersionOf[req[r].key]
       /\ req[r].hash # NoHash => /\ req[r].key = KeyOf[req[r].version]
                                 /\ Pinned(req[r].version, req[r].hash)
       /\ source # NoPlan =>
            /\ Made(source)
            /\ FromPublished(source) =>
                 req[r].version > plans[source].version \/ Withdrawn(plans[source].version)

RecomputesPinned ==
  \A r \in Requests : At(r, {"recompute"}) =>
    LET p == req[r].plan
    IN /\ p # NoPlan /\ Made(p)
       /\ req[r].version = plans[p].version
       /\ FromPublished(p) => req[r].hash = plans[p].hash

PublishersAlone ==
  \A r \in Requests : At(r, {"validate", "publish"}) =>
    /\ Registered(req[r].version) /\ rows[req[r].version].status = "draft"
    /\ \A other \in Requests \ {r} :
         At(other, {"validate", "publish"}) => req[other].version # req[r].version

DefaultsLookedAt ==
  \A s \in Starts : start[s] = "looking" =>
    \A v \in Defaults \ (todo[s] \cup missed[s]) : Registered(v) \/ adds[s][v] # NoHash

CatalogInvariant ==
  /\ TypeOK /\ RowsHashed /\ PlansPinned /\ CreatesPinned /\ RecomputesPinned
  /\ PublishersAlone /\ DefaultsLookedAt /\ PlansAreValid /\ UpgradesClimb

(* Not true: what publish publishes was validated (docs/API.md:127).  Of     *)
(* start-ups nobody says so; with none, only the gap between the two reads   *)
(* is left.                                                                  *)
PublishedWasValidated ==
  [][\A v \in Versions :
       Registered(v) /\ rows[v].status = "draft" /\ rows'[v].status = "published" =>
         rows'[v].hash \in Valid[v]]_vars

(* Not true: an upgrade leads to a higher version.                           *)
UpgradesGoUp ==
  \A p \in Plans : Made(p) /\ plans[p].from # NoPlan =>
    plans[p].version > plans[plans[p].from].version
=============================================================================
