----------------------- MODULE TemplateCatalogProofs -----------------------
(***************************************************************************)
(* CatalogInvariant is inductive, for any number of versions, plans,       *)
(* requests, start-ups and interventions.  The argument: a row that is no  *)
(* draft keeps its hash (RowsKept), because publish holds the row of a     *)
(* draft alone and a start-up only adds rows; so the hash a plan was made  *)
(* under stays the one its file is compared with.                          *)
(***************************************************************************)
EXTENDS TemplateCatalog, TLAPS

USE DEF Registered, At

LEMMA DraftIsRow == Draft \in Row /\ \A h \in Contents : NewRow(h) \in Row
BY DEF Draft, NewRow, Row, RowStatus, Hash

LEMMA IdleIsNoRequest == Idle \notin Asked
BY ValueAssumption

(* A row that exists is never the value for none.                            *)
LEMMA RowIsRow == ASSUME TypeOK, NEW v \in Versions, Registered(v)
                  PROVE  rows[v] \in Row
BY DEF TypeOK

LEMMA PlanIsPlan == ASSUME TypeOK, NEW p \in Plans, plans[p] # NoPlan
                    PROVE  plans[p] \in Plan
BY DEF TypeOK

LEMMA RequestIsAsked == ASSUME TypeOK, NEW r \in Requests, req[r] # Idle
                        PROVE  req[r] \in Asked
BY DEF TypeOK

-----------------------------------------------------------------------------
(* Types.                                                                    *)

LEMMA TypeInit == Init => TypeOK
<1> SUFFICES ASSUME Init PROVE TypeOK
  OBVIOUS
<1>1. rows \in [Versions -> Row \cup {NoRow}]
  <2>1. CASE Empty
    BY <2>1, DraftIsRow DEF Empty
  <2>2. CASE Migrated
    <3>1. \A v \in Defaults : files[v] \in Contents
      BY <2>2, KeyAssumption DEF Migrated, Init
    <3> QED BY <2>2, <3>1, DraftIsRow, KeyAssumption DEF Migrated
  <2> QED BY <2>1, <2>2 DEF Init
<1>2. plans \in [Plans -> Plan \cup {NoPlan}]
  <2>1. CASE Empty
    BY <2>1 DEF Empty
  <2>2. CASE Migrated
    <3>1. PICK q \in Plans, k \in Keys : \E c \in Valid[VersionOf[k]] :
            plans = [x \in Plans |->
              IF x = q THEN [key |-> k, version |-> VersionOf[k], from |-> NoPlan,
                             content |-> c, hash |-> NoHash]
              ELSE NoPlan]
      BY <2>2 DEF Migrated
    <3>2. VersionOf[k] \in Versions /\ Valid[VersionOf[k]] \subseteq Contents
      BY KeyAssumption, FileAssumption
    <3> QED BY <3>1, <3>2 DEF Plan, Hash
  <2> QED BY <2>1, <2>2 DEF Init
<1>3. adds \in [Starts -> [Versions -> Hash]]
  BY DEF Init, NoAdds, Hash
<1> QED BY <1>1, <1>2, <1>3, FileAssumption DEF Init, TypeOK

LEMMA BeginTypes ==
  ASSUME TypeOK, NEW r \in Requests, NEW asked \in Asked, Begin(r, asked)
  PROVE  TypeOK'
BY DEF TypeOK, Begin, starting

LEMMA TypeRequest ==
  ASSUME TypeOK, RecomputesPinned, PublishersAlone, NEW r \in Requests, RequestNext(r)
  PROVE  TypeOK'
<1>1. CASE ResolveById(r)
  <2>1. PICK v \in Versions : IsLatest(v) /\ Begin(r, Resolved(v, NoPlan))
    BY <1>1 DEF ResolveById
  <2>2. Resolved(v, NoPlan) \in Asked
    BY <2>1, RowIsRow, KeyAssumption DEF IsLatest, Published, Resolved, Asked, Step, Row
  <2> QED BY <2>1, <2>2, BeginTypes
<1>2. CASE \E k \in Keys : ResolveByKey(r, k)
  <2>1. PICK k \in Keys : ResolveByKey(r, k)
    BY <1>2
  <2> DEFINE v == VersionOf[k]
  <2>2. v \in Versions
    BY KeyAssumption
  <2>3. CASE Published(v) /\ Begin(r, Resolved(v, NoPlan))
    <3>1. Resolved(v, NoPlan) \in Asked
      BY <2>2, <2>3, RowIsRow, KeyAssumption DEF Published, Resolved, Asked, Step, Row
    <3> QED BY <2>3, <3>1, BeginTypes
  <2>4. CASE Begin(r, [step |-> "create", version |-> v, key |-> k,
                       hash |-> NoHash, plan |-> NoPlan])
    BY <2>2, <2>4, BeginTypes DEF Asked, Step, Hash
  <2> QED BY <2>1, <2>3, <2>4 DEF ResolveByKey
<1>3. CASE \E p \in Plans : ResolveUpgrade(r, p)
  <2>1. PICK p \in Plans, v \in Versions : IsLatest(v) /\ Begin(r, Resolved(v, p))
    BY <1>3 DEF ResolveUpgrade
  <2>2. Resolved(v, p) \in Asked
    BY <2>1, RowIsRow, KeyAssumption DEF IsLatest, Published, Resolved, Asked, Step, Row
  <2> QED BY <2>1, <2>2, BeginTypes
<1>4. CASE \E p \in Plans : ReadRow(r, p)
  <2>1. PICK p \in Plans : ReadRow(r, p)
    BY <1>4
  <2>2. plans[p].key \in Keys
    BY <2>1, PlanIsPlan DEF ReadRow, Plan
  <2>3. VersionOf[plans[p].key] \in Versions /\ RowHash(plans[p].key) \in Hash
    BY <2>2, KeyAssumption, RowIsRow DEF RowHash, Row, Hash
  <2> QED BY <2>1, <2>2, <2>3, BeginTypes DEF ReadRow, Asked, Step
<1>5. CASE \E v \in Versions : LockRow(r, v)
  <2>1. PICK v \in Versions : LockRow(r, v)
    BY <1>5
  <2> QED BY <2>1, BeginTypes, KeyAssumption DEF LockRow, Asked, Step, Hash
<1>6. CASE CreatePlan(r)
  <2>1. req[r] \in Asked /\ files[req[r].version] \in Contents
    BY <1>6, RequestIsAsked, FileAssumption DEF CreatePlan, Loads, TypeOK, Asked
  <2>2. PICK p \in Plans : plans' = [plans EXCEPT ![p] =
            [key |-> req[r].key, version |-> req[r].version, from |-> req[r].plan,
             content |-> files[req[r].version], hash |-> req[r].hash]]
    BY <1>6 DEF CreatePlan
  <2>3. plans' \in [Plans -> Plan \cup {NoPlan}]
    BY <2>1, <2>2 DEF Plan, Asked, TypeOK
  <2> QED BY <1>6, <2>3 DEF TypeOK, CreatePlan, End, starting
<1>7. CASE RecomputePlan(r)
  <2>1. req[r] \in Asked /\ files[req[r].version] \in Contents
    BY <1>7, RequestIsAsked, FileAssumption DEF RecomputePlan, Loads, TypeOK, Asked
  <2>2. PICK fastPath \in BOOLEAN :
          plans' = IF fastPath THEN plans
                   ELSE [plans EXCEPT ![req[r].plan].content = files[req[r].version]]
    BY <1>7 DEF RecomputePlan
  <2>3. \A p \in Plans : plans[p] # NoPlan => plans[p] \in Plan
    BY PlanIsPlan
  <2>4. req[r].plan \in Plans /\ plans[req[r].plan] # NoPlan
    BY <1>7, <2>1 DEF RecomputePlan, RecomputesPinned, Made, Asked
  <2>5. [plans[req[r].plan] EXCEPT !.content = files[req[r].version]] \in Plan
    BY <2>1, <2>3, <2>4 DEF Plan, Asked
  <2>6. plans' \in [Plans -> Plan \cup {NoPlan}]
    BY <2>2, <2>5 DEF TypeOK
  <2> QED BY <1>7, <2>6 DEF TypeOK, RecomputePlan, End, starting
<1>8. CASE ValidateFile(r)
  <2>1. req[r] \in Asked /\ [req[r] EXCEPT !.step = "publish"] \in Asked
    BY <1>8, RequestIsAsked DEF ValidateFile, Asked, Step
  <2> QED BY <1>8, <2>1 DEF TypeOK, ValidateFile, starting
<1>9. CASE Publish(r)
  <2>1. req[r] \in Asked
    BY <1>9, RequestIsAsked DEF Publish
  <2>2. Registered(req[r].version)
    BY <1>9 DEF Publish, PublishersAlone
  <2>3. rows[req[r].version] \in Row /\ files[req[r].version] \in Hash
    BY <1>9, <2>1, <2>2, RowIsRow DEF Publish, Asked, TypeOK, Hash
  <2>4. rows' \in [Versions -> Row \cup {NoRow}]
    BY <1>9, <2>1, <2>3 DEF TypeOK, Publish, Row, RowStatus, Asked
  <2> QED BY <1>9, <2>4 DEF TypeOK, Publish, End, starting
<1>10. CASE Fail(r)
  BY <1>10 DEF TypeOK, Fail, End, starting
<1> QED
  BY <1>1, <1>2, <1>3, <1>4, <1>5, <1>6, <1>7, <1>8, <1>9, <1>10 DEF RequestNext

LEMMA AddedRows ==
  ASSUME TypeOK, NEW s \in Starts, NEW v \in Added(s)
  PROVE  /\ NewRow(adds[s][v]) \in Row /\ NewRow(adds[s][v]) # NoRow
         /\ adds[s][v] # NoHash
<1>1. adds[s] \in [Versions -> Hash]
  BY DEF TypeOK
<1>2. v \in Versions /\ adds[s][v] # NoHash
  BY KeyAssumption DEF Added
<1>3. adds[s][v] \in Contents
  BY <1>1, <1>2 DEF Hash
<1> QED BY <1>2, <1>3, DraftIsRow, ValueAssumption

LEMMA TypeStart ==
  ASSUME TypeOK, NEW s \in Starts, StartNext(s)
  PROVE  TypeOK'
<1>1. CASE BeginStart(s)
  BY <1>1 DEF TypeOK, BeginStart
<1>2. CASE LookAt(s)
  <2>1. PICK v \in todo[s] :
          /\ todo' = [todo EXCEPT ![s] = Remaining(s, v)]
          /\ adds' = IF Registered(v) \/ files[v] = NoFile THEN adds
                     ELSE [adds EXCEPT ![s][v] = files[v]]
          /\ missed' = IF Registered(v) \/ files[v] # NoFile THEN missed
                       ELSE [missed EXCEPT ![s] = @ \cup {v}]
    BY <1>2 DEF LookAt
  <2>2. v \in Defaults /\ v \in Versions /\ Remaining(s, v) \subseteq Defaults
    BY KeyAssumption DEF TypeOK, Remaining
  <2>3. adds' \in [Starts -> [Versions -> Hash]]
    BY <2>1, <2>2 DEF TypeOK, Hash
  <2>4. missed' \in [Starts -> SUBSET Defaults] /\ todo' \in [Starts -> SUBSET Defaults]
    BY <2>1, <2>2 DEF TypeOK
  <2> QED BY <1>2, <2>3, <2>4 DEF TypeOK, LookAt
<1>3. CASE RegisterDefaults(s)
  <2>2. \A v \in Added(s) : NewRow(adds[s][v]) \in Row
    BY AddedRows
  <2>3. rows' = [v \in Versions |-> IF v \in Added(s) THEN NewRow(adds[s][v]) ELSE rows[v]]
    BY <1>3 DEF RegisterDefaults
  <2>4. \A v \in Versions : rows'[v] \in Row \cup {NoRow}
    BY <2>2, <2>3 DEF TypeOK
  <2> QED BY <1>3, <2>3, <2>4 DEF TypeOK, RegisterDefaults, Forget, NoAdds, Hash
<1>4. CASE FailStart(s)
  BY <1>4 DEF TypeOK, FailStart, Forget, NoAdds, Hash
<1> QED BY <1>1, <1>2, <1>3, <1>4 DEF StartNext

LEMMA TypeOperator ==
  ASSUME TypeOK, NEW v \in Versions, OperatorNext(v)
  PROVE  TypeOK'
<1>1. byHand' \in 0 .. MaxByHand
  BY FileAssumption DEF OperatorNext, EditFile, InsertDraft, Withdraw, ByHand, TypeOK
<1>2. CASE EditFile(v)
  BY <1>1, <1>2 DEF TypeOK, EditFile, starting
<1>3. CASE InsertDraft(v)
  BY <1>1, <1>3, DraftIsRow DEF TypeOK, InsertDraft, starting
<1>4. CASE Withdraw(v)
  BY <1>1, <1>4, RowIsRow DEF TypeOK, Withdraw, Published, starting, Row, RowStatus
<1> QED BY <1>2, <1>3, <1>4 DEF OperatorNext

LEMMA TypeStep ==
  ASSUME CatalogInvariant, [Next]_vars
  PROVE  TypeOK'
<1>1. CASE UNCHANGED vars
  BY <1>1 DEF CatalogInvariant, TypeOK, vars, starting
<1> QED
  BY <1>1, TypeRequest, TypeStart, TypeOperator DEF CatalogInvariant, Next

-----------------------------------------------------------------------------
(* Rows.                                                                     *)

RowsKept ==
  \A v \in Versions : Registered(v) =>
    /\ Registered(v)'
    /\ rows[v].status # "draft" => /\ rows'[v].status # "draft"
                                   /\ rows'[v].hash = rows[v].hash
    /\ rows[v].withdrawn => rows'[v] = rows[v]

LEMMA PublishRows ==
  ASSUME CatalogInvariant, NEW r \in Requests, Publish(r)
  PROVE  /\ RowsKept /\ RowsHashed'
         /\ req[r].version \in Versions /\ rows[req[r].version].status = "draft"
<1> DEFINE v == req[r].version
<1>1. v \in Versions /\ files[v] \in Contents /\ rows \in [Versions -> Row \cup {NoRow}]
  BY RequestIsAsked DEF CatalogInvariant, Publish, Asked, TypeOK
<1>2. Registered(v) /\ rows[v].status = "draft" /\ rows[v] \in Row
  BY <1>1, RowIsRow DEF CatalogInvariant, Publish, PublishersAlone
<1>3. rows' = [rows EXCEPT ![v].status = "published", ![v].hash = files[v]]
  BY DEF Publish
<1>4. rows'[v] = [rows[v] EXCEPT !.status = "published", !.hash = files[v]]
      /\ \A w \in Versions \ {v} : rows'[w] = rows[w]
  BY <1>1, <1>3
<1>5. rows'[v] \in Row
  BY <1>1, <1>2, <1>4 DEF Row, RowStatus, Hash
<1>6. rows'[v].status = "published" /\ rows'[v].hash = files[v]
      /\ rows'[v].withdrawn = rows[v].withdrawn
  BY <1>1, <1>2, <1>4 DEF Row
<1>7. rows'[v] # NoRow /\ files[v] # NoHash
  BY <1>1, <1>5, ValueAssumption, FileAssumption
<1> QED
  BY <1>1, <1>2, <1>4, <1>6, <1>7 DEF RowsKept, RowsHashed, CatalogInvariant

LEMMA RowsStep ==
  ASSUME CatalogInvariant, [Next]_vars
  PROVE  RowsKept /\ RowsHashed'
<1>1. CASE rows' = rows
  BY <1>1 DEF RowsKept, RowsHashed, CatalogInvariant
<1>2. ASSUME NEW s \in Starts, RegisterDefaults(s)
      PROVE  RowsKept /\ RowsHashed'
  <2>1. \A v \in Versions : Registered(v) => v \notin Added(s)
    BY <1>2 DEF RegisterDefaults, RowClash
  <2>2. \A v \in Added(s) : NewRow(adds[s][v]) # NoRow /\ adds[s][v] # NoHash
    BY AddedRows DEF CatalogInvariant
  <2>3. \A v \in Versions : rows'[v] = IF v \in Added(s) THEN NewRow(adds[s][v]) ELSE rows[v]
    BY <1>2 DEF RegisterDefaults
  <2>4. RowsKept
    BY <2>1, <2>3 DEF RowsKept
  <2>5. \A v \in Added(s) : /\ rows'[v].status = "published"
                            /\ rows'[v].hash # NoHash
    <3>1. \A v \in Added(s) : v \in Versions
      BY KeyAssumption DEF Added
    <3>2. \A v \in Added(s) : rows'[v] = NewRow(adds[s][v])
      BY <2>3, <3>1
    <3>3. \A h : NewRow(h).status = "published" /\ NewRow(h).hash = h
      BY DEF NewRow
    <3> QED BY <2>2, <3>2, <3>3
  <2>6. \A v \in Versions \ Added(s) : rows'[v] = rows[v]
    BY <2>3
  <2>7. RowsHashed'
    BY <2>5, <2>6 DEF RowsHashed, CatalogInvariant
  <2> QED BY <2>4, <2>7
<1>3. ASSUME NEW v \in Versions, InsertDraft(v)
      PROVE  RowsKept /\ RowsHashed'
  BY <1>3 DEF InsertDraft, RowsKept, RowsHashed, CatalogInvariant, Draft, TypeOK
<1>4. ASSUME NEW v \in Versions, Withdraw(v)
      PROVE  RowsKept /\ RowsHashed'
  <2>1. PICK status \in {"published", "deprecated"} :
          rows' = [rows EXCEPT ![v].status = status, ![v].withdrawn = TRUE]
    BY <1>4 DEF Withdraw
  <2>2. rows[v] \in Row /\ rows[v].status = "published" /\ ~rows[v].withdrawn
    BY <1>4, RowIsRow DEF Withdraw, Published, CatalogInvariant
  <2>3. /\ rows'[v] = [rows[v] EXCEPT !.status = status, !.withdrawn = TRUE]
        /\ \A w \in Versions \ {v} : rows'[w] = rows[w]
    BY <2>1 DEF CatalogInvariant, TypeOK
  <2>4. /\ rows'[v] \in Row /\ rows'[v].status = status
        /\ rows'[v].withdrawn /\ rows'[v].hash = rows[v].hash
    BY <2>2, <2>3 DEF Row, RowStatus
  <2>5. rows'[v] # NoRow
    BY <2>4, ValueAssumption
  <2>6. RowsKept
    BY <2>2, <2>3, <2>4, <2>5 DEF RowsKept
  <2>7. rows'[v].hash # NoHash /\ rows'[v].status # "draft" /\ rows'[v].withdrawn
    <3>1. rows[v].hash # NoHash
      BY <1>4, <2>2 DEF Withdraw, Published, RowsHashed, CatalogInvariant
    <3> QED BY <2>1, <2>4, <3>1
  <2>8. RowsHashed'
    BY <2>3, <2>7 DEF RowsHashed, CatalogInvariant
  <2> QED BY <2>6, <2>8
<1>5. ASSUME NEW r \in Requests, RequestNext(r), rows' # rows
      PROVE  Publish(r)
  BY <1>5 DEF RequestNext, ResolveById, ResolveByKey, ResolveUpgrade, ReadRow, LockRow,
       Begin, CreatePlan, RecomputePlan, ValidateFile, Fail
<1> QED
  BY <1>1, <1>2, <1>3, <1>4, <1>5, PublishRows
    DEF Next, StartNext, OperatorNext, BeginStart, LookAt, FailStart, EditFile, vars

LEMMA PinnedStays ==
  ASSUME RowsKept, NEW v \in Versions
  PROVE  /\ \A h : Pinned(v, h) =>
              rows'[v] # NoRow /\ rows'[v].status # "draft" /\ rows'[v].hash = h
         /\ Withdrawn(v) => rows'[v] # NoRow /\ rows'[v].withdrawn
BY DEF RowsKept, Pinned, Withdrawn

-----------------------------------------------------------------------------
(* Plans.                                                                    *)

PlansKept ==
  \A p \in Plans : Made(p) =>
    /\ Made(p)'
    /\ plans'[p].key = plans[p].key /\ plans'[p].version = plans[p].version
    /\ plans'[p].from = plans[p].from /\ plans'[p].hash = plans[p].hash
    /\ plans'[p].content \in Valid[plans[p].version]
    /\ FromPublished(p) => plans'[p] = plans[p]

\* A created plan takes a free place and is what the request has resolved and read.
LEMMA CreateStep ==
  ASSUME CatalogInvariant, NEW r \in Requests, CreatePlan(r)
  PROVE  \E p \in Plans :
           /\ plans[p] = NoPlan /\ plans'[p] \in Plan /\ plans'[p] # NoPlan
           /\ plans'[p].key = req[r].key /\ plans'[p].version = req[r].version
           /\ plans'[p].from = req[r].plan /\ plans'[p].hash = req[r].hash
           /\ plans'[p].content \in Valid[req[r].version]
           /\ req[r].hash # NoHash => plans'[p].content = req[r].hash
           /\ \A q \in Plans \ {p} : plans'[q] = plans[q]
<1> DEFINE new == [key |-> req[r].key, version |-> req[r].version, from |-> req[r].plan,
                   content |-> files[req[r].version], hash |-> req[r].hash]
<1>1. PICK p \in Plans : plans[p] = NoPlan /\ plans' = [plans EXCEPT ![p] = new]
  BY DEF CreatePlan
<1>2. req[r] \in Asked /\ Loads(req[r].version, req[r].hash)
  BY RequestIsAsked DEF CreatePlan, CatalogInvariant
<1>3. files[req[r].version] \in Contents
  BY <1>2, FileAssumption DEF Loads, Asked
<1>4. new \in Plan
  BY <1>2, <1>3 DEF Plan, Asked
<1>5. plans'[p] = new /\ \A q \in Plans \ {p} : plans'[q] = plans[q]
  BY <1>1 DEF CatalogInvariant, TypeOK
<1>6. new # NoPlan
  BY <1>4, ValueAssumption
<1> QED
  BY <1>1, <1>2, <1>4, <1>5, <1>6 DEF Loads

\* A recompute changes at most the content, and not that of a plan made under a hash.
LEMMA RecomputeStep ==
  ASSUME CatalogInvariant, NEW r \in Requests, RecomputePlan(r)
  PROVE  PlansKept /\ \A q \in Plans : plans[q] = NoPlan => plans'[q] = NoPlan
<1> DEFINE p == req[r].plan
<1>1. req[r] \in Asked /\ Loads(req[r].version, req[r].hash)
  BY RequestIsAsked DEF RecomputePlan, CatalogInvariant
<1>2. /\ p \in Plans /\ Made(p) /\ req[r].version = plans[p].version
      /\ FromPublished(p) => req[r].hash = plans[p].hash
  BY <1>1 DEF RecomputePlan, RecomputesPinned, CatalogInvariant, Asked
<1>3. plans[p] \in Plan
  BY <1>2, PlanIsPlan DEF Made, CatalogInvariant
<1>4. CASE plans' = plans
  BY <1>4 DEF PlansKept, PlansAreValid, CatalogInvariant, Made, FromPublished
<1>5. CASE plans' = [plans EXCEPT ![p].content = files[req[r].version]]
  <2>1. /\ plans'[p] = [plans[p] EXCEPT !.content = files[req[r].version]]
        /\ \A q \in Plans \ {p} : plans'[q] = plans[q]
    BY <1>2, <1>5 DEF CatalogInvariant, TypeOK
  <2>2. files[req[r].version] \in Valid[plans[p].version]
    BY <1>1, <1>2 DEF Loads
  <2>3. FromPublished(p) => files[req[r].version] = plans[p].content
    BY <1>1, <1>2 DEF Loads, FromPublished, PlansPinned, CatalogInvariant
  <2>4. files[req[r].version] \in Contents
    BY <1>1, FileAssumption DEF Loads, Asked
  <2>5. plans'[p] \in Plan
    BY <1>3, <2>1, <2>4 DEF Plan
  <2>6. plans'[p] # NoPlan
    BY <2>5, ValueAssumption
  <2>7. /\ plans'[p].key = plans[p].key /\ plans'[p].version = plans[p].version
        /\ plans'[p].from = plans[p].from /\ plans'[p].hash = plans[p].hash
        /\ plans'[p].content = files[req[r].version]
        /\ FromPublished(p) => plans'[p] = plans[p]
    BY <1>3, <2>1, <2>3 DEF Plan
  <2> QED BY <1>2, <2>1, <2>2, <2>6, <2>7
            DEF PlansKept, PlansAreValid, CatalogInvariant, Made, FromPublished
<1> QED BY <1>4, <1>5 DEF RecomputePlan

LEMMA PlansStep ==
  ASSUME CatalogInvariant, [Next]_vars
  PROVE  \/ PlansKept /\ \A q \in Plans : plans[q] = NoPlan => plans'[q] = NoPlan
         \/ \E r \in Requests : CreatePlan(r)
<1>1. CASE plans' = plans
  BY <1>1 DEF PlansKept, PlansAreValid, CatalogInvariant, Made, FromPublished
<1>2. ASSUME NEW r \in Requests, RequestNext(r), plans' # plans
      PROVE  CreatePlan(r) \/ RecomputePlan(r)
  BY <1>2 DEF RequestNext, ResolveById, ResolveByKey, ResolveUpgrade, ReadRow, LockRow,
       Begin, Publish, ValidateFile, Fail
<1> QED
  BY <1>1, <1>2, RecomputeStep DEF Next, StartNext, OperatorNext, BeginStart, LookAt,
       RegisterDefaults, FailStart, EditFile, InsertDraft, Withdraw, vars

\* Either way nothing a plan is made from changes.
LEMMA PlansStay ==
  ASSUME CatalogInvariant, [Next]_vars
  PROVE  PlansKept
<1>1. ASSUME NEW r \in Requests, CreatePlan(r)
      PROVE  PlansKept
  BY <1>1, CreateStep DEF PlansKept, PlansAreValid, CatalogInvariant, Made, FromPublished
<1> QED BY <1>1, PlansStep

LEMMA PlansInvariantStep ==
  ASSUME CatalogInvariant, [Next]_vars
  PROVE  PlansPinned' /\ PlansAreValid' /\ UpgradesClimb'
<1>1. RowsKept /\ PlansKept
  BY RowsStep, PlansStay
<1>2. \A p \in Plans : plans[p] # NoPlan => plans[p] \in Plan
  BY PlanIsPlan DEF CatalogInvariant
<1>3. ASSUME NEW p \in Plans, Made(p)
      PROVE  /\ plans'[p].version = VersionOf[plans'[p].key]
             /\ FromPublished(p)' => /\ plans'[p].key = KeyOf[plans'[p].version]
                                     /\ plans'[p].content = plans'[p].hash
                                     /\ Pinned(plans[p].version, plans[p].hash)'
             /\ plans'[p].content \in Valid[plans'[p].version]
  <2>1. plans[p].version \in Versions
    BY <1>2, <1>3 DEF Made, Plan
  <2>2. FromPublished(p) => Pinned(plans[p].version, plans[p].hash)
    BY <1>3 DEF PlansPinned, CatalogInvariant
  <2>3. plans'[p].version = plans[p].version /\ plans'[p].hash = plans[p].hash
    BY <1>1, <1>3 DEF PlansKept
  <2>4. FromPublished(p) => Pinned(plans[p].version, plans[p].hash)'
    BY <1>1, <2>1, <2>2, <2>3, PinnedStays DEF Pinned
  <2> QED BY <1>1, <1>3, <2>3, <2>4 DEF PlansKept, PlansPinned, CatalogInvariant, FromPublished, Made
<1>4. ASSUME NEW p \in Plans, NEW source \in Plans, Made(source), NEW version,
             FromPublished(source) =>
               version > plans[source].version \/ Withdrawn(plans[source].version)
      PROVE  /\ Made(source)'
             /\ FromPublished(source)' =>
                  version > plans'[source].version \/ Withdrawn(plans[source].version)'
  <2>1. plans[source].version \in Versions
    BY <1>2, <1>4 DEF Made, Plan
  <2>2. Made(source)' /\ plans'[source].version = plans[source].version
        /\ plans'[source].hash = plans[source].hash
    BY <1>1, <1>4 DEF PlansKept
  <2>3. Withdrawn(plans[source].version) => Withdrawn(plans[source].version)'
    BY <1>1, <2>1, <2>2, PinnedStays DEF Withdrawn
  <2> QED BY <1>4, <2>2, <2>3 DEF FromPublished
<1>5. CASE \A q \in Plans : plans[q] = NoPlan => plans'[q] = NoPlan
  <2>1. PlansPinned' /\ PlansAreValid'
    BY <1>1, <1>3, <1>5 DEF PlansPinned, PlansAreValid, PlansKept, Made, FromPublished
  <2>2. ASSUME NEW p \in Plans, Made(p)', plans'[p].from # NoPlan
        PROVE  LET source == plans'[p].from
               IN /\ plans'[source] # NoPlan
                  /\ plans'[source].hash # NoHash =>
                       \/ plans'[p].version > plans'[source].version
                       \/ /\ rows'[plans'[source].version] # NoRow
                          /\ rows'[plans'[source].version].withdrawn
    <3>1. Made(p) /\ plans'[p].from = plans[p].from /\ plans'[p].version = plans[p].version
      BY <1>1, <1>5, <2>2 DEF PlansKept, Made
    <3>2. plans[p].from \in Plans
      BY <1>2, <2>2, <3>1 DEF Made, Plan
    <3>3. /\ Made(plans[p].from)
          /\ FromPublished(plans[p].from) =>
               \/ plans[p].version > plans[plans[p].from].version
               \/ Withdrawn(plans[plans[p].from].version)
      BY <2>2, <3>1 DEF UpgradesClimb, CatalogInvariant
    <3>4. plans'[plans[p].from].version = plans[plans[p].from].version
      BY <1>1, <3>2, <3>3 DEF PlansKept
    <3> QED BY <1>4, <3>1, <3>2, <3>3, <3>4 DEF Withdrawn, Made, FromPublished
  <2> QED BY <2>1, <2>2 DEF UpgradesClimb, Made, FromPublished, Withdrawn
<1>6. ASSUME NEW r \in Requests, CreatePlan(r)
      PROVE  PlansPinned' /\ PlansAreValid' /\ UpgradesClimb'
  <2>1. PICK new \in Plans :
           /\ plans[new] = NoPlan /\ plans'[new] \in Plan /\ plans'[new] # NoPlan
           /\ plans'[new].key = req[r].key /\ plans'[new].version = req[r].version
           /\ plans'[new].from = req[r].plan /\ plans'[new].hash = req[r].hash
           /\ plans'[new].content \in Valid[req[r].version]
           /\ req[r].hash # NoHash => plans'[new].content = req[r].hash
           /\ \A q \in Plans \ {new} : plans'[q] = plans[q]
    BY <1>6, CreateStep
  <2>2. At(r, {"create"}) /\ req[r] \in Asked
    BY <1>6, RequestIsAsked DEF CreatePlan, CatalogInvariant
  <2>3. /\ req[r].version = VersionOf[req[r].key]
        /\ req[r].hash # NoHash => /\ req[r].key = KeyOf[req[r].version]
                                  /\ Pinned(req[r].version, req[r].hash)
        /\ req[r].plan # NoPlan =>
             /\ Made(req[r].plan)
             /\ FromPublished(req[r].plan) =>
                  \/ req[r].version > plans[req[r].plan].version
                  \/ Withdrawn(plans[req[r].plan].version)
    BY <2>2 DEF CreatesPinned, CatalogInvariant
  <2>4. rows' = rows
    BY <1>6 DEF CreatePlan
  <2>5. PlansPinned'
    <3>1. \A q \in Plans \ {new} : plans'[q] = plans[q]
      BY <2>1
    <3> QED BY <2>1, <2>3, <2>4, <3>1
            DEF PlansPinned, CatalogInvariant, Made, FromPublished, Pinned
  <2>6. PlansAreValid'
    BY <2>1 DEF PlansAreValid, CatalogInvariant
  <2>7. \A p \in Plans : plans'[p] # NoPlan /\ plans'[p].from # NoPlan =>
          /\ plans'[p].from \in Plans /\ Made(plans'[p].from)
          /\ FromPublished(plans'[p].from) =>
               \/ plans'[p].version > plans[plans'[p].from].version
               \/ Withdrawn(plans[plans'[p].from].version)
    <3>1. CASE req[r].plan # NoPlan
      BY <1>2, <2>1, <2>2, <2>3, <3>1 DEF UpgradesClimb, CatalogInvariant, Made, Plan, Asked
    <3>2. CASE req[r].plan = NoPlan
      BY <1>2, <2>1, <3>2 DEF UpgradesClimb, CatalogInvariant, Made, Plan
    <3> QED BY <3>1, <3>2
  <2>8. \A source \in Plans : Made(source) => plans'[source] = plans[source]
    BY <2>1 DEF Made
  <2>9. UpgradesClimb'
    BY <2>4, <2>7, <2>8 DEF UpgradesClimb, Made, FromPublished, Withdrawn
  <2> QED BY <2>5, <2>6, <2>9
<1> QED BY <1>5, <1>6, PlansStep

-----------------------------------------------------------------------------
(* Requests.                                                                 *)

\* A request that goes on unchanged keeps what it was promised.
CreatePromise(asked) ==
  /\ asked.version = VersionOf[asked.key]
  /\ asked.hash # NoHash => /\ asked.key = KeyOf[asked.version]
                            /\ Pinned(asked.version, asked.hash)
  /\ asked.plan # NoPlan =>
       /\ Made(asked.plan)
       /\ FromPublished(asked.plan) =>
            asked.version > plans[asked.plan].version \/ Withdrawn(plans[asked.plan].version)

RecomputePromise(asked) ==
  /\ asked.plan # NoPlan /\ Made(asked.plan)
  /\ asked.version = plans[asked.plan].version
  /\ FromPublished(asked.plan) => asked.hash = plans[asked.plan].hash

LEMMA PromisesStay ==
  ASSUME CatalogInvariant, [Next]_vars, NEW asked \in Asked
  PROVE  /\ CreatePromise(asked) => CreatePromise(asked)'
         /\ RecomputePromise(asked) => RecomputePromise(asked)'
<1>1. RowsKept /\ PlansKept
  BY RowsStep, PlansStay
<1>2. asked.version \in Versions /\ asked.plan \in Plans \cup {NoPlan}
  BY DEF Asked
<1>3. \A h : Pinned(asked.version, h) => Pinned(asked.version, h)'
  BY <1>1, <1>2, PinnedStays DEF Pinned
<1>4. ASSUME asked.plan # NoPlan, Made(asked.plan)
      PROVE  /\ Made(asked.plan)'
             /\ plans'[asked.plan].version = plans[asked.plan].version
             /\ plans'[asked.plan].hash = plans[asked.plan].hash
             /\ Withdrawn(plans[asked.plan].version) => Withdrawn(plans[asked.plan].version)'
  <2>1. asked.plan \in Plans /\ plans[asked.plan].version \in Versions
    BY <1>2, <1>4, PlanIsPlan DEF Made, Plan, CatalogInvariant
  <2>2. /\ Made(asked.plan)'
        /\ plans'[asked.plan].version = plans[asked.plan].version
        /\ plans'[asked.plan].hash = plans[asked.plan].hash
    BY <1>1, <1>4, <2>1 DEF PlansKept
  <2> QED BY <1>1, <2>1, <2>2, PinnedStays DEF Withdrawn
<1>5. CreatePromise(asked) => CreatePromise(asked)'
  BY <1>3, <1>4 DEF CreatePromise, FromPublished
<1>6. RecomputePromise(asked) => RecomputePromise(asked)'
  BY <1>4 DEF RecomputePromise, FromPublished
<1> QED BY <1>5, <1>6

(* What a request that begins has read is still so.                          *)
LEMMA LatestIsHighest ==
  ASSUME CatalogInvariant, NEW v \in Versions, IsLatest(v)
  PROVE  /\ rows[v].hash # NoHash /\ Pinned(v, rows[v].hash)
         /\ \A p \in Plans : FromPublished(p) /\ v # plans[p].version =>
              v > plans[p].version \/ Withdrawn(plans[p].version)
<1>1. rows[v].hash # NoHash /\ Pinned(v, rows[v].hash)
  BY DEF IsLatest, Published, Pinned, RowsHashed, CatalogInvariant
<1>2. ASSUME NEW p \in Plans, FromPublished(p), v # plans[p].version,
             ~Withdrawn(plans[p].version)
      PROVE  v > plans[p].version
  <2> DEFINE w == plans[p].version
  <2>1. w \in Versions
    BY <1>2, PlanIsPlan DEF FromPublished, Made, Plan, CatalogInvariant
  <2>2. Registered(w) /\ rows[w].status # "draft" /\ ~rows[w].withdrawn
    BY <1>2 DEF PlansPinned, Pinned, CatalogInvariant, FromPublished, Withdrawn
  <2>3. rows[w].status = "published"
    BY <2>1, <2>2, RowIsRow DEF RowsHashed, CatalogInvariant, Row, RowStatus
  <2>4. Published(w)
    BY <2>2, <2>3 DEF Published
  <2>5. w <= v
    BY <2>1, <2>4 DEF IsLatest
  <2>6. v \in Nat /\ w \in Nat
    BY <2>1, KeyAssumption
  <2> QED BY <1>2, <2>5, <2>6
<1> QED BY <1>1, <1>2

LEMMA BeginsPromised ==
  ASSUME CatalogInvariant, NEW r \in Requests, RequestNext(r), req[r] = Idle
  PROVE  \E asked \in Asked :
           /\ Begin(r, asked)
           /\ asked.step \in {"create", "recompute", "validate"}
           /\ asked.step = "create" => CreatePromise(asked)
           /\ asked.step = "recompute" => RecomputePromise(asked)
           /\ asked.step = "validate" => \E v \in Versions : LockRow(r, v) /\ asked.version = v
<1>1. CASE ResolveById(r)
  <2>1. PICK v \in Versions : IsLatest(v) /\ Begin(r, Resolved(v, NoPlan))
    BY <1>1 DEF ResolveById
  <2>2. Resolved(v, NoPlan) \in Asked
    BY <2>1, RowIsRow, KeyAssumption
      DEF IsLatest, Published, Resolved, Asked, Step, Row, CatalogInvariant
  <2>3. CreatePromise(Resolved(v, NoPlan)) /\ Resolved(v, NoPlan).step = "create"
    BY <2>1, LatestIsHighest, KeyAssumption DEF CreatePromise, Resolved
  <2> QED BY <2>1, <2>2, <2>3
<1>2. ASSUME NEW k \in Keys, ResolveByKey(r, k)
      PROVE  \E asked \in Asked : Begin(r, asked) /\ asked.step = "create" /\ CreatePromise(asked)
  <2> DEFINE v == VersionOf[k]
  <2>1. v \in Versions
    BY KeyAssumption
  <2>2. CASE k = KeyOf[v] /\ Published(v) /\ Begin(r, Resolved(v, NoPlan))
    <3>1. Resolved(v, NoPlan) \in Asked
      BY <2>1, <2>2, RowIsRow, KeyAssumption
        DEF Published, Resolved, Asked, Step, Row, CatalogInvariant
    <3>2. rows[v].hash # NoHash /\ Pinned(v, rows[v].hash)
      BY <2>1, <2>2 DEF Published, Pinned, RowsHashed, CatalogInvariant
    <3>3. CreatePromise(Resolved(v, NoPlan)) /\ Resolved(v, NoPlan).step = "create"
      BY <2>1, <3>2, KeyAssumption DEF CreatePromise, Resolved
    <3> QED BY <2>2, <3>1, <3>3
  <2>3. CASE Begin(r, [step |-> "create", version |-> v, key |-> k,
                       hash |-> NoHash, plan |-> NoPlan])
    <3> DEFINE asked == [step |-> "create", version |-> v, key |-> k,
                         hash |-> NoHash, plan |-> NoPlan]
    <3>1. asked \in Asked /\ asked.step = "create"
      BY <2>1 DEF Asked, Step, Hash
    <3>2. CreatePromise(asked)
      BY DEF CreatePromise
    <3> QED BY <2>3, <3>1, <3>2
  <2> QED BY <1>2, <2>2, <2>3 DEF ResolveByKey
<1>3. ASSUME NEW p \in Plans, ResolveUpgrade(r, p)
      PROVE  \E asked \in Asked : Begin(r, asked) /\ asked.step = "create" /\ CreatePromise(asked)
  <2>1. PICK v \in Versions : /\ plans[p] # NoPlan /\ IsLatest(v)
                              /\ v # plans[p].version /\ Begin(r, Resolved(v, p))
    BY <1>3 DEF ResolveUpgrade
  <2>2. Resolved(v, p) \in Asked
    BY <2>1, RowIsRow, KeyAssumption
      DEF IsLatest, Published, Resolved, Asked, Step, Row, CatalogInvariant
  <2>3. /\ rows[v].hash # NoHash /\ Pinned(v, rows[v].hash)
        /\ FromPublished(p) => v > plans[p].version \/ Withdrawn(plans[p].version)
    BY <2>1, LatestIsHighest
  <2>4. CreatePromise(Resolved(v, p)) /\ Resolved(v, p).step = "create"
    BY <2>1, <2>3, KeyAssumption DEF CreatePromise, Resolved, Made
  <2> QED BY <2>1, <2>2, <2>4
<1>4. ASSUME NEW p \in Plans, ReadRow(r, p)
      PROVE  \E asked \in Asked :
               Begin(r, asked) /\ asked.step = "recompute" /\ RecomputePromise(asked)
  <2> DEFINE k == plans[p].key
             asked == [step |-> "recompute", version |-> VersionOf[k], key |-> k,
                       hash |-> RowHash(k), plan |-> p]
  <2>1. k \in Keys /\ plans[p] # NoPlan /\ Begin(r, asked)
    BY <1>4, PlanIsPlan DEF ReadRow, Plan, CatalogInvariant
  <2>2. VersionOf[k] \in Versions /\ RowHash(k) \in Hash
    BY <2>1, KeyAssumption, RowIsRow DEF RowHash, Row, Hash, CatalogInvariant
  <2>3. asked \in Asked /\ asked.step = "recompute"
    BY <2>1, <2>2 DEF Asked, Step
  <2>4. VersionOf[k] = plans[p].version
    BY <2>1 DEF PlansPinned, CatalogInvariant, Made
  <2>5. FromPublished(p) => RowHash(k) = plans[p].hash
    BY <2>4 DEF PlansPinned, CatalogInvariant, Pinned, RowHash, FromPublished
  <2>6. p # NoPlan
    BY ValueAssumption
  <2>7. RecomputePromise(asked)
    BY <2>1, <2>4, <2>5, <2>6 DEF RecomputePromise, Made
  <2> QED BY <2>1, <2>3, <2>7
<1>5. ASSUME NEW v \in Versions, LockRow(r, v)
      PROVE  \E asked \in Asked : Begin(r, asked) /\ asked.step = "validate" /\ asked.version = v
  BY <1>5, KeyAssumption DEF LockRow, Asked, Step, Hash
<1>6. ResolveById(r) \/ (\E k \in Keys : ResolveByKey(r, k))
      \/ (\E p \in Plans : ResolveUpgrade(r, p) \/ ReadRow(r, p))
      \/ \E v \in Versions : LockRow(r, v)
  BY DEF RequestNext, CreatePlan, RecomputePlan, ValidateFile, Publish, Fail
<1> QED BY <1>1, <1>2, <1>3, <1>4, <1>5, <1>6

\* In a step a request goes on, ends, advances from validate to publish, or begins.
LEMMA RequestMoves ==
  ASSUME CatalogInvariant, [Next]_vars, NEW r \in Requests
  PROVE  \/ req'[r] = req[r]
         \/ req'[r] = Idle
         \/ /\ At(r, {"validate"}) /\ req'[r] = [req[r] EXCEPT !.step = "publish"]
            /\ rows' = rows /\ \A q \in Requests \ {r} : req'[q] = req[q]
         \/ \E asked \in Asked :
              /\ req'[r] = asked /\ rows' = rows /\ plans' = plans
              /\ \A q \in Requests \ {r} : req'[q] = req[q]
              /\ asked.step \in {"create", "recompute", "validate"}
              /\ asked.step = "create" => CreatePromise(asked)
              /\ asked.step = "recompute" => RecomputePromise(asked)
              /\ asked.step = "validate" => \E v \in Versions : LockRow(r, v) /\ asked.version = v
<1>1. CASE req' = req
  BY <1>1
<1>2. ASSUME NEW q \in Requests, RequestNext(q), req' # req
      PROVE  q = r \/ req'[r] = req[r]
  BY <1>2 DEF RequestNext, ResolveById, ResolveByKey, ResolveUpgrade, ReadRow, LockRow, Begin,
       CreatePlan, RecomputePlan, ValidateFile, Publish, Fail, End, CatalogInvariant, TypeOK
<1>3. CASE RequestNext(r) /\ req[r] = Idle
  <2>1. PICK asked \in Asked :
          /\ Begin(r, asked)
          /\ asked.step \in {"create", "recompute", "validate"}
          /\ asked.step = "create" => CreatePromise(asked)
          /\ asked.step = "recompute" => RecomputePromise(asked)
          /\ asked.step = "validate" => \E v \in Versions : LockRow(r, v) /\ asked.version = v
    BY <1>3, BeginsPromised
  <2> QED BY <2>1 DEF Begin, CatalogInvariant, TypeOK
<1>4. CASE RequestNext(r) /\ req[r] # Idle
  <2>1. CASE ValidateFile(r)
    BY <2>1 DEF ValidateFile, CatalogInvariant, TypeOK
  <2>2. CASE CreatePlan(r) \/ RecomputePlan(r) \/ Publish(r) \/ Fail(r)
    BY <2>2 DEF CreatePlan, RecomputePlan, Publish, Fail, End, CatalogInvariant, TypeOK
  <2> QED BY <1>4, <2>1, <2>2 DEF RequestNext, ResolveById, ResolveByKey, ResolveUpgrade,
             ReadRow, LockRow, Begin
<1> QED
  BY <1>1, <1>2, <1>3, <1>4 DEF Next, StartNext, OperatorNext, BeginStart, LookAt,
       RegisterDefaults, FailStart, EditFile, InsertDraft, Withdraw, vars

LEMMA RequestsStep ==
  ASSUME CatalogInvariant, [Next]_vars
  PROVE  CreatesPinned' /\ RecomputesPinned'
<1>1. ASSUME NEW r \in Requests, At(r, {"create", "recompute"})'
      PROVE  \E asked \in Asked : /\ req'[r] = asked
                                  /\ asked.step = "create" => CreatePromise(asked)'
                                  /\ asked.step = "recompute" => RecomputePromise(asked)'
  <2>1. CASE req'[r] = req[r]
    <3>1. PICK asked \in Asked : asked = req[r]
      BY <1>1, <2>1, RequestIsAsked DEF CatalogInvariant
    <3>2. asked.step = "create" => CreatePromise(asked)
      BY <1>1, <2>1, <3>1 DEF CreatesPinned, CreatePromise, CatalogInvariant
    <3>3. asked.step = "recompute" => RecomputePromise(asked)
      BY <1>1, <2>1, <3>1 DEF RecomputesPinned, RecomputePromise, CatalogInvariant
    <3> QED BY <2>1, <3>1, <3>2, <3>3, PromisesStay
  <2>2. CASE req'[r] = [req[r] EXCEPT !.step = "publish"] /\ At(r, {"validate"})
    <3>1. req[r] \in Asked
      BY <2>2, RequestIsAsked DEF CatalogInvariant
    <3>2. req'[r].step = "publish"
      BY <2>2, <3>1 DEF Asked
    <3> QED BY <1>1, <3>2
  <2>3. CASE \E asked \in Asked : /\ req'[r] = asked
                                  /\ asked.step = "create" => CreatePromise(asked)
                                  /\ asked.step = "recompute" => RecomputePromise(asked)
    BY <2>3, PromisesStay
  <2> QED BY <1>1, <2>1, <2>2, <2>3, RequestMoves
<1>2. CreatesPinned'
  BY <1>1 DEF CreatesPinned, CreatePromise
<1>3. RecomputesPinned'
  BY <1>1 DEF RecomputesPinned, RecomputePromise
<1> QED BY <1>2, <1>3

LEMMA PublishersStep ==
  ASSUME CatalogInvariant, [Next]_vars
  PROVE  PublishersAlone'
<1> DEFINE Holds(r) == At(r, {"validate", "publish"})
<1>1. CASE \A r \in Requests : Holds(r)' => Holds(r) /\ req'[r].version = req[r].version
  <2>1. ASSUME NEW r \in Requests, Holds(r)'
        PROVE  rows'[req'[r].version] # NoRow /\ rows'[req'[r].version].status = "draft"
    <3> DEFINE v == req[r].version
    <3>1. Holds(r) /\ req'[r].version = v /\ v \in Versions
      BY <1>1, <2>1, RequestIsAsked DEF CatalogInvariant, Asked
    <3>2. Registered(v) /\ rows[v].status = "draft" /\ Locked(v)
      BY <3>1 DEF PublishersAlone, CatalogInvariant, Locked
    <3>3. CASE rows' = rows
      BY <3>1, <3>2, <3>3
    <3>4. ASSUME NEW s \in Starts, RegisterDefaults(s)
          PROVE  rows'[v] = rows[v]
      <4>1. v \notin Added(s)
        BY <3>2, <3>4 DEF RegisterDefaults, RowClash
      <4> QED BY <3>1, <3>4, <4>1 DEF RegisterDefaults
    <3>5. ASSUME NEW w \in Versions, InsertDraft(w) \/ Withdraw(w)
          PROVE  rows'[v] = rows[v]
      BY <3>1, <3>2, <3>5 DEF InsertDraft, Withdraw, CatalogInvariant, TypeOK
    <3>6. ASSUME NEW q \in Requests, Publish(q)
          PROVE  rows'[v] = rows[v]
      <4>1. q # r
        BY <2>1, <3>6 DEF Publish, End, CatalogInvariant, TypeOK
      <4>2. req[q].version # v
        BY <3>1, <3>6, <4>1 DEF PublishersAlone, CatalogInvariant, Publish
      <4> QED BY <3>1, <3>6, <4>2, RequestIsAsked DEF Publish, CatalogInvariant, TypeOK
    <3>7. ASSUME NEW q \in Requests, RequestNext(q), rows' # rows
          PROVE  Publish(q)
      BY <3>7 DEF RequestNext, ResolveById, ResolveByKey, ResolveUpgrade, ReadRow, LockRow,
           Begin, CreatePlan, RecomputePlan, ValidateFile, Fail
    <3> QED
      BY <3>1, <3>2, <3>3, <3>4, <3>5, <3>6, <3>7
        DEF Next, StartNext, OperatorNext, BeginStart, LookAt, FailStart, EditFile, vars
  <2> QED BY <1>1, <2>1 DEF PublishersAlone, CatalogInvariant
<1>2. ASSUME NEW r \in Requests, NEW asked \in Asked, NEW v \in Versions,
             req'[r] = asked, asked.version = v, LockRow(r, v), rows' = rows,
             \A q \in Requests \ {r} : req'[q] = req[q]
      PROVE  PublishersAlone'
  <2>1. Registered(v) /\ rows[v].status = "draft" /\ ~Locked(v) /\ req[r] = Idle
    BY <1>2 DEF LockRow, Begin
  <2>2. \A q \in Requests \ {r} : Holds(q) => req[q].version # v
    BY <2>1 DEF Locked
  <2> QED BY <1>2, <2>1, <2>2 DEF PublishersAlone, CatalogInvariant
<1>3. ASSUME NEW r \in Requests, Holds(r)',
             ~(Holds(r) /\ req'[r].version = req[r].version)
      PROVE  PublishersAlone'
  <2>1. ~(req'[r] = req[r]) /\ req'[r] # Idle
    BY <1>3
  <2>2. ~(At(r, {"validate"}) /\ req'[r] = [req[r] EXCEPT !.step = "publish"])
    BY <1>3, RequestIsAsked DEF CatalogInvariant, Asked
  <2>3. PICK asked \in Asked :
              /\ req'[r] = asked /\ rows' = rows
              /\ \A q \in Requests \ {r} : req'[q] = req[q]
              /\ asked.step \in {"create", "recompute", "validate"}
              /\ asked.step = "validate" => \E v \in Versions : LockRow(r, v) /\ asked.version = v
    BY <2>1, <2>2, RequestMoves
  <2>4. asked.step = "validate"
    BY <1>3, <2>3
  <2> QED BY <1>2, <2>3, <2>4
<1> QED BY <1>1, <1>3

-----------------------------------------------------------------------------
(* Starts.                                                                   *)

LEMMA StartsStep ==
  ASSUME CatalogInvariant, [Next]_vars
  PROVE  DefaultsLookedAt'
<1> SUFFICES ASSUME NEW s \in Starts, start'[s] = "looking",
                    NEW v \in Defaults \ (todo'[s] \cup missed'[s])
             PROVE  Registered(v)' \/ adds'[s][v] # NoHash
  BY DEF DefaultsLookedAt
<1>1. v \in Versions /\ (Registered(v) => Registered(v)')
  BY RowsStep, KeyAssumption DEF RowsKept
<1>2. CASE start'[s] = start[s] /\ todo'[s] = todo[s] /\ adds'[s] = adds[s]
           /\ missed'[s] = missed[s]
  BY <1>1, <1>2 DEF DefaultsLookedAt, CatalogInvariant
<1>3. CASE BeginStart(s)
  BY <1>3 DEF BeginStart, CatalogInvariant, TypeOK
<1>4. CASE LookAt(s)
  <2>1. PICK w \in todo[s] :
          /\ todo' = [todo EXCEPT ![s] = todo[s] \ {w}]
          /\ adds' = IF Registered(w) \/ files[w] = NoFile THEN adds
                     ELSE [adds EXCEPT ![s][w] = files[w]]
          /\ missed' = IF Registered(w) \/ files[w] # NoFile THEN missed
                       ELSE [missed EXCEPT ![s] = @ \cup {w}]
    BY <1>4 DEF LookAt, Remaining
  <2>2. w \in Versions /\ files[w] \in Contents \cup {NoFile} /\ adds[s] \in [Versions -> Hash]
    BY KeyAssumption DEF CatalogInvariant, TypeOK
  <2>3. CASE v = w
    BY <1>1, <2>1, <2>2, <2>3, FileAssumption DEF CatalogInvariant, TypeOK
  <2>4. CASE v # w
    BY <1>1, <1>4, <2>1, <2>2, <2>4 DEF DefaultsLookedAt, CatalogInvariant, TypeOK, LookAt
  <2> QED BY <2>3, <2>4
<1>5. ~RegisterDefaults(s) /\ ~FailStart(s)
  BY DEF RegisterDefaults, FailStart, CatalogInvariant, TypeOK
<1>6. ASSUME NEW t \in Starts \ {s}, StartNext(t)
      PROVE  /\ start'[s] = start[s] /\ todo'[s] = todo[s]
             /\ adds'[s] = adds[s] /\ missed'[s] = missed[s]
  BY <1>6 DEF StartNext, BeginStart, LookAt, RegisterDefaults, FailStart, Forget,
       CatalogInvariant, TypeOK
<1>7. ASSUME NEW r \in Requests, RequestNext(r)
      PROVE  UNCHANGED starting
  BY <1>7 DEF RequestNext, ResolveById, ResolveByKey, ResolveUpgrade, ReadRow, LockRow, Begin,
       CreatePlan, RecomputePlan, ValidateFile, Publish, Fail
<1>8. ASSUME NEW w \in Versions, OperatorNext(w)
      PROVE  UNCHANGED starting
  BY <1>8 DEF OperatorNext, EditFile, InsertDraft, Withdraw
<1>9. CASE UNCHANGED starting
  BY <1>2, <1>9 DEF starting
<1>10. CASE StartNext(s)
  BY <1>3, <1>4, <1>5, <1>10 DEF StartNext
<1>11. CASE \E t \in Starts \ {s} : StartNext(t)
  BY <1>2, <1>6, <1>11
<1>12. UNCHANGED vars => UNCHANGED starting
  BY DEF vars
<1> QED
  BY <1>7, <1>8, <1>9, <1>10, <1>11, <1>12 DEF Next

-----------------------------------------------------------------------------
(* The theorems.                                                             *)

LEMMA InvariantInit == Init => CatalogInvariant
<1> SUFFICES ASSUME Init PROVE CatalogInvariant
  OBVIOUS
<1>1. TypeOK
  BY TypeInit
<1>2. CreatesPinned /\ RecomputesPinned /\ PublishersAlone /\ DefaultsLookedAt
  BY DEF Init, CreatesPinned, RecomputesPinned, PublishersAlone, DefaultsLookedAt
<1>3. RowsHashed
  <2>1. CASE Empty
    BY <2>1 DEF Empty, RowsHashed, Draft
  <2>2. CASE Migrated
    <3>1. \A v \in Defaults : files[v] \in Contents
      BY <2>2, KeyAssumption DEF Migrated, Init
    <3>2. \A v \in Versions : \/ v \in Defaults /\ rows[v] = NewRow(files[v])
                             \/ rows[v] = NoRow
      BY <2>2 DEF Migrated
    <3>3. \A h : NewRow(h).status = "published" /\ NewRow(h).hash = h
      BY DEF NewRow
    <3>4. \A v \in Defaults : files[v] # NoHash
      BY <3>1, FileAssumption
    <3> QED BY <3>2, <3>3, <3>4 DEF RowsHashed
  <2> QED BY <2>1, <2>2 DEF Init
<1>4. PlansPinned /\ PlansAreValid /\ UpgradesClimb
  <2>1. CASE Empty
    BY <2>1 DEF Empty, PlansPinned, PlansAreValid, UpgradesClimb, Made
  <2>2. CASE Migrated
    <3>1. PICK q \in Plans, k \in Keys : \E c \in Valid[VersionOf[k]] :
            plans = [x \in Plans |->
              IF x = q THEN [key |-> k, version |-> VersionOf[k], from |-> NoPlan,
                             content |-> c, hash |-> NoHash]
              ELSE NoPlan]
      BY <2>2 DEF Migrated
    <3> QED BY <3>1 DEF PlansPinned, PlansAreValid, UpgradesClimb, Made, FromPublished
  <2> QED BY <2>1, <2>2 DEF Init
<1> QED BY <1>1, <1>2, <1>3, <1>4 DEF CatalogInvariant

LEMMA InvariantStep == CatalogInvariant /\ [Next]_vars => CatalogInvariant'
<1> SUFFICES ASSUME CatalogInvariant, [Next]_vars PROVE CatalogInvariant'
  OBVIOUS
<1> QED
  BY TypeStep, RowsStep, PlansInvariantStep, RequestsStep, PublishersStep, StartsStep
    DEF CatalogInvariant

(* Every reachable state of the catalog is well typed, and the hashes of     *)
(* plans and requests are those of rows published for good.                  *)
THEOREM CatalogIsInvariant == Spec => []CatalogInvariant
BY InvariantInit, InvariantStep, PTL DEF Spec

(* Plans are made and recomputed from validated templates only, whatever the *)
(* migration, start-ups and publish register.                                *)
THEOREM PlansStayValid == Spec => []PlansAreValid
<1>1. CatalogInvariant => PlansAreValid
  BY DEF CatalogInvariant
<1> QED BY <1>1, CatalogIsInvariant, PTL

(* Upgrades of plans of published versions climb, unless one was withdrawn.  *)
THEOREM UpgradesAlwaysClimb == Spec => []UpgradesClimb
<1>1. CatalogInvariant => UpgradesClimb
  BY DEF CatalogInvariant
<1> QED BY <1>1, CatalogIsInvariant, PTL

(* A published row is not replaced, changed back or given another hash.      *)
THEOREM PublishedRowsAreKept == Spec => PublishedForGood
<1>1. CatalogInvariant /\ [Next]_vars =>
        [\A v \in Versions :
           Registered(v) /\ rows[v].status # "draft" =>
             /\ Registered(v)' /\ rows'[v].status # "draft"
             /\ rows'[v].hash = rows[v].hash
             /\ rows[v].withdrawn => rows'[v] = rows[v]]_vars
  BY RowsStep DEF RowsKept
<1> QED BY <1>1, CatalogIsInvariant, PTL DEF Spec, PublishedForGood

(* A plan made under a hash keeps its template through every recompute.      *)
THEOREM OldPlansStayStable == Spec => OldPlansStable
<1>1. CatalogInvariant /\ [Next]_vars =>
        [\A p \in Plans : plans[p] # NoPlan /\ plans[p].hash # NoHash =>
           plans'[p] = plans[p]]_vars
  BY PlansStay DEF PlansKept, Made, FromPublished
<1> QED BY <1>1, CatalogIsInvariant, PTL DEF Spec, OldPlansStable

(* A process comes up with every default registered whose file was there.    *)
THEOREM BootstrapAlwaysRegisters == Spec => BootstrapRegisters
<1>1. ASSUME CatalogInvariant, [Next]_vars, NEW s \in Starts,
             start[s] = "looking", start'[s] = "up", NEW v \in Defaults \ missed[s]
      PROVE  Registered(v)'
  <2>1. RegisterDefaults(s)
    BY <1>1 DEF Next, RequestNext, StartNext, OperatorNext, ResolveById, ResolveByKey,
         ResolveUpgrade, ReadRow, LockRow, Begin, CreatePlan, RecomputePlan, ValidateFile,
         Publish, Fail, BeginStart, LookAt, RegisterDefaults, FailStart, EditFile,
         InsertDraft, Withdraw, vars, starting, CatalogInvariant, TypeOK
  <2>2. v \in Versions /\ (Registered(v) \/ v \in Added(s))
    BY <1>1, <2>1, KeyAssumption DEF RegisterDefaults, DefaultsLookedAt, CatalogInvariant, Added
  <2>3. CASE Registered(v)
    BY <1>1, <2>2, <2>3, RowsStep DEF RowsKept
  <2>4. CASE v \in Added(s)
    <3>1. rows'[v] = NewRow(adds[s][v])
      BY <2>1, <2>2, <2>4 DEF RegisterDefaults
    <3> QED BY <1>1, <2>4, <3>1, AddedRows DEF CatalogInvariant
  <2> QED BY <2>2, <2>3, <2>4
<1>2. CatalogInvariant /\ [Next]_vars =>
        [\A s \in Starts : start[s] = "looking" /\ start'[s] = "up" =>
           \A v \in Defaults \ missed[s] : Registered(v)']_vars
  BY <1>1
<1> QED BY <1>2, CatalogIsInvariant, PTL DEF Spec, BootstrapRegisters

=============================================================================
