--------------------------- MODULE ToposortProofs ---------------------------
(***************************************************************************)
(* Theorems about Toposort, for every set of task ids and every list of    *)
(* edges: what the two passes leave behind and how they end.               *)
(***************************************************************************)
EXTENDS Toposort, FiniteSetTheorems, TLAPS

-----------------------------------------------------------------------------
(* The least of a set of task ids                                          *)

\* No set of numbers descends for ever.  The library has it for sets that
\* shrink: number x stands for the set 0..x.
LEMMA LeastExists ==
  ASSUME NEW S \in SUBSET Nat, S # {}
  PROVE  \E x \in S : \A y \in S : x <= y
<1>1. PICK m \in S : TRUE
  OBVIOUS
<1> DEFINE Below == {x \in S : x <= m}
           Down(x) == 0..x
           T == {Down(x) : x \in Below}
<1>2. IsFiniteSet(0..m)
  BY FS_Interval
<1>3. IsWellFoundedOn(StrictSubsetOrdering(0..m), SUBSET (0..m))
  BY <1>2, FS_StrictSubsetOrderingWellFounded, FS_FiniteSubsetsOfFinite
<1>4. T \subseteq SUBSET (0..m) /\ T # {}
  OBVIOUS
<1>5. PICK t \in T : \A u \in T : <<u, t>> \notin StrictSubsetOrdering(0..m)
  <2> HIDE DEF T
  <2> QED
    BY <1>3, <1>4, WFMin
<1>6. PICK x \in Below : t = Down(x)
  OBVIOUS
<1>7. ASSUME NEW y \in Below PROVE x <= y
  <2>1. <<Down(y), Down(x)>> \notin StrictSubsetOrdering(0..m)
    BY <1>5, <1>6
  <2>2. Down(y) \in SUBSET (0..m) /\ Down(x) \in SUBSET (0..m)
    OBVIOUS
  <2>3. ~(Down(y) \subseteq Down(x) /\ Down(y) # Down(x))
    <3> HIDE DEF Down
    <3> QED
      BY <2>1, <2>2 DEF StrictSubsetOrdering
  <2>4. CASE y < x
    <3>1. x \in Down(x) /\ x \notin Down(y)
      BY <2>4
    <3> QED
      BY <2>3, <2>4, <3>1
  <2> QED
    BY <2>4
<1> QED
  BY <1>7

LEMMA MinIsMember ==
  ASSUME NEW S \in SUBSET Nat, S # {}
  PROVE  Min(S) \in S
BY LeastExists DEF Min

-----------------------------------------------------------------------------
(* Edges                                                                   *)

\* The tasks and edges of a pass.
GraphOK ==
  /\ IsFiniteSet(edges) /\ \A e \in edges : e[1] \in Ids /\ e[2] \in Ids
  /\ nodes \in SUBSET Ids

LEMMA PrunedIsFinite ==
  ASSUME NEW list, IsFiniteSet(list), NEW active
  PROVE  /\ IsFiniteSet(Pruned(list, active))
         /\ \A n : IsFiniteSet(Into(Pruned(list, active), n))
         /\ \A m, n : IsFiniteSet(Between(Pruned(list, active), m, n))
<1>1. Pruned(list, active) \in SUBSET list
  BY DEF Pruned
<1>2. \A n : Into(Pruned(list, active), n) \in SUBSET list
  BY DEF Pruned, Into
<1>3. \A m, n : Between(Pruned(list, active), m, n) \in SUBSET list
  BY DEF Pruned, Between
<1> QED
  BY <1>1, <1>2, <1>3, FS_Subset

LEMMA IndegreeType ==
  ASSUME NEW list, IsFiniteSet(list), NEW active
  PROVE  Indegree(list, active) \in [active -> Nat]
BY PrunedIsFinite, FS_CardinalityType DEF Indegree

LEMMA PendingIsFinite ==
  ASSUME GraphOK, NEW n
  PROVE  IsFiniteSet(Pending(n)) /\ Cardinality(Pending(n)) \in Nat
<1>1. Pending(n) \in SUBSET Into(Pruned(edges, nodes), n)
  BY DEF Pending
<1> QED
  BY <1>1, PrunedIsFinite, FS_Subset, FS_CardinalityType DEF GraphOK

-----------------------------------------------------------------------------
(* The start of a pass                                                     *)

Fresh ==
  /\ GraphOK
  /\ indegree = Indegree(edges, nodes)
  /\ ready = Sources(indegree)
  /\ order = << >>

TakenOnce ==
  /\ IsFiniteSet(Taken) /\ Cardinality(Taken) = Len(order)
  /\ \A i, j \in DOMAIN order : order[i] = order[j] => i = j

\* Each task was free when it was taken.
EdgesPointForward ==
  \A i \in DOMAIN order : \A e \in Pruned(edges, nodes) :
    e[2] = order[i] => \E j \in 1..(i - 1) : order[j] = e[1]

\* What every visit keeps, whatever the pass is for.
PassOK ==
  /\ GraphOK
  /\ indegree \in [nodes -> Nat] /\ ready \in SUBSET nodes /\ order \in Seq(nodes)
  /\ LoopInvariant
  /\ TakenOnce
  /\ EdgesPointForward

LEMMA FreshPass == Fresh => PassOK /\ Taken = {} /\ DOMAIN order = {}
<1> SUFFICES ASSUME Fresh PROVE PassOK /\ Taken = {} /\ DOMAIN order = {}
  OBVIOUS
<1> USE DEF Fresh
<1>1. DOMAIN order = {} /\ Len(order) = 0 /\ order \in Seq(nodes)
  OBVIOUS
<1>2. Taken = {}
  BY <1>1 DEF Taken
<1>3. \A n : Pending(n) = Into(Pruned(edges, nodes), n)
  BY <1>2 DEF Pending, Into
<1>4. indegree \in [nodes -> Nat]
  BY IndegreeType DEF GraphOK
<1>5. indegree = [n \in nodes |-> Cardinality(Pending(n))]
  BY <1>3 DEF Indegree
<1>6. ready = {n \in nodes \ Taken : indegree[n] = 0} /\ ready \in SUBSET nodes
  BY <1>2, <1>4 DEF Sources
<1>7. TakenOnce
  BY <1>1, <1>2, FS_EmptySet DEF TakenOnce
<1> QED
  BY <1>1, <1>2, <1>4, <1>5, <1>6, <1>7 DEF PassOK, LoopInvariant, EdgesPointForward

-----------------------------------------------------------------------------
(* A visit                                                                 *)

\* Whoever is taken waits for nothing, and is not taken yet.
LEMMA ReadyWaitsForNothing ==
  ASSUME PassOK, NEW n \in ready
  PROVE  n \in nodes /\ n \notin Taken /\ indegree[n] = 0 /\ Pending(n) = {}
<1>1. n \in nodes \ Taken /\ indegree[n] = 0 /\ indegree[n] = Cardinality(Pending(n))
  BY DEF PassOK, LoopInvariant
<1> QED
  BY <1>1, PendingIsFinite, FS_EmptySet DEF PassOK

LEMMA TakenWaitsForNothing ==
  ASSUME PassOK, NEW n \in Taken
  PROVE  n \in nodes /\ Pending(n) = {} /\ indegree[n] = 0
<1>1. PICK i \in DOMAIN order : order[i] = n
  BY DEF Taken
<1>2. n \in nodes
  BY <1>1 DEF PassOK
<1>3. \A e \in Pruned(edges, nodes) : e[2] = n => e[1] \in Taken
  <2> TAKE e \in Pruned(edges, nodes)
  <2> HAVE e[2] = n
  <2>1. PICK j \in 1..(i - 1) : order[j] = e[1]
    BY <1>1 DEF PassOK, EdgesPointForward
  <2>2. j \in DOMAIN order
    BY <1>1 DEF PassOK
  <2> QED
    BY <2>1, <2>2 DEF Taken
<1>4. Pending(n) = {}
  BY <1>3 DEF Pending, Into
<1> QED
  BY <1>2, <1>4, FS_EmptySet DEF PassOK, LoopInvariant

LEMMA VisitOrder ==
  ASSUME PassOK, NEW n \in ready, Visit(n)
  PROVE  /\ order' \in Seq(nodes) /\ Len(order') = Len(order) + 1
         /\ DOMAIN order' = DOMAIN order \cup {Len(order) + 1}
         /\ DOMAIN order = 1..Len(order)
         /\ order'[Len(order) + 1] = n
         /\ \A i \in DOMAIN order : order'[i] = order[i]
         /\ Taken' = Taken \cup {n}
         /\ Taken \subseteq nodes
<1>1. n \in nodes /\ order \in Seq(nodes) /\ order' = Append(order, n)
  BY DEF PassOK, Visit
<1>2. /\ order' \in Seq(nodes) /\ Len(order') = Len(order) + 1
      /\ DOMAIN order' = 1..(Len(order) + 1)
      /\ DOMAIN order = 1..Len(order)
      /\ order'[Len(order) + 1] = n
      /\ \A i \in DOMAIN order : order'[i] = order[i]
  BY <1>1
<1>3. DOMAIN order' = DOMAIN order \cup {Len(order) + 1}
  BY <1>1, <1>2
<1>4. Taken' = Taken \cup {n}
  BY <1>2, <1>3 DEF Taken
<1>5. Taken \subseteq nodes
  BY <1>1 DEF Taken
<1> QED
  BY <1>2, <1>3, <1>4, <1>5

LEMMA VisitCountsDown ==
  ASSUME PassOK, NEW n \in ready, Visit(n)
  PROVE  /\ indegree' = [m \in nodes |-> Cardinality(Pending(m)')]
         /\ indegree' \in [nodes -> Nat]
<1> DEFINE P == Pruned(edges, nodes)
           Cut(m) == Between(P, n, m)
<1>1. indegree \in [nodes -> Nat] /\ DOMAIN indegree = nodes /\ GraphOK
  BY DEF PassOK
<1>2. indegree' = [m \in nodes |-> indegree[m] - Cardinality(Cut(m))]
  BY <1>1 DEF Visit, CountedDown
<1>3. ASSUME NEW m \in nodes
      PROVE  /\ IsFiniteSet(Pending(m)')
             /\ Cardinality(Pending(m)') = indegree[m] - Cardinality(Cut(m))
  <2>1. Pending(m)' = Pending(m) \ Cut(m)
    BY VisitOrder DEF Pending, Between, Into, Visit
  <2>2. Cut(m) \subseteq Pending(m)
    BY ReadyWaitsForNothing DEF Pending, Between, Into
  <2>3. IsFiniteSet(Pending(m)) /\ Pending(m) \cap Cut(m) = Cut(m)
    BY <1>1, <2>2, PendingIsFinite
  <2>4. indegree[m] = Cardinality(Pending(m))
    BY DEF PassOK, LoopInvariant
  <2>5. /\ IsFiniteSet(Pending(m) \ Cut(m))
        /\ Cardinality(Pending(m) \ Cut(m)) = Cardinality(Pending(m)) - Cardinality(Cut(m))
    <3> HIDE DEF Cut
    <3>1. Cardinality(Pending(m) \ Cut(m))
            = Cardinality(Pending(m)) - Cardinality(Pending(m) \cap Cut(m))
      BY <2>3, FS_Difference
    <3>2. IsFiniteSet(Pending(m) \ Cut(m))
      BY <2>3, FS_Difference
    <3> QED
      BY <2>3, <3>1, <3>2
  <2> HIDE DEF Cut
  <2> QED
    BY <2>1, <2>4, <2>5
<1>4. \A m \in nodes : Cardinality(Pending(m)') \in Nat
  BY <1>3, FS_CardinalityType
<1>5. indegree' = [m \in nodes |-> Cardinality(Pending(m)')]
  <2> HIDE DEF Cut
  <2> QED
    BY <1>2, <1>3
<1> QED
  BY <1>4, <1>5

LEMMA VisitReady ==
  ASSUME PassOK, NEW n \in ready, Visit(n)
  PROVE  ready' = {m \in nodes \ Taken' : indegree'[m] = 0}
<1> DEFINE freed == {m \in nodes : indegree[m] # 0 /\ indegree'[m] = 0}
<1>1. ready' = (ready \ {n}) \cup freed
  BY DEF Visit
<1>2. Taken' = Taken \cup {n} /\ ready = {m \in nodes \ Taken : indegree[m] = 0}
  BY VisitOrder DEF PassOK, LoopInvariant
<1>3. ASSUME NEW m \in nodes, indegree[m] = 0 PROVE indegree'[m] = 0
  <2>1. Pending(m) = {}
    BY <1>3, PendingIsFinite, FS_EmptySet DEF PassOK, LoopInvariant
  <2>2. Pending(m)' \subseteq Pending(m)
    BY <1>2 DEF Pending, Into, Visit
  <2>3. Pending(m)' = {}
    BY <2>1, <2>2
  <2> QED
    BY <2>3, VisitCountsDown, FS_EmptySet
<1>4. \A m \in freed : m \notin Taken'
  BY <1>2, TakenWaitsForNothing, ReadyWaitsForNothing
<1> QED
  BY <1>1, <1>2, <1>3, <1>4

\* A visit keeps the part of the invariant that is about the pass.
LEMMA VisitKeepsPassOK ==
  ASSUME PassOK, NEW n \in ready, Visit(n)
  PROVE  PassOK'
<1>1. GraphOK'
  BY DEF PassOK, GraphOK, Visit
<1>2. /\ indegree' \in [nodes' -> Nat] /\ indegree' = [m \in nodes' |-> Cardinality(Pending(m)')]
      /\ nodes' = nodes /\ edges' = edges
  BY VisitCountsDown DEF Visit
<1>3. ready' = {m \in nodes' \ Taken' : indegree'[m] = 0} /\ ready' \in SUBSET nodes'
  BY <1>2, VisitReady
<1>4. order' \in Seq(nodes')
  BY <1>2, VisitOrder
<1>5. \A i, j \in DOMAIN order' : order'[i] = order'[j] => i = j
  <2>1. \A i \in DOMAIN order : order[i] # n
    BY ReadyWaitsForNothing DEF Taken
  <2> QED
    BY <2>1, VisitOrder DEF PassOK, TakenOnce
<1>6. IsFiniteSet(Taken') /\ Cardinality(Taken') = Len(order')
  <2>1. Taken' = Taken \cup {n} /\ Len(order') = Len(order) + 1
    BY VisitOrder
  <2>2. n \notin Taken
    BY ReadyWaitsForNothing
  <2>3. IsFiniteSet(Taken) /\ Cardinality(Taken) = Len(order)
    BY DEF PassOK, TakenOnce
  <2>4. IsFiniteSet(Taken \cup {n}) /\ Cardinality(Taken \cup {n}) = Cardinality(Taken) + 1
    BY <2>2, <2>3, FS_AddElement
  <2> QED
    BY <2>1, <2>3, <2>4
<1>7. EdgesPointForward'
  <2> SUFFICES ASSUME NEW i \in DOMAIN order', NEW e \in Pruned(edges, nodes), e[2] = order'[i]
               PROVE  \E j \in 1..(i - 1) : order'[j] = e[1]
    BY <1>2 DEF EdgesPointForward, Pruned
  <2>1. CASE i \in DOMAIN order
    <3>1. PICK j \in 1..(i - 1) : order[j] = e[1]
      BY <2>1, VisitOrder DEF PassOK, EdgesPointForward
    <3>2. j \in DOMAIN order
      BY <2>1, VisitOrder DEF PassOK
    <3> QED
      BY <3>1, <3>2, VisitOrder
  <2>2. CASE i = Len(order) + 1
    <3>1. e[1] \in Taken
      BY <2>2, VisitOrder, ReadyWaitsForNothing DEF Pending, Into
    <3>2. PICK j \in DOMAIN order : order[j] = e[1]
      BY <3>1 DEF Taken
    <3> QED
      BY <2>2, <3>2, VisitOrder DEF PassOK
  <2> QED
    BY <2>1, <2>2, VisitOrder
<1> QED
  BY <1>1, <1>2, <1>3, <1>4, <1>5, <1>6, <1>7 DEF PassOK, LoopInvariant, TakenOnce

-----------------------------------------------------------------------------
(* The order                                                               *)

\* order[i] is the least of the tasks that were free, given what was before.
Before(i) == {order[j] : j \in 1..(i - 1)}
Free(before) ==
  {n \in nodes \ before : \A e \in Pruned(edges, nodes) : e[2] = n => e[1] \in before}
OrderIsLeastFirst == \A i \in DOMAIN order : order[i] = Min(Free(Before(i)))

\* The ready tasks are the free ones.
LEMMA ReadyIsFree == PassOK => ready = Free(Taken)
<1> SUFFICES ASSUME PassOK PROVE ready = Free(Taken)
  OBVIOUS
<1>1. ready = {n \in nodes \ Taken : indegree[n] = 0}
      /\ \A n \in nodes : indegree[n] = Cardinality(Pending(n))
  BY DEF PassOK, LoopInvariant
<1>2. \A n \in nodes : indegree[n] = 0 <=> Pending(n) = {}
  BY <1>1, PendingIsFinite, FS_EmptySet DEF PassOK
<1>3. \A n \in nodes :
        Pending(n) = {} <=> \A e \in Pruned(edges, nodes) : e[2] = n => e[1] \in Taken
  BY DEF Pending, Into
<1> QED
  BY <1>1, <1>2, <1>3 DEF Free

LEMMA PopKeepsOrder ==
  ASSUME PassOK, OrderIsLeastFirst, PopLeast
  PROVE  OrderIsLeastFirst'
<1> DEFINE n == NextOfReady
<1>1. ready \in SUBSET Nat /\ ready # {}
  BY IdsAssumption DEF PassOK, GraphOK, PopLeast
<1>2. n \in ready
  BY <1>1, MinIsMember DEF NextOfReady
<1>3. Visit(n) /\ n = Min(Free(Taken))
  BY ReadyIsFree DEF PopLeast, NextOfReady
<1> HIDE DEF n
<1>4. edges' = edges /\ nodes' = nodes
  BY <1>3 DEF Visit
<1>5. ASSUME NEW i \in DOMAIN order PROVE Before(i)' = Before(i) /\ order'[i] = order[i]
  <2>1. \A j \in 1..(i - 1) : j \in DOMAIN order
    BY <1>2, <1>3, VisitOrder DEF PassOK
  <2> QED
    BY <1>2, <1>3, <2>1, VisitOrder DEF Before
<1>6. ASSUME NEW i, i = Len(order) + 1 PROVE Before(i)' = Taken
  <2>1. 1..(i - 1) = DOMAIN order
    BY <1>2, <1>3, <1>6, VisitOrder DEF PassOK
  <2>2. \A j \in DOMAIN order : order'[j] = order[j]
    BY <1>2, <1>3, VisitOrder
  <2>3. Before(i)' = {order'[j] : j \in DOMAIN order}
    BY <2>1 DEF Before
  <2> QED
    BY <2>2, <2>3 DEF Taken
<1>7. ASSUME NEW i \in DOMAIN order' PROVE order'[i] = Min(Free(Before(i)'))
  <2>1. CASE i \in DOMAIN order
    BY <1>5, <2>1 DEF OrderIsLeastFirst
  <2>2. CASE i = Len(order) + 1
    <3>1. Before(i)' = Taken
      BY <1>6, <2>2
    <3>2. order'[i] = n
      BY <1>2, <1>3, <2>2, VisitOrder
    <3> QED
      BY <1>3, <3>1, <3>2
  <2> QED
    BY <1>2, <1>3, <2>1, <2>2, VisitOrder
<1> QED
  BY <1>4, <1>7 DEF OrderIsLeastFirst, Free

-----------------------------------------------------------------------------
(* Cycles                                                                  *)

\* Who is left waits for somebody else who is left.
LEMMA WaitingIsStuck ==
  ASSUME PassOK, ready = {}, Taken # nodes
  PROVE  HasCycle(edges, nodes)
<1> DEFINE S == nodes \ Taken
<1>1. S # {} /\ S \in SUBSET nodes
  BY DEF Taken, PassOK
<1>2. ASSUME NEW n \in S PROVE \E e \in edges : e[1] \in S /\ e[2] = n
  <2>1. indegree[n] # 0 /\ indegree[n] = Cardinality(Pending(n))
    BY DEF PassOK, LoopInvariant
  <2>2. PICK e \in Pending(n) : TRUE
    BY <2>1, FS_EmptySet
  <2> QED
    BY <2>2 DEF Pending, Into, Pruned
<1> QED
  BY <1>1, <1>2 DEF HasCycle, Stuck

\* The first of a set of tasks to be taken did not wait for any of them.
LEMMA AllTakenNoCycle ==
  ASSUME PassOK, Taken = nodes
  PROVE  ~HasCycle(edges, nodes)
<1> SUFFICES ASSUME NEW S \in SUBSET nodes, Stuck(edges, S) PROVE FALSE
  BY DEF HasCycle
<1> DEFINE I == {i \in DOMAIN order : order[i] \in S}
<1>1. I \in SUBSET Nat /\ I # {}
  BY DEF PassOK, Taken, Stuck
<1>2. PICK i \in I : \A j \in I : i <= j
  BY <1>1, LeastExists
<1>3. PICK e \in edges : e[1] \in S /\ e[2] = order[i]
  BY DEF Stuck
<1>4. e \in Pruned(edges, nodes)
  BY <1>3 DEF Pruned
<1>5. PICK j \in 1..(i - 1) : order[j] = e[1]
  BY <1>3, <1>4 DEF PassOK, EdgesPointForward
<1>6. j \in I /\ j < i
  BY <1>1, <1>3, <1>5 DEF PassOK
<1> QED
  BY <1>1, <1>2, <1>6

\* What is left of a graph without cycles has none.
LEMMA PruningMakesNoCycle ==
  ASSUME NEW list, NEW active \in SUBSET Ids, HasCycle(list, active)
  PROVE  HasCycle(list, Ids)
BY DEF HasCycle

\* The count at the end tells whether anything is left.
LEMMA CountTells ==
  ASSUME PassOK
  PROVE  AllVisited <=> Taken = nodes
<1>1. Taken \in SUBSET nodes /\ IsFiniteSet(Taken) /\ Cardinality(Taken) = Len(order)
  BY DEF PassOK, TakenOnce, Taken
<1>2. IsFiniteSet(nodes)
  BY IdsAssumption, FS_Subset DEF PassOK, GraphOK
<1> QED
  BY <1>1, <1>2, FS_Subset DEF AllVisited

-----------------------------------------------------------------------------
(* The inductive invariant                                                 *)

\* Only all tasks of the template are validated; a template that was found
\* good has no cycle.
ValidationIsSound ==
  /\ phase \in {"validate", "rejected"} => nodes = Ids
  /\ validated \in BOOLEAN
  /\ validated => ~HasCycle(edges, Ids)

PassInvariant ==
  /\ phase \in {"validate", "sort", "rejected", "sorted", "cycle"}
  /\ PassOK
  /\ phase \in {"sort", "sorted"} => OrderIsLeastFirst
  /\ ValidationIsSound
  /\ OutcomeIsRight

LEMMA FreshIsLeastFirst == Fresh => OrderIsLeastFirst
BY FreshPass DEF OrderIsLeastFirst

LEMMA InitPassInvariant == Init => PassInvariant
<1> SUFFICES ASSUME Init PROVE PassInvariant
  OBVIOUS
<1>1. Fresh
  BY EdgeAssumption DEF Init, Fresh, GraphOK
<1> QED
  BY <1>1, FreshPass, FreshIsLeastFirst DEF Init, PassInvariant, ValidationIsSound, OutcomeIsRight

LEMMA PassUnchanged ==
  ASSUME UNCHANGED <<edges, nodes, indegree, ready, order>>
  PROVE  /\ UNCHANGED Taken
         /\ PassOK => PassOK'
         /\ OrderIsLeastFirst => OrderIsLeastFirst'
         /\ (HasCycle(edges, nodes))' = HasCycle(edges, nodes)
         /\ (HasCycle(edges, Ids))' = HasCycle(edges, Ids)
<1>1. UNCHANGED Taken
  BY DEF Taken
<1>2. \A n : UNCHANGED Pending(n)
  BY <1>1 DEF Pending
<1>3. GraphOK => GraphOK'
  BY DEF GraphOK
<1>4. LoopInvariant => LoopInvariant'
  BY <1>1, <1>2 DEF LoopInvariant
<1>5. TakenOnce => TakenOnce'
  BY <1>1 DEF TakenOnce
<1>6. EdgesPointForward => EdgesPointForward'
  BY DEF EdgesPointForward
<1>7. OrderIsLeastFirst => OrderIsLeastFirst'
  <2>1. \A i : UNCHANGED Before(i)
    BY DEF Before
  <2>2. \A S : UNCHANGED Free(S)
    BY DEF Free
  <2> QED
    BY <2>1, <2>2 DEF OrderIsLeastFirst
<1>8. /\ (HasCycle(edges, nodes))' = HasCycle(edges, nodes)
      /\ (HasCycle(edges, Ids))' = HasCycle(edges, Ids)
  OBVIOUS
<1> QED
  BY <1>1, <1>3, <1>4, <1>5, <1>6, <1>7, <1>8 DEF PassOK

LEMMA NextPassInvariant == PassInvariant /\ [Next]_vars => PassInvariant'
<1> SUFFICES ASSUME PassInvariant, [Next]_vars PROVE PassInvariant'
  OBVIOUS
<1>1. ASSUME VisitAny PROVE PassInvariant'
  <2>1. PICK n \in ready : Visit(n)
    BY <1>1 DEF VisitAny
  <2>2. PassOK'
    BY <2>1, VisitKeepsPassOK DEF PassInvariant
  <2>3. phase = "validate" /\ phase' = phase /\ nodes' = nodes /\ edges' = edges
        /\ validated' = validated
    BY <1>1, <2>1 DEF VisitAny, Visit
  <2> QED
    BY <2>2, <2>3 DEF PassInvariant, ValidationIsSound, OutcomeIsRight
<1>2. ASSUME PopLeast PROVE PassInvariant'
  <2>1. OrderIsLeastFirst'
    BY <1>2, PopKeepsOrder DEF PassInvariant, PopLeast
  <2>2. NextOfReady \in ready /\ Visit(NextOfReady)
    BY <1>2, IdsAssumption, MinIsMember DEF PassInvariant, PassOK, GraphOK, PopLeast, NextOfReady
  <2>3. PassOK'
    BY <2>2, VisitKeepsPassOK DEF PassInvariant
  <2>4. phase = "sort" /\ phase' = phase /\ nodes' = nodes /\ edges' = edges
        /\ validated' = validated
    BY <1>2, <2>2 DEF PopLeast, Visit
  <2> QED
    BY <2>1, <2>3, <2>4 DEF PassInvariant, ValidationIsSound, OutcomeIsRight
<1>3. ASSUME Accept PROVE PassInvariant'
  <2>1. ~HasCycle(edges, Ids)
    BY <1>3, CountTells, AllTakenNoCycle DEF Accept, PassInvariant, ValidationIsSound
  <2>2. PICK active \in SUBSET Ids : BeginPass("sort", edges, active)
    BY <1>3 DEF Accept
  <2>3. Fresh'
    BY <2>2 DEF BeginPass, Fresh, GraphOK, PassInvariant, PassOK
  <2>4. PassOK' /\ OrderIsLeastFirst'
    BY <2>3, FreshPass, FreshIsLeastFirst, PTL
  <2>5. phase' = "sort" /\ validated' = TRUE /\ edges' = edges
    BY <1>3, <2>2 DEF Accept, BeginPass
  <2> QED
    BY <2>1, <2>4, <2>5 DEF PassInvariant, ValidationIsSound, OutcomeIsRight, HasCycle
<1>4. ASSUME NEW next, Finish(next)
      PROVE  /\ PassOK'
             /\ OrderIsLeastFirst => OrderIsLeastFirst'
             /\ (HasCycle(edges, nodes))' = HasCycle(edges, nodes)
             /\ (HasCycle(edges, Ids))' = HasCycle(edges, Ids)
  BY <1>4, PassUnchanged DEF Finish, PassInvariant
<1>5. ASSUME Reject PROVE PassInvariant'
  <2>1. HasCycle(edges, nodes) /\ nodes = Ids
    BY <1>5, CountTells, WaitingIsStuck DEF Reject, PassInvariant, ValidationIsSound
  <2>2. Finish("rejected") /\ phase' = "rejected" /\ nodes' = nodes /\ validated' = validated
    BY <1>5 DEF Reject, Finish
  <2> QED
    BY <1>4, <2>1, <2>2 DEF PassInvariant, ValidationIsSound, OutcomeIsRight
<1>6. ASSUME Return PROVE PassInvariant'
  <2>1. ~HasCycle(edges, nodes) /\ Taken = nodes /\ OrderIsLeastFirst
    BY <1>6, CountTells, AllTakenNoCycle DEF Return, PassInvariant
  <2>2. /\ Finish("sorted") /\ phase' = "sorted" /\ nodes' = nodes /\ validated' = validated
        /\ Taken' = Taken
    BY <1>6 DEF Return, Finish, Taken
  <2> QED
    BY <1>4, <2>1, <2>2 DEF PassInvariant, ValidationIsSound, OutcomeIsRight
<1>7. ASSUME RaiseCycle PROVE PassInvariant'
  <2>1. HasCycle(edges, nodes)
    BY <1>7, CountTells, WaitingIsStuck DEF RaiseCycle, PassInvariant
  <2>2. Finish("cycle") /\ phase' = "cycle" /\ nodes' = nodes /\ validated' = validated
    BY <1>7 DEF RaiseCycle, Finish
  <2> QED
    BY <1>4, <2>1, <2>2 DEF PassInvariant, ValidationIsSound, OutcomeIsRight
<1>8. ASSUME UNCHANGED vars PROVE PassInvariant'
  BY <1>8, PassUnchanged DEF vars, PassInvariant, ValidationIsSound, OutcomeIsRight
<1> QED
  BY <1>1, <1>2, <1>3, <1>5, <1>6, <1>7, <1>8 DEF Next

LEMMA AlwaysPassInvariant == Spec => []PassInvariant
<1>1. PassInvariant /\ [Next]_vars => PassInvariant'
  BY NextPassInvariant
<1> QED
  BY InitPassInvariant, <1>1, PTL DEF Spec

-----------------------------------------------------------------------------
(* Theorems                                                                *)

\* What is left to count down, the queue and the order have their types and
\* tell the same story, also if an edge is listed twice or leads to its own
\* source.
THEOREM LoopIsSound == Spec => [](TypeOK /\ LoopInvariant)
<1>1. PassInvariant => TypeOK /\ LoopInvariant
  BY DEF PassInvariant, PassOK, GraphOK, ValidationIsSound, TypeOK
<1> QED
  BY <1>1, AlwaysPassInvariant, PTL

\* No task comes before one it depends on.
THEOREM DependenciesComeFirst == Spec => []DependenciesFirst
<1>1. PassInvariant => DependenciesFirst
  <2> SUFFICES ASSUME PassOK, NEW e \in Pruned(edges, nodes), e[2] \in Taken
               PROVE  e[1] \in Taken /\ Position(e[1]) < Position(e[2])
    BY DEF DependenciesFirst, PassInvariant
  <2>1. PICK i \in DOMAIN order : order[i] = e[2]
    BY DEF Taken
  <2>2. PICK j \in 1..(i - 1) : order[j] = e[1]
    BY <2>1 DEF PassOK, EdgesPointForward
  <2>3. j \in DOMAIN order /\ j < i
    BY <2>1, <2>2 DEF PassOK
  <2>4. \A k \in DOMAIN order : Position(order[k]) = k
    BY DEF Position, PassOK, TakenOnce
  <2> QED
    BY <2>1, <2>2, <2>3, <2>4 DEF Taken
<1> QED
  BY <1>1, AlwaysPassInvariant, PTL

\* A pass ends with all tasks if and only if the graph has no cycle.
THEOREM OutcomesAreRight == Spec => []OutcomeIsRight
<1>1. PassInvariant => OutcomeIsRight
  BY DEF PassInvariant
<1> QED
  BY <1>1, AlwaysPassInvariant, PTL

\* No facts make a plan of a validated template fail for a cycle.
THEOREM ValidatedTemplatesNeverCycle == Spec => []ValidatedNeverCycles
<1>1. PassInvariant => ValidatedNeverCycles
  <2> SUFFICES ASSUME PassInvariant, validated, phase = "cycle" PROVE FALSE
    BY DEF ValidatedNeverCycles
  <2>1. HasCycle(edges, nodes) /\ nodes \in SUBSET Ids
    BY DEF PassInvariant, OutcomeIsRight, PassOK, GraphOK
  <2> QED
    BY <2>1, PruningMakesNoCycle DEF PassInvariant, ValidationIsSound
<1> QED
  BY <1>1, AlwaysPassInvariant, PTL

\* The order of a plan's tasks follows from the graph alone.
THEOREM OrderIsDetermined == Spec => []LeastFirst
<1>1. PassInvariant => LeastFirst
  BY DEF PassInvariant, OrderIsLeastFirst, LeastFirst, Free, Before
<1> QED
  BY <1>1, AlwaysPassInvariant, PTL

=============================================================================
