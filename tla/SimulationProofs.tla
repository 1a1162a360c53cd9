-------------------------- MODULE SimulationProofs --------------------------
(***************************************************************************)
(* What a run of module Simulation guarantees for every cluster,           *)
(* configuration, store and number of runs: the consolidation selection    *)
(* drains nodes into nodes that stay and answers completely, a returned    *)
(* snapshot can be loaded, and the evaluation keeps all it promises        *)
(* (module PassProofs).                                                    *)
(*                                                                         *)
(* Each part has its own inductive invariant over its own variables; the   *)
(* last section shows that a run takes no other steps on them.             *)
(***************************************************************************)
EXTENDS Simulation, PassProofs

-----------------------------------------------------------------------------
(* Lists and the sets of their elements.                                   *)

Distinct(s) == \A a, b \in 1..Len(s) : a # b => s[a] # s[b]

LEMMA ToSetTyped ==
    ASSUME NEW S, NEW s \in Seq(S)
    PROVE  /\ ToSet(s) \in SUBSET S
           /\ ToSet(s) = {s[a] : a \in 1..Len(s)}
           /\ IsFiniteSet(ToSet(s))
<1>1. DOMAIN s = 1..Len(s) /\ Len(s) \in Nat
  OBVIOUS
<1>2. ToSet(s) = {s[a] : a \in 1..Len(s)} /\ ToSet(s) \in SUBSET S
  BY <1>1 DEF ToSet
<1>3. IsFiniteSet({s[a] : a \in 1..Len(s)})
  <2>1. s \in Surjection(1..Len(s), {s[a] : a \in 1..Len(s)})
    <3>1. s \in [1..Len(s) -> {s[a] : a \in 1..Len(s)}]
      BY <1>1
    <3> QED
      BY <3>1 DEF Surjection
  <2>2. IsFiniteSet(1..Len(s))
    BY <1>1, FS_Interval
  <2> QED
    BY <2>1, <2>2, FS_Surjection
<1> QED
  BY <1>2, <1>3

LEMMA ToSetEmpty == ToSet(<<>>) = {}
BY DEF ToSet

LEMMA ToSetAppend ==
    ASSUME NEW S, NEW s \in Seq(S), NEW e \in S
    PROVE  ToSet(Append(s, e)) = ToSet(s) \cup {e}
<1>0. Append(s, e) \in Seq(S) /\ Len(s) \in Nat
  OBVIOUS
<1>1. /\ ToSet(s) = {s[a] : a \in 1..Len(s)} /\ Len(s) \in Nat
      /\ ToSet(Append(s, e)) = {Append(s, e)[a] : a \in 1..Len(Append(s, e))}
  BY <1>0, ToSetTyped
<1>2. /\ Len(Append(s, e)) = Len(s) + 1 /\ Append(s, e)[Len(s) + 1] = e
      /\ \A a \in 1..Len(s) : Append(s, e)[a] = s[a]
  OBVIOUS
<1>3. 1..(Len(s) + 1) = (1..Len(s)) \cup {Len(s) + 1}
  BY <1>1
<1> QED
  BY <1>1, <1>2, <1>3

LEMMA HeadAndTail ==
    ASSUME NEW S, NEW s \in Seq(S), s # <<>>
    PROVE  /\ Head(s) \in ToSet(s) /\ Head(s) \in S /\ Tail(s) \in Seq(S)
           /\ ToSet(s) = {Head(s)} \cup ToSet(Tail(s))
           /\ Distinct(s) => Head(s) \notin ToSet(Tail(s)) /\ Distinct(Tail(s))
<1>1. /\ Len(s) \in Nat \ {0} /\ Head(s) = s[1] /\ Tail(s) \in Seq(S)
      /\ Len(Tail(s)) = Len(s) - 1 /\ \A a \in 1..Len(Tail(s)) : Tail(s)[a] = s[a + 1]
  OBVIOUS
<1>2. /\ ToSet(s) = {s[a] : a \in 1..Len(s)}
      /\ ToSet(Tail(s)) = {Tail(s)[a] : a \in 1..Len(Tail(s))}
  BY <1>1, ToSetTyped
<1>3. \A a \in 1..Len(s) : a = 1 \/ (a - 1 \in 1..Len(Tail(s)) /\ Tail(s)[a - 1] = s[a])
  BY <1>1
<1>4. ToSet(s) \subseteq {Head(s)} \cup ToSet(Tail(s))
  <2> SUFFICES ASSUME NEW a \in 1..Len(s), a # 1 PROVE s[a] \in ToSet(Tail(s))
    BY <1>1, <1>2
  <2>1. a - 1 \in 1..Len(Tail(s)) /\ Tail(s)[a - 1] = s[a]
    BY <1>3
  <2> QED
    BY <1>2, <2>1
<1>5. \A a \in 1..Len(Tail(s)) : a + 1 \in 1..Len(s) /\ a + 1 # 1
  BY <1>1
<1>6. {Head(s)} \cup ToSet(Tail(s)) \subseteq ToSet(s)
  BY <1>1, <1>2, <1>5
<1>7. Distinct(s) => Head(s) \notin ToSet(Tail(s))
  BY <1>1, <1>2, <1>5 DEF Distinct
<1>8. Distinct(s) => Distinct(Tail(s))
  <2> SUFFICES ASSUME Distinct(s), NEW a \in 1..Len(Tail(s)), NEW b \in 1..Len(Tail(s)), a # b
               PROVE  Tail(s)[a] # Tail(s)[b]
    BY DEF Distinct
  <2>1. a + 1 # b + 1
    OBVIOUS
  <2> QED
    BY <1>1, <1>5, <2>1 DEF Distinct
<1> QED
  BY <1>1, <1>2, <1>4, <1>6, <1>7, <1>8

\* The orders of a finite set name each element once.
LEMMA OrdersOfSet ==
    ASSUME NEW S, IsFiniteSet(S), NEW s \in SetToSeqs(S)
    PROVE  s \in Seq(S) /\ ToSet(s) = S /\ Distinct(s)
<1> DEFINE D == 1..Cardinality(S)
<1>1. Cardinality(S) \in Nat
  BY FS_CardinalityType
<1>2. s \in [D -> S] /\ \A a, b \in D : a # b => s[a] # s[b]
  BY DEF SetToSeqs
<1>3. s \in Seq(S) /\ Len(s) = Cardinality(S)
  BY <1>1, <1>2
<1>4. IsFiniteSet(D) /\ Cardinality(D) = Cardinality(S)
  BY <1>1, FS_Interval
<1> HIDE DEF D
<1>5. s \in Injection(D, S)
  BY <1>2, Fun_IsInj
<1>6. s \in Surjection(D, S)
  BY <1>4, <1>5, FS_Injection
<1>7. {s[a] : a \in D} = S
  BY <1>2, <1>6, Fun_SurjectionProperties
<1>8. D = 1..Len(s)
  BY <1>3 DEF D
<1> QED
  BY <1>2, <1>3, <1>7, <1>8, ToSetTyped DEF Distinct

-----------------------------------------------------------------------------
(* The selection: types.                                                   *)

\* What may happen to the variables of the selection: a step of it, or a new one.
SelectAnew == \E c \in Clusters : StartSelection(c)
SelectNext == SelectionStep \/ SelectAnew

SelectionTypeInv == SelectionTypeOK /\ (step \in {"pack", "deduct"} => pool # <<>>)

LEMMA SelectionTyped ==
    SelectionTypeOK <=>
        /\ cluster \in Clusters
        /\ step \in {"partition", "candidate", "pack", "deduct", "done"}
        /\ pool \in Seq(Nodes) /\ active \in Seq(Nodes) /\ drained \in Seq(Nodes)
        /\ requested \in [Nodes -> Quantities]
        /\ podCount \in [Nodes -> Nat] /\ held \in [Nodes -> Nat]
        /\ room \in [Nodes -> Balance]
        /\ todo \in Seq(Pods)
        /\ failed \in BOOLEAN
        /\ assigned \in [Names -> Nodes \cup {NoNode}]
        /\ assignments \in [Names -> Nodes \cup {NoNode}]
        /\ home \in [Pods -> Nodes \cup {NoNode}]
BY DEF SelectionTypeOK

LEMMA ClusterTyped ==
    ASSUME NEW c \in Clusters
    PROVE  /\ c.eligible \in SUBSET Nodes
           /\ c.alloc \in [Nodes -> Quantities] /\ c.requested \in [Nodes -> Quantities]
           /\ c.pods \in [Pods -> PodInfo] /\ c.podsOn \in [Nodes -> Seq(Pods)]
           /\ \A n \in Nodes : c.podsOn[n] \in Seq(Pods)
BY CycleAssumption DEF Snapshots

\* Any subset of the nodes comes in lists of nodes, each node once.
LEMMA OrdersOfNodes ==
    ASSUME NEW S \in SUBSET Nodes, NEW s \in SetToSeqs(S)
    PROVE  s \in Seq(Nodes) /\ ToSet(s) = S /\ Distinct(s)
<1>1. IsFiniteSet(S)
  BY ClusterAssumption, FS_Subset
<1>2. s \in Seq(S) /\ ToSet(s) = S /\ Distinct(s)
  BY <1>1, OrdersOfSet
<1> QED
  BY <1>2

\* The pods of a node, the largest first.
LEMMA PodsInOrder ==
    ASSUME NEW c \in Clusters, NEW n \in Nodes, NEW s \in LargestFirst(c, ToSet(c.podsOn[n]))
    PROVE  s \in Seq(Pods) /\ ToSet(s) = ToSet(c.podsOn[n]) /\ Distinct(s)
<1>1. IsFiniteSet(ToSet(c.podsOn[n])) /\ ToSet(c.podsOn[n]) \in SUBSET Pods
  BY ClusterTyped, ToSetTyped
<1>2. s \in SetToSeqs(ToSet(c.podsOn[n]))
  BY DEF LargestFirst
<1>3. s \in Seq(ToSet(c.podsOn[n])) /\ ToSet(s) = ToSet(c.podsOn[n]) /\ Distinct(s)
  BY <1>1, <1>2, OrdersOfSet
<1> QED
  BY <1>1, <1>3

LEMMA ArithmeticTyped ==
    /\ \A q \in Quantities : q.cpu \in Nat /\ q.mem \in Nat /\ q \in Balance
    /\ \A q \in PodInfo : q.cpu \in Nat /\ q.mem \in Nat
    /\ \A b \in Balance : b.cpu \in Int /\ b.mem \in Int
    /\ \A q \in Quantities, p \in PodInfo : Plus(q, p) \in Quantities
    /\ \A b \in Balance, p \in PodInfo : Minus(b, p) \in Balance
    /\ \A q, r \in Quantities : Minus(q, r) \in Balance
BY DEF Quantities, PodInfo, Balance, Plus, Minus

LEMMA SelectionTypeInit == InitSelection => SelectionTypeInv
<1> SUFFICES ASSUME InitSelection PROVE SelectionTypeInv
  OBVIOUS
<1>1. cluster \in Clusters
  BY DEF InitSelection
<1>2. \A n \in Nodes : Len(cluster.podsOn[n]) \in Nat
  BY <1>1, ClusterTyped
<1>3. Nothing \in Balance
  BY DEF Nothing, Balance
<1>4. <<>> \in Seq(Nodes) /\ <<>> \in Seq(Pods)
  OBVIOUS
<1>5. cluster.requested \in [Nodes -> Quantities]
  BY <1>1, ClusterTyped
<1> QED
  BY <1>1, <1>2, <1>3, <1>4, <1>5, SelectionTyped
     DEF InitSelection, SelectionTypeInv, Unassigned

LEMMA SelectionTypeAnew == SelectAnew => SelectionTypeInv'
<1> SUFFICES ASSUME NEW c \in Clusters, StartSelection(c) PROVE SelectionTypeInv'
  BY DEF SelectAnew
<1>2. \A n \in Nodes : Len(c.podsOn[n]) \in Nat
  BY ClusterTyped
<1>3. Nothing \in Balance
  BY DEF Nothing, Balance
<1>4. <<>> \in Seq(Nodes) /\ <<>> \in Seq(Pods)
  OBVIOUS
<1>5. c.requested \in [Nodes -> Quantities]
  BY ClusterTyped
<1>6. /\ pool' = <<>> /\ active' = <<>> /\ drained' = <<>> /\ todo' = <<>>
      /\ cluster' \in Clusters /\ step' = "partition" /\ failed' = FALSE
  BY DEF StartSelection
<1>7. requested' \in [Nodes -> Quantities] /\ room' \in [Nodes -> Balance]
  BY <1>3, <1>5 DEF StartSelection
<1>8. podCount' \in [Nodes -> Nat] /\ held' \in [Nodes -> Nat]
  BY <1>2 DEF StartSelection
<1>9. /\ assigned' \in [Names -> Nodes \cup {NoNode}]
      /\ assignments' \in [Names -> Nodes \cup {NoNode}]
      /\ home' \in [Pods -> Nodes \cup {NoNode}]
  BY DEF StartSelection, Unassigned
<1> QED
  BY <1>4, <1>6, <1>7, <1>8, <1>9 DEF SelectionTypeInv, SelectionTypeOK

\* Where the head of the pool is in hand, so are its pods.
LEMMA HeadInHand ==
    ASSUME SelectionTypeInv, pool # <<>>
    PROVE  /\ Head(pool) \in Nodes /\ Tail(pool) \in Seq(Nodes)
           /\ PodsOn(Head(pool)) \in Seq(Pods)
           /\ ToSet(PodsOn(Head(pool))) \in SUBSET Pods
           /\ IsFiniteSet(ToSet(PodsOn(Head(pool))))
<1>1. Head(pool) \in Nodes /\ Tail(pool) \in Seq(Nodes)
  BY HeadAndTail DEF SelectionTypeInv, SelectionTypeOK
<1>2. cluster \in Clusters
  BY DEF SelectionTypeInv, SelectionTypeOK
<1>3. PodsOn(Head(pool)) \in Seq(Pods)
  BY <1>1, <1>2, ClusterTyped DEF PodsOn
<1> QED
  BY <1>1, <1>3, ToSetTyped

LEMMA PodInHand ==
    ASSUME SelectionTypeInv, todo # <<>>
    PROVE  /\ Head(todo) \in Pods /\ Tail(todo) \in Seq(Pods)
           /\ cluster.pods[Head(todo)] \in PodInfo
           /\ NameOf[Head(todo)] \in Names
<1>1. Head(todo) \in Pods /\ Tail(todo) \in Seq(Pods)
  BY HeadAndTail DEF SelectionTypeInv, SelectionTypeOK
<1>2. cluster \in Clusters
  BY DEF SelectionTypeInv, SelectionTypeOK
<1> QED
  BY <1>1, <1>2, ClusterTyped, SelectionAssumption

LEMMA SelectionTypeStep == SelectionTypeInv /\ [SelectNext]_selectionVars => SelectionTypeInv'
<1> SUFFICES ASSUME SelectionTypeInv, [SelectNext]_selectionVars PROVE SelectionTypeInv'
  OBVIOUS
<1> USE SelectionTyped DEF SelectionTypeInv
<1>c. cluster \in Clusters
  OBVIOUS
<1>1. CASE Partition
  <2>1. PoolNodes(cluster) \in SUBSET Nodes /\ cluster.eligible \ PoolNodes(cluster) \in SUBSET Nodes
    BY <1>c, ClusterTyped DEF PoolNodes
  <2>2. pool' \in Seq(Nodes) /\ active' \in Seq(Nodes)
    BY <1>1, <2>1, OrdersOfNodes DEF Partition, EmptiestFirst
  <2> QED
    BY <1>1, <2>2 DEF Partition, packing, selected, SelectionTypeOK
<1>2. CASE BeginPacking
  <2>1. todo' \in Seq(Pods)
    BY <1>2, <1>c, HeadInHand, PodsInOrder DEF BeginPacking, PodsOn
  <2>2. room' \in [Nodes -> Balance]
    <3>1. \A n \in Nodes : Left(n) \in Balance
      BY <1>c, ClusterTyped, ArithmeticTyped DEF Left
    <3> QED
      BY <1>2, <3>1 DEF BeginPacking
  <2> QED
    BY <1>2, <2>1, <2>2 DEF BeginPacking, selected, SelectionTypeOK, Unassigned
<1>3. CASE PackPod
  <2>1. /\ Head(todo) \in Pods /\ Tail(todo) \in Seq(Pods)
        /\ cluster.pods[Head(todo)] \in PodInfo /\ NameOf[Head(todo)] \in Names
    BY <1>3, PodInHand DEF PackPod
  <2>2. \A k \in 1..Len(active) : active[k] \in Nodes
    OBVIOUS
  <2>3. \A k \in 1..Len(active) : Minus(room[active[k]], cluster.pods[Head(todo)]) \in Balance
    BY <2>1, <2>2, ArithmeticTyped
  <2>4. CASE UNCHANGED <<room, held, assigned, home>> /\ failed' = TRUE
    BY <1>3, <2>1, <2>4 DEF PackPod, selected, SelectionTypeOK
  <2>5. CASE \E k \in 1..Len(active) :
                /\ room' = [room EXCEPT ![active[k]] = Minus(@, cluster.pods[Head(todo)])]
                /\ held' = [held EXCEPT ![active[k]] = @ + 1]
                /\ assigned' = [assigned EXCEPT ![NameOf[Head(todo)]] = active[k]]
                /\ home' = [home EXCEPT ![Head(todo)] = active[k]]
                /\ UNCHANGED failed
    <3>1. PICK k \in 1..Len(active) :
                /\ room' = [room EXCEPT ![active[k]] = Minus(@, cluster.pods[Head(todo)])]
                /\ held' = [held EXCEPT ![active[k]] = @ + 1]
                /\ assigned' = [assigned EXCEPT ![NameOf[Head(todo)]] = active[k]]
                /\ home' = [home EXCEPT ![Head(todo)] = active[k]]
                /\ UNCHANGED failed
      BY <2>5
    <3>2. room' \in [Nodes -> Balance]
      BY <2>2, <2>3, <3>1
    <3>4. held' \in [Nodes -> Nat]
      <4>1. held[active[k]] \in Nat
        BY <2>2
      <4>2. held[active[k]] + 1 \in Nat
        BY <4>1
      <4> QED
        BY <3>1, <4>2
    <3>3. /\ assigned' \in [Names -> Nodes \cup {NoNode}]
          /\ home' \in [Pods -> Nodes \cup {NoNode}]
      BY <2>1, <2>2, <3>1
    <3> QED
      BY <1>3, <2>1, <3>1, <3>2, <3>3, <3>4 DEF PackPod, selected, SelectionTypeOK
  <2> QED
    BY <1>3, <2>4, <2>5 DEF PackPod
<1>4. CASE Drain
  <2>1. Head(pool) \in Nodes /\ PodsOn(Head(pool)) \in Seq(Pods)
    BY <1>4, HeadInHand DEF Drain
  <2>2. assignments' \in [Names -> Nodes \cup {NoNode}]
    BY <1>4 DEF Drain, Merge
  <2> QED
    BY <1>4, <2>1, <2>2 DEF Drain, packing, SelectionTypeOK
<1>5. CASE DeductPod
  <2>1. /\ Tail(todo) \in Seq(Pods) /\ cluster.pods[Head(todo)] \in PodInfo
    BY <1>5, PodInHand DEF DeductPod
  <2> DEFINE dest == assigned[NameOf[Head(todo)]]
  <2>2. /\ requested' = [requested EXCEPT ![dest] = Plus(@, cluster.pods[Head(todo)])]
        /\ podCount' = [podCount EXCEPT ![dest] = @ + 1]
    BY <1>5 DEF DeductPod
  <2> HIDE DEF dest
  <2>3. dest \in Nodes => Plus(requested[dest], cluster.pods[Head(todo)]) \in Quantities
    BY <2>1, ArithmeticTyped
  <2>4. requested' \in [Nodes -> Quantities]
    BY <2>2, <2>3
  <2>5. podCount' \in [Nodes -> Nat]
    <3>1. dest \in Nodes => podCount[dest] + 1 \in Nat
      OBVIOUS
    <3> QED
      BY <2>2, <3>1
  <2> QED
    BY <1>5, <2>1, <2>4, <2>5 DEF DeductPod, packing, selected, SelectionTypeOK
<1>6. CASE NextCandidate
  BY <1>6, HeadInHand DEF NextCandidate, packing, selected, SelectionTypeOK
<1>7. CASE Retain
  <2>1. Head(pool) \in Nodes /\ Tail(pool) \in Seq(Nodes)
    BY <1>7, HeadInHand DEF Retain
  <2>2. home' \in [Pods -> Nodes \cup {NoNode}]
    BY <1>7 DEF Retain
  <2> QED
    BY <1>7, <2>1, <2>2 DEF Retain, packing, selected, SelectionTypeOK
<1>8. CASE FinishSelection
  BY <1>8 DEF FinishSelection, packing, selected, SelectionTypeOK
<1>9. CASE UNCHANGED selectionVars
  BY <1>9 DEF selectionVars, packing, selected, SelectionTypeOK
<1> QED
  BY <1>1, <1>2, <1>3, <1>4, <1>5, <1>6, <1>7, <1>8, <1>9, SelectionTypeAnew
     DEF SelectNext, SelectionStep

-----------------------------------------------------------------------------
(* The selection: its three lists.  Every eligible node is on one of them, *)
(* the one in hand being dealt with; a node leaves the pool for one of the *)
(* other two and never comes back.                                         *)
Ahead == IF step = "deduct" THEN Tail(pool) ELSE pool

NodesInv ==
    /\ Distinct(pool)
    /\ step = "partition" => pool = <<>> /\ active = <<>> /\ drained = <<>>
    /\ step # "partition" =>
         ToSet(pool) \cup ToSet(active) \cup ToSet(drained) = cluster.eligible
    /\ step = "done" => pool = <<>>
    /\ step = "deduct" => Head(pool) \in ToSet(drained)
    /\ ToSet(active) \cap ToSet(pool) = {}
    /\ ToSet(active) \cap ToSet(drained) = {}
    /\ ToSet(drained) \cap ToSet(Ahead) = {}

LEMMA NodesStart ==
    ASSUME step = "partition", pool = <<>>, active = <<>>, drained = <<>>
    PROVE  NodesInv
BY ToSetEmpty DEF NodesInv, Distinct

LEMMA NodesStep ==
    SelectionTypeInv /\ NodesInv /\ [SelectNext]_selectionVars => NodesInv'
<1> SUFFICES ASSUME SelectionTypeInv, NodesInv, [SelectNext]_selectionVars PROVE NodesInv'
  OBVIOUS
<1>c. /\ cluster \in Clusters
      /\ pool \in Seq(Nodes) /\ active \in Seq(Nodes) /\ drained \in Seq(Nodes)
  BY SelectionTyped DEF SelectionTypeInv
<1>1. CASE Partition
  <2>1. PoolNodes(cluster) \in SUBSET cluster.eligible /\ cluster.eligible \in SUBSET Nodes
    BY <1>c, ClusterTyped DEF PoolNodes
  <2>2. /\ ToSet(pool') = PoolNodes(cluster) /\ Distinct(pool')
        /\ ToSet(active') = cluster.eligible \ PoolNodes(cluster)
    <3>1. pool' \in SetToSeqs(PoolNodes(cluster))
      BY <1>1 DEF Partition, EmptiestFirst
    <3>2. active' \in SetToSeqs(cluster.eligible \ PoolNodes(cluster))
      BY <1>1 DEF Partition
    <3> QED
      BY <2>1, <3>1, <3>2, OrdersOfNodes
  <2>3. drained' = <<>> /\ step' = "candidate" /\ cluster' = cluster
    BY <1>1 DEF Partition, selected, NodesInv
  <2> QED
    BY <2>1, <2>2, <2>3, ToSetEmpty DEF NodesInv, Ahead, Distinct
<1>2. CASE BeginPacking \/ PackPod
  <2>1. /\ UNCHANGED <<cluster, pool, active, drained>>
        /\ step \in {"candidate", "pack"} /\ step' = "pack"
    BY <1>2 DEF BeginPacking, PackPod, selected
  <2> QED
    BY <2>1 DEF NodesInv, Ahead, Distinct
<1>3. CASE Drain
  <2>1. /\ drained' = Append(drained, Head(pool)) /\ step = "pack" /\ step' = "deduct"
        /\ pool' = pool /\ active' = active /\ cluster' = cluster /\ pool # <<>>
    BY <1>3 DEF Drain, SelectionTypeInv
  <2>2. /\ Head(pool) \in ToSet(pool) /\ Head(pool) \in Nodes
        /\ ToSet(pool) = {Head(pool)} \cup ToSet(Tail(pool))
        /\ Head(pool) \notin ToSet(Tail(pool))
    BY <1>c, <2>1, HeadAndTail DEF NodesInv
  <2>3. ToSet(drained') = ToSet(drained) \cup {Head(pool)}
    BY <1>c, <2>1, <2>2, ToSetAppend
  <2> QED
    BY <2>1, <2>2, <2>3 DEF NodesInv, Ahead, Distinct
<1>4. CASE DeductPod
  BY <1>4 DEF DeductPod, selected, NodesInv, Ahead, Distinct
<1>5. CASE NextCandidate
  <2>1. /\ pool' = Tail(pool) /\ step = "deduct" /\ step' = "candidate" /\ pool # <<>>
        /\ UNCHANGED <<cluster, active, drained>>
    BY <1>5 DEF NextCandidate, selected, SelectionTypeInv
  <2>2. /\ ToSet(pool) = {Head(pool)} \cup ToSet(Tail(pool)) /\ Distinct(Tail(pool))
    BY <1>c, <2>1, HeadAndTail DEF NodesInv
  <2> QED
    BY <2>1, <2>2 DEF NodesInv, Ahead, Distinct
<1>6. CASE Retain
  <2>1. /\ active' = Append(active, Head(pool)) /\ pool' = Tail(pool) /\ pool # <<>>
        /\ step = "pack" /\ step' = "candidate" /\ UNCHANGED <<cluster, drained>>
    BY <1>6 DEF Retain, selected, SelectionTypeInv
  <2>2. /\ Head(pool) \in Nodes
        /\ ToSet(pool) = {Head(pool)} \cup ToSet(Tail(pool))
        /\ Head(pool) \notin ToSet(Tail(pool)) /\ Distinct(Tail(pool))
    BY <1>c, <2>1, HeadAndTail DEF NodesInv
  <2>3. ToSet(active') = ToSet(active) \cup {Head(pool)}
    BY <1>c, <2>1, <2>2, ToSetAppend
  <2> QED
    BY <2>1, <2>2, <2>3 DEF NodesInv, Ahead, Distinct
<1>7. CASE FinishSelection
  BY <1>7 DEF FinishSelection, selected, NodesInv, Ahead, Distinct
<1>8. CASE SelectAnew
  <2>1. step' = "partition" /\ pool' = <<>> /\ active' = <<>> /\ drained' = <<>>
    BY <1>8 DEF SelectAnew, StartSelection
  <2> QED
    BY <2>1, ToSetEmpty DEF NodesInv, Distinct
<1>9. CASE UNCHANGED selectionVars
  BY <1>9 DEF selectionVars, selected, NodesInv, Ahead, Distinct
<1> QED
  BY <1>1, <1>2, <1>3, <1>4, <1>5, <1>6, <1>7, <1>8, <1>9 DEF SelectNext, SelectionStep

-----------------------------------------------------------------------------
(* The selection: where pods go, and what their names say.  A node's pods  *)
(* are packed one after the other; unless one found no slot, each has a    *)
(* home among the active nodes, and each name is assigned to the home of   *)
(* one of the pods that bear it.  Two nodes have no pod in common, so what *)
(* is settled of a drained node stays.                                     *)
HeadPods == ToSet(PodsOn(Head(pool)))
Dealt    == HeadPods \ ToSet(todo)

\* The map m knows the pods S by name: no name else, and by home where the name is one pod's.
Knows(m, S) ==
    /\ \A name \in Names : m[name] # NoNode <=> \E p \in S : NameOf[p] = name
    /\ \A p \in S : (\A q \in S : NameOf[q] = NameOf[p] => q = p) => m[NameOf[p]] = home[p]

HomeInv ==
    /\ \A p \in DrainedPods : home[p] \in ToSet(active)
    /\ Knows(assignments, DrainedPods)
    /\ step = "pack" => Distinct(todo) /\ ToSet(todo) \subseteq HeadPods
    /\ step = "pack" /\ ~failed =>
         /\ \A p \in Dealt : home[p] \in ToSet(active)
         /\ Knows(assigned, Dealt)
    /\ step = "deduct" => ToSet(todo) \subseteq HeadPods /\ Knows(assigned, HeadPods)

LEMMA DrainedPodsTyped ==
    ASSUME SelectionTypeInv
    PROVE  DrainedPods \in SUBSET Pods
<1>1. \A n \in ToSet(drained) : n \in Nodes
  BY ToSetTyped, SelectionTyped DEF SelectionTypeInv
<1>2. \A n \in Nodes : PodsOn(n) \in Seq(Pods)
  BY ClusterTyped, SelectionTyped DEF SelectionTypeInv, PodsOn
<1>3. \A n \in Nodes : ToSet(PodsOn(n)) \in SUBSET Pods
  BY <1>2, ToSetTyped
<1> QED
  BY <1>1, <1>3 DEF DrainedPods

\* A pod runs on one node.
LEMMA NodesShareNoPod ==
    ASSUME SelectionTypeInv, NEW m \in Nodes, NEW n \in Nodes, m # n
    PROVE  ToSet(PodsOn(m)) \cap ToSet(PodsOn(n)) = {}
<1>1. cluster \in Clusters
  BY SelectionTyped DEF SelectionTypeInv
<1>2. \A a \in Nodes : \A p \in ToSet(PodsOn(a)) : cluster.pods[p].node = a
  <2> SUFFICES ASSUME NEW a \in Nodes, NEW p \in ToSet(PodsOn(a))
               PROVE  cluster.pods[p].node = a
    OBVIOUS
  <2>1. PodsOn(a) \in Seq(Pods)
    BY <1>1, ClusterTyped DEF PodsOn
  <2>2. PICK k \in 1..Len(PodsOn(a)) : p = PodsOn(a)[k]
    BY <2>1, ToSetTyped
  <2> QED
    BY <1>1, <2>2, SelectionAssumption DEF PodsOn
<1> QED
  BY <1>2

\* The pods in hand are none of those already drained.
LEMMA HeadPodsUndrained ==
    ASSUME SelectionTypeInv, NodesInv, step = "pack"
    PROVE  HeadPods \cap DrainedPods = {}
<1>1. pool # <<>> /\ pool \in Seq(Nodes) /\ drained \in Seq(Nodes)
  BY SelectionTyped DEF SelectionTypeInv
<1>2. Head(pool) \in ToSet(pool) /\ Head(pool) \in Nodes
  BY <1>1, HeadAndTail
<1>3. Head(pool) \notin ToSet(drained) /\ ToSet(drained) \in SUBSET Nodes
  BY <1>1, <1>2, ToSetTyped DEF NodesInv, Ahead
<1> QED
  BY <1>2, <1>3, NodesShareNoPod DEF HeadPods, DrainedPods

LEMMA HomeStart ==
    ASSUME step = "partition", drained = <<>>, assignments = Unassigned
    PROVE  HomeInv
<1>1. DrainedPods = {}
  BY ToSetEmpty DEF DrainedPods
<1> QED
  BY <1>1 DEF HomeInv, Knows, Unassigned

\* Where home and the drained pods stay, so does what is known of them.
LEMMA HomeKept ==
    ASSUME HomeInv, UNCHANGED <<cluster, drained, assignments, home>>,
           ToSet(active) \in SUBSET ToSet(active')
    PROVE  /\ DrainedPods' = DrainedPods
           /\ \A p \in DrainedPods' : home'[p] \in ToSet(active')
           /\ Knows(assignments, DrainedPods)'
BY DEF HomeInv, DrainedPods, PodsOn, Knows

LEMMA HomeStep ==
    SelectionTypeInv /\ NodesInv /\ HomeInv /\ [SelectNext]_selectionVars => HomeInv'
<1> SUFFICES ASSUME SelectionTypeInv, NodesInv, HomeInv, [SelectNext]_selectionVars
             PROVE  HomeInv'
  OBVIOUS
<1>c. /\ cluster \in Clusters
      /\ pool \in Seq(Nodes) /\ active \in Seq(Nodes) /\ drained \in Seq(Nodes)
      /\ todo \in Seq(Pods) /\ home \in [Pods -> Nodes \cup {NoNode}]
      /\ assigned \in [Names -> Nodes \cup {NoNode}]
      /\ assignments \in [Names -> Nodes \cup {NoNode}]
  BY SelectionTyped DEF SelectionTypeInv
<1>d. /\ DrainedPods \in SUBSET Pods /\ \A p \in Pods : NameOf[p] \in Names
  BY DrainedPodsTyped, SelectionAssumption
<1>1. CASE Partition
  <2>1. /\ drained = <<>> /\ drained' = <<>> /\ assignments' = assignments
        /\ step' = "candidate" /\ UNCHANGED <<cluster, home>>
    BY <1>1 DEF Partition, selected, NodesInv
  <2>2. DrainedPods = {} /\ DrainedPods' = {}
    BY <2>1, ToSetEmpty DEF DrainedPods
  <2> QED
    BY <2>1, <2>2 DEF HomeInv, Knows
<1>2. CASE BeginPacking
  <2>1. /\ UNCHANGED <<cluster, drained, assignments, home, active, pool>> /\ pool # <<>>
        /\ step' = "pack" /\ assigned' = Unassigned
        /\ todo' \in LargestFirst(cluster, ToSet(cluster.podsOn[Head(pool)]))
    BY <1>2 DEF BeginPacking, selected, PodsOn
  <2>2. Distinct(todo') /\ ToSet(todo') = HeadPods
    BY <1>c, <2>1, HeadInHand, PodsInOrder DEF HeadPods, PodsOn
  <2>3. HeadPods' = HeadPods /\ Dealt' = {}
    BY <2>1, <2>2 DEF HeadPods, PodsOn, Dealt
  <2>4. Knows(assigned, Dealt)'
    BY <2>1, <2>3 DEF Knows, Unassigned
  <2> QED
    BY <2>1, <2>2, <2>3, <2>4, HomeKept DEF HomeInv, Distinct
<1>3. CASE PackPod
  <2> DEFINE p == Head(todo)
  <2>1. /\ UNCHANGED <<cluster, drained, assignments, active, pool, step>>
        /\ step = "pack" /\ todo # <<>> /\ todo' = Tail(todo)
    BY <1>3 DEF PackPod, selected
  <2>2. /\ p \in Pods /\ p \in ToSet(todo) /\ ToSet(todo) = {p} \cup ToSet(todo')
        /\ p \notin ToSet(todo') /\ Distinct(todo')
    BY <1>c, <2>1, HeadAndTail DEF HomeInv
  <2>3. /\ HeadPods' = HeadPods /\ p \in HeadPods /\ p \notin Dealt
        /\ Dealt' = Dealt \cup {p} /\ ToSet(todo') \subseteq HeadPods'
    BY <2>1, <2>2 DEF HeadPods, PodsOn, Dealt, HomeInv
  <2>4. DrainedPods' = DrainedPods /\ p \notin DrainedPods
    BY <2>1, <2>3, HeadPodsUndrained DEF DrainedPods, PodsOn
  <2>h. Dealt \in SUBSET Pods
    BY <2>1, HeadInHand DEF SelectionTypeInv, Dealt, HeadPods
  <2>5. CASE failed' = TRUE /\ UNCHANGED <<room, held, assigned, home>>
    <3>1. \A r \in DrainedPods' : home'[r] \in ToSet(active')
      BY <2>1, <2>4, <2>5 DEF HomeInv
    <3>2. Knows(assignments, DrainedPods)'
      BY <2>1, <2>4, <2>5 DEF HomeInv, Knows
    <3> QED
      BY <2>1, <2>2, <2>3, <2>5, <3>1, <3>2 DEF HomeInv, Distinct
  <2>6. CASE \E k \in 1..Len(active) :
               /\ assigned' = [assigned EXCEPT ![NameOf[p]] = active[k]]
               /\ home' = [home EXCEPT ![p] = active[k]]
               /\ UNCHANGED failed
    <3>1. PICK a \in ToSet(active) :
               /\ assigned' = [assigned EXCEPT ![NameOf[p]] = a]
               /\ home' = [home EXCEPT ![p] = a]
               /\ UNCHANGED failed
      <4>1. \A k \in 1..Len(active) : active[k] \in ToSet(active)
        BY <1>c, ToSetTyped
      <4> QED
        BY <2>6, <4>1
    <3>2. a \in Nodes /\ a # NoNode
      BY <1>c, ToSetTyped, ClusterAssumption
    <3> HIDE DEF p
    <3>3. home'[p] = a /\ \A r \in Pods : r # p => home'[r] = home[r]
      BY <1>c, <2>2, <3>1
    <3>4. /\ assigned'[NameOf[p]] = a
          /\ \A name \in Names : name # NameOf[p] => assigned'[name] = assigned[name]
      BY <1>c, <1>d, <2>2, <3>1
    <3>5. \A r \in DrainedPods : r # p /\ home'[r] = home[r]
      BY <1>d, <2>4, <3>3
    <3>6. /\ \A r \in DrainedPods' : home'[r] \in ToSet(active')
          /\ Knows(assignments, DrainedPods)'
      BY <2>1, <2>4, <3>5 DEF HomeInv, Knows
    <3>7. ASSUME ~failed' PROVE \A r \in Dealt' : home'[r] \in ToSet(active')
      BY <2>1, <2>3, <2>h, <3>1, <3>3, <3>7 DEF HomeInv
    <3>8. ASSUME ~failed' PROVE Knows(assigned, Dealt)'
      <4>1. /\ \A name \in Names : assigned[name] # NoNode <=> \E r \in Dealt : NameOf[r] = name
            /\ \A r \in Dealt : (\A q \in Dealt : NameOf[q] = NameOf[r] => q = r)
                                  => assigned[NameOf[r]] = home[r]
        BY <2>1, <3>1, <3>8 DEF HomeInv, Knows
      <4>2. \A name \in Names :
               assigned'[name] # NoNode <=> \E r \in Dealt' : NameOf[r] = name
        BY <2>3, <3>2, <3>4, <4>1
      <4>3. ASSUME NEW r \in Dealt', \A q \in Dealt' : NameOf[q] = NameOf[r] => q = r
            PROVE  assigned'[NameOf[r]] = home'[r]
        <5>1. CASE r = p
          BY <3>3, <3>4, <5>1
        <5>2. CASE r # p
          <6>1. r \in Dealt /\ r \in Pods /\ NameOf[r] # NameOf[p]
            BY <2>3, <2>h, <4>3, <5>2
          <6>2. assigned[NameOf[r]] = home[r]
            BY <2>3, <4>1, <4>3, <6>1
          <6> QED
            BY <1>d, <3>3, <3>4, <5>2, <6>1, <6>2
        <5> QED
          BY <5>1, <5>2
      <4> QED
        BY <4>2, <4>3 DEF Knows
    <3> QED
      BY <2>1, <2>2, <2>3, <3>6, <3>7, <3>8 DEF HomeInv, Distinct
  <2> QED
    BY <1>3, <2>5, <2>6 DEF PackPod
<1>4. CASE Drain
  <2>1. /\ drained' = Append(drained, Head(pool)) /\ assignments' = Merge(assigned, assignments)
        /\ UNCHANGED <<cluster, active, pool, home, assigned>> /\ step = "pack"
        /\ step' = "deduct" /\ ~failed /\ todo = <<>> /\ todo' = PodsOn(Head(pool))
        /\ pool # <<>>
    BY <1>4 DEF Drain, packing, SelectionTypeInv
  <2>2. Dealt = HeadPods /\ HeadPods' = HeadPods /\ HeadPods \in SUBSET Pods
    BY <2>1, ToSetEmpty, HeadInHand DEF Dealt, HeadPods, PodsOn
  <2>3. DrainedPods' = DrainedPods \cup HeadPods
    <3>1. Head(pool) \in Nodes
      BY <2>1, HeadInHand
    <3>2. ToSet(drained') = ToSet(drained) \cup {Head(pool)}
      BY <1>c, <2>1, <3>1, ToSetAppend
    <3> QED
      BY <2>1, <3>2 DEF DrainedPods, HeadPods, PodsOn
  <2>4. HeadPods \cap DrainedPods = {}
    BY <2>1, HeadPodsUndrained
  <2>5. /\ \A p \in HeadPods : home[p] \in ToSet(active)
        /\ \A name \in Names : assigned[name] # NoNode <=> \E r \in HeadPods : NameOf[r] = name
        /\ \A r \in HeadPods : (\A q \in HeadPods : NameOf[q] = NameOf[r] => q = r)
                                 => assigned[NameOf[r]] = home[r]
    BY <2>1, <2>2 DEF HomeInv, Knows
  <2>6. /\ \A p \in DrainedPods : home[p] \in ToSet(active)
        /\ \A name \in Names :
             assignments[name] # NoNode <=> \E r \in DrainedPods : NameOf[r] = name
        /\ \A r \in DrainedPods : (\A q \in DrainedPods : NameOf[q] = NameOf[r] => q = r)
                                    => assignments[NameOf[r]] = home[r]
    BY DEF HomeInv, Knows
  <2>7. \A name \in Names :
          assignments'[name] = IF assigned[name] # NoNode THEN assigned[name] ELSE assignments[name]
    BY <2>1 DEF Merge
  <2>8. \A name \in Names :
          assignments'[name] # NoNode <=> \E r \in DrainedPods' : NameOf[r] = name
    BY <2>3, <2>5, <2>6, <2>7
  <2>9. ASSUME NEW r \in DrainedPods', \A q \in DrainedPods' : NameOf[q] = NameOf[r] => q = r
        PROVE  assignments'[NameOf[r]] = home'[r]
    <3>1. r \in Pods /\ NameOf[r] \in Names
      BY <1>d, <2>2, <2>3
    <3>2. CASE r \in HeadPods
      BY <2>1, <2>3, <2>5, <2>7, <2>9, <3>1, <3>2
    <3>3. CASE r \in DrainedPods
      <4>1. assigned[NameOf[r]] = NoNode
        BY <2>3, <2>4, <2>5, <2>9, <3>1, <3>3
      <4> QED
        BY <2>1, <2>3, <2>6, <2>7, <2>9, <3>1, <3>3, <4>1
    <3> QED
      BY <2>3, <3>2, <3>3
  <2>10. Knows(assignments, DrainedPods)'
    BY <2>8, <2>9 DEF Knows
  <2>11. Knows(assigned, HeadPods)'
    BY <2>1, <2>2, <2>5 DEF Knows
  <2>12. ToSet(todo') \subseteq HeadPods'
    BY <2>1, <2>2 DEF HeadPods
  <2> QED
    BY <2>1, <2>3, <2>5, <2>6, <2>10, <2>11, <2>12 DEF HomeInv
<1>5. CASE DeductPod
  <2>1. /\ UNCHANGED <<cluster, drained, assignments, active, pool, home, assigned, step>>
        /\ step = "deduct" /\ todo # <<>> /\ todo' = Tail(todo)
    BY <1>5 DEF DeductPod, packing, selected
  <2>2. ToSet(todo') \subseteq ToSet(todo)
    BY <1>c, <2>1, HeadAndTail
  <2>3. ToSet(todo') \subseteq HeadPods' /\ Knows(assigned, HeadPods)'
    BY <2>1, <2>2 DEF HomeInv, Knows, HeadPods, PodsOn
  <2> QED
    BY <2>1, <2>3, HomeKept DEF HomeInv
<1>6. CASE NextCandidate \/ FinishSelection
  <2>1. /\ UNCHANGED <<cluster, drained, assignments, active, home>>
        /\ step' \in {"candidate", "done"}
    BY <1>6 DEF NextCandidate, FinishSelection, packing, selected
  <2> QED
    BY <2>1, HomeKept DEF HomeInv
<1>7. CASE Retain
  <2>1. /\ active' = Append(active, Head(pool)) /\ UNCHANGED <<cluster, drained, assignments>>
        /\ home' = [p \in Pods |-> IF p \in HeadPods THEN NoNode ELSE home[p]]
        /\ step = "pack" /\ step' = "candidate" /\ pool # <<>>
    BY <1>7 DEF Retain, selected, HeadPods, SelectionTypeInv
  <2>2. ToSet(active) \subseteq ToSet(active')
    BY <1>c, <2>1, HeadInHand, ToSetAppend
  <2>3. DrainedPods' = DrainedPods
    BY <2>1 DEF DrainedPods, PodsOn
  <2>4. \A r \in DrainedPods : home'[r] = home[r]
    BY <1>d, <2>1, HeadPodsUndrained
  <2>5. /\ \A r \in DrainedPods' : home'[r] \in ToSet(active')
        /\ Knows(assignments, DrainedPods)'
    BY <2>1, <2>2, <2>3, <2>4 DEF HomeInv, Knows
  <2> QED
    BY <2>1, <2>5 DEF HomeInv
<1>8. CASE SelectAnew
  <2>1. step' = "partition" /\ drained' = <<>> /\ assignments' = Unassigned
    BY <1>8 DEF SelectAnew, StartSelection
  <2>2. DrainedPods' = {}
    BY <2>1, ToSetEmpty DEF DrainedPods
  <2> QED
    BY <2>1, <2>2 DEF HomeInv, Knows, Unassigned
<1>9. CASE UNCHANGED selectionVars
  <2>1. /\ UNCHANGED <<cluster, drained, assignments, active, home, pool, step, todo, failed, assigned>>
    BY <1>9 DEF selectionVars, packing, selected
  <2>2. HeadPods' = HeadPods /\ Dealt' = Dealt /\ DrainedPods' = DrainedPods
    BY <2>1 DEF HeadPods, Dealt, PodsOn, DrainedPods
  <2> QED
    BY <2>1, <2>2 DEF HomeInv, Knows, Distinct
<1> QED
  BY <1>1, <1>2, <1>3, <1>4, <1>5, <1>6, <1>7, <1>8, <1>9 DEF SelectNext, SelectionStep

-----------------------------------------------------------------------------
(* The selection: room.  While the pods of a candidate are packed, what a  *)
(* slot has left and what was packed into it make up what the node had     *)
(* left; when the candidate is drained, the node is charged with its pods  *)
(* one by one, the rest being pending.  So, where names tell the pods of a *)
(* drained node apart, what a node is charged with and what is pending     *)
(* cover all that moves there.                                             *)
Arrivals(n) == {p \in DrainedPods : home[p] = n}
Packed(n)   == {p \in Dealt : home[p] = n}
Pending(n)  == IF step = "deduct" THEN {p \in ToSet(todo) : home[p] = n} ELSE {}

PackedInv ==
    step = "pack" /\ ~failed =>
        \A n \in Nodes :
            /\ Fits(Left(n), Plus(room[n], Requests(cluster.pods, Packed(n))))
            /\ podCount[n] + Cardinality(Packed(n)) <= held[n]
            /\ Packed(n) # {} => Fits(room[n], Nothing) /\ held[n] <= MaxPodsPerNode

ChargedInv ==
    NamesTellPodsApart =>
        /\ GuaranteedToFit
        /\ \A n \in Nodes :
            /\ Fits(Plus(requested[n], Requests(cluster.pods, Pending(n))),
                    Plus(cluster.requested[n], Requests(cluster.pods, Arrivals(n))))
            /\ Len(PodsOn(n)) + Cardinality(Arrivals(n))
                 <= podCount[n] + Cardinality(Pending(n))

FitsInv == IsFiniteSet(DrainedPods) /\ PackedInv /\ ChargedInv

\* Two sets of pods together ask for no more, and are no more, than one after the other.
LEMMA RequestsUnion ==
    ASSUME NEW pods \in [Pods -> PodInfo], NEW A \in SUBSET Pods, IsFiniteSet(A),
           NEW B \in SUBSET Pods, IsFiniteSet(B)
    PROVE  Fits(Plus(Requests(pods, A), Requests(pods, B)), Requests(pods, A \cup B))
<1> DEFINE T == {t \in SUBSET B : ~Fits(Plus(Requests(pods, A), Requests(pods, t)),
                                        Requests(pods, A \cup t))}
<1> SUFFICES ASSUME T # {} PROVE FALSE
  OBVIOUS
<1>1. PICK t \in T : \A u \in T : u \subseteq t => u = t
  <2>1. T \subseteq SUBSET B
    OBVIOUS
  <2> HIDE DEF T
  <2> QED
    BY <2>1, SmallestSet
<1>2. /\ t \in SUBSET Pods /\ IsFiniteSet(t)
      /\ ~Fits(Plus(Requests(pods, A), Requests(pods, t)), Requests(pods, A \cup t))
  BY FS_Subset
<1>a. Requests(pods, A) \in Quantities
  BY RequestsTyped
<1>3. t # {}
  <2> SUFFICES ASSUME t = {} PROVE FALSE
    OBVIOUS
  <2>1. A \cup t = A
    OBVIOUS
  <2>2. Requests(pods, t) = Nothing
    BY RequestsEmpty
  <2> QED
    BY <1>2, <1>a, <2>1, <2>2 DEF Fits, Plus, Nothing, Quantities
<1>4. PICK q \in t : TRUE
  BY <1>3
<1> DEFINE u == t \ {q}
<1>5. /\ u \in SUBSET B /\ u \in SUBSET Pods /\ IsFiniteSet(u) /\ q \in Pods
      /\ A \cup u \in SUBSET Pods /\ IsFiniteSet(A \cup u) /\ A \cup t = (A \cup u) \cup {q}
  BY <1>2, FS_Subset, FS_Union
<1>6. Fits(Plus(Requests(pods, A), Requests(pods, u)), Requests(pods, A \cup u))
  <2>1. u \notin T
    BY <1>1, <1>4
  <2> QED
    BY <1>5, <2>1
<1>7. Requests(pods, t) = Plus(Requests(pods, u), pods[q])
  BY <1>2, RequestsRemove
<1> HIDE DEF u
<1>8. Fits(Plus(Requests(pods, A \cup u), pods[q]), Requests(pods, A \cup t))
  BY <1>5, RequestsBounded
<1>9. /\ Requests(pods, u) \in Quantities /\ Requests(pods, A \cup u) \in Quantities
      /\ Requests(pods, A \cup t) \in Quantities
  <2>1. A \cup t \in SUBSET Pods /\ IsFiniteSet(A \cup t)
    BY <1>2, FS_Union
  <2> QED
    BY <1>5, <2>1, RequestsTyped
<1>10. pods[q].cpu \in Nat /\ pods[q].mem \in Nat
  BY <1>5 DEF PodInfo
<1> QED
  BY <1>2, <1>6, <1>7, <1>8, <1>9, <1>10, <1>a DEF Fits, Plus, Quantities

\* Room is handed on: packed next to what was packed, charged next to what was charged.
LEMMA RoomForOneMore ==
    ASSUME NEW l \in Balance, NEW b \in Balance, NEW r \in Quantities, NEW s \in Quantities,
           NEW q \in PodInfo, Fits(l, Plus(b, r)), Fits(Plus(r, q), s)
    PROVE  Fits(l, Plus(Minus(b, q), s))
<1>1. /\ l.cpu \in Int /\ l.mem \in Int /\ b.cpu \in Int /\ b.mem \in Int
      /\ r.cpu \in Int /\ r.mem \in Int /\ s.cpu \in Int /\ s.mem \in Int
      /\ q.cpu \in Int /\ q.mem \in Int
  BY ArithmeticTyped
<1> QED
  BY <1>1 DEF Fits, Plus, Minus

LEMMA ChargeForMore ==
    ASSUME NEW a \in Quantities, NEW p \in Quantities, NEW b \in Quantities,
           NEW charged \in Quantities, NEW own \in Quantities,
           Fits(Plus(a, p), b), Fits(charged, Plus(own, a))
    PROVE  Fits(Plus(charged, p), Plus(own, b))
<1>1. /\ a.cpu \in Int /\ a.mem \in Int /\ b.cpu \in Int /\ b.mem \in Int
      /\ p.cpu \in Int /\ p.mem \in Int /\ own.cpu \in Int /\ own.mem \in Int
      /\ charged.cpu \in Int /\ charged.mem \in Int
  BY ArithmeticTyped
<1> QED
  BY <1>1 DEF Fits, Plus

LEMMA PendingCharged ==
    ASSUME NEW p \in Quantities, NEW rest \in Quantities, NEW q \in PodInfo,
           NEW charged \in Quantities, NEW own \in Quantities, NEW a \in Quantities,
           Fits(Plus(rest, q), p), Fits(Plus(charged, p), Plus(own, a))
    PROVE  Fits(Plus(Plus(charged, q), rest), Plus(own, a))
<1>1. q.cpu \in Nat /\ q.mem \in Nat
  BY DEF PodInfo
<1>2. /\ a.cpu \in Int /\ a.mem \in Int
      /\ p.cpu \in Int /\ p.mem \in Int /\ own.cpu \in Int /\ own.mem \in Int
      /\ charged.cpu \in Int /\ charged.mem \in Int /\ rest.cpu \in Int /\ rest.mem \in Int
  BY ArithmeticTyped
<1> QED
  BY <1>1, <1>2 DEF Fits, Plus

LEMMA RoomForAll ==
    ASSUME NEW alloc \in Quantities, NEW charged \in Quantities, NEW p \in Quantities,
           NEW own \in Quantities, NEW b \in Quantities, NEW left \in Balance,
           Fits(Minus(alloc, charged), Plus(left, p)), Fits(left, Nothing),
           Fits(Plus(charged, p), Plus(own, b))
    PROVE  Fits(alloc, Plus(own, b))
<1>1. /\ alloc.cpu \in Int /\ alloc.mem \in Int /\ b.cpu \in Int /\ b.mem \in Int
      /\ p.cpu \in Int /\ p.mem \in Int /\ own.cpu \in Int /\ own.mem \in Int
      /\ charged.cpu \in Int /\ charged.mem \in Int /\ left.cpu \in Int /\ left.mem \in Int
  BY ArithmeticTyped
<1> QED
  BY <1>1 DEF Fits, Plus, Minus, Nothing

LEMMA CountUnion ==
    ASSUME NEW A, IsFiniteSet(A), NEW B, IsFiniteSet(B)
    PROVE  /\ IsFiniteSet(A \cup B) /\ Cardinality(A \cup B) \in Nat
           /\ Cardinality(A) \in Nat /\ Cardinality(B) \in Nat
           /\ Cardinality(A \cup B) <= Cardinality(A) + Cardinality(B)
<1>1. IsFiniteSet(A \cap B)
  BY FS_Subset
<1>2. IsFiniteSet(A \cup B) /\ Cardinality(A \cup B) = Cardinality(A) + Cardinality(B)
                                                         - Cardinality(A \cap B)
  BY FS_Union
<1> QED
  BY <1>1, <1>2, FS_CardinalityType

\* The sets of pods the invariant speaks of are finite.
LEMMA FitsTyped ==
    ASSUME SelectionTypeInv, HomeInv, FitsInv, NEW n \in Nodes
    PROVE  /\ cluster.pods \in [Pods -> PodInfo] /\ cluster.requested[n] \in Quantities
           /\ cluster.alloc[n] \in Quantities /\ Len(PodsOn(n)) \in Nat
           /\ requested[n] \in Quantities /\ room[n] \in Balance
           /\ podCount[n] \in Nat /\ held[n] \in Nat
           /\ Arrivals(n) \in SUBSET Pods /\ IsFiniteSet(Arrivals(n))
           /\ Pending(n) \in SUBSET Pods /\ IsFiniteSet(Pending(n))
           /\ pool # <<>> => Packed(n) \in SUBSET Pods /\ IsFiniteSet(Packed(n))
<1>1. /\ cluster \in Clusters /\ requested \in [Nodes -> Quantities]
      /\ room \in [Nodes -> Balance] /\ podCount \in [Nodes -> Nat] /\ held \in [Nodes -> Nat]
      /\ todo \in Seq(Pods)
  BY SelectionTyped DEF SelectionTypeInv
<1>2. /\ cluster.pods \in [Pods -> PodInfo] /\ cluster.requested[n] \in Quantities
      /\ cluster.alloc[n] \in Quantities /\ Len(PodsOn(n)) \in Nat
  BY <1>1, ClusterTyped DEF PodsOn
<1>3. Arrivals(n) \in SUBSET Pods /\ IsFiniteSet(Arrivals(n))
  BY DrainedPodsTyped, FS_Subset DEF Arrivals, FitsInv
<1>4. Pending(n) \in SUBSET Pods /\ IsFiniteSet(Pending(n))
  <2>1. ToSet(todo) \in SUBSET Pods /\ IsFiniteSet(ToSet(todo))
    BY <1>1, ToSetTyped
  <2>2. Pending(n) \in SUBSET ToSet(todo)
    BY DEF Pending
  <2> QED
    BY <2>1, <2>2, FS_Subset
<1>5. ASSUME pool # <<>> PROVE Packed(n) \in SUBSET Pods /\ IsFiniteSet(Packed(n))
  <2>1. HeadPods \in SUBSET Pods /\ IsFiniteSet(HeadPods)
    BY <1>5, HeadInHand DEF HeadPods
  <2>2. Packed(n) \in SUBSET HeadPods
    BY DEF Packed, Dealt
  <2> QED
    BY <2>1, <2>2, FS_Subset
<1> QED
  BY <1>1, <1>2, <1>3, <1>4, <1>5

\* Where nothing is drained, nothing is promised, if the nodes are charged with their own pods.
JustStarted ==
    /\ cluster \in Clusters /\ step = "partition" /\ drained = <<>>
    /\ requested = cluster.requested
    /\ podCount = [n \in Nodes |-> Len(cluster.podsOn[n])]

LEMMA FitsStart == JustStarted => FitsInv
<1> SUFFICES ASSUME JustStarted PROVE FitsInv
  OBVIOUS
<1> USE DEF JustStarted
<1>1. DrainedPods = {} /\ IsFiniteSet(DrainedPods)
  BY ToSetEmpty, FS_EmptySet DEF DrainedPods
<1>2. \A n \in Nodes : Arrivals(n) = {} /\ Pending(n) = {}
  BY <1>1 DEF Arrivals, Pending
<1>3. GuaranteedToFit
  BY <1>1 DEF GuaranteedToFit
<1>4. ASSUME NEW n \in Nodes
      PROVE  /\ Fits(Plus(requested[n], Requests(cluster.pods, Pending(n))),
                     Plus(cluster.requested[n], Requests(cluster.pods, Arrivals(n))))
             /\ Len(PodsOn(n)) + Cardinality(Arrivals(n))
                  <= podCount[n] + Cardinality(Pending(n))
  <2>1. cluster.requested[n] \in Quantities /\ Len(cluster.podsOn[n]) \in Nat
    BY ClusterTyped
  <2>2. Requests(cluster.pods, {}) = Nothing /\ Cardinality({}) = 0
    BY RequestsEmpty, FS_EmptySet
  <2>3. Fits(Plus(cluster.requested[n], Nothing), Plus(cluster.requested[n], Nothing))
    BY <2>1 DEF Fits, Plus, Nothing, Quantities
  <2>4. /\ requested[n] = cluster.requested[n] /\ podCount[n] = Len(PodsOn(n))
        /\ Len(PodsOn(n)) \in Nat
    BY <2>1 DEF PodsOn
  <2>5. /\ Requests(cluster.pods, Pending(n)) = Nothing /\ Cardinality(Pending(n)) = 0
        /\ Requests(cluster.pods, Arrivals(n)) = Nothing /\ Cardinality(Arrivals(n)) = 0
    BY <1>2, <2>2
  <2>6. Len(PodsOn(n)) + 0 <= podCount[n] + 0
    BY <2>4
  <2> QED
    BY <2>3, <2>4, <2>5, <2>6
<1> QED
  BY <1>1, <1>3, <1>4 DEF FitsInv, PackedInv, ChargedInv

\* Steps that leave where drained pods go, and how the nodes are charged, as they are.
LEMMA ChargesKept ==
    ASSUME FitsInv, UNCHANGED <<cluster, drained, requested, podCount>>,
           \A p \in DrainedPods : home'[p] = home[p],
           \A n \in Nodes : Pending(n)' = Pending(n)
    PROVE  DrainedPods' = DrainedPods /\ IsFiniteSet(DrainedPods)' /\ ChargedInv'
<1>1. DrainedPods' = DrainedPods
  BY DEF DrainedPods, PodsOn
<1>2. \A n \in Nodes : Arrivals(n)' = Arrivals(n)
  BY <1>1 DEF Arrivals
<1>3. NamesTellPodsApart' => NamesTellPodsApart
  BY DEF NamesTellPodsApart, PodsOn
<1>4. GuaranteedToFit => GuaranteedToFit'
  <2> SUFFICES ASSUME GuaranteedToFit, NEW n \in Nodes, Arrivals(n)' # {}
               PROVE  /\ Fits(cluster'.alloc[n], Plus(cluster'.requested[n],
                                                      Requests(cluster'.pods, Arrivals(n)')))
                      /\ Len(PodsOn(n)') + Cardinality(Arrivals(n)') <= MaxPodsPerNode
    BY DEF GuaranteedToFit, Arrivals
  <2>1. Arrivals(n) # {} /\ Arrivals(n)' = Arrivals(n)
    BY <1>2
  <2>2. /\ Fits(cluster.alloc[n], Plus(cluster.requested[n], Requests(cluster.pods, Arrivals(n))))
        /\ Len(PodsOn(n)) + Cardinality(Arrivals(n)) <= MaxPodsPerNode
    BY <2>1 DEF GuaranteedToFit, Arrivals
  <2> QED
    BY <2>1, <2>2 DEF PodsOn
<1>5. ASSUME NamesTellPodsApart', NEW n \in Nodes
      PROVE  /\ Fits(Plus(requested'[n], Requests(cluster'.pods, Pending(n)')),
                     Plus(cluster'.requested[n], Requests(cluster'.pods, Arrivals(n)')))
             /\ Len(PodsOn(n)') + Cardinality(Arrivals(n)')
                  <= podCount'[n] + Cardinality(Pending(n)')
  BY <1>2, <1>3, <1>5 DEF FitsInv, ChargedInv, PodsOn
<1> QED
  BY <1>1, <1>3, <1>4, <1>5 DEF FitsInv, ChargedInv

\* One more pod is packed into the slot a, q being what it asks for.
LEMMA FitsPacked ==
    ASSUME SelectionTypeInv, NodesInv, HomeInv, FitsInv, step = "pack", ~failed, pool # <<>>,
           todo # <<>>, NEW a \in Nodes, Takes(a, cluster.pods[Head(todo)]),
           Packed(a)' = Packed(a) \cup {Head(todo)}
    PROVE  /\ Fits(Left(a), Plus(Minus(room[a], cluster.pods[Head(todo)]),
                                 Requests(cluster.pods, Packed(a)')))
           /\ podCount[a] + Cardinality(Packed(a)') <= held[a] + 1
           /\ Fits(Minus(room[a], cluster.pods[Head(todo)]), Nothing)
           /\ held[a] + 1 <= MaxPodsPerNode
<1> DEFINE q == cluster.pods[Head(todo)]
<1>1. /\ Fits(Left(a), Plus(room[a], Requests(cluster.pods, Packed(a))))
      /\ podCount[a] + Cardinality(Packed(a)) <= held[a]
  BY DEF FitsInv, PackedInv
<1>2. Fits(room[a], q) /\ held[a] < MaxPodsPerNode
  BY DEF Takes
<1>3. Head(todo) \in Pods /\ q \in PodInfo /\ q.cpu \in Nat /\ q.mem \in Nat
  BY PodInHand, ArithmeticTyped
<1>4. /\ Packed(a) \in SUBSET Pods /\ IsFiniteSet(Packed(a))
      /\ cluster.pods \in [Pods -> PodInfo] /\ room[a] \in Balance
      /\ held[a] \in Nat /\ podCount[a] \in Nat
      /\ requested[a] \in Quantities /\ cluster.alloc[a] \in Quantities
  BY FitsTyped
<1>5. Fits(Plus(Requests(cluster.pods, Packed(a)), q), Requests(cluster.pods, Packed(a)'))
  BY <1>3, <1>4, RequestsBounded
<1>6. /\ Requests(cluster.pods, Packed(a)) \in Quantities
      /\ Requests(cluster.pods, Packed(a)') \in Quantities
  <2>1. Packed(a)' \in SUBSET Pods /\ IsFiniteSet(Packed(a)')
    BY <1>3, <1>4, FS_AddElement
  <2> QED
    BY <1>4, <2>1, RequestsTyped
<1>7. Left(a) \in Balance /\ MaxPodsPerNode \in Nat
  BY <1>4, ArithmeticTyped, PackingAssumption DEF Left
<1>8. /\ Cardinality(Packed(a)) \in Nat /\ Cardinality(Packed(a)') \in Nat
      /\ Cardinality(Packed(a)') <= Cardinality(Packed(a)) + 1
  <2>1. IsFiniteSet(Packed(a)')
    BY <1>4, FS_AddElement
  <2>2. Cardinality(Packed(a)) \in Nat /\ Cardinality(Packed(a)') \in Nat
    BY <1>4, <2>1, FS_CardinalityType
  <2>3. \/ Cardinality(Packed(a)') = Cardinality(Packed(a))
        \/ Cardinality(Packed(a)') = Cardinality(Packed(a)) + 1
    BY <1>4, FS_AddElement
  <2> QED
    BY <2>2, <2>3
<1> HIDE DEF q
<1>9. Fits(Minus(room[a], q), Nothing)
  BY <1>2, <1>3, <1>4 DEF Fits, Minus, Nothing, Balance
<1>10. Fits(Left(a), Plus(Minus(room[a], q), Requests(cluster.pods, Packed(a)')))
  BY <1>1, <1>3, <1>4, <1>5, <1>6, <1>7, RoomForOneMore
<1>11. /\ podCount[a] + Cardinality(Packed(a)') <= held[a] + 1
       /\ held[a] + 1 <= MaxPodsPerNode
  BY <1>1, <1>2, <1>4, <1>7, <1>8
<1> QED
  BY <1>9, <1>10, <1>11 DEF q

LEMMA PackedStep ==
    SelectionTypeInv /\ NodesInv /\ HomeInv /\ FitsInv /\ [SelectNext]_selectionVars => PackedInv'
<1> SUFFICES ASSUME SelectionTypeInv, NodesInv, HomeInv, FitsInv, [SelectNext]_selectionVars,
                    step' = "pack", ~failed'
             PROVE  (\A n \in Nodes :
                        /\ Fits(Left(n), Plus(room[n], Requests(cluster.pods, Packed(n))))
                        /\ podCount[n] + Cardinality(Packed(n)) <= held[n]
                        /\ Packed(n) # {} => Fits(room[n], Nothing) /\ held[n] <= MaxPodsPerNode)'
  BY DEF PackedInv
<1>c. /\ cluster \in Clusters /\ pool \in Seq(Nodes) /\ todo \in Seq(Pods)
      /\ home \in [Pods -> Nodes \cup {NoNode}] /\ room \in [Nodes -> Balance]
      /\ held \in [Nodes -> Nat] /\ active \in Seq(Nodes)
  BY SelectionTyped DEF SelectionTypeInv
<1>1. CASE BeginPacking
  <2>1. /\ room' = [n \in Nodes |-> Left(n)] /\ held' = podCount /\ pool # <<>>
        /\ UNCHANGED <<cluster, requested, podCount, home, pool>>
        /\ todo' \in LargestFirst(cluster, ToSet(cluster.podsOn[Head(pool)]))
    BY <1>1 DEF BeginPacking, PodsOn
  <2>2. HeadPods' = HeadPods /\ ToSet(todo') = HeadPods
    BY <1>c, <2>1, HeadInHand, PodsInOrder DEF HeadPods, PodsOn
  <2>3. \A n \in Nodes : Packed(n)' = {} /\ Left(n)' = Left(n)
    BY <2>1, <2>2 DEF Packed, Dealt, Left
  <2>4. Requests(cluster.pods, {}) = Nothing /\ Cardinality({}) = 0
    BY RequestsEmpty, FS_EmptySet
  <2>5. \A n \in Nodes : Left(n) \in Balance /\ podCount[n] \in Nat
    BY FitsTyped, ArithmeticTyped DEF Left
  <2>6. \A n \in Nodes : Fits(Left(n), Plus(Left(n), Nothing))
    BY <2>5 DEF Fits, Plus, Nothing, Balance
  <2> SUFFICES ASSUME NEW n \in Nodes
               PROVE  /\ Fits(Left(n)', Plus(room'[n], Requests(cluster'.pods, Packed(n)')))
                      /\ podCount'[n] + Cardinality(Packed(n)') <= held'[n]
    BY <2>3
  <2>7. /\ Requests(cluster'.pods, Packed(n)') = Nothing /\ Cardinality(Packed(n)') = 0
        /\ room'[n] = Left(n) /\ Left(n)' = Left(n) /\ held'[n] = podCount[n]
        /\ podCount'[n] = podCount[n]
    BY <2>1, <2>3, <2>4
  <2> QED
    BY <2>5, <2>6, <2>7
<1>2. CASE PackPod
  <2>p. PICK p \in Pods : p = Head(todo)
    BY <1>2, PodInHand DEF PackPod
  <2>q. PICK q : q = cluster.pods[p]
    OBVIOUS
  <2>1. /\ UNCHANGED <<cluster, requested, podCount, pool, active>> /\ step = "pack"
        /\ todo # <<>> /\ todo' = Tail(todo) /\ pool # <<>>
    BY <1>2 DEF PackPod, SelectionTypeInv
  <2>2. PICK a \in Nodes :
          /\ Takes(a, q) /\ ~failed
          /\ room' = [room EXCEPT ![a] = Minus(@, q)]
          /\ held' = [held EXCEPT ![a] = @ + 1]
          /\ home' = [home EXCEPT ![p] = a]
    <3>1. PICK k \in 1..Len(active) :
            /\ TakesTightest(q, k)
            /\ room' = [room EXCEPT ![active[k]] = Minus(@, q)]
            /\ held' = [held EXCEPT ![active[k]] = @ + 1]
            /\ home' = [home EXCEPT ![p] = active[k]]
            /\ UNCHANGED failed
      BY <1>2, <2>p, <2>q DEF PackPod
    <3>2. active[k] \in Nodes /\ Takes(active[k], q)
      BY <1>c, <3>1 DEF TakesTightest
    <3> QED
      BY <3>1, <3>2
  <2>4. /\ p \in Pods /\ p \in ToSet(todo) /\ ToSet(todo) = {p} \cup ToSet(todo')
        /\ p \notin ToSet(todo')
    BY <1>c, <2>1, <2>p, HeadAndTail DEF HomeInv
  <2>5. Dealt' = Dealt \cup {p} /\ p \notin Dealt /\ Dealt \in SUBSET Pods
    <3>1. HeadPods' = HeadPods /\ HeadPods \in SUBSET Pods
      BY <2>1, HeadInHand DEF HeadPods, PodsOn
    <3> QED
      BY <2>1, <2>4, <3>1 DEF Dealt, HomeInv
  <2>6. home'[p] = a /\ \A r \in Dealt : home'[r] = home[r]
    BY <1>c, <2>2, <2>4, <2>5
  <2>7. Packed(a)' = Packed(a) \cup {p} /\ \A n \in Nodes \ {a} : Packed(n)' = Packed(n)
    BY <2>5, <2>6 DEF Packed
  <2>8. \A n \in Nodes : Left(n)' = Left(n)
    BY <2>1 DEF Left
  <2>9. /\ room'[a] = Minus(room[a], q) /\ held'[a] = held[a] + 1
        /\ \A n \in Nodes \ {a} : room'[n] = room[n] /\ held'[n] = held[n]
    BY <1>c, <2>2
  <2>10. /\ Fits(Left(a), Plus(Minus(room[a], q), Requests(cluster.pods, Packed(a)')))
         /\ podCount[a] + Cardinality(Packed(a)') <= held[a] + 1
         /\ Fits(Minus(room[a], q), Nothing)
         /\ held[a] + 1 <= MaxPodsPerNode
    BY <2>1, <2>2, <2>7, <2>p, <2>q, FitsPacked
  <2>11. ASSUME NEW n \in Nodes \ {a}
         PROVE  /\ Fits(Left(n), Plus(room[n], Requests(cluster.pods, Packed(n))))
                /\ podCount[n] + Cardinality(Packed(n)) <= held[n]
                /\ Packed(n) # {} => Fits(room[n], Nothing) /\ held[n] <= MaxPodsPerNode
    BY <2>1, <2>2 DEF FitsInv, PackedInv
  <2> SUFFICES ASSUME NEW n \in Nodes
               PROVE  /\ Fits(Left(n)', Plus(room'[n], Requests(cluster'.pods, Packed(n)')))
                      /\ podCount'[n] + Cardinality(Packed(n)') <= held'[n]
                      /\ Packed(n)' # {} => Fits(room'[n], Nothing) /\ held'[n] <= MaxPodsPerNode
    OBVIOUS
  <2>12. CASE n = a
    BY <2>1, <2>8, <2>9, <2>10, <2>12
  <2>13. CASE n # a
    BY <2>1, <2>7, <2>8, <2>9, <2>11, <2>13
  <2> QED
    BY <2>12, <2>13
<1>3. CASE UNCHANGED selectionVars
  <2>1. UNCHANGED <<cluster, step, pool, requested, podCount, room, held, todo, failed, home>>
    BY <1>3 DEF selectionVars, packing
  <2>2. \A n \in Nodes : Packed(n)' = Packed(n) /\ Left(n)' = Left(n)
    BY <2>1 DEF Packed, Dealt, HeadPods, PodsOn, Left
  <2> QED
    BY <2>1, <2>2 DEF FitsInv, PackedInv
<1> QED
  BY <1>1, <1>2, <1>3 DEF SelectNext, SelectionStep, Partition, Drain, DeductPod, NextCandidate,
                          Retain, FinishSelection, SelectAnew, StartSelection

\* A node is drained: its pods arrive where they were packed, and are pending there.
LEMMA ChargedDrain ==
    ASSUME SelectionTypeInv, NodesInv, HomeInv, FitsInv, Drain
    PROVE  IsFiniteSet(DrainedPods)' /\ ChargedInv'
<1>1. /\ drained' = Append(drained, Head(pool)) /\ step = "pack" /\ step' = "deduct"
      /\ todo = <<>> /\ todo' = PodsOn(Head(pool)) /\ ~failed /\ pool # <<>>
      /\ UNCHANGED <<cluster, requested, podCount, home>>
  BY DEF Drain, SelectionTypeInv
<1>2. Dealt = HeadPods /\ HeadPods \in SUBSET Pods /\ IsFiniteSet(HeadPods)
  BY <1>1, ToSetEmpty, HeadInHand DEF Dealt, HeadPods
<1>3. drained \in Seq(Nodes) /\ ToSet(drained') = ToSet(drained) \cup {Head(pool)}
  BY <1>1, HeadInHand, ToSetAppend, SelectionTyped DEF SelectionTypeInv
<1>4. DrainedPods' = DrainedPods \cup HeadPods
  BY <1>1, <1>3 DEF DrainedPods, HeadPods, PodsOn
<1>5. IsFiniteSet(DrainedPods)'
  BY <1>2, <1>4, FS_Union DEF FitsInv
<1>6. NamesTellPodsApart' => NamesTellPodsApart
  BY <1>1, <1>3 DEF NamesTellPodsApart, PodsOn
<1>7. \A n \in Nodes : /\ Arrivals(n)' = Arrivals(n) \cup Packed(n)
                       /\ Pending(n)' = Packed(n) /\ Pending(n) = {}
  BY <1>1, <1>2, <1>4 DEF Arrivals, Packed, Pending, HeadPods
<1>8. ASSUME NamesTellPodsApart, NEW n \in Nodes
      PROVE  /\ Fits(Plus(requested[n], Requests(cluster.pods, Packed(n))),
                     Plus(cluster.requested[n], Requests(cluster.pods, Arrivals(n)')))
             /\ Len(PodsOn(n)) + Cardinality(Arrivals(n)')
                  <= podCount[n] + Cardinality(Packed(n))
             /\ Arrivals(n)' # {} =>
                  /\ Fits(cluster.alloc[n], Plus(cluster.requested[n],
                                                 Requests(cluster.pods, Arrivals(n)')))
                  /\ Len(PodsOn(n)) + Cardinality(Arrivals(n)') <= MaxPodsPerNode
  <2>1. /\ cluster.pods \in [Pods -> PodInfo] /\ cluster.requested[n] \in Quantities
        /\ cluster.alloc[n] \in Quantities /\ Len(PodsOn(n)) \in Nat
        /\ requested[n] \in Quantities /\ room[n] \in Balance
        /\ podCount[n] \in Nat /\ held[n] \in Nat /\ MaxPodsPerNode \in Nat
        /\ Arrivals(n) \in SUBSET Pods /\ IsFiniteSet(Arrivals(n))
        /\ Packed(n) \in SUBSET Pods /\ IsFiniteSet(Packed(n))
    BY <1>1, FitsTyped, PackingAssumption
  <2> DEFINE A == Requests(cluster.pods, Arrivals(n))
             P == Requests(cluster.pods, Packed(n))
             B == Requests(cluster.pods, Arrivals(n) \cup Packed(n))
  <2>2. Fits(Plus(A, P), B)
    BY <2>1, RequestsUnion
  <2>3. /\ Cardinality(Arrivals(n)) \in Nat /\ Cardinality(Packed(n)) \in Nat
        /\ Cardinality(Arrivals(n) \cup Packed(n)) \in Nat
        /\ Cardinality(Arrivals(n) \cup Packed(n))
             <= Cardinality(Arrivals(n)) + Cardinality(Packed(n))
        /\ IsFiniteSet(Arrivals(n) \cup Packed(n))
    BY <2>1, CountUnion
  <2>4. A \in Quantities /\ P \in Quantities /\ B \in Quantities
    BY <2>1, <2>3, RequestsTyped
  <2>5. /\ Fits(Plus(requested[n], Nothing), Plus(cluster.requested[n], A))
        /\ Len(PodsOn(n)) + Cardinality(Arrivals(n)) <= podCount[n]
    <3>1. Requests(cluster.pods, {}) = Nothing /\ Cardinality({}) = 0
      BY RequestsEmpty, FS_EmptySet
    <3>2. /\ Fits(Plus(requested[n], Requests(cluster.pods, Pending(n))),
                  Plus(cluster.requested[n], Requests(cluster.pods, Arrivals(n))))
          /\ Len(PodsOn(n)) + Cardinality(Arrivals(n))
               <= podCount[n] + Cardinality(Pending(n))
      BY <1>8 DEF FitsInv, ChargedInv
    <3>3. Requests(cluster.pods, Pending(n)) = Nothing /\ Cardinality(Pending(n)) = 0
      BY <1>7, <3>1
    <3> QED
      BY <2>1, <2>3, <3>2, <3>3
  <2>6. /\ Fits(Left(n), Plus(room[n], P))
        /\ podCount[n] + Cardinality(Packed(n)) <= held[n]
        /\ Packed(n) # {} => Fits(room[n], Nothing) /\ held[n] <= MaxPodsPerNode
    BY <1>1 DEF FitsInv, PackedInv
  <2> HIDE DEF A, P, B
  <2>7. Fits(Plus(requested[n], P), Plus(cluster.requested[n], B))
    <3>1. Plus(requested[n], Nothing) = requested[n]
      BY <2>1 DEF Plus, Nothing, Quantities
    <3> QED
      BY <2>1, <2>2, <2>4, <2>5, <3>1, ChargeForMore
  <2>8. ASSUME Packed(n) # {}
        PROVE  Fits(cluster.alloc[n], Plus(cluster.requested[n], B))
    BY <2>1, <2>4, <2>6, <2>7, <2>8, RoomForAll DEF Left
  <2>9. ASSUME Packed(n) = {}, Arrivals(n) # {}
        PROVE  /\ Fits(cluster.alloc[n], Plus(cluster.requested[n], B))
               /\ Len(PodsOn(n)) + Cardinality(Arrivals(n)) <= MaxPodsPerNode
               /\ Arrivals(n) \cup Packed(n) = Arrivals(n)
    BY <1>8, <2>9 DEF FitsInv, ChargedInv, GuaranteedToFit, Arrivals, A, B
  <2>10. Arrivals(n)' = Arrivals(n) \cup Packed(n)
    BY <1>7
  <2>11. Len(PodsOn(n)) + Cardinality(Arrivals(n) \cup Packed(n))
           <= podCount[n] + Cardinality(Packed(n))
    BY <2>1, <2>3, <2>5
  <2>12. Packed(n) # {} => Len(PodsOn(n)) + Cardinality(Arrivals(n) \cup Packed(n)) <= MaxPodsPerNode
    BY <2>1, <2>3, <2>6, <2>11
  <2> QED
    BY <2>7, <2>8, <2>9, <2>10, <2>11, <2>12 DEF B, P
<1>9. NamesTellPodsApart' => GuaranteedToFit'
  <2> SUFFICES ASSUME NamesTellPodsApart, NEW n \in Nodes, Arrivals(n)' # {}
               PROVE  /\ Fits(cluster'.alloc[n], Plus(cluster'.requested[n],
                                                      Requests(cluster'.pods, Arrivals(n)')))
                      /\ Len(PodsOn(n)') + Cardinality(Arrivals(n)') <= MaxPodsPerNode
    BY <1>6 DEF GuaranteedToFit, Arrivals
  <2> QED
    BY <1>1, <1>8 DEF PodsOn
<1>10. ASSUME NamesTellPodsApart', NEW n \in Nodes
       PROVE  /\ Fits(Plus(requested'[n], Requests(cluster'.pods, Pending(n)')),
                      Plus(cluster'.requested[n], Requests(cluster'.pods, Arrivals(n)')))
              /\ Len(PodsOn(n)') + Cardinality(Arrivals(n)')
                   <= podCount'[n] + Cardinality(Pending(n)')
  BY <1>1, <1>6, <1>7, <1>8, <1>10 DEF PodsOn
<1> QED
  BY <1>5, <1>9, <1>10 DEF ChargedInv

\* A pod is charged to where it is pending.
LEMMA ChargedDeduct ==
    ASSUME SelectionTypeInv, NodesInv, HomeInv, FitsInv, DeductPod
    PROVE  IsFiniteSet(DrainedPods)' /\ ChargedInv'
<1>1. /\ step = "deduct" /\ step' = "deduct" /\ todo # <<>> /\ todo' = Tail(todo) /\ pool # <<>>
      /\ UNCHANGED <<cluster, drained, home>>
  BY DEF DeductPod, selected, SelectionTypeInv
<1>2. PICK p \in Pods : p = Head(todo) /\ cluster.pods[p] \in PodInfo /\ NameOf[p] \in Names
  BY <1>1, PodInHand
<1>3. PICK dest : dest = assigned[NameOf[p]]
  OBVIOUS
<1>4. /\ requested' = [requested EXCEPT ![dest] = Plus(@, cluster.pods[p])]
      /\ podCount' = [podCount EXCEPT ![dest] = @ + 1]
  BY <1>2, <1>3 DEF DeductPod
<1>5. todo \in Seq(Pods) /\ ToSet(todo) = {p} \cup ToSet(todo') /\ p \in HeadPods
  <2>1. todo \in Seq(Pods)
    BY SelectionTyped DEF SelectionTypeInv
  <2>2. ToSet(todo) = {p} \cup ToSet(todo')
    BY <1>1, <1>2, <2>1, HeadAndTail
  <2> QED
    BY <1>1, <2>1, <2>2 DEF HomeInv
<1>6. DrainedPods' = DrainedPods /\ IsFiniteSet(DrainedPods)'
  BY <1>1 DEF DrainedPods, PodsOn, FitsInv
<1>7. \A n \in Nodes : Arrivals(n)' = Arrivals(n)
  BY <1>1, <1>6 DEF Arrivals
<1> SUFFICES ASSUME NamesTellPodsApart' PROVE ChargedInv'
  BY <1>6 DEF ChargedInv
<1>8. NamesTellPodsApart
  BY <1>1 DEF NamesTellPodsApart, PodsOn
<1>9. dest = home[p] /\ dest \in Nodes
  <2>1. Head(pool) \in ToSet(drained)
    BY <1>1 DEF NodesInv
  <2>2. \A q \in HeadPods : NameOf[q] = NameOf[p] => q = p
    BY <1>5, <1>8, <2>1 DEF NamesTellPodsApart, HeadPods
  <2>3. dest = home[p]
    BY <1>1, <1>3, <1>5, <2>2 DEF HomeInv, Knows
  <2>4. home[p] \in ToSet(active)
    BY <1>5, <2>1 DEF HomeInv, DrainedPods, HeadPods
  <2>5. active \in Seq(Nodes)
    BY SelectionTyped DEF SelectionTypeInv
  <2> QED
    BY <2>3, <2>4, <2>5, ToSetTyped
<1>10. /\ Pending(dest) = Pending(dest)' \cup {p}
       /\ \A n \in Nodes \ {dest} : Pending(n)' = Pending(n)
  BY <1>1, <1>5, <1>9 DEF Pending
<1>11. /\ requested \in [Nodes -> Quantities] /\ podCount \in [Nodes -> Nat]
  BY SelectionTyped DEF SelectionTypeInv
<1>12. /\ requested'[dest] = Plus(requested[dest], cluster.pods[p])
       /\ podCount'[dest] = podCount[dest] + 1
       /\ \A n \in Nodes \ {dest} : requested'[n] = requested[n] /\ podCount'[n] = podCount[n]
  BY <1>4, <1>9, <1>11
<1>13. \A n \in Nodes :
         /\ Fits(Plus(requested[n], Requests(cluster.pods, Pending(n))),
                 Plus(cluster.requested[n], Requests(cluster.pods, Arrivals(n))))
         /\ Len(PodsOn(n)) + Cardinality(Arrivals(n)) <= podCount[n] + Cardinality(Pending(n))
  BY <1>8 DEF FitsInv, ChargedInv
<1>14. /\ Fits(Plus(requested'[dest], Requests(cluster.pods, Pending(dest)')),
               Plus(cluster.requested[dest], Requests(cluster.pods, Arrivals(dest))))
       /\ Len(PodsOn(dest)) + Cardinality(Arrivals(dest))
            <= podCount'[dest] + Cardinality(Pending(dest)')
  <2>1. /\ cluster.pods \in [Pods -> PodInfo] /\ cluster.requested[dest] \in Quantities
        /\ requested[dest] \in Quantities /\ podCount[dest] \in Nat
        /\ Len(PodsOn(dest)) \in Nat
        /\ Arrivals(dest) \in SUBSET Pods /\ IsFiniteSet(Arrivals(dest))
        /\ Pending(dest) \in SUBSET Pods /\ IsFiniteSet(Pending(dest))
    BY <1>9, FitsTyped
  <2>2. Pending(dest)' \in SUBSET Pods /\ IsFiniteSet(Pending(dest)')
    BY <1>10, <2>1, FS_Subset
  <2> DEFINE A == Requests(cluster.pods, Arrivals(dest))
             P == Requests(cluster.pods, Pending(dest))
             Q == Requests(cluster.pods, Pending(dest)')
  <2>3. A \in Quantities /\ P \in Quantities /\ Q \in Quantities
    BY <2>1, <2>2, RequestsTyped
  <2>4. Fits(Plus(Q, cluster.pods[p]), P)
    BY <1>10, <2>1, <2>2, RequestsBounded
  <2>5. Fits(Plus(requested[dest], P), Plus(cluster.requested[dest], A))
    BY <1>9, <1>13
  <2> HIDE DEF A, P, Q
  <2>6. Fits(Plus(Plus(requested[dest], cluster.pods[p]), Q), Plus(cluster.requested[dest], A))
    BY <1>2, <2>1, <2>3, <2>4, <2>5, PendingCharged
  <2>7. Cardinality(Pending(dest)) <= Cardinality(Pending(dest)') + 1
        /\ Cardinality(Pending(dest)') \in Nat /\ Cardinality(Pending(dest)) \in Nat
        /\ Cardinality(Arrivals(dest)) \in Nat
    <3>1. \/ Cardinality(Pending(dest)) = Cardinality(Pending(dest)')
          \/ Cardinality(Pending(dest)) = Cardinality(Pending(dest)') + 1
      BY <1>10, <2>2, FS_AddElement
    <3>2. Cardinality(Pending(dest)') \in Nat /\ Cardinality(Pending(dest)) \in Nat
          /\ Cardinality(Arrivals(dest)) \in Nat
      BY <2>1, <2>2, FS_CardinalityType
    <3> QED
      BY <3>1, <3>2
  <2>8. Len(PodsOn(dest)) + Cardinality(Arrivals(dest))
          <= podCount[dest] + Cardinality(Pending(dest))
    BY <1>9, <1>13
  <2>9. Len(PodsOn(dest)) + Cardinality(Arrivals(dest))
          <= podCount[dest] + 1 + Cardinality(Pending(dest)')
    BY <2>1, <2>7, <2>8
  <2> QED
    BY <1>12, <2>6, <2>9 DEF A, Q
<1>15. ASSUME NEW n \in Nodes
       PROVE  /\ Fits(Plus(requested'[n], Requests(cluster'.pods, Pending(n)')),
                      Plus(cluster'.requested[n], Requests(cluster'.pods, Arrivals(n)')))
              /\ Len(PodsOn(n)') + Cardinality(Arrivals(n)')
                   <= podCount'[n] + Cardinality(Pending(n)')
  <2>1. cluster' = cluster /\ Arrivals(n)' = Arrivals(n) /\ PodsOn(n)' = PodsOn(n)
    BY <1>1, <1>7 DEF PodsOn
  <2>2. CASE n = dest
    BY <1>14, <2>1, <2>2
  <2>3. CASE n # dest
    BY <1>10, <1>12, <1>13, <2>1, <2>3
  <2> QED
    BY <2>2, <2>3
<1>16. GuaranteedToFit'
  <2> SUFFICES ASSUME NEW n \in Nodes, Arrivals(n)' # {}
               PROVE  /\ Fits(cluster'.alloc[n], Plus(cluster'.requested[n],
                                                      Requests(cluster'.pods, Arrivals(n)')))
                      /\ Len(PodsOn(n)') + Cardinality(Arrivals(n)') <= MaxPodsPerNode
    BY DEF GuaranteedToFit, Arrivals
  <2>1. Arrivals(n)' = Arrivals(n) /\ Arrivals(n) # {}
    BY <1>7
  <2>2. GuaranteedToFit
    BY <1>8 DEF FitsInv, ChargedInv
  <2>3. /\ Fits(cluster.alloc[n], Plus(cluster.requested[n], Requests(cluster.pods, Arrivals(n))))
        /\ Len(PodsOn(n)) + Cardinality(Arrivals(n)) <= MaxPodsPerNode
    BY <2>1, <2>2 DEF GuaranteedToFit, Arrivals
  <2> QED
    BY <1>1, <2>1, <2>3 DEF PodsOn
<1> QED
  BY <1>15, <1>16 DEF ChargedInv

LEMMA ChargedStep ==
    SelectionTypeInv /\ NodesInv /\ HomeInv /\ FitsInv /\ [SelectNext]_selectionVars
        => IsFiniteSet(DrainedPods)' /\ ChargedInv'
<1> SUFFICES ASSUME SelectionTypeInv, NodesInv, HomeInv, FitsInv, [SelectNext]_selectionVars
             PROVE  IsFiniteSet(DrainedPods)' /\ ChargedInv'
  OBVIOUS
<1>c. /\ home \in [Pods -> Nodes \cup {NoNode}] /\ DrainedPods \in SUBSET Pods
  BY SelectionTyped, DrainedPodsTyped DEF SelectionTypeInv
<1>1. CASE Partition \/ BeginPacking \/ FinishSelection
  <2>1. /\ UNCHANGED <<cluster, drained, requested, podCount, home>>
        /\ step # "deduct" /\ step' # "deduct"
    BY <1>1 DEF Partition, BeginPacking, FinishSelection, selected
  <2>2. \A n \in Nodes : Pending(n)' = Pending(n)
    BY <2>1 DEF Pending
  <2> QED
    BY <2>1, <2>2, ChargesKept
<1>2. CASE PackPod
  <2>1. /\ UNCHANGED <<cluster, drained, requested, podCount, step>> /\ step = "pack"
        /\ todo # <<>>
    BY <1>2 DEF PackPod, selected
  <2>2. Head(todo) \in HeadPods /\ Head(todo) \notin DrainedPods
    <3>1. Head(todo) \in ToSet(todo)
      BY <2>1, HeadAndTail, SelectionTyped DEF SelectionTypeInv
    <3> QED
      BY <2>1, <3>1, HeadPodsUndrained DEF HomeInv
  <2>3. home' = home \/ \E a : home' = [home EXCEPT ![Head(todo)] = a]
    BY <1>2 DEF PackPod
  <2>4. \A p \in DrainedPods : home'[p] = home[p]
    BY <1>c, <2>2, <2>3
  <2>5. \A n \in Nodes : Pending(n)' = Pending(n)
    BY <2>1 DEF Pending
  <2> QED
    BY <2>1, <2>4, <2>5, ChargesKept
<1>3. CASE NextCandidate
  <2>1. /\ UNCHANGED <<cluster, drained, requested, podCount, home, todo>>
        /\ todo = <<>> /\ step' = "candidate"
    BY <1>3 DEF NextCandidate, selected
  <2>2. \A n \in Nodes : Pending(n)' = Pending(n)
    BY <2>1, ToSetEmpty DEF Pending
  <2> QED
    BY <2>1, <2>2, ChargesKept
<1>4. CASE Retain
  <2>1. /\ UNCHANGED <<cluster, drained, requested, podCount>>
        /\ step = "pack" /\ step' = "candidate"
        /\ home' = [p \in Pods |-> IF p \in HeadPods THEN NoNode ELSE home[p]]
    BY <1>4 DEF Retain, selected, HeadPods
  <2>2. \A p \in DrainedPods : home'[p] = home[p]
    BY <1>c, <2>1, HeadPodsUndrained
  <2>3. \A n \in Nodes : Pending(n)' = Pending(n)
    BY <2>1 DEF Pending
  <2> QED
    BY <2>1, <2>2, <2>3, ChargesKept
<1>5. CASE SelectAnew
  <2>1. JustStarted'
    BY <1>5 DEF SelectAnew, StartSelection, JustStarted
  <2>2. (JustStarted => FitsInv)'
    BY FitsStart, PTL
  <2> QED
    BY <2>1, <2>2 DEF FitsInv
<1>6. CASE UNCHANGED selectionVars
  <2>1. UNCHANGED <<cluster, drained, requested, podCount, home, todo, step>>
    BY <1>6 DEF selectionVars, selected
  <2>2. \A n \in Nodes : Pending(n)' = Pending(n)
    BY <2>1 DEF Pending
  <2> QED
    BY <2>1, <2>2, ChargesKept
<1> QED
  BY <1>1, <1>2, <1>3, <1>4, <1>5, <1>6, ChargedDrain, ChargedDeduct DEF SelectNext, SelectionStep

\* Together, the selection's invariant, and what it gives.
SelectionInv == SelectionTypeInv /\ NodesInv /\ HomeInv /\ FitsInv

LEMMA SelectionInit == InitSelection => SelectionInv
BY SelectionTypeInit, NodesStart, HomeStart, FitsStart
   DEF SelectionInv, InitSelection, JustStarted

LEMMA SelectionInvStep == SelectionInv /\ [SelectNext]_selectionVars => SelectionInv'
BY SelectionTypeStep, NodesStep, HomeStep, PackedStep, ChargedStep DEF SelectionInv, FitsInv

LEMMA SelectionInvGives ==
    SelectionInv => /\ SelectionTypeOK
                    /\ FitsWhenNamesDiffer
                    /\ DestinationsRemain
                    /\ AnswerIsComplete
<1> SUFFICES ASSUME SelectionInv
             PROVE  SelectionTypeOK /\ FitsWhenNamesDiffer /\ DestinationsRemain /\ AnswerIsComplete
  OBVIOUS
<1>4. SelectionTypeOK /\ FitsWhenNamesDiffer
  BY DEF SelectionInv, SelectionTypeInv, FitsInv, ChargedInv, FitsWhenNamesDiffer
<1>1. DestinationsRemain
  BY DEF SelectionInv, HomeInv, NodesInv, DestinationsRemain
<1>2. step = "done" => ToSet(active) \cup ToSet(drained) = cluster.eligible
  BY ToSetEmpty DEF SelectionInv, NodesInv
<1>3. Knows(assignments, DrainedPods)
  BY DEF SelectionInv, HomeInv
<1> QED
  BY <1>1, <1>2, <1>3, <1>4 DEF AnswerIsComplete, Knows

-----------------------------------------------------------------------------
(* The store: a save in progress is typed, has a local store where it      *)
(* works on a file, and writes to a file it has opened.                    *)
Saves == [stage : {"none", "stamp", "open", "write", "finished"}, kind : Kinds,
          content : Nat, at : Seconds, answer : URIs]

StoreInv ==
    /\ store \in Stores /\ second \in Seconds
    /\ files \in [Kinds -> [Seconds -> Nat \cup {Missing, Torn}]]
    /\ opened \in [Kinds -> [Seconds -> Nat \cup {Missing}]]
    /\ saving \in Saves
    /\ saving.stage \in {"stamp", "open", "write"} => store.local
    /\ saving.stage = "write" => opened[saving.kind][saving.at] = saving.content

StoreNext ==
    \/ \E kind \in Kinds, content \in Nat : BeginSave(kind, content)
    \/ SaveStep
    \/ EndSave
    \/ ClockAdvances
    \/ CrashStore

LEMMA SavesTyped ==
    \A sv \in Saves :
        /\ sv.stage \in {"none", "stamp", "open", "write", "finished"}
        /\ sv.kind \in Kinds /\ sv.content \in Nat /\ sv.at \in Seconds /\ sv.answer \in URIs
BY DEF Saves

LEMMA NotSavingTyped == NotSaving \in Saves /\ NoAnswer \in URIs /\ 0 \in Seconds
<1>1. 0 \in Seconds
  BY StoreAssumption DEF Seconds
<1>2. NoAnswer \in URIs
  BY DEF URIs
<1>3. "snapshot" \in Kinds
  BY DEF Kinds
<1> QED
  BY <1>1, <1>2, <1>3 DEF NotSaving, Saves

LEMMA FileAnswer ==
    ASSUME NEW at \in Seconds, NEW scheme \in {"file", "s3"}
    PROVE  [scheme |-> scheme, at |-> at] \in URIs
BY DEF URIs

LEMMA StoreInit == InitStore => StoreInv
<1> SUFFICES ASSUME InitStore PROVE StoreInv
  OBVIOUS
<1>1. store \in Stores /\ second \in Seconds /\ saving \in Saves /\ saving = NotSaving
  BY NotSavingTyped DEF InitStore
<1>2. /\ files \in [Kinds -> [Seconds -> Nat \cup {Missing, Torn}]]
      /\ opened \in [Kinds -> [Seconds -> Nat \cup {Missing}]]
  BY DEF InitStore
<1> QED
  BY <1>1, <1>2 DEF StoreInv, NotSaving

\* A cell of a table of files is written.
LEMMA CellWritten ==
    ASSUME NEW V, NEW f \in [Kinds -> [Seconds -> V]], NEW k \in Kinds, NEW t \in Seconds, NEW v \in V,
           NEW g, g = [f EXCEPT ![k][t] = v]
    PROVE  /\ g \in [Kinds -> [Seconds -> V]] /\ g[k][t] = v
           /\ \A l \in Kinds, u \in Seconds : l # k \/ u # t => g[l][u] = f[l][u]
<1>1. f[k] \in [Seconds -> V]
  OBVIOUS
<1>2. [f[k] EXCEPT ![t] = v] \in [Seconds -> V]
  BY <1>1
<1>3. g = [f EXCEPT ![k] = [f[k] EXCEPT ![t] = v]]
  OBVIOUS
<1>4. g \in [Kinds -> [Seconds -> V]] /\ g[k] = [f[k] EXCEPT ![t] = v]
  BY <1>2, <1>3
<1>5. \A l \in Kinds : l # k => g[l] = f[l]
  BY <1>3
<1>6. g[k][t] = v /\ \A u \in Seconds : u # t => g[k][u] = f[k][u]
  BY <1>1, <1>4
<1> QED
  BY <1>4, <1>5, <1>6

LEMMA StoreStep == StoreInv /\ [StoreNext]_storeVars => StoreInv'
<1> SUFFICES ASSUME StoreInv, [StoreNext]_storeVars PROVE StoreInv'
  OBVIOUS
<1>t. /\ store \in [bucket : BOOLEAN, local : BOOLEAN] /\ store \in Stores /\ second \in Seconds
      /\ files \in [Kinds -> [Seconds -> Nat \cup {Missing, Torn}]]
      /\ opened \in [Kinds -> [Seconds -> Nat \cup {Missing}]]
      /\ saving \in Saves
  BY StoreAssumption DEF StoreInv
<1>s. /\ saving.stage \in {"none", "stamp", "open", "write", "finished"}
      /\ saving.kind \in Kinds /\ saving.content \in Nat /\ saving.at \in Seconds
      /\ saving.answer \in URIs
  BY <1>t, SavesTyped
<1>1. ASSUME NEW kind \in Kinds, NEW content \in Nat, BeginSave(kind, content) PROVE StoreInv'
  <2>1. (IF store.bucket THEN [scheme |-> "s3", at |-> second] ELSE NoAnswer) \in URIs
    BY <1>t, NotSavingTyped, FileAnswer
  <2>2. saving' = [stage   |-> IF store.local THEN "stamp" ELSE "finished",
                   kind    |-> kind,
                   content |-> content,
                   at      |-> second,
                   answer  |-> IF store.bucket THEN [scheme |-> "s3", at |-> second] ELSE NoAnswer]
    BY <1>1 DEF BeginSave
  <2>3. saving' \in Saves
    BY <1>t, <2>1, <2>2 DEF Saves
  <2>4. saving'.stage = IF store.local THEN "stamp" ELSE "finished"
    BY <2>2
  <2> QED
    BY <1>1, <1>t, <2>3, <2>4 DEF BeginSave, StoreInv
<1>2. CASE StepFails
  <2>1. saving' \in Saves /\ saving'.stage = "finished"
    BY <1>2, <1>t DEF StepFails, Saves
  <2> QED
    BY <1>2, <1>t, <2>1 DEF StepFails, StoreInv
<1>3. CASE Stamp
  <2>1. saving' \in Saves /\ saving'.stage = "open"
    BY <1>3, <1>t DEF Stamp, Saves
  <2> QED
    BY <1>3, <1>t, <2>1 DEF Stamp, StoreInv
<1>4. CASE OpenFile
  <2>1. /\ saving' \in Saves /\ saving'.stage = "write" /\ saving'.kind = saving.kind
        /\ saving'.at = saving.at /\ saving'.content = saving.content
    BY <1>4, <1>t DEF OpenFile, Saves
  <2>2. files' \in [Kinds -> [Seconds -> Nat \cup {Missing, Torn}]]
    BY <1>4, <1>t, <1>s, CellWritten DEF OpenFile
  <2>3. /\ opened' \in [Kinds -> [Seconds -> Nat \cup {Missing}]]
        /\ opened'[saving.kind][saving.at] = saving.content
    BY <1>4, <1>t, <1>s, CellWritten DEF OpenFile
  <2> QED
    BY <1>4, <1>t, <2>1, <2>2, <2>3 DEF OpenFile, StoreInv
<1>5. CASE WriteFile
  <2>1. saving' = [saving EXCEPT !.stage = "finished",
                                 !.answer = IF store.bucket THEN @
                                            ELSE [scheme |-> "file", at |-> saving.at]]
    BY <1>5 DEF WriteFile
  <2>2. (IF store.bucket THEN saving.answer ELSE [scheme |-> "file", at |-> saving.at]) \in URIs
    BY <1>s, FileAnswer
  <2>3. saving' \in Saves /\ saving'.stage = "finished"
    BY <1>t, <2>1, <2>2 DEF Saves
  <2>4. files' \in [Kinds -> [Seconds -> Nat \cup {Missing, Torn}]]
    BY <1>5, <1>t, <1>s, CellWritten DEF WriteFile
  <2> QED
    BY <1>5, <1>t, <2>3, <2>4 DEF WriteFile, StoreInv
<1>6. CASE EndSave \/ CrashStore
  <2>1. saving' \in Saves /\ saving'.stage = "none"
    BY <1>6, NotSavingTyped DEF EndSave, CrashStore, NotSaving
  <2> QED
    BY <1>6, <1>t, <2>1 DEF EndSave, CrashStore, StoreInv
<1>7. CASE ClockAdvances
  <2>1. second + 1 \in Seconds
    BY <1>7, <1>t, StoreAssumption DEF ClockAdvances, Seconds
  <2> QED
    BY <1>7, <2>1 DEF ClockAdvances, StoreInv
<1>8. CASE UNCHANGED storeVars
  BY <1>8 DEF storeVars, StoreInv
<1> QED
  BY <1>1, <1>2, <1>3, <1>4, <1>5, <1>6, <1>7, <1>8 DEF StoreNext, SaveStep

-----------------------------------------------------------------------------
(* The parts of a run take only their own steps.                           *)

LEMMA PartsInit == Init => InitPass /\ InitSelection /\ InitStore
BY DEF Init

\* A call about to start is a new pass and a new selection on the same snapshot.
LEMMA FreshAnew ==
    ASSUME NEW c \in Clusters, Fresh(c)
    PROVE  StartAnew /\ SelectAnew
BY DEF Fresh, StartAnew, SelectAnew

LEMMA EvaluateKeepsCluster == Evaluate => cluster' = cluster
BY DEF Evaluate, ScoreAndSort, DesignateFloor, FloorDone, ConsiderNode, TestFitPod,
       AcceptCandidate, DeductFitPod, NodeDrained, KeepNode, Finish

LEMMA PartsStep ==
    cluster \in Clusters /\ run \in Nat /\ [Next]_vars =>
        /\ [PassNext]_passVars
        /\ [SelectNext]_selectionVars
        /\ [StoreNext]_storeVars
<1> SUFFICES ASSUME cluster \in Clusters, run \in Nat, [Next]_vars
             PROVE  /\ [PassNext]_passVars
                    /\ [SelectNext]_selectionVars
                    /\ [StoreNext]_storeVars
  OBVIOUS
<1>k. "snapshot" \in Kinds /\ "report" \in Kinds
  BY DEF Kinds
<1>q. UNCHANGED <<cluster, selectVars>> => UNCHANGED selectionVars
  BY DEF selectVars, selectionVars, packing, selected
<1>p. UNCHANGED passVars => UNCHANGED cluster
  BY DEF passVars
<1>1. CASE RunSimulation
  BY <1>1, FreshAnew DEF RunSimulation, PassNext, SelectNext
<1>2. CASE EvaluateStep
  <2>1. Evaluate /\ UNCHANGED selectVars /\ UNCHANGED storeVars
    BY <1>2 DEF EvaluateStep
  <2> QED
    BY <1>q, <2>1, EvaluateKeepsCluster DEF PassNext
<1>3. CASE Select
  BY <1>3 DEF Select, SelectNext
<1>4. CASE Predict \/ Publish
  BY <1>4, <1>p, <1>q DEF Predict, Publish
<1>5. CASE SaveSnapshot \/ SaveReport
  BY <1>5, <1>k, <1>p, <1>q DEF SaveSnapshot, SaveReport, StoreNext
<1>6. CASE Save \/ SnapshotSaved \/ Clock
  BY <1>6, <1>p, <1>q DEF Save, SnapshotSaved, Clock, StoreNext
<1>7. CASE Return
  BY <1>7, FreshAnew DEF Return, PassNext, SelectNext, StoreNext
<1>8. CASE Restart
  BY <1>8, FreshAnew DEF Restart, PassNext, SelectNext, StoreNext
<1>9. CASE UNCHANGED vars
  BY <1>9, <1>p, <1>q DEF vars
<1> QED
  BY <1>1, <1>2, <1>3, <1>4, <1>5, <1>6, <1>7, <1>8, <1>9 DEF Next, Run

-----------------------------------------------------------------------------
(* The run and its snapshot.  An address is given out for a file that      *)
(* holds the run's snapshot; until the next run opens it, it does, and the *)
(* next run has another number.                                            *)
Holds(at, content) ==
    /\ store.local
    /\ opened["snapshot"][at] = content
    /\ files["snapshot"][at] = content

RunInv ==
    /\ stage \in Stages /\ run \in 0..MaxRuns /\ (stage # "idle" => run >= 1)
    /\ (saving.stage # "none") <=> (stage \in {"saveSnapshot", "saveReport"})
    /\ stage \notin {"idle", "evaluate"} => pc = "done"
    /\ stage = "saveSnapshot" =>
         /\ saving.kind = "snapshot" /\ saving.content = run
         /\ saving.answer.scheme = "file" =>
              saving.stage = "finished" /\ Holds(saving.answer.at, run)
    /\ stage = "saveReport" => saving.kind = "report"
    /\ snapshotURI \in URIs
    /\ stage \in {"report", "saveReport"} /\ snapshotURI.scheme = "file" =>
         Holds(snapshotURI.at, run)

ReturnedInv ==
    \A r \in returned :
        /\ r.run \in 1..run /\ (stage # "idle" => r.run < run) /\ r.uri \in URIs
        /\ r.uri.scheme = "file" =>
             /\ store.local
             /\ opened["snapshot"][r.uri.at] = r.run => files["snapshot"][r.uri.at] = r.run

LEMMA AddressTyped ==
    /\ \A uri \in URIs : uri.at \in Seconds /\ uri.scheme \in {"file", "s3", "none"}
    /\ NoAnswer.scheme = "none"
<1>1. 0 \in Seconds
  BY NotSavingTyped
<1> QED
  BY <1>1 DEF URIs, NoAnswer

LEMMA RunInit == Init => RunInv /\ ReturnedInv
<1> SUFFICES ASSUME Init PROVE RunInv /\ ReturnedInv
  OBVIOUS
<1>1. /\ stage = "idle" /\ run = 0 /\ saving = NotSaving /\ snapshotURI = NoAnswer
      /\ returned = {}
  BY DEF Init, InitStore
<1>2. 0 \in 0..MaxRuns
  BY RunsAssumption
<1> QED
  BY <1>1, <1>2, NotSavingTyped, AddressTyped DEF RunInv, ReturnedInv, Stages, NotSaving

\* What a step of the save in progress does to the files and to its answer.
LEMMA SaveStepEffect ==
    ASSUME StoreInv, SaveStep
    PROVE  /\ saving.stage # "none" /\ saving'.stage # "none" /\ saving.stage # "finished"
           /\ saving'.kind = saving.kind /\ saving'.content = saving.content
           /\ store' = store
           /\ \A k \in Kinds, t \in Seconds :
                \/ opened'[k][t] = opened[k][t] /\ files'[k][t] = files[k][t]
                \/ k = saving.kind /\ opened'[k][t] = saving.content
           /\ \/ saving'.answer = saving.answer
              \/ /\ saving'.stage = "finished" /\ saving'.answer.at \in Seconds
                 /\ store.local
                 /\ opened'[saving.kind][saving'.answer.at] = saving.content
                 /\ files'[saving.kind][saving'.answer.at] = saving.content
<1>t. /\ files \in [Kinds -> [Seconds -> Nat \cup {Missing, Torn}]]
      /\ opened \in [Kinds -> [Seconds -> Nat \cup {Missing}]]
      /\ saving \in Saves /\ saving.kind \in Kinds /\ saving.content \in Nat
      /\ saving.at \in Seconds /\ saving.answer \in URIs
  BY SavesTyped DEF StoreInv
<1>1. CASE StepFails
  <2>1. /\ saving'.stage = "finished" /\ saving'.kind = saving.kind
        /\ saving'.content = saving.content /\ saving'.answer = saving.answer
    BY <1>1, <1>t DEF StepFails, Saves
  <2> QED
    BY <1>1, <2>1 DEF StepFails
<1>2. CASE Stamp
  <2>1. /\ saving'.stage = "open" /\ saving'.kind = saving.kind
        /\ saving'.content = saving.content /\ saving'.answer = saving.answer
    BY <1>2, <1>t DEF Stamp, Saves
  <2> QED
    BY <1>2, <2>1 DEF Stamp
<1>3. CASE OpenFile
  <2>1. /\ saving'.stage = "write" /\ saving'.kind = saving.kind
        /\ saving'.content = saving.content /\ saving'.answer = saving.answer
    BY <1>3, <1>t DEF OpenFile, Saves
  <2>2. \A l \in Kinds, u \in Seconds :
          l # saving.kind \/ u # saving.at => files'[l][u] = files[l][u]
    BY <1>3, <1>t, CellWritten DEF OpenFile
  <2>3. /\ \A l \in Kinds, u \in Seconds :
             l # saving.kind \/ u # saving.at => opened'[l][u] = opened[l][u]
        /\ opened'[saving.kind][saving.at] = saving.content
    BY <1>3, <1>t, CellWritten DEF OpenFile
  <2> QED
    BY <1>3, <2>1, <2>2, <2>3 DEF OpenFile
<1>4. CASE WriteFile
  <2>1. /\ saving'.stage = "finished" /\ saving'.kind = saving.kind
        /\ saving'.content = saving.content
        /\ saving'.answer = IF store.bucket THEN saving.answer
                            ELSE [scheme |-> "file", at |-> saving.at]
    BY <1>4, <1>t DEF WriteFile, Saves
  <2>2. /\ \A l \in Kinds, u \in Seconds :
             l # saving.kind \/ u # saving.at => files'[l][u] = files[l][u]
        /\ files'[saving.kind][saving.at] = saving.content
    BY <1>4, <1>t, CellWritten DEF WriteFile
  <2>3. /\ saving.stage = "write" /\ store.local /\ opened' = opened /\ store' = store
        /\ opened[saving.kind][saving.at] = saving.content
    BY <1>4 DEF WriteFile, StoreInv
  <2> QED
    BY <1>t, <2>1, <2>2, <2>3
<1> QED
  BY <1>1, <1>2, <1>3, <1>4 DEF SaveStep

LEMMA RunStep ==
    StoreInv /\ RunInv /\ ReturnedInv /\ [Next]_vars => RunInv' /\ ReturnedInv'
<1> SUFFICES ASSUME StoreInv, RunInv, ReturnedInv, [Next]_vars PROVE RunInv' /\ ReturnedInv'
  OBVIOUS
<1>t. /\ saving \in Saves /\ run \in Nat /\ MaxRuns \in Nat /\ stage \in Stages
      /\ snapshotURI \in URIs /\ "snapshot" \in Kinds /\ "report" \in Kinds
      /\ "snapshot" # "report"
  BY RunsAssumption DEF StoreInv, RunInv, Kinds
<1>i. \A a \in Nat : 1..a \subseteq 1..(a + 1)
  OBVIOUS
<1>1. CASE RunSimulation
  <2>1. /\ stage = "idle" /\ run < MaxRuns /\ run' = run + 1 /\ stage' = "evaluate"
        /\ snapshotURI' = NoAnswer /\ UNCHANGED <<storeVars, returned>>
    BY <1>1 DEF RunSimulation, Fresh
  <2>2. UNCHANGED <<store, saving, files, opened>>
    BY <2>1 DEF storeVars
  <2>3. run' \in 0..MaxRuns /\ run' >= 1
    BY <1>t, <2>1
  <2>4. RunInv'
    BY <2>1, <2>2, <2>3, NotSavingTyped, AddressTyped DEF RunInv, Stages
  <2>5. \A r \in returned : r.run \in 1..run /\ r.run \in 1..(run + 1) /\ r.run < run + 1
    BY <1>t, <1>i DEF ReturnedInv
  <2> QED
    BY <2>1, <2>2, <2>4, <2>5 DEF ReturnedInv
<1>2. CASE EvaluateStep
  <2>1. /\ stage = "evaluate" /\ stage' = (IF pc' = "done" THEN "select" ELSE "evaluate")
        /\ UNCHANGED <<run, store, saving, files, opened, snapshotURI, returned>>
    BY <1>2 DEF EvaluateStep, storeVars
  <2> QED
    BY <2>1 DEF RunInv, ReturnedInv, Stages
<1>3. CASE Select \/ Predict \/ Publish
  <2>1. /\ stage \in {"select", "predict", "publish"}
        /\ stage' \in {"select", "predict", "publish", "snapshot"}
        /\ UNCHANGED <<run, pc, store, saving, files, opened, snapshotURI, returned>>
    BY <1>3 DEF Select, Predict, Publish, storeVars, passVars
  <2> QED
    BY <2>1 DEF RunInv, ReturnedInv, Stages
<1>4. CASE SaveSnapshot
  <2>1. /\ stage = "snapshot" /\ stage' = "saveSnapshot" /\ BeginSave("snapshot", run)
        /\ UNCHANGED <<run, pc, store, files, opened, snapshotURI, returned>>
    BY <1>4 DEF SaveSnapshot, BeginSave, passVars
  <2>2. /\ saving'.stage \in {"stamp", "finished"} /\ saving'.kind = "snapshot"
        /\ saving'.content = run /\ saving'.answer.scheme \in {"s3", "none"}
    BY <2>1 DEF BeginSave, NoAnswer
  <2> QED
    BY <2>1, <2>2 DEF RunInv, ReturnedInv, Stages
<1>5. CASE SaveReport
  <2>1. /\ stage = "report" /\ stage' = "saveReport" /\ BeginSave("report", run)
        /\ UNCHANGED <<run, pc, store, files, opened, snapshotURI, returned>>
    BY <1>5 DEF SaveReport, BeginSave, passVars
  <2>2. saving'.stage \in {"stamp", "finished"} /\ saving'.kind = "report"
    BY <2>1 DEF BeginSave
  <2> QED
    BY <2>1, <2>2 DEF RunInv, ReturnedInv, Stages, Holds
<1>6. CASE Save
  <2>1. /\ SaveStep /\ stage \in {"saveSnapshot", "saveReport"}
        /\ UNCHANGED <<stage, run, pc, snapshotURI, returned>>
    BY <1>6 DEF Save, passVars
  <2>2. /\ saving.stage # "none" /\ saving'.stage # "none" /\ saving.stage # "finished"
        /\ saving'.kind = saving.kind /\ saving'.content = saving.content
        /\ store' = store
        /\ \A t \in Seconds :
             \/ opened'["snapshot"][t] = opened["snapshot"][t]
                /\ files'["snapshot"][t] = files["snapshot"][t]
             \/ saving.kind = "snapshot" /\ opened'["snapshot"][t] = saving.content
        /\ \/ saving'.answer = saving.answer
           \/ /\ saving'.stage = "finished" /\ saving'.answer.at \in Seconds
              /\ store.local
              /\ opened'[saving.kind][saving'.answer.at] = saving.content
              /\ files'[saving.kind][saving'.answer.at] = saving.content
    BY <1>t, <2>1, SaveStepEffect
  <2>3. ASSUME NEW r \in returned, r.uri.scheme = "file"
        PROVE  /\ store'.local
               /\ opened'["snapshot"][r.uri.at] = r.run => files'["snapshot"][r.uri.at] = r.run
    <3>1. /\ store.local /\ r.uri.at \in Seconds /\ r.run \in 1..run /\ r.run < run
          /\ opened["snapshot"][r.uri.at] = r.run => files["snapshot"][r.uri.at] = r.run
      BY <2>1, <2>3, AddressTyped DEF ReturnedInv
    <3>2. saving.kind = "snapshot" => saving.content # r.run
      BY <1>t, <2>1, <3>1 DEF RunInv
    <3> QED
      BY <2>2, <3>1, <3>2
  <2>4. ReturnedInv'
    BY <2>1, <2>3 DEF ReturnedInv
  <2>5. CASE stage = "saveSnapshot"
    <3>1. saving.kind = "snapshot" /\ saving.content = run /\ saving.answer.scheme # "file"
      BY <2>2, <2>5 DEF RunInv
    <3>2. saving'.answer.scheme = "file" => saving'.stage = "finished" /\ Holds(saving.answer.at, run)'
      BY <2>1, <2>2, <3>1 DEF Holds
    <3>4. RunInv'
      BY <2>1, <2>2, <2>5, <3>1, <3>2 DEF RunInv
    <3> QED
      BY <2>4, <3>4
  <2>6. CASE stage = "saveReport"
    <3>1. saving.kind = "report"
      BY <2>6 DEF RunInv
    <3>2. snapshotURI.scheme = "file" => Holds(snapshotURI.at, run)'
      <4>1. snapshotURI.at \in Seconds
        BY <1>t, AddressTyped
      <4> QED
        BY <1>t, <2>1, <2>2, <2>6, <3>1, <4>1 DEF RunInv, Holds
    <3>3. RunInv'
      BY <2>1, <2>2, <2>6, <3>1, <3>2 DEF RunInv, Holds
    <3> QED
      BY <2>4, <3>3
  <2> QED
    BY <2>1, <2>5, <2>6
<1>7. CASE SnapshotSaved
  <2>1. /\ stage = "saveSnapshot" /\ stage' = "report" /\ snapshotURI' = saving.answer
        /\ saving' = NotSaving
        /\ UNCHANGED <<run, pc, store, files, opened, returned>>
    BY <1>7 DEF SnapshotSaved, EndSave, passVars
  <2>2. saving.answer \in URIs /\ saving'.stage = "none"
    BY <1>t, <2>1, SavesTyped DEF NotSaving
  <2>3. snapshotURI'.scheme = "file" => Holds(snapshotURI.at, run)'
    BY <2>1 DEF RunInv, Holds
  <2> QED
    BY <2>1, <2>2, <2>3 DEF RunInv, ReturnedInv, Stages, Holds
<1>8. CASE Return
  <2>1. /\ stage = "saveReport" /\ stage' = "idle" /\ snapshotURI' = NoAnswer
        /\ saving' = NotSaving /\ UNCHANGED <<run, store, files, opened>>
        /\ returned' = returned \cup {[run |-> run, uri |-> snapshotURI]}
    BY <1>8 DEF Return, EndSave, Fresh
  <2>2. saving'.stage = "none"
    BY <2>1 DEF NotSaving
  <2>3. RunInv'
    BY <2>1, <2>2, NotSavingTyped DEF RunInv, Stages
  <2>4. snapshotURI.scheme = "file" =>
          store.local /\ files["snapshot"][snapshotURI.at] = run
    BY <2>1 DEF RunInv, Holds
  <2>5. run \in 1..run
    BY <1>t, <2>1 DEF RunInv
  <2>6. ReturnedInv'
    <3> SUFFICES ASSUME NEW r \in returned'
                 PROVE  /\ r.run \in 1..run /\ r.uri \in URIs
                        /\ r.uri.scheme = "file" =>
                             /\ store.local
                             /\ opened["snapshot"][r.uri.at] = r.run
                                  => files["snapshot"][r.uri.at] = r.run
      BY <2>1 DEF ReturnedInv
    <3>1. CASE r \in returned
      BY <3>1 DEF ReturnedInv
    <3>2. CASE r = [run |-> run, uri |-> snapshotURI]
      BY <1>t, <2>4, <2>5, <3>2
    <3> QED
      BY <2>1, <3>1, <3>2
  <2> QED
    BY <2>3, <2>6
<1>9. CASE Clock
  <2>1. UNCHANGED <<stage, run, pc, store, saving, files, opened, snapshotURI, returned>>
    BY <1>9 DEF Clock, ClockAdvances, passVars
  <2> QED
    BY <2>1 DEF RunInv, ReturnedInv, Holds
<1>10. CASE Restart
  <2>1. /\ stage' = "idle" /\ snapshotURI' = NoAnswer /\ saving' = NotSaving
        /\ UNCHANGED <<run, store, files, opened, returned>>
    BY <1>10 DEF Restart, CrashStore, Fresh
  <2>2. saving'.stage = "none"
    BY <2>1 DEF NotSaving
  <2> QED
    BY <2>1, <2>2, NotSavingTyped DEF RunInv, ReturnedInv, Stages
<1>11. CASE UNCHANGED vars
  <2>1. UNCHANGED <<stage, run, pc, store, saving, files, opened, snapshotURI, returned>>
    BY <1>11 DEF vars, passVars, storeVars
  <2> QED
    BY <2>1 DEF RunInv, ReturnedInv, Holds
<1> QED
  BY <1>1, <1>2, <1>3, <1>4, <1>5, <1>6, <1>7, <1>8, <1>9, <1>10, <1>11 DEF Next, Run

\* A returned address of a file loads its run.
LEMMA ReturnedLast == StoreInv /\ ReturnedInv => SnapshotsLast
BY DEF ReturnedInv, SnapshotsLast, Loads

-----------------------------------------------------------------------------
(* What a run leaves behind: the score cache, the predictions, the savings.*)

Cached == {"safe", "candidate", "neutral", "unknown"}

ResultsInv ==
    /\ scores \in [Nodes -> Cached]
    /\ savings.cents \in Int
    /\ \A n \in Nodes : predictions[n].absorbable \in BOOLEAN /\ predictions[n].candidate \in BOOLEAN

\* The cache holds the old entry or the role of the list that names the node.
LEMMA CacheUpdated ==
    ASSUME scores \in [Nodes -> Cached]
    PROVE  UpdateScores \in [Nodes -> Cached]
BY DEF UpdateScores, Cached

-----------------------------------------------------------------------------
(* The estimator's view of a report.  What the safe nodes have left, summed *)
(* up, covers what all pods placed on them ask for, and so what the pods of *)
(* any one candidate ask for.                                               *)
PlacedAmong(K) == UNION {PlacedOn(safeNodes[k]) : k \in K}

SpareAmong(K) ==
    [cpu |-> Total([k \in 1..Len(safeNodes) |-> Spare(cluster, safeNodes[k]).cpu], K),
     mem |-> Total([k \in 1..Len(safeNodes) |-> Spare(cluster, safeNodes[k]).mem], K)]

\* Fewer pods ask for no more.
LEMMA RequestsMonotone ==
    ASSUME NEW pods \in [Pods -> PodInfo], NEW B \in SUBSET Pods, IsFiniteSet(B),
           NEW A \in SUBSET B
    PROVE  Fits(Requests(pods, B), Requests(pods, A))
<1> DEFINE T == {t \in SUBSET B : A \subseteq t /\ ~Fits(Requests(pods, t), Requests(pods, A))}
<1> SUFFICES ASSUME T # {} PROVE FALSE
  OBVIOUS
<1>1. PICK t \in T : \A u \in T : u \subseteq t => u = t
  <2>1. T \subseteq SUBSET B
    OBVIOUS
  <2> HIDE DEF T
  <2> QED
    BY <2>1, SmallestSet
<1>2. t \in SUBSET Pods /\ A \in SUBSET Pods /\ IsFiniteSet(t) /\ IsFiniteSet(A)
  BY FS_Subset
<1>3. Requests(pods, t) \in Quantities /\ Requests(pods, A) \in Quantities
  BY <1>2, RequestsTyped
<1>4. t # A
  BY <1>3 DEF Fits, Quantities
<1>5. PICK q \in t : q \notin A
  BY <1>4
<1>6. t \ {q} \notin T
  BY <1>1, <1>5
<1>7. Fits(Requests(pods, t \ {q}), Requests(pods, A))
  BY <1>5, <1>6
<1>8. Requests(pods, t \ {q}) \in Quantities
  <2>1. t \ {q} \in SUBSET Pods /\ IsFiniteSet(t \ {q})
    BY <1>2, FS_Subset
  <2> QED
    BY <2>1, RequestsTyped
<1>9. Fits(Requests(pods, t), Requests(pods, t \ {q}))
  BY <1>2, <1>5, RequestsBounded
<1> QED
  BY <1>3, <1>7, <1>8, <1>9 DEF Fits, Quantities

\* What is placed on one safe node that is not oversubscribed, it has left.
LEMMA OneNodeCovers ==
    ASSUME PassInv, NEW n \in Nodes, role[n] = "safe", ~Oversubscribed(n)
    PROVE  Fits(Spare(cluster, n), Requests(cluster.pods, PlacedOn(n)))
<1>t. /\ PassTypeInv /\ cluster \in Clusters /\ moved[n] \in Quantities /\ JointInv
      /\ remaining[n] \in Balance
  BY DEF PassInv, DrainInv, ReportInv, CapInv, PassTypeInv, PassTypeOK
<1>s. Spare(cluster, n).cpu \in Int /\ Spare(cluster, n).mem \in Int
  BY <1>t, SnapshotTyped DEF Spare, Minus
<1>1. CASE PlacedOn(n) = {}
  BY <1>1, <1>s, RequestsEmpty DEF Oversubscribed, Fits, Nothing
<1>2. CASE PlacedOn(n) # {}
  <2>1. Requests(cluster.pods, PlacedOn(n)) \in Quantities
    BY <1>t, PlacedOnFinite, ClusterPodsTyped, RequestsTyped
  <2>2. /\ Fits(moved[n], Requests(cluster.pods, PlacedOn(n)))
        /\ remaining[n].cpu >= 0 /\ remaining[n].mem >= 0
    BY <1>t, <1>2 DEF JointInv
  <2>3. remaining[n] = Minus(Spare(cluster, n), moved[n])
    BY DEF PassInv, DrainInv, ReportInv, CapInv, BalanceInv
  <2>4. remaining[n].cpu = Spare(cluster, n).cpu - moved[n].cpu
        /\ remaining[n].mem = Spare(cluster, n).mem - moved[n].mem
    BY <2>3 DEF Minus
  <2> QED
    BY <1>s, <1>t, <2>1, <2>2, <2>4 DEF Fits, Quantities
<1> QED
  BY <1>1, <1>2

\* What some of the safe nodes have left, with one node more.
LEMMA SpareAmongTyped ==
    ASSUME PassInv, NEW K \in SUBSET (1..Len(safeNodes))
    PROVE  /\ IsFiniteSet(K) /\ SpareAmong(K) \in Balance
           /\ \A k \in K : Spare(cluster, safeNodes[k]) \in Balance
<1>t. safeNodes \in Seq(Nodes) /\ Len(safeNodes) \in Nat /\ cluster \in Clusters
  BY PassInvGives DEF PassTypeOK
<1> DEFINE C == [l \in 1..Len(safeNodes) |-> Spare(cluster, safeNodes[l]).cpu]
           M == [l \in 1..Len(safeNodes) |-> Spare(cluster, safeNodes[l]).mem]
<1>1. \A l \in 1..Len(safeNodes) : Spare(cluster, safeNodes[l]) \in Balance
  <2> TAKE l \in 1..Len(safeNodes)
  <2>1. safeNodes[l] \in Nodes
    BY <1>t
  <2> QED
    BY <1>t, <2>1, SpareTyped
<1>2. IsFiniteSet(K)
  <2>1. IsFiniteSet(1..Len(safeNodes))
    BY <1>t, FS_Interval
  <2> QED
    BY <2>1, FS_Subset
<1>3. \A l \in K : C[l] \in Int /\ M[l] \in Int
  BY <1>1 DEF Balance
<1>4. SpareAmong(K) = [cpu |-> Total(C, K), mem |-> Total(M, K)]
  BY DEF SpareAmong
<1> HIDE DEF C, M
<1>5. Total(C, K) \in Int /\ Total(M, K) \in Int
  BY <1>2, <1>3, TotalIsInt
<1> QED
  BY <1>1, <1>2, <1>4, <1>5 DEF Balance

LEMMA OneNodeMore ==
    ASSUME PassInv, NEW K \in SUBSET (1..Len(safeNodes)), NEW k \in K
    PROVE  SpareAmong(K) = Plus(SpareAmong(K \ {k}), Spare(cluster, safeNodes[k]))
<1> DEFINE C == [l \in 1..Len(safeNodes) |-> Spare(cluster, safeNodes[l]).cpu]
           M == [l \in 1..Len(safeNodes) |-> Spare(cluster, safeNodes[l]).mem]
<1>1. /\ \A l \in K : C[l] \in Int /\ M[l] \in Int
      /\ C[k] = Spare(cluster, safeNodes[k]).cpu /\ M[k] = Spare(cluster, safeNodes[k]).mem
  BY SpareAmongTyped DEF Balance
<1>2. /\ SpareAmong(K) = [cpu |-> Total(C, K), mem |-> Total(M, K)]
      /\ SpareAmong(K \ {k}) = [cpu |-> Total(C, K \ {k}), mem |-> Total(M, K \ {k})]
  BY DEF SpareAmong
<1>3. IsFiniteSet(K) /\ IsFiniteSet(K \ {k})
  BY SpareAmongTyped, FS_Subset
<1>4. SpareAmong(K \ {k}).cpu = Total(C, K \ {k}) /\ SpareAmong(K \ {k}).mem = Total(M, K \ {k})
  BY DEF SpareAmong
<1> HIDE DEF C, M
<1>5. /\ Total(C, K) = C[k] + Total(C, K \ {k}) /\ Total(M, K) = M[k] + Total(M, K \ {k})
      /\ Total(C, K \ {k}) \in Int /\ Total(M, K \ {k}) \in Int
      /\ C[k] \in Int /\ M[k] \in Int
  BY <1>1, <1>3, TotalRemove, TotalIsInt
<1>6. Total(C, K) = Total(C, K \ {k}) + C[k] /\ Total(M, K) = Total(M, K \ {k}) + M[k]
  BY <1>5
<1> QED
  BY <1>1, <1>2, <1>4, <1>6 DEF Plus

LEMMA RoomAddsUp ==
    ASSUME NEW a \in Balance, NEW b \in Balance, NEW r \in Quantities, NEW s \in Quantities,
           NEW both \in Quantities, Fits(a, r), Fits(b, s), Fits(Plus(r, s), both)
    PROVE  Fits(Plus(a, b), both)
<1>1. /\ a.cpu \in Int /\ a.mem \in Int /\ b.cpu \in Int /\ b.mem \in Int
      /\ r.cpu \in Int /\ r.mem \in Int /\ s.cpu \in Int /\ s.mem \in Int
      /\ both.cpu \in Int /\ both.mem \in Int
  BY ArithmeticTyped
<1> QED
  BY <1>1 DEF Fits, Plus

LEMMA SpareCovers ==
    ASSUME PassInv, \A l \in 1..Len(safeNodes) : ~Oversubscribed(safeNodes[l]),
           NEW K \in SUBSET (1..Len(safeNodes))
    PROVE  /\ Fits(SpareAmong(K), Requests(cluster.pods, PlacedAmong(K)))
           /\ IsFiniteSet(PlacedAmong(K)) /\ PlacedAmong(K) \in SUBSET Pods
<1>t. /\ safeNodes \in Seq(Nodes) /\ Len(safeNodes) \in Nat /\ cluster \in Clusters
      /\ PassTypeInv /\ JointInv /\ SafeInv
  BY PassInvGives DEF PassTypeOK, PassInv, DrainInv, ReportInv, CapInv
<1>p. cluster.pods \in [Pods -> PodInfo]
  BY <1>t, ClusterPodsTyped
<1>1. \A L \in SUBSET (1..Len(safeNodes)) :
         IsFiniteSet(PlacedAmong(L)) /\ PlacedAmong(L) \in SUBSET Pods
  <2> TAKE L \in SUBSET (1..Len(safeNodes))
  <2>1. PlacedAmong(L) \subseteq Placed
    BY <1>t, ClusterAssumption DEF PlacedAmong, PlacedOn, Placed
  <2> QED
    BY <1>t, <2>1, FS_Subset DEF JointInv, Placed
<1> DEFINE T == {L \in SUBSET (1..Len(safeNodes)) :
                    ~Fits(SpareAmong(L), Requests(cluster.pods, PlacedAmong(L)))}
<1>2. ASSUME T # {} PROVE FALSE
  <2>1. PICK L \in T : \A J \in T : J \subseteq L => J = L
    <3>1. T \subseteq SUBSET (1..Len(safeNodes))
      OBVIOUS
    <3>2. IsFiniteSet(1..Len(safeNodes))
      BY <1>t, FS_Interval
    <3> DEFINE I == 1..Len(safeNodes)
    <3> HIDE DEF T, I
    <3>3. T \subseteq SUBSET I /\ IsFiniteSet(I)
      BY <3>1, <3>2 DEF I
    <3> QED
      BY <1>2, <3>3, SmallestSet
  <2>2. L # {}
    <3> SUFFICES ASSUME L = {} PROVE FALSE
      OBVIOUS
    <3>1. Requests(cluster.pods, PlacedAmong(L)) = Nothing
      BY RequestsEmpty DEF PlacedAmong
    <3>2. SpareAmong(L) = Nothing
      BY TotalEmpty DEF SpareAmong, Nothing
    <3>3. Fits(SpareAmong(L), Requests(cluster.pods, PlacedAmong(L)))
      BY <3>1, <3>2 DEF Fits, Nothing
    <3> QED
      BY <3>3
  <2>3. PICK k \in L : TRUE
    BY <2>2
  <2>4. safeNodes[k] \in Nodes /\ role[safeNodes[k]] = "safe" /\ ~Oversubscribed(safeNodes[k])
    BY <1>t DEF SafeInv
  <2> DEFINE A == PlacedAmong(L \ {k})
             B == PlacedOn(safeNodes[k])
  <2>5. PlacedAmong(L) = A \cup B
    BY DEF PlacedAmong
  <2>6. /\ IsFiniteSet(A) /\ A \in SUBSET Pods /\ IsFiniteSet(B) /\ B \in SUBSET Pods
        /\ IsFiniteSet(A \cup B) /\ A \cup B \in SUBSET Pods
    BY <1>1, <1>t, <2>4, <2>5, PlacedOnFinite
  <2>7. Fits(SpareAmong(L \ {k}), Requests(cluster.pods, A))
    <3>1. L \ {k} \notin T
      BY <2>1, <2>3
    <3> QED
      BY <3>1
  <2>8. Fits(Spare(cluster, safeNodes[k]), Requests(cluster.pods, B))
    BY <2>4, OneNodeCovers
  <2>9. /\ SpareAmong(L) = Plus(SpareAmong(L \ {k}), Spare(cluster, safeNodes[k]))
        /\ SpareAmong(L \ {k}) \in Balance
    BY <2>3, OneNodeMore, SpareAmongTyped
  <2> HIDE DEF A, B, T
  <2>10. Fits(Plus(Requests(cluster.pods, A), Requests(cluster.pods, B)),
              Requests(cluster.pods, A \cup B))
    BY <1>p, <2>6, RequestsUnion
  <2>11. /\ Requests(cluster.pods, A) \in Quantities /\ Requests(cluster.pods, B) \in Quantities
         /\ Requests(cluster.pods, A \cup B) \in Quantities
    BY <1>p, <2>6, RequestsTyped
  <2>12. Spare(cluster, safeNodes[k]) \in Balance
    BY <1>t, <2>4, SpareTyped
  <2>13. Fits(SpareAmong(L), Requests(cluster.pods, A \cup B))
    BY <2>7, <2>8, <2>9, <2>10, <2>11, <2>12, RoomAddsUp
  <2> QED
    BY <2>1, <2>5, <2>13 DEF T
<1> QED
  BY <1>1, <1>2

LEMMA FitsThrough ==
    ASSUME NEW a \in Balance, NEW b \in Quantities, NEW q \in Quantities, Fits(a, b), Fits(b, q)
    PROVE  Fits(a, q)
<1>1. /\ a.cpu \in Int /\ a.mem \in Int /\ b.cpu \in Int /\ b.mem \in Int
      /\ q.cpu \in Int /\ q.mem \in Int
  BY ArithmeticTyped
<1> QED
  BY <1>1 DEF Fits

\* The headroom the estimator is given covers each candidate of the report.
LEMMA HeadroomCovers ==
    ASSUME PassInv, pc = "done", \A l \in 1..Len(safeNodes) : ~Oversubscribed(safeNodes[l]),
           NEW k \in 1..Len(candidateNodes)
    PROVE  Fits(Headroom(cluster, safeNodes), cluster.requested[candidateNodes[k]])
<1> DEFINE n == candidateNodes[k]
           all == 1..Len(safeNodes)
<1>t. /\ n \in Nodes /\ cluster \in Clusters /\ PassTypeInv /\ RolesListedInv /\ pc # "deductFit"
      /\ safeNodes \in Seq(Nodes) /\ candidateNodes \in Seq(Nodes)
      /\ CandidatesDrainCompletely /\ placement \in [Pods -> Nodes \cup {NoNode}]
  BY PassInvGives DEF PassTypeOK, PassInv, DrainInv, ReportInv, CapInv
<1>1. PICK here \in SUBSET Pods : /\ here = ToSet(cluster.podsOn[n])
                                  /\ cluster.requested[n] = Requests(cluster.pods, here)
  BY <1>t, CollectorAssumption
<1>2. here \subseteq PlacedAmong(all)
  <2> SUFFICES ASSUME NEW p \in here PROVE p \in PlacedAmong(all)
    OBVIOUS
  <2>1. PICK l \in 1..Len(PodsOn(n)) : PodsOn(n)[l] = p
    BY <1>1 DEF ToSet, PodsOn
  <2>2. placement[p] # NoNode /\ role[placement[p]] = "safe"
    BY <1>t, <2>1 DEF CandidatesDrainCompletely
  <2>3. placement[p] \in Nodes
    BY <1>t, <2>2
  <2>4. PICK s \in all : safeNodes[s] = placement[p]
    BY <1>t, <2>2, <2>3 DEF RolesListedInv, On
  <2> QED
    BY <2>4 DEF PlacedAmong, PlacedOn
<1>3. /\ Fits(SpareAmong(all), Requests(cluster.pods, PlacedAmong(all)))
      /\ IsFiniteSet(PlacedAmong(all)) /\ PlacedAmong(all) \in SUBSET Pods
  BY SpareCovers
<1>4. Headroom(cluster, safeNodes) = SpareAmong(all)
  BY DEF Headroom, SpareAmong
<1>5. Fits(Requests(cluster.pods, PlacedAmong(all)), cluster.requested[n])
  BY <1>1, <1>2, <1>3, <1>t, ClusterPodsTyped, RequestsMonotone
<1>6. /\ SpareAmong(all) \in Balance
      /\ Requests(cluster.pods, PlacedAmong(all)) \in Quantities
      /\ cluster.requested[n] \in Quantities
  <2>1. cluster.requested[n] \in Quantities
    BY <1>t, CycleAssumption DEF Snapshots
  <2>2. Requests(cluster.pods, PlacedAmong(all)) \in Quantities
    BY <1>3, <1>t, ClusterPodsTyped, RequestsTyped
  <2> QED
    BY <2>1, <2>2, SpareAmongTyped
<1> HIDE DEF n, all
<1>7. Fits(SpareAmong(all), cluster.requested[n])
  BY <1>3, <1>5, <1>6, FitsThrough
<1> QED
  BY <1>4, <1>7 DEF n, all

\* Costs are numbers, and so are sums of them, in mills and in cents.
LEMMA CostTyped ==
    ASSUME NEW S \in SUBSET Nodes
    PROVE  CalculateClusterHourlyCost(S) \in Int
<1>1. IsFiniteSet(S)
  BY ClusterAssumption, FS_Subset
<1> DEFINE w == [n \in Nodes |-> NodeCost(n)]
<1>2. \A n \in S : w[n] \in Int
  BY AccountingAssumption DEF NodeCost, CalculateNodeCost
<1>3. Total(w, S) \in Int
  <2> HIDE DEF w
  <2> QED
    BY <1>1, <1>2, TotalIsInt
<1>4. Sum(NodeCost, S) = Total(w, S)
  BY DEF Sum
<1> HIDE DEF w
<1>5. Mills(Total(w, S)) \in Int
  BY <1>3 DEF Mills, Rounded
<1> QED
  BY <1>4, <1>5 DEF CalculateClusterHourlyCost

LEMMA SavingsTyped == CalculateExperimentSavings(cluster, role).cents \in Int
<1>1. /\ CalculateClusterHourlyCost(Nodes) \in Int
      /\ CalculateClusterHourlyCost(TreatmentNodes(role)) \in Int
  BY CostTyped DEF TreatmentNodes
<1>2. \A a, b \in Int : Rounded(24 * (a - b), 10) \in Int
  BY DEF Rounded
<1> QED
  BY <1>1, <1>2 DEF CalculateExperimentSavings

LEMMA PredictionTyped ==
    ASSUME NEW c, NEW n \in Nodes, NEW threshold, NEW headroom
    PROVE  /\ PredictNode(c, n, threshold, headroom).absorbable \in BOOLEAN
           /\ PredictNode(c, n, threshold, headroom).candidate \in BOOLEAN
<1> DEFINE P == PredictNode(c, n, threshold, headroom)
<1>1. Fits(headroom, c.requested[n]) \in BOOLEAN
  BY DEF Fits
<1>2. CASE n \notin c.eligible \/ \E k \in 1..Len(c.podsOn[n]) : ~c.pods[c.podsOn[n][k]].movable
  BY <1>2 DEF PredictNode, Impossible
<1>3. CASE /\ ~(n \notin c.eligible \/ \E k \in 1..Len(c.podsOn[n]) : ~c.pods[c.podsOn[n][k]].movable)
           /\ c.podsOn[n] = <<>>
  BY <1>1, <1>3 DEF PredictNode, Certain
<1>4. CASE /\ ~(n \notin c.eligible \/ \E k \in 1..Len(c.podsOn[n]) : ~c.pods[c.podsOn[n][k]].movable)
           /\ c.podsOn[n] # <<>>
  <2>1. P.absorbable = Fits(headroom, c.requested[n])
    BY <1>4 DEF PredictNode
  <2>2. \E a, b : P.candidate = (a /\ b)
    BY <1>4 DEF PredictNode
  <2> QED
    BY <1>1, <2>1, <2>2
<1> QED
  BY <1>2, <1>3, <1>4

LEMMA NothingYet ==
    /\ Unknown \in [Nodes -> Cached] /\ NoSavings.cents \in Int
    /\ \A n \in Nodes : Unmade[n].absorbable \in BOOLEAN /\ Unmade[n].candidate \in BOOLEAN
<1>1. Unknown \in [Nodes -> Cached]
  BY DEF Unknown, Cached
<1>2. NoSavings.cents \in Int
  BY DEF NoSavings
<1>3. \A n \in Nodes : Unmade[n].absorbable = FALSE /\ Unmade[n].candidate = FALSE
  BY DEF Unmade, Impossible
<1> QED
  BY <1>1, <1>2, <1>3

LEMMA ResultsInit == Init => ResultsInv
<1> SUFFICES ASSUME Init PROVE ResultsInv
  OBVIOUS
<1>1. scores = Unknown /\ predictions = Unmade /\ savings = NoSavings
  BY DEF Init
<1> QED
  BY <1>1, NothingYet DEF ResultsInv

LEMMA ResultsStep ==
    PassInv /\ RunInv /\ ResultsInv /\ [Next]_vars => ResultsInv'
<1> SUFFICES ASSUME PassInv, RunInv, ResultsInv, [Next]_vars PROVE ResultsInv'
  OBVIOUS
<1>1. CASE RunSimulation \/ Return
  <2>1. predictions' = Unmade /\ savings' = NoSavings /\ UNCHANGED scores
    BY <1>1 DEF RunSimulation, Return, Fresh
  <2> QED
    BY <2>1, NothingYet DEF ResultsInv
<1>2. CASE Restart
  <2>1. predictions' = Unmade /\ savings' = NoSavings /\ scores' = Unknown
    BY <1>2 DEF Restart, Fresh
  <2> QED
    BY <2>1, NothingYet DEF ResultsInv
<1>3. CASE EvaluateStep \/ Select \/ SaveSnapshot \/ Save \/ SnapshotSaved \/ SaveReport \/ Clock
  <2>1. UNCHANGED results
    BY <1>3 DEF EvaluateStep, Select, SaveSnapshot, Save, SnapshotSaved, SaveReport, Clock
  <2> QED
    BY <2>1 DEF ResultsInv, results
<1>4. CASE Predict
  <2>1. /\ predictions' = [n \in Nodes |-> PredictNode(cluster, n, CandidateDrainThreshold,
                                                       Headroom(cluster, safeNodes))]
        /\ UNCHANGED <<scores, savings>>
    BY <1>4 DEF Predict
  <2> QED
    BY <2>1, PredictionTyped DEF ResultsInv
<1>5. CASE Publish
  <2>1. /\ scores' = UpdateScores /\ predictions' = predictions
        /\ savings' = CalculateExperimentSavings(cluster, role)
    BY <1>5 DEF Publish
  <2>2. scores' \in [Nodes -> Cached]
    BY <2>1, CacheUpdated DEF ResultsInv
  <2> QED
    BY <2>1, <2>2, SavingsTyped DEF ResultsInv
<1>6. CASE UNCHANGED vars
  BY <1>6 DEF vars, results, ResultsInv
<1> QED
  BY <1>1, <1>2, <1>3, <1>4, <1>5, <1>6 DEF Next, Run

-----------------------------------------------------------------------------
(* From its making to the end of the run a result is the one computed from *)
(* the finished report, which no later stage touches.                      *)
MadeInv ==
    /\ Predicted =>
         predictions = [n \in Nodes |-> PredictNode(cluster, n, CandidateDrainThreshold,
                                                    Headroom(cluster, safeNodes))]
    /\ stage \in {"snapshot", "saveSnapshot", "report", "saveReport"} =>
         savings = CalculateExperimentSavings(cluster, role)

LEMMA MadeInit == Init => MadeInv
BY DEF Init, MadeInv, Predicted

LEMMA MadeStep == MadeInv /\ [Next]_vars => MadeInv'
<1> SUFFICES ASSUME MadeInv, [Next]_vars PROVE MadeInv'
  OBVIOUS
<1>1. CASE RunSimulation \/ EvaluateStep \/ Select \/ Return \/ Restart
  <2>1. stage' \in {"idle", "evaluate", "select", "predict"}
    BY <1>1 DEF RunSimulation, EvaluateStep, Select, Return, Restart
  <2> QED
    BY <2>1 DEF MadeInv, Predicted
<1>2. CASE Predict
  <2>1. /\ stage' = "publish" /\ UNCHANGED <<cluster, safeNodes>>
        /\ predictions' = [n \in Nodes |-> PredictNode(cluster, n, CandidateDrainThreshold,
                                                       Headroom(cluster, safeNodes))]
    BY <1>2 DEF Predict, passVars, lists
  <2> QED
    BY <2>1 DEF MadeInv, Predicted
<1>3. CASE Publish
  <2>1. /\ stage = "publish" /\ stage' = "snapshot" /\ UNCHANGED <<cluster, safeNodes, role, predictions>>
        /\ savings' = CalculateExperimentSavings(cluster, role)
    BY <1>3 DEF Publish, passVars, lists
  <2> QED
    BY <2>1 DEF MadeInv, Predicted
<1>4. CASE SaveSnapshot \/ Save \/ SnapshotSaved \/ SaveReport
  <2>1. /\ stage \in {"snapshot", "saveSnapshot", "report", "saveReport"}
        /\ UNCHANGED <<cluster, safeNodes, role, predictions, savings>>
    BY <1>4 DEF SaveSnapshot, Save, SnapshotSaved, SaveReport, passVars, lists, results
  <2> QED
    BY <2>1 DEF MadeInv, Predicted
<1>5. CASE Clock \/ UNCHANGED vars
  <2>1. UNCHANGED <<stage, cluster, safeNodes, role, predictions, savings>>
    BY <1>5 DEF Clock, vars, passVars, lists, results
  <2> QED
    BY <2>1 DEF MadeInv, Predicted
<1> QED
  BY <1>1, <1>2, <1>3, <1>4, <1>5 DEF Next, Run

\* What the estimator says of a node it does not rule out.
LEMMA EligiblePredicted ==
    ASSUME NEW n \in cluster.eligible, ~HasUnmovable(n), NEW headroom
    PROVE  LET p == PredictNode(cluster, n, CandidateDrainThreshold, headroom)
           IN  p.verdict # "blocked" /\ p.absorbable = Fits(headroom, cluster.requested[n])
<1>1. ~(\E k \in 1..Len(cluster.podsOn[n]) : ~cluster.pods[cluster.podsOn[n][k]].movable)
  BY DEF HasUnmovable, PodAt, PodsOn
<1>2. CASE cluster.podsOn[n] = <<>>
  BY <1>1, <1>2 DEF PredictNode, Certain
<1>3. CASE cluster.podsOn[n] # <<>>
  BY <1>1, <1>3 DEF PredictNode
<1> QED
  BY <1>2, <1>3

LEMMA EstimatorAgrees == PassInv /\ RunInv /\ MadeInv => CandidatesAbsorbable
<1> SUFFICES ASSUME PassInv, RunInv, MadeInv, Predicted, NEW k \in 1..Len(candidateNodes)
             PROVE  LET p == predictions[candidateNodes[k]] IN
                    /\ p.verdict # "blocked"
                    /\ (\A l \in 1..Len(safeNodes) : ~Oversubscribed(safeNodes[l])) => p.absorbable
  BY DEF CandidatesAbsorbable
<1>1. pc = "done" /\ candidateNodes[k] \in Nodes
  BY PassInvGives DEF RunInv, Predicted, PassTypeOK
<1>2. candidateNodes[k] \in cluster.eligible /\ ~HasUnmovable(candidateNodes[k])
  BY <1>1, ReportIsSound
<1>3. predictions[candidateNodes[k]] =
        PredictNode(cluster, candidateNodes[k], CandidateDrainThreshold, Headroom(cluster, safeNodes))
  BY <1>1 DEF MadeInv
<1> QED
  BY <1>1, <1>2, <1>3, EligiblePredicted, HeadroomCovers

-----------------------------------------------------------------------------
(* The accounts.  Each is the price of the drained nodes: as a difference  *)
(* of two sums, rounded once or twice, or as a number of nodes.            *)
Drained == {n \in Nodes : role[n] = "candidate"}

\* A number of tenths, rounded, is off by half at most.
LEMMA TenthsRounded ==
    \A a \in Int : /\ Rounded(a, 10) \in Int
                   /\ 10 * Rounded(a, 10) <= a + 5 /\ a + 5 < 10 * Rounded(a, 10) + 10
<1> TAKE a \in Int
<1>1. Rounded(a, 10) = (2 * a + 10) \div 20
  BY DEF Rounded
<1>2. (2 * a + 10) \div 20 \in Int
  OBVIOUS
<1>3. 20 * ((2 * a + 10) \div 20) <= 2 * a + 10 /\ 2 * a + 10 < 20 * ((2 * a + 10) \div 20) + 20
  OBVIOUS
<1> QED
  BY <1>1, <1>2, <1>3

\* Three roundings to a mill and one to a cent, over 24 hours.
LEMMA RoundingsAddUp ==
    ASSUME NEW a \in Int, NEW b \in Int
    PROVE  10 * Rounded(24 * (Mills(a) - Mills(b)), 10) - 24 * Mills(a - b) \in -29..29
<1> DEFINE x == Rounded(a, 10)
           y == Rounded(b, 10)
           z == Rounded(a - b, 10)
           c == Rounded(24 * (x - y), 10)
<1>1. /\ x \in Int /\ 10 * x <= a + 5 /\ a + 5 < 10 * x + 10
      /\ y \in Int /\ 10 * y <= b + 5 /\ b + 5 < 10 * y + 10
      /\ z \in Int /\ 10 * z <= (a - b) + 5 /\ (a - b) + 5 < 10 * z + 10
  BY TenthsRounded
<1> HIDE DEF x, y, z
<1>2. c \in Int /\ 10 * c <= 24 * (x - y) + 5 /\ 24 * (x - y) + 5 < 10 * c + 10
  BY <1>1, TenthsRounded
<1> HIDE DEF c
<1>3. x - y - z \in {-1, 0, 1}
  BY <1>1
<1>4. 10 * c - 24 * z \in -29..29
  BY <1>1, <1>2, <1>3
<1> QED
  BY <1>4 DEF Mills, x, y, z, c

\* Without the part A, a sum of costs is short of just that part.
LEMMA CostsWithout ==
    ASSUME NEW w \in [Nodes -> Nat], NEW S \in SUBSET Nodes, NEW A \in SUBSET S
    PROVE  /\ Total(w, S) \in Int /\ Total(w, S \ A) \in Int
           /\ Total(w, S) - Total(w, S \ A) = Total(w, A)
<1>1. IsFiniteSet(S) /\ IsFiniteSet(S \ A) /\ IsFiniteSet(A)
  BY ClusterAssumption, FS_Subset
<1>2. \A n \in S : w[n] \in Int
  OBVIOUS
<1>3. Total(w, S) \in Int /\ Total(w, S \ A) \in Int /\ Total(w, A) \in Int
  <2>1. (\A n \in S \ A : w[n] \in Int) /\ (\A n \in A : w[n] \in Int)
    OBVIOUS
  <2> QED
    BY <1>1, <1>2, <2>1, TotalIsInt
<1>4. Total(w, S) = Total(w, S \ A) + Total(w, A)
  BY <1>1, <1>2, TotalSplit
<1> QED
  BY <1>3, <1>4

\* The two notions of a node's cost differ only for a listed price of zero.
LEMMA CostsAgree ==
    ASSUME NEW n \in Nodes
    PROVE  /\ EvaluatedCost(n) \in Nat /\ NodeCost(n) \in Nat
           /\ HourlyCost[n] > 0 \/ Price[n] # 0 => EvaluatedCost(n) = NodeCost(n)
           /\ NodeCost(n) = DefaultPrice => EvaluatedCost(n) = DefaultPrice
<1>1. /\ HourlyCost[n] \in Nat /\ DefaultPrice \in Nat
      /\ Price[n] = Unlisted \/ (Price[n] \in Nat /\ Price[n] # Unlisted)
  BY AccountingAssumption
<1>2. CASE Price[n] = Unlisted
  BY <1>1, <1>2 DEF EvaluatedCost, NodeCost, CalculateNodeCost
<1>3. CASE Price[n] \in Nat /\ Price[n] # Unlisted
  BY <1>1, <1>3 DEF EvaluatedCost, NodeCost, CalculateNodeCost
<1> QED
  BY <1>1, <1>2, <1>3

\* A finished report's candidates, as a list and as a role.
LEMMA DrainedListed ==
    ASSUME PassInv, pc = "done"
    PROVE  /\ Drained = {candidateNodes[k] : k \in 1..Len(candidateNodes)}
           /\ Drained \subseteq cluster.eligible
           /\ IsFiniteSet(Drained) /\ Cardinality(Drained) = Len(candidateNodes)
<1>t. candidateNodes \in Seq(Nodes) /\ RolesListedInv
  BY PassInvGives DEF PassTypeOK, PassInv
<1> DEFINE D == 1..Len(candidateNodes)
<1>1. Drained = {candidateNodes[k] : k \in D}
  <2>1. \A k \in D : candidateNodes[k] \in Nodes /\ role[candidateNodes[k]] = "candidate"
    BY <1>t, ReportIsSound
  <2>2. \A n \in Drained : \E k \in D : candidateNodes[k] = n
    BY <1>t DEF Drained, RolesListedInv, On
  <2> QED
    BY <2>1, <2>2 DEF Drained
<1>2. Drained \subseteq cluster.eligible
  BY <1>1, ReportIsSound
<1>3. IsFiniteSet(Drained)
  BY ClusterAssumption, FS_Subset DEF Drained
<1>4. IsFiniteSet(D) /\ Cardinality(D) = Len(candidateNodes)
  <2>1. \A m \in Nat : IsFiniteSet(1..m) /\ Cardinality(1..m) = m
    BY FS_Interval
  <2>2. Len(candidateNodes) \in Nat
    BY <1>t
  <2> QED
    BY <2>1, <2>2
<1>5. candidateNodes \in [D -> Drained]
  BY <1>1, <1>t
<1>6. \A k, l \in D : candidateNodes[k] = candidateNodes[l] => k = l
  BY ReportIsSound
<1> HIDE DEF D
<1>7. candidateNodes \in Injection(D, Drained)
  BY <1>5, <1>6, Fun_IsInj
<1>8. candidateNodes \in Surjection(D, Drained)
  BY <1>1, <1>5, Fun_IsSurj
<1>9. Cardinality(Drained) = Cardinality(D)
  BY <1>4, <1>7, <1>8, FS_Surjection
<1> QED
  BY <1>1, <1>2, <1>3, <1>4, <1>9 DEF D

\* The report's account: the price of what it drains, in mills.
LEMMA ReportsDrained ==
    ASSUME PassInv, pc = "done"
    PROVE  PotentialHourlySavings(cluster, role) =
               Mills(Total([n \in Nodes |-> EvaluatedCost(n)], Drained))
<1> DEFINE w == [n \in Nodes |-> EvaluatedCost(n)]
<1>1. w \in [Nodes -> Nat]
  BY CostsAgree
<1>2. cluster.eligible \in SUBSET Nodes
  BY PassInvGives, ClusterTyped DEF PassTypeOK
<1>3. {n \in cluster.eligible : role[n] # "candidate"} = cluster.eligible \ Drained
  BY <1>2 DEF Drained
<1>4. /\ Sum(EvaluatedCost, cluster.eligible) = Total(w, cluster.eligible)
      /\ Sum(EvaluatedCost, cluster.eligible \ Drained) = Total(w, cluster.eligible \ Drained)
  BY DEF Sum
<1> HIDE DEF w
<1>5. Total(w, cluster.eligible) - Total(w, cluster.eligible \ Drained) = Total(w, Drained)
  BY <1>1, <1>2, DrainedListed, CostsWithout
<1>6. PotentialHourlySavings(cluster, role) =
        Mills(Sum(EvaluatedCost, cluster.eligible) - Sum(EvaluatedCost, cluster.eligible \ Drained))
  BY <1>3 DEF PotentialHourlySavings
<1> QED
  BY <1>4, <1>5, <1>6 DEF w

(* The experiment's account rounds what it subtracts, the report's what it *)
(* has subtracted.                                                         *)
LEMMA SavingsAgree ==
    ASSUME PassInv, pc = "done", \A n \in Nodes : HourlyCost[n] > 0 \/ Price[n] # 0
    PROVE  10 * CalculateExperimentSavings(cluster, role).cents
             - 24 * PotentialHourlySavings(cluster, role) \in -29..29
<1> DEFINE w == [n \in Nodes |-> NodeCost(n)]
           v == [n \in Nodes |-> EvaluatedCost(n)]
<1>1. w \in [Nodes -> Nat] /\ v = w
  BY CostsAgree
<1>2. TreatmentNodes(role) = Nodes \ Drained /\ Drained \in SUBSET Nodes
  BY DEF TreatmentNodes, Drained
<1>3. /\ Sum(NodeCost, Nodes) = Total(w, Nodes)
      /\ Sum(NodeCost, Nodes \ Drained) = Total(w, Nodes \ Drained)
  BY DEF Sum
<1>4. PotentialHourlySavings(cluster, role) = Mills(Total(v, Drained))
  BY ReportsDrained
<1> HIDE DEF w, v
<1>5. /\ Total(w, Nodes) \in Int /\ Total(w, Nodes \ Drained) \in Int
      /\ Total(w, Nodes) - Total(w, Nodes \ Drained) = Total(w, Drained)
  BY <1>1, <1>2, CostsWithout
<1>6. CalculateExperimentSavings(cluster, role).cents =
        Rounded(24 * (Mills(Total(w, Nodes)) - Mills(Total(w, Nodes \ Drained))), 10)
  BY <1>2, <1>3 DEF CalculateExperimentSavings, CalculateClusterHourlyCost
<1> DEFINE a == Total(w, Nodes)
           b == Total(w, Nodes \ Drained)
<1>7. a - b = Total(w, Drained) /\ a \in Int /\ b \in Int
  BY <1>5
<1>8. CalculateExperimentSavings(cluster, role).cents = Rounded(24 * (Mills(a) - Mills(b)), 10)
  BY <1>6
<1> HIDE DEF a, b
<1>9. PotentialHourlySavings(cluster, role) = Mills(a - b)
  BY <1>1, <1>4, <1>7
<1> QED
  BY <1>7, <1>8, <1>9, RoundingsAddUp

(* The benchmark's account counts the drained nodes: all that are on no    *)
(* other list, where every node is eligible.                               *)
LEMMA BenchmarkAgrees ==
    ASSUME PassInv, pc = "done", cluster.eligible = Nodes,
           \A n \in Nodes : role[n] = "candidate" => NodeCost(n) = DefaultPrice
    PROVE  BenchmarkHourlySavings(safeNodes, neutralNodes) = PotentialHourlySavings(cluster, role)
<1> DEFINE v == [n \in Nodes |-> EvaluatedCost(n)]
<1>1. \A n \in Drained : v[n] = DefaultPrice
  BY CostsAgree DEF Drained
<1>2. PotentialHourlySavings(cluster, role) = Mills(Total(v, Drained))
  BY ReportsDrained
<1> HIDE DEF v
<1>3. Total(v, Drained) = Cardinality(Drained) * DefaultPrice
  BY <1>1, DrainedListed, TotalOfEqual, AccountingAssumption
<1>4. Cardinality(Nodes) - (Len(safeNodes) + Len(neutralNodes)) = Cardinality(Drained)
  <2>1. /\ Len(safeNodes) \in Nat /\ Len(candidateNodes) \in Nat /\ Len(neutralNodes) \in Nat
        /\ Len(scoredList) \in Nat /\ i \in 1..(Len(scoredList) + 1)
        /\ ListsInv /\ OrderInv
    BY PassInvGives DEF PassTypeOK, PassInv, DrainInv, ReportInv
  <2>2. Settled = Len(scoredList)
    BY <2>1 DEF Settled, ListsInv
  <2>3. Cardinality(Nodes) = Len(safeNodes) + Len(candidateNodes) + Len(neutralNodes)
    BY <2>1, <2>2 DEF OrderInv, ListsInv
  <2>4. Cardinality(Drained) = Len(candidateNodes)
    BY DrainedListed
  <2> QED
    BY <2>1, <2>3, <2>4
<1> QED
  BY <1>2, <1>3, <1>4 DEF BenchmarkHourlySavings

LEMMA AccountsOfReport == PassInv /\ RunInv /\ MadeInv => AccountsAgree
<1> SUFFICES ASSUME PassInv, RunInv, MadeInv,
                    stage \in {"snapshot", "saveSnapshot", "report", "saveReport"}
             PROVE  AccountsAgree
  BY DEF AccountsAgree
<1>1. pc = "done" /\ savings = CalculateExperimentSavings(cluster, role)
  BY DEF RunInv, MadeInv
<1>2. savings.treatment = CalculateProjectedWaste(cluster, candidateNodes)
  <2>1. TreatmentNodes(role) = Nodes \ {candidateNodes[k] : k \in 1..Len(candidateNodes)}
    BY <1>1, DrainedListed DEF TreatmentNodes, Drained
  <2> QED
    BY <1>1, <2>1 DEF CalculateExperimentSavings, CalculateProjectedWaste
<1> QED
  BY <1>1, <1>2, SavingsAgree, BenchmarkAgrees DEF AccountsAgree

-----------------------------------------------------------------------------
(* All of it together.                                                     *)

IInv ==
    /\ PassInv
    /\ SelectionInv
    /\ StoreInv
    /\ RunInv
    /\ ReturnedInv
    /\ ResultsInv
    /\ MadeInv

LEMMA IInvInit == Init => IInv
BY PartsInit, PassInvInit, SelectionInit, StoreInit, RunInit, ResultsInit, MadeInit DEF IInv

LEMMA IInvStep == IInv /\ [Next]_vars => IInv'
<1> SUFFICES ASSUME IInv, [Next]_vars PROVE IInv'
  OBVIOUS
<1>1. cluster \in Clusters /\ run \in Nat
  BY PassInvGives DEF IInv, PassTypeOK, RunInv
<1>2. [PassNext]_passVars /\ [SelectNext]_selectionVars /\ [StoreNext]_storeVars
  BY <1>1, PartsStep
<1> QED
  BY <1>2, PassInvStep, SelectionInvStep, StoreStep, RunStep, ResultsStep, MadeStep DEF IInv

\* Whatever holds where the invariant does holds always.
LEMMA Invariance == Spec => []IInv
<1>1. IInv /\ [Next]_vars => IInv'
  BY IInvStep
<1> QED
  BY <1>1, IInvInit, PTL DEF Spec

LEMMA TypesFollow == IInv => TypeOK
<1> SUFFICES ASSUME IInv PROVE TypeOK
  OBVIOUS
<1>1. PassTypeOK /\ SelectionTypeOK
  BY PassInvGives, SelectionInvGives DEF IInv
<1>2. StoreTypeOK
  BY SavesTyped DEF IInv, StoreInv, StoreTypeOK
<1>3. /\ stage \in Stages /\ run \in 0..MaxRuns
      /\ (saving.stage # "none") <=> (stage \in {"saveSnapshot", "saveReport"})
      /\ \A r \in returned : r.run \in 1..run /\ r.uri \in URIs
  BY DEF IInv, RunInv, ReturnedInv
<1>4. /\ scores \in [Nodes -> Cached]
      /\ \A n \in Nodes : predictions[n].absorbable \in BOOLEAN /\ predictions[n].candidate \in BOOLEAN
      /\ savings.cents \in Int
  BY DEF IInv, ResultsInv
<1> QED
  BY <1>1, <1>2, <1>3, <1>4 DEF TypeOK, Cached

(* Types: every variable of a run and of its parts keeps its type, and the *)
(* store is at work only while the run waits for it.                       *)
THEOREM TypeCorrect == Spec => []TypeOK
<1>1. IInv => TypeOK
  BY TypesFollow
<1> QED
  BY <1>1, Invariance, PTL

(* A drained node's pods have decided destinations: every one was packed   *)
(* into an active node, and no active node is drained, before or after.    *)
THEOREM DestinationsStay == Spec => []DestinationsRemain
<1>1. IInv => DestinationsRemain
  BY SelectionInvGives DEF IInv
<1> QED
  BY <1>1, Invariance, PTL

(* The selection answers about every eligible node and every drained pod,  *)
(* and about nothing else.                                                 *)
THEOREM AnswerComplete == Spec => []AnswerIsComplete
<1>1. IInv => AnswerIsComplete
  BY SelectionInvGives DEF IInv
<1> QED
  BY <1>1, Invariance, PTL

(* SelectConsolidationCandidates keeps the promise of its comment wherever *)
(* names tell the pods of each drained node apart: all that is drained     *)
(* fits, together, where it was packed.                                    *)
THEOREM DrainedPodsFit == Spec => []FitsWhenNamesDiffer
<1>1. IInv => FitsWhenNamesDiffer
  BY SelectionInvGives DEF IInv
<1> QED
  BY <1>1, Invariance, PTL

(* The estimator never contradicts the report: no candidate is blocked in  *)
(* its eyes and, unless a safe node is oversubscribed, the headroom covers *)
(* each of them.                                                           *)
THEOREM CandidatesAreAbsorbable == Spec => []CandidatesAbsorbable
<1>1. IInv => CandidatesAbsorbable
  BY EstimatorAgrees DEF IInv
<1> QED
  BY <1>1, Invariance, PTL

(* The accounts of a run agree: the experiment's with the report's up to   *)
(* four roundings, the waste after with the treatment group's, and the     *)
(* benchmark's with the report's where it may be expected to.              *)
THEOREM AccountsOfRunAgree == Spec => []AccountsAgree
<1>1. IInv => AccountsAgree
  BY AccountsOfReport DEF IInv
<1> QED
  BY <1>1, Invariance, PTL

(* A returned file address loads the snapshot of its run until a later     *)
(* save opens that file, whatever step of the store fails and whenever the *)
(* process is killed.                                                      *)
THEOREM SnapshotsKept == Spec => []SnapshotsLast
<1>1. IInv => SnapshotsLast
  BY ReturnedLast DEF IInv
<1> QED
  BY <1>1, Invariance, PTL
=============================================================================
