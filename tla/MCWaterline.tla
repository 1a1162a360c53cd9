----------------------------- MODULE MCWaterline -----------------------------
(***************************************************************************)
(* Four nodes of capacity (4, 4), one of which may be out of service or    *)
(* have no allocatable capacity, and four pods spread in every way the     *)
(* nodes can hold; the largest may be pinned, the smallest may carry a PDB.*)
(* In FloorEdge the floor, of one node, is all there is or more than that. *)
(***************************************************************************)
EXTENDS Waterline, TLC

CONSTANTS n1, n2, n3, n4, p1, p2, p3, p4

MCNodes == {n1, n2, n3, n4}
MCPods  == {p1, p2, p3, p4}
PodList == <<p1, p2, p3, p4>>

CPUOf == (p1 :> 1) @@ (p2 :> 2) @@ (p3 :> 1) @@ (p4 :> 2)
MemOf == (p1 :> 1) @@ (p2 :> 1) @@ (p3 :> 2) @@ (p4 :> 3)

Capacity(n4cap) == [n \in MCNodes |-> IF n = n4 THEN [cpu |-> n4cap, mem |-> 4]
                                                ELSE [cpu |-> 4, mem |-> 4]]

PodsAt(where, pinned, budgeted) ==
    [p \in MCPods |->
        [node |-> where[p], ns |-> "app", cpu |-> CPUOf[p], mem |-> MemOf[p],
         movable |-> AnalyzePodMobility("app", p \in pinned),
         hasPDB |-> p \in budgeted, allowed |-> 1]]

Raw == {BuildClusterState(eligible, Capacity(n4cap), PodsAt(where, pinned, budgeted), PodList) :
            eligible \in {MCNodes, MCNodes \ {n1}}, n4cap \in {0, 4},
            where \in [MCPods -> MCNodes], pinned \in {{}, {p4}}, budgeted \in {{}, {p1}}}

\* No eligible node, fewer than the floor asks for, or the floor alone.
FloorEdge == {BuildClusterState(eligible, Capacity(n4cap), PodsAt(where, pinned, {p1}), PodList) :
                  eligible \in {{}, {n1}, {n4}}, n4cap \in {0, 4},
                  where \in [MCPods -> {n1, n4}], pinned \in {{}, {p4}}}

MCClusters == Raw \cup FloorEdge
=============================================================================
