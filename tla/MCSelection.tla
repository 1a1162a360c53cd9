----------------------------- MODULE MCSelection -----------------------------
(***************************************************************************)
(* Four nodes of capacity (4, 8) and five pods, two pinned to n1 and n2    *)
(* and the others anywhere; p2 and p3 share a name, in different           *)
(* namespaces.                                                             *)
(***************************************************************************)
EXTENDS ConsolidationSelection

CONSTANTS n1, n2, n3, n4, p1, p2, p3, p4, p5

MCNodes == {n1, n2, n3, n4}
MCPods  == {p1, p2, p3, p4, p5}
PodList == <<p1, p2, p3, p4, p5>>

CPUOf == (p1 :> 2) @@ (p2 :> 2) @@ (p3 :> 1) @@ (p4 :> 1) @@ (p5 :> 1)
MemOf == (p1 :> 3) @@ (p2 :> 1) @@ (p3 :> 2) @@ (p4 :> 1) @@ (p5 :> 5)

NsOf  == [p \in MCPods |-> IF p = p3 THEN "monitoring" ELSE "app"]

MCNameOf == (p1 :> "a") @@ (p2 :> "b") @@ (p3 :> "b") @@ (p4 :> "d") @@ (p5 :> "e")
MCNames  == {"a", "b", "d", "e"}

PodsAt(where) ==
    [p \in MCPods |->
        [node |-> where[p], ns |-> NsOf[p], cpu |-> CPUOf[p], mem |-> MemOf[p],
         movable |-> AnalyzePodMobility(NsOf[p], p \in {p1, p4}), hasPDB |-> FALSE, allowed |-> 0]]

MCClusters == {BuildClusterState(MCNodes, [n \in MCNodes |-> [cpu |-> 4, mem |-> 8]],
                                 PodsAt(where), PodList) :
                  where \in {w \in [MCPods -> MCNodes] : w[p1] = n1 /\ w[p4] = n2}}
=============================================================================
