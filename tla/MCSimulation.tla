---------------------------- MODULE MCSimulation ----------------------------
(***************************************************************************)
(* Five snapshots of four nodes and five pods: pods spread over all nodes, *)
(* a node that holds two pods of one name, two nodes out of service, one   *)
(* oversubscribed, one without memory and one held by a pinned pod.  n1    *)
(* is dear, the others cost the default in the three ways the code finds   *)
(* it; the store is a bucket with local copies, the local disk, or none.   *)
(***************************************************************************)
EXTENDS Simulation

CONSTANTS n1, n2, n3, n4, p1, p2, p3, p4, p5

MCNodes == {n1, n2, n3, n4}
MCPods  == {p1, p2, p3, p4, p5}
PodList == <<p1, p2, p3, p4, p5>>

CPUOf == (p1 :> 4) @@ (p2 :> 1) @@ (p3 :> 2) @@ (p4 :> 3) @@ (p5 :> 1)
MemOf == (p1 :> 3) @@ (p2 :> 2) @@ (p3 :> 1) @@ (p4 :> 1) @@ (p5 :> 3)
NsOf  == [p \in MCPods |-> IF p = p3 THEN "monitoring" ELSE "app"]

MCNames  == {"a", "b", "d", "e"}
MCNameOf == (p1 :> "a") @@ (p2 :> "b") @@ (p3 :> "b") @@ (p4 :> "d") @@ (p5 :> "e")

Cap(cpu, mem) == [cpu |-> cpu, mem |-> mem]
Whole == [n \in MCNodes |-> Cap(8, 8)]

At(a, b, c, d, e) == (p1 :> a) @@ (p2 :> b) @@ (p3 :> c) @@ (p4 :> d) @@ (p5 :> e)

PodsAt(where, pinned) ==
    [p \in MCPods |->
        [node |-> where[p], ns |-> NsOf[p], cpu |-> CPUOf[p], mem |-> MemOf[p],
         movable |-> AnalyzePodMobility(NsOf[p], p \in pinned), hasPDB |-> FALSE, allowed |-> 0]]

Built(eligible, alloc, where, pinned) ==
    BuildClusterState(eligible, alloc, PodsAt(where, pinned), PodList)

MCClusters == {
    Built(MCNodes, Whole, At(n1, n2, n3, n4, n1), {}),
    Built(MCNodes, [Whole EXCEPT ![n1] = Cap(5, 8)], At(n1, n2, n2, n3, n4), {}),
    Built({n1, n2}, [Whole EXCEPT ![n1] = Cap(5, 8)], At(n1, n2, n2, n3, n3), {}),
    Built(MCNodes, [Whole EXCEPT ![n1] = Cap(3, 6)], At(n1, n2, n3, n2, n1), {}),
    Built(MCNodes, [Whole EXCEPT ![n4] = Cap(8, 0)], At(n1, n2, n2, n3, n3), {p4})}

MCHourlyCost == (n1 :> 1925) @@ (n2 :> 960) @@ (n3 :> 0) @@ (n4 :> 0)
MCPrice      == (n1 :> 1920) @@ (n2 :> 1920) @@ (n3 :> 960) @@ (n4 :> Unlisted)
MCUsed       == (n1 :> Cap(3, 6)) @@ (n2 :> Cap(1, 1)) @@ (n3 :> Cap(0, 1)) @@ (n4 :> Cap(1, 0))

MCStores == {[bucket |-> TRUE, local |-> TRUE], [bucket |-> FALSE, local |-> TRUE],
             [bucket |-> FALSE, local |-> FALSE]}
=============================================================================
