------------------------------- MODULE Packing -------------------------------
(***************************************************************************)
(* Which node internal/consolidation/binpack.go packs one pod onto: among  *)
(* the nodes with something left of both resources, a free pod slot and    *)
(* room for the pod, the one left with the least, the first on a tie.      *)
(***************************************************************************)
EXTENDS Cluster

CONSTANTS
    MaxPodsPerNode,   \* 110 in every call the code makes
    MiB               \* memory units per MiB: the residual divides by 1024*1024

ASSUME PackingAssumption == MaxPodsPerNode \in Nat \ {0} /\ MiB \in Nat \ {0}

\* The composite cost: 4 per millicore, 1 per whole MiB.
Weight(q) == 4 * q.cpu + (q.mem \div MiB)

\* Node n of snapshot c is a slot the pod q can take.
Accepts(c, n, q) ==
    /\ Spare(c, n).cpu > 0
    /\ Spare(c, n).mem > 0
    /\ Len(c.podsOn[n]) < MaxPodsPerNode
    /\ Fits(Spare(c, n), q)

Residual(c, n, q) == Weight(Minus(Spare(c, n), q))

(* PackPodsBestFitDecreasing of the single pod q into the list nodes puts  *)
(* it on the k-th of them.                                                 *)
BestFit(c, nodes, q, k) ==
    /\ k \in 1..Len(nodes)
    /\ Accepts(c, nodes[k], q)
    /\ \A l \in 1..Len(nodes) :
         Accepts(c, nodes[l], q) =>
             \/ Residual(c, nodes[k], q) < Residual(c, nodes[l], q)
             \/ Residual(c, nodes[k], q) = Residual(c, nodes[l], q) /\ k <= l

Unpacked(c, nodes, q) == \A k \in 1..Len(nodes) : ~Accepts(c, nodes[k], q)
=============================================================================
