------------------------------- MODULE Sampled -------------------------------
(***************************************************************************)
(* The snapshot in hand: the *ClusterState that the steps of a cycle pass  *)
(* on to one another.                                                      *)
(***************************************************************************)
EXTENDS Cluster

VARIABLE cluster

PodsOn(n) == cluster.podsOn[n]
=============================================================================
