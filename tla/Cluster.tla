------------------------------- MODULE Cluster -------------------------------
(***************************************************************************)
(* The cluster snapshot every other component works from: what             *)
(* internal/cluster/collector.go builds out of the nodes and pods it is    *)
(* given, and the arithmetic on (CPU, memory) pairs the packing code       *)
(* shares.                                                                 *)
(*                                                                         *)
(* A snapshot is a record with the fields                                  *)
(*   eligible   the nodes that are Ready and Schedulable,                  *)
(*   alloc      what each node can hold,                                   *)
(*   requested  what the pods on each node ask for, summed,                *)
(*   pods       the attributes of every pod,                               *)
(*   podsOn     the pods of each node in the order of the pod list.        *)
(* Actual usage, cost and the cluster totals are left out.                 *)
(***************************************************************************)
EXTENDS Integers, FiniteSets, Sequences, FiniteSetsExt

CONSTANTS
    Nodes,     \* node names
    Pods,      \* pods, each standing for one (namespace, name) pair
    NoNode     \* the empty NodeName of a pod that runs nowhere

ASSUME ClusterAssumption ==
    /\ IsFiniteSet(Nodes)
    /\ Nodes # {}
    /\ NoNode \notin Nodes

Quantities == [cpu : Nat, mem : Nat]
Balance    == [cpu : Int, mem : Int]      \* may be negative when oversubscribed
Nothing    == [cpu |-> 0, mem |-> 0]

Namespaces       == {"app", "kube-system", "monitoring"}
SystemNamespaces == {"kube-system"}

PodInfo == [node : Nodes \cup {NoNode}, ns : Namespaces, cpu : Nat, mem : Nat,
            movable : BOOLEAN, hasPDB : BOOLEAN, allowed : Nat]

Snapshots == [eligible : SUBSET Nodes,
              alloc : [Nodes -> Quantities],
              requested : [Nodes -> Quantities],
              pods : [Pods -> PodInfo],
              podsOn : [Nodes -> Seq(Pods)]]

-----------------------------------------------------------------------------
(* Arithmetic on pairs; q may be any record with cpu and mem, a pod too.   *)

Fits(room, q)  == room.cpu >= q.cpu /\ room.mem >= q.mem
Minus(room, q) == [cpu |-> room.cpu - q.cpu, mem |-> room.mem - q.mem]
Plus(room, q)  == [cpu |-> room.cpu + q.cpu, mem |-> room.mem + q.mem]

\* The sum of w[x] over the elements x of the finite set S.
Total(w, S) == MapThenSumSet(LAMBDA x : w[x], S)

\* What the pods of the set S ask for together.
Requests(pods, S) == [cpu |-> Total([p \in Pods |-> pods[p].cpu], S),
                      mem |-> Total([p \in Pods |-> pods[p].mem], S)]

\* What a node has left, negative when it is oversubscribed.
Spare(c, n) == Minus(c.alloc[n], c.requested[n])

-----------------------------------------------------------------------------
(* AnalyzePodMobility: `pinned` stands for the four constraints (DaemonSet, *)
(* hostPort, local storage, standalone) that each make a pod unmovable.    *)
AnalyzePodMobility(ns, pinned) == ns \notin SystemNamespaces /\ ~pinned

(* BuildClusterState: index the pod list by node and recompute what each   *)
(* node has requested from the pods that run on it.                        *)
BuildClusterState(eligible, alloc, pods, podList) ==
    LET On(n) == {p \in Pods : pods[p].node = n} IN
    [eligible  |-> eligible,
     alloc     |-> alloc,
     pods      |-> pods,
     podsOn    |-> [n \in Nodes |-> SelectSeq(podList, LAMBDA p : pods[p].node = n)],
     requested |-> [n \in Nodes |-> Requests(pods, On(n))]]
=============================================================================
