---------------------------- MODULE MCController ----------------------------
(***************************************************************************)
(* Three nodes of capacity (10, 10) and four pods: enough for a drain      *)
(* candidate with two pods, one of them in a protected namespace or        *)
(* without disruptions left in some snapshots, and for two safe nodes of   *)
(* different tightness.                                                    *)
(***************************************************************************)
EXTENDS Controller, TLC

CONSTANTS n1, n2, n3, web, db, api, job

MCNodes == {n1, n2, n3}
MCPods  == {web, db, api, job}
PodList == <<web, db, api, job>>

MCCapacity == [n \in MCNodes |-> [cpu |-> 10, mem |-> 10]]

MCPod(node, ns, cpu, mem, allowed) ==
    [node |-> node, ns |-> ns, cpu |-> cpu, mem |-> mem,
     movable |-> AnalyzePodMobility(ns, FALSE), hasPDB |-> allowed = 0, allowed |-> allowed]

PodsAt(webNode, dbNS, apiCPU, jobCPU, allowed) ==
    (web :> MCPod(webNode, "app", 1, 2, 1)) @@
    (db  :> MCPod(n1, dbNS, 1, 1, allowed)) @@
    (api :> MCPod(n2, "app", apiCPU, 7, 1)) @@
    (job :> MCPod(n3, "app", jobCPU, 6, 1))

MCClusters ==
    {BuildClusterState(eligible, MCCapacity,
                       PodsAt(webNode, dbKind[1], apiCPU, jobCPU, dbKind[2]), PodList) :
        eligible \in {MCNodes, {n1, n3}}, webNode \in {n1, NoNode},
        dbKind \in {<<"app", 1>>, <<"app", 0>>, <<"monitoring", 1>>},
        apiCPU \in {5, 9}, jobCPU \in {6, 10}}

DefaultConfig == [Enabled |-> TRUE,  MaxPodsPerHour |-> 2, MaxConcurrentEvictions |-> 1]
MCConfigs == {DefaultConfig,
              [Enabled |-> FALSE, MaxPodsPerHour |-> 2, MaxConcurrentEvictions |-> 1],
              [Enabled |-> TRUE,  MaxPodsPerHour |-> 5, MaxConcurrentEvictions |-> 2]}
Shipped == {DefaultConfig}

\* As tests/integration/controller_integration_test.go sets it up.
Parallel == {[Enabled |-> TRUE, MaxPodsPerHour |-> 10, MaxConcurrentEvictions |-> 2]}

\* One snapshot more: two pods on n1, either of which leaves n3 three tenths of its CPU.
MCCrowded ==
    MCClusters \cup
    {BuildClusterState(MCNodes, MCCapacity,
                       [PodsAt(n1, "app", 3, 5, 1) EXCEPT ![web].cpu = 2, ![db].cpu = 2], PodList)}
=============================================================================
