----------------------------- MODULE MCEviction -----------------------------
(***************************************************************************)
(* Two drain candidates, two safe nodes, five pods.  The pods of the       *)
(* candidates meet every gate of the planner; s2 is tighter than s1, and   *)
(* in some snapshots only s1 keeps the reserve.                            *)
(***************************************************************************)
EXTENDS EvictionService, TLC

CONSTANTS c1, c2, s1, s2, web, db, agent, batch, filler

MCNodes == {c1, c2, s1, s2}
MCRecorded == {c1, c2}
MCPods  == {web, db, agent, batch, filler}
PodList == <<web, agent, db, batch, filler>>

Capacity == [n \in MCNodes |-> [cpu |-> 10, mem |-> 10]]

MCPod(node, ns, cpu, mem, pinned, hasPDB, allowed) ==
    [node |-> node, ns |-> ns, cpu |-> cpu, mem |-> mem,
     movable |-> AnalyzePodMobility(ns, pinned), hasPDB |-> hasPDB, allowed |-> allowed]

\* The filler pod runs on s2 and decides how tight that node is.
PodsAt(where, allowed, fill) ==
    (web    :> MCPod(c1, "app", 2, 2, FALSE, FALSE, 0)) @@
    (db     :> MCPod(where, "app", 1, 3, FALSE, TRUE, allowed)) @@
    (agent  :> MCPod(where, "monitoring", 1, 1, FALSE, FALSE, 0)) @@
    (batch  :> MCPod(c2, "app", 3, 1, where = c2, FALSE, 0)) @@
    (filler :> MCPod(s2, "app", fill, 5, FALSE, FALSE, 0))

MCSnapshots == {BuildClusterState(MCNodes, Capacity, PodsAt(where, af[1], af[2]), PodList) :
                    where \in {c1, c2}, af \in {<<0, 9>>, <<1, 6>>, <<1, 9>>}}

MCCalls == {[c |-> snap, cands |-> cands, safe |-> safeNames] :
                snap \in MCSnapshots, cands \in {<<>>, <<c2, c1>>},
                safeNames \in {<<s2>>, <<s1, s2>>}}

MCConfigs == {[Enabled |-> TRUE,  MaxPodsPerHour |-> 2, MaxConcurrentEvictions |-> 1],
              [Enabled |-> TRUE,  MaxPodsPerHour |-> 5, MaxConcurrentEvictions |-> 2],
              [Enabled |-> FALSE, MaxPodsPerHour |-> 2, MaxConcurrentEvictions |-> 0],
              [Enabled |-> TRUE,  MaxPodsPerHour |-> 0, MaxConcurrentEvictions |-> 1]}
=============================================================================
