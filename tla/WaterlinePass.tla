---------------------------- MODULE WaterlinePass ----------------------------
(***************************************************************************)
(* One evaluation pass of internal/waterline/waterline.go: score every     *)
(* eligible node, sort by safety, keep the floor, and let each remaining   *)
(* node become a drain candidate when its pods all fit, first-fit, into    *)
(* what the safe nodes have left.                                          *)
(*                                                                         *)
(* The pass is sequential code; it is cut into one step per node and per   *)
(* pod, so that what holds in the middle of testFit and deductFit can be   *)
(* stated.  The only choice it leaves open is the order of nodes of equal  *)
(* safety: the list is filled from a Go map and sorted by an unstable      *)
(* sort.  Modules Waterline, Controller and Simulation say when a pass is  *)
(* started.                                                                *)
(***************************************************************************)
EXTENDS Cycle

CONSTANTS
    MinNodesFloor,
    CPUWeight, MemoryWeight, ConsolidationWeight, DisruptionWeight   \* percent

ASSUME WaterlineAssumption ==
    /\ MinNodesFloor \in Nat
    /\ {CPUWeight, MemoryWeight, ConsolidationWeight, DisruptionWeight} \subseteq Nat

VARIABLES
    pc,              \* where the pass is
    drainScore,      \* node.DrainScore, in hundredths of a point
    safetyScore,     \* node.SafetyScore, in hundredths of a point
    scoredList,      \* eligible nodes, safest first
    i,               \* index into scoredList
    j,               \* index into the pods of scoredList[i]
    remaining,       \* simCapacities, by node; meaningful for safeNodes
    working,         \* testFit's working copy of remaining
    role,            \* node.Role
    safeNodes, candidateNodes, neutralNodes,   \* the report's lists
    placement,       \* history: where deductFit puts each candidate's pod
    moved            \* history: what deductFit has put on each node

ranking  == <<drainScore, safetyScore, scoredList>>
lists    == <<role, safeNodes, candidateNodes, neutralNodes>>
history  == <<placement, moved>>
passVars == <<cluster, pc, ranking, i, j, remaining, working, lists, history>>

-----------------------------------------------------------------------------
(* Scores.                                                                 *)

Points == 0..10000       \* 0.00 to 100.00

MinOf(a, b) == IF a <= b THEN a ELSE b
MaxOf(a, b) == IF a >= b THEN a ELSE b
ClampAboveOnly(x) == MinOf(10000, x)      \* mutated Clamp: no lower bound
Clamp(x) == MaxOf(0, MinOf(10000, x))
AbsDiff(a, b) == IF a >= b THEN a - b ELSE b - a

PodAt(n, k) == cluster.pods[PodsOn(n)[k]]
HasUnmovable(n) == \E k \in 1..Len(PodsOn(n)) : ~PodAt(n, k).movable

(* The weighted sum of ScoreNode is a fraction of these two integers: the  *)
(* common denominator brings the two headrooms, the share of movable pods  *)
(* and the share of disrupted ones together.  An empty node counts as one  *)
(* movable pod.                                                            *)
PodCount(c, n) == MaxOf(1, Len(c.podsOn[n]))

ScoreDenominator(c, n) == 2 * c.alloc[n].cpu * c.alloc[n].mem * PodCount(c, n)

ScoreNumerator(c, n) ==
    LET A  == c.alloc[n].cpu
        B  == c.alloc[n].mem
        on == 1..Len(c.podsOn[n])
        total    == PodCount(c, n)
        unmovable == Cardinality({k \in on : ~c.pods[c.podsOn[n][k]].movable})
        budgeted  == Cardinality({k \in on : c.pods[c.podsOn[n][k]].hasPDB})
        cpuHead == A - MinOf(A, c.requested[n].cpu)
        memHead == B - MinOf(B, c.requested[n].mem)
    IN  2 * total * (CPUWeight * cpuHead * B + MemoryWeight * memHead * A)
        + ConsolidationWeight * (cpuHead * B + memHead * A) * (total - unmovable)
        + 5 * 2 * total * AbsDiff(cpuHead * B, memHead * A)
        - DisruptionWeight * 2 * A * B * (unmovable + budgeted)

\* Percent to hundredths of a point, rounded half up, within 0..100 points.
DrainScoreOf(c, n) ==
    Clamp((200 * ScoreNumerator(c, n) + ScoreDenominator(c, n)) \div (2 * ScoreDenominator(c, n)))

\* A node without allocatable CPU or memory scores zero on both scales.
NoCapacity(c, n) == c.alloc[n].cpu <= 0 \/ c.alloc[n].mem <= 0

ScoreNode(c, n) == IF NoCapacity(c, n)
                   THEN [drain |-> 0, safety |-> 0]
                   ELSE [drain |-> DrainScoreOf(c, n), safety |-> 10000 - DrainScoreOf(c, n)]

-----------------------------------------------------------------------------
(* The pass.                                                               *)

FloorCount == MinOf(MinNodesFloor, Len(scoredList))
InFloor(n) == \E k \in 1..FloorCount : scoredList[k] = n

StartPass(c) ==
    /\ cluster' = c
    /\ pc' = "score"
    /\ drainScore' = [n \in Nodes |-> 0]
    /\ safetyScore' = [n \in Nodes |-> 0]
    /\ scoredList' = <<>>
    /\ i' = 1
    /\ j' = 1
    /\ remaining' = [n \in Nodes |-> Nothing]
    /\ working' = [n \in Nodes |-> Nothing]
    /\ role' = [n \in Nodes |-> "none"]
    /\ safeNodes' = <<>>
    /\ candidateNodes' = <<>>
    /\ neutralNodes' = <<>>
    /\ placement' = [p \in Pods |-> NoNode]
    /\ moved' = [n \in Nodes |-> Nothing]

InitPass ==
    /\ cluster \in Clusters
    /\ pc = "score"
    /\ drainScore = [n \in Nodes |-> 0]
    /\ safetyScore = [n \in Nodes |-> 0]
    /\ scoredList = <<>>
    /\ i = 1
    /\ j = 1
    /\ remaining = [n \in Nodes |-> Nothing]
    /\ working = [n \in Nodes |-> Nothing]
    /\ role = [n \in Nodes |-> "none"]
    /\ safeNodes = <<>>
    /\ candidateNodes = <<>>
    /\ neutralNodes = <<>>
    /\ placement = [p \in Pods |-> NoNode]
    /\ moved = [n \in Nodes |-> Nothing]

\* Mutated SortedOrders: the list is left in map order.
UnsortedOrders(S, score) ==
    {order \in [1..Cardinality(S) -> S] :
        \A a, b \in 1..Cardinality(S) : a < b => order[a] # order[b]}

\* All orders of S by falling score: ties may come out either way.
SortedOrders(S, score) ==
    {order \in [1..Cardinality(S) -> S] :
        \A a, b \in 1..Cardinality(S) :
            a < b => order[a] # order[b] /\ score[order[a]] >= score[order[b]]}

(* Score the eligible nodes, then sort.Slice by falling safety.            *)
ScoreAndSort ==
    /\ pc = "score"
    /\ drainScore' = [n \in Nodes |->
                        IF n \in cluster.eligible THEN ScoreNode(cluster, n).drain ELSE 0]
    /\ safetyScore' = [n \in Nodes |->
                        IF n \in cluster.eligible THEN ScoreNode(cluster, n).safety ELSE 0]
    /\ scoredList' \in SortedOrders(cluster.eligible, safetyScore')
    /\ pc' = "floor"
    /\ UNCHANGED <<cluster, i, j, remaining, working, lists, history>>

\* Mutated AddSafe: the node offers all it has, whatever already runs on it.
AddSafeIgnoringRequests(n) ==
    /\ role' = [role EXCEPT ![n] = "safe"]
    /\ safeNodes' = Append(safeNodes, n)
    /\ remaining' = [remaining EXCEPT ![n] = cluster.alloc[n]]
    /\ UNCHANGED <<candidateNodes, neutralNodes>>

\* n joins the safe list and offers what it has left to the packing.
AddSafe(n) ==
    /\ role' = [role EXCEPT ![n] = "safe"]
    /\ safeNodes' = Append(safeNodes, n)
    /\ remaining' = [remaining EXCEPT ![n] = Spare(cluster, n)]
    /\ UNCHANGED <<candidateNodes, neutralNodes>>

(* The first minNodes of the list are safe whatever their score.           *)
DesignateFloor ==
    /\ pc = "floor"
    /\ i <= FloorCount
    /\ AddSafe(scoredList[i])
    /\ i' = i + 1
    /\ UNCHANGED <<cluster, pc, ranking, j, working, history>>

FloorDone ==
    /\ pc = "floor"
    /\ i > FloorCount
    /\ pc' = "node"
    /\ UNCHANGED <<cluster, ranking, i, j, remaining, working, lists, history>>

Drainable(n) == ~HasUnmovable(n) /\ drainScore[n] >= CandidateDrainThreshold * 100

\* Mutated ConsiderNode: testFit forgets what earlier candidates took.
ConsiderNodeUndeducted ==
    /\ pc = "node"
    /\ i <= Len(scoredList)
    /\ pc' = IF Drainable(scoredList[i]) THEN "testFit" ELSE "keep"
    /\ working' = [n \in Nodes |-> IF role[n] = "safe" THEN Spare(cluster, n) ELSE Nothing]
    /\ j' = 1
    /\ UNCHANGED <<cluster, ranking, i, remaining, lists, history>>

(* Below the floor: go and test whether a drainable node's pods fit.       *)
ConsiderNode ==
    /\ pc = "node"
    /\ i <= Len(scoredList)
    /\ pc' = IF Drainable(scoredList[i]) THEN "testFit" ELSE "keep"
    /\ working' = remaining
    /\ j' = 1
    /\ UNCHANGED <<cluster, ranking, i, remaining, lists, history>>

\* The k-th safe node is the first one with room for pod.
TakesFirst(room, pod, k) ==
    /\ k \in 1..Len(safeNodes)
    /\ Fits(room[safeNodes[k]], pod)
    /\ \A l \in 1..(k - 1) : ~Fits(room[safeNodes[l]], pod)

NobodyTakes(room, pod) ==
    \A k \in 1..Len(safeNodes) : ~Fits(room[safeNodes[k]], pod)

Candidate == scoredList[i]
MorePods  == j <= Len(PodsOn(Candidate))

(* testFit, one pod at a time on the working copy.                         *)
TestFitPod ==
    /\ pc = "testFit"
    /\ MorePods
    /\ \/ \E k \in 1..Len(safeNodes) :
            /\ TakesFirst(working, PodAt(Candidate, j), k)
            /\ working' = [working EXCEPT ![safeNodes[k]] = Minus(@, PodAt(Candidate, j))]
            /\ j' = j + 1
            /\ pc' = pc
       \/ /\ NobodyTakes(working, PodAt(Candidate, j))
          /\ pc' = "keep"
          /\ UNCHANGED <<j, working>>
    /\ UNCHANGED <<cluster, ranking, i, remaining, lists, history>>

(* All pods fit: the node is a candidate, and deductFit starts.            *)
AcceptCandidate ==
    /\ pc = "testFit"
    /\ ~MorePods
    /\ role' = [role EXCEPT ![Candidate] = "candidate"]
    /\ candidateNodes' = Append(candidateNodes, Candidate)
    /\ pc' = "deductFit"
    /\ j' = 1
    /\ UNCHANGED <<cluster, ranking, i, remaining, working, safeNodes, neutralNodes,
                   history>>

(* deductFit, one pod at a time on the shared capacities; a pod that finds *)
(* no node is passed over in silence.                                      *)
DeductFitPod ==
    /\ pc = "deductFit"
    /\ MorePods
    /\ \/ \E k \in 1..Len(safeNodes) :
            LET n == safeNodes[k]
                pod == PodAt(Candidate, j)
            IN  /\ TakesFirst(remaining, pod, k)
                /\ remaining' = [remaining EXCEPT ![n] = Minus(@, pod)]
                /\ moved' = [moved EXCEPT ![n] = Plus(@, pod)]
                /\ placement' = [placement EXCEPT ![PodsOn(Candidate)[j]] = n]
       \/ /\ NobodyTakes(remaining, PodAt(Candidate, j))
          /\ UNCHANGED <<remaining, history>>
    /\ j' = j + 1
    /\ UNCHANGED <<cluster, pc, ranking, i, working, lists>>

NodeDrained ==
    /\ pc = "deductFit"
    /\ ~MorePods
    /\ pc' = "node"
    /\ i' = i + 1
    /\ UNCHANGED <<cluster, ranking, j, remaining, working, lists, history>>

\* Mutated KeepNode: a node that stays loses its place in the report.
KeepNodeOnlyIfSafe ==
    /\ pc = "keep"
    /\ IF safetyScore[Candidate] > 5000
       THEN AddSafe(Candidate)
       ELSE UNCHANGED <<lists, remaining>>
    /\ pc' = "node"
    /\ i' = i + 1
    /\ UNCHANGED <<cluster, ranking, j, working, history>>

(* The node stays: safe above 50 points of safety, otherwise neutral.      *)
KeepNode ==
    /\ pc = "keep"
    /\ IF safetyScore[Candidate] > 5000
       THEN AddSafe(Candidate)
       ELSE /\ role' = [role EXCEPT ![Candidate] = "neutral"]
            /\ neutralNodes' = Append(neutralNodes, Candidate)
            /\ UNCHANGED <<safeNodes, candidateNodes, remaining>>
    /\ pc' = "node"
    /\ i' = i + 1
    /\ UNCHANGED <<cluster, ranking, j, working, history>>

Finish ==
    /\ pc = "node"
    /\ i > Len(scoredList)
    /\ pc' = "done"
    /\ UNCHANGED <<cluster, ranking, i, j, remaining, working, lists, history>>

Evaluate ==
    \/ ScoreAndSort
    \/ DesignateFloor
    \/ FloorDone
    \/ ConsiderNode
    \/ TestFitPod
    \/ AcceptCandidate
    \/ DeductFitPod
    \/ NodeDrained
    \/ KeepNode
    \/ Finish

-----------------------------------------------------------------------------
(* Properties.                                                             *)

Steps == {"score", "floor", "node", "testFit", "deductFit", "keep", "done"}
Roles == {"none", "safe", "candidate", "neutral"}

(* Every variable keeps its type; scores stay on the 0..100 scale and the  *)
(* loop index never leaves the sorted list by more than one.               *)
PassTypeOK ==
    /\ cluster \in Clusters
    /\ pc \in Steps
    /\ drainScore \in [Nodes -> Points]
    /\ safetyScore \in [Nodes -> Points]
    /\ scoredList \in Seq(Nodes)
    /\ i \in 1..(Len(scoredList) + 1)
    /\ j \in Nat \ {0}
    /\ remaining \in [Nodes -> Balance]
    /\ working \in [Nodes -> Balance]
    /\ role \in [Nodes -> Roles]
    /\ {safeNodes, candidateNodes, neutralNodes} \subseteq Seq(Nodes)
    /\ placement \in [Pods -> Nodes \cup {NoNode}]
    /\ moved \in [Nodes -> Quantities]

(* What all candidates of the report together move onto one node still     *)
(* fits into it next to what the node already runs: the "confirmed         *)
(* replacement capacity" of the candidate's reasons is joint, not per      *)
(* candidate.                                                              *)
CapacityRespected ==
    \A n \in Nodes :
        moved[n] # Nothing => Fits(cluster.alloc[n], Plus(cluster.requested[n], moved[n]))

(* Once the node's deduction is over, every pod of every candidate has a   *)
(* new home on a safe node: testFit and deductFit agree, and no home is    *)
(* itself a candidate.                                                     *)
CandidatesDrainCompletely ==
    pc # "deductFit" =>
        \A k \in 1..Len(candidateNodes) :
            \A l \in 1..Len(PodsOn(candidateNodes[k])) :
                LET home == placement[PodsOn(candidateNodes[k])[l]]
                IN  home # NoNode /\ role[home] = "safe"

(* The finished report names every eligible node in exactly one list, once, *)
(* and node.Role says which.                                               *)
ReportPartitionsEligible ==
    pc = "done" =>
        LET all == safeNodes \o candidateNodes \o neutralNodes IN
        /\ Len(all) = Cardinality(cluster.eligible)
        /\ {all[k] : k \in 1..Len(all)} = cluster.eligible
        /\ \A k \in 1..Len(safeNodes) : role[safeNodes[k]] = "safe"
        /\ \A k \in 1..Len(candidateNodes) : role[candidateNodes[k]] = "candidate"
        /\ \A k \in 1..Len(neutralNodes) : role[neutralNodes[k]] = "neutral"

(* MinNodesFloor nodes, or all when there are fewer, end up safe, and no   *)
(* node that may be drained is safer than one of them.                     *)
FloorIsSafest ==
    pc = "done" =>
        \A k \in 1..FloorCount :
            /\ role[scoredList[k]] = "safe"
            /\ \A n \in cluster.eligible :
                  InFloor(n) \/ safetyScore[scoredList[k]] >= safetyScore[n]

=============================================================================
