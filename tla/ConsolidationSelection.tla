----------------------- MODULE ConsolidationSelection -----------------------
(***************************************************************************)
(* SelectConsolidationCandidates of internal/consolidation/binpack.go:     *)
(* drain the underutilized nodes one at a time, the emptiest first, by     *)
(* packing all their pods, best-fit decreasing, into the nodes that stay.  *)
(*                                                                         *)
(* It is sequential code, cut into one step per pod.  What it leaves open  *)
(* is the order of the nodes (they come out of a Go map) and the order in  *)
(* which its unstable sorts leave what compares equal.                     *)
(*                                                                         *)
(* Packing and deduction are keyed by the pod's name, without namespace:   *)
(* NameOf says which pods share one.                                       *)
(***************************************************************************)
EXTENDS Packing, Cycle, SequencesExt

CONSTANTS
    Names,                     \* pod names
    NameOf                     \* the name of each pod

\* A snapshot lists a pod on the node it runs on, and on no other.
ASSUME SelectionAssumption ==
    /\ \A c \in Clusters, n \in Nodes : \A k \in 1..Len(c.podsOn[n]) :
          c.pods[c.podsOn[n][k]].node = n
    /\ NameOf \in [Pods -> Names]

VARIABLES
    step,           \* where the selection is
    pool,           \* candidatePool, from the one in hand on
    active,         \* activeNodes, in list order
    requested,      \* Requested of the clones in activeNodes
    podCount,       \* PodCount of the clones in activeNodes
    room, held,     \* of the packing: what each slot has left, the pods it holds
    todo,           \* of the packing, or of the deduction: the pods still to do
    failed,         \* of the packing: some pod found no slot
    assigned,       \* of the packing: Assignments, by name
    drained,        \* drainedNodes
    assignments,    \* allAssignments, by name
    home            \* history: the slot each pod was packed into, by pod

packing  == <<room, held, failed, assigned>>
selected == <<drained, assignments>>
selectionVars == <<cluster, step, pool, active, requested, podCount, packing, todo,
                   selected, home>>

Unassigned == [name \in Names |-> NoNode]

-----------------------------------------------------------------------------
(* Partition and order.                                                    *)

\* part / whole is below the threshold, as a quotient in float64: of 0 by 0
\* and of anything else by 0 no comparison says so.
Below(part, whole) == whole > 0 /\ 100 * part < CandidateDrainThreshold * whole

\* maxLoad < candidateThreshold; a memory quotient that is no number is not compared.
Underutilized(c, n) ==
    /\ Below(c.requested[n].cpu, c.alloc[n].cpu)
    /\ \/ Below(c.requested[n].mem, c.alloc[n].mem)
       \/ c.alloc[n].mem = 0 /\ c.requested[n].mem = 0

Movable(c, n) == \A k \in 1..Len(c.podsOn[n]) : c.pods[c.podsOn[n][k]].movable

PoolNodes(c) == {n \in c.eligible : Movable(c, n) /\ Underutilized(c, n)}

Load(c, n) == c.requested[n].cpu + (c.requested[n].mem \div MiB)

EmptiestFirst(c, S) ==
    {s \in SetToSeqs(S) : \A a, b \in 1..Len(s) : a < b => Load(c, s[a]) <= Load(c, s[b])}

LargestFirst(c, S) ==
    {s \in SetToSeqs(S) :
        \A a, b \in 1..Len(s) : a < b => Weight(c.pods[s[a]]) >= Weight(c.pods[s[b]])}

-----------------------------------------------------------------------------
(* The selection.                                                          *)

StartSelection(c) ==
    /\ cluster' = c
    /\ step' = "partition"
    /\ pool' = <<>>
    /\ active' = <<>>
    /\ requested' = c.requested
    /\ podCount' = [n \in Nodes |-> Len(c.podsOn[n])]
    /\ room' = [n \in Nodes |-> Nothing]
    /\ held' = [n \in Nodes |-> 0]
    /\ todo' = <<>>
    /\ failed' = FALSE
    /\ assigned' = Unassigned
    /\ drained' = <<>>
    /\ assignments' = Unassigned
    /\ home' = [p \in Pods |-> NoNode]

InitSelection ==
    /\ cluster \in Clusters
    /\ step = "partition"
    /\ pool = <<>>
    /\ active = <<>>
    /\ requested = cluster.requested
    /\ podCount = [n \in Nodes |-> Len(cluster.podsOn[n])]
    /\ room = [n \in Nodes |-> Nothing]
    /\ held = [n \in Nodes |-> 0]
    /\ todo = <<>>
    /\ failed = FALSE
    /\ assigned = Unassigned
    /\ drained = <<>>
    /\ assignments = Unassigned
    /\ home = [p \in Pods |-> NoNode]

\* Mutated Partition: the candidates are clones in the active list as well.
PartitionKeepingAll ==
    /\ step = "partition"
    /\ pool' \in EmptiestFirst(cluster, PoolNodes(cluster))
    /\ active' \in SetToSeqs(cluster.eligible)
    /\ step' = "candidate"
    /\ UNCHANGED <<cluster, requested, podCount, packing, todo, selected, home>>

Partition ==
    /\ step = "partition"
    /\ pool' \in EmptiestFirst(cluster, PoolNodes(cluster))
    /\ active' \in SetToSeqs(cluster.eligible \ PoolNodes(cluster))
    /\ step' = "candidate"
    /\ UNCHANGED <<cluster, requested, podCount, packing, todo, selected, home>>

Left(n) == Minus(cluster.alloc[n], requested[n])

(* PackPodsBestFitDecreasing of the next candidate's pods begins.          *)
BeginPacking ==
    /\ step = "candidate"
    /\ pool # <<>>
    /\ room' = [n \in Nodes |-> Left(n)]
    /\ held' = podCount
    /\ todo' \in LargestFirst(cluster, ToSet(PodsOn(Head(pool))))
    /\ failed' = FALSE
    /\ assigned' = Unassigned
    /\ step' = "pack"
    /\ UNCHANGED <<cluster, pool, active, requested, podCount, selected, home>>

\* The slots are the active nodes with something left of both resources when
\* the packing begins; requested stands still while it lasts.
Slot(n) == Left(n).cpu > 0 /\ Left(n).mem > 0

Takes(n, q) == Slot(n) /\ held[n] < MaxPodsPerNode /\ Fits(room[n], q)

\* The k-th active node is the first of the slots that q leaves with the least.
TakesTightest(q, k) ==
    LET residual(l) == Weight(Minus(room[active[l]], q)) IN
    /\ k \in 1..Len(active)
    /\ Takes(active[k], q)
    /\ \A l \in 1..Len(active) :
         Takes(active[l], q) =>
             residual(k) < residual(l) \/ (residual(k) = residual(l) /\ k <= l)

(* One pod.  A pod without a slot fails the packing, which goes on.        *)
PackPod ==
    /\ step = "pack"
    /\ todo # <<>>
    /\ LET p == Head(todo)
           q == cluster.pods[p]
       IN  \/ \E k \in 1..Len(active) :
                /\ TakesTightest(q, k)
                /\ room' = [room EXCEPT ![active[k]] = Minus(@, q)]
                /\ held' = [held EXCEPT ![active[k]] = @ + 1]
                /\ assigned' = [assigned EXCEPT ![NameOf[p]] = active[k]]
                /\ home' = [home EXCEPT ![p] = active[k]]
                /\ UNCHANGED failed
           \/ /\ \A k \in 1..Len(active) : ~Takes(active[k], q)
              /\ failed' = TRUE
              /\ UNCHANGED <<room, held, assigned, home>>
    /\ todo' = Tail(todo)
    /\ UNCHANGED <<cluster, step, pool, active, requested, podCount, selected>>

Merge(new, old) == [name \in Names |-> IF new[name] # NoNode THEN new[name] ELSE old[name]]

(* Every pod was packed: the candidate is drained, and the active nodes    *)
(* are to be charged with its pods.                                        *)
Drain ==
    /\ step = "pack"
    /\ todo = <<>>
    /\ ~failed
    /\ drained' = Append(drained, Head(pool))
    /\ assignments' = Merge(assigned, assignments)
    /\ todo' = PodsOn(Head(pool))
    /\ step' = "deduct"
    /\ UNCHANGED <<cluster, pool, active, requested, podCount, packing, home>>

\* Mutated DeductPod: the clone is charged with a pod, not with its requests.
DeductCount ==
    /\ step = "deduct"
    /\ todo # <<>>
    /\ LET dest == assigned[NameOf[Head(todo)]] IN
         podCount' = [podCount EXCEPT ![dest] = @ + 1]
    /\ todo' = Tail(todo)
    /\ UNCHANGED <<cluster, step, pool, active, requested, packing, selected, home>>

(* One pod of the drained node is charged to the node its name is assigned *)
(* to; the order of the two loops over names and pods makes no difference. *)
DeductPod ==
    /\ step = "deduct"
    /\ todo # <<>>
    /\ LET p == Head(todo)
           dest == assigned[NameOf[p]]
       IN  /\ requested' = [requested EXCEPT ![dest] = Plus(@, cluster.pods[p])]
           /\ podCount' = [podCount EXCEPT ![dest] = @ + 1]
    /\ todo' = Tail(todo)
    /\ UNCHANGED <<cluster, step, pool, active, packing, selected, home>>

NextCandidate ==
    /\ step = "deduct"
    /\ todo = <<>>
    /\ pool' = Tail(pool)
    /\ step' = "candidate"
    /\ UNCHANGED <<cluster, active, requested, podCount, packing, todo, selected, home>>

\* Mutated Retain: what could be packed of a node that stays is still assigned.
RetainAssigned ==
    /\ step = "pack"
    /\ todo = <<>>
    /\ failed
    /\ active' = Append(active, Head(pool))
    /\ assignments' = Merge(assigned, assignments)
    /\ home' = [p \in Pods |-> IF p \in ToSet(PodsOn(Head(pool))) THEN NoNode ELSE home[p]]
    /\ pool' = Tail(pool)
    /\ step' = "candidate"
    /\ UNCHANGED <<cluster, requested, podCount, packing, todo, drained>>

(* Some pod found no slot: the candidate stays, and can take pods of the   *)
(* candidates after it.                                                    *)
Retain ==
    /\ step = "pack"
    /\ todo = <<>>
    /\ failed
    /\ active' = Append(active, Head(pool))
    /\ home' = [p \in Pods |-> IF p \in ToSet(PodsOn(Head(pool))) THEN NoNode ELSE home[p]]
    /\ pool' = Tail(pool)
    /\ step' = "candidate"
    /\ UNCHANGED <<cluster, requested, podCount, packing, todo, selected>>

FinishSelection ==
    /\ step = "candidate"
    /\ pool = <<>>
    /\ step' = "done"
    /\ UNCHANGED <<cluster, pool, active, requested, podCount, packing, todo, selected, home>>

SelectionStep ==
    \/ Partition
    \/ BeginPacking
    \/ PackPod
    \/ Drain
    \/ DeductPod
    \/ NextCandidate
    \/ Retain
    \/ FinishSelection

SelectionSpec == InitSelection /\ [][SelectionStep]_selectionVars

-----------------------------------------------------------------------------
(* Properties.                                                             *)

DrainedPods == UNION {ToSet(PodsOn(n)) : n \in ToSet(drained)}

\* The pods of each drained node have different names.
NamesTellPodsApart ==
    \A n \in ToSet(drained) : \A p, q \in ToSet(PodsOn(n)) : NameOf[p] = NameOf[q] => p = q

(* Every variable keeps its type.                                          *)
SelectionTypeOK ==
    /\ cluster \in Clusters
    /\ step \in {"partition", "candidate", "pack", "deduct", "done"}
    /\ {pool, active, drained} \subseteq Seq(Nodes)
    /\ requested \in [Nodes -> Quantities]
    /\ {podCount, held} \subseteq [Nodes -> Nat]
    /\ room \in [Nodes -> Balance]
    /\ todo \in Seq(Pods)
    /\ failed \in BOOLEAN
    /\ {assigned, assignments} \subseteq [Names -> Nodes \cup {NoNode}]
    /\ home \in [Pods -> Nodes \cup {NoNode}]

(* The pods of all drained nodes together fit, in CPU, memory and number,  *)
(* onto the nodes they were packed into, next to what runs there.          *)
GuaranteedToFit ==
    \A n \in Nodes :
        LET arrivals == {p \in DrainedPods : home[p] = n}
            sum      == Requests(cluster.pods, arrivals)
        IN  arrivals # {} =>
                /\ Fits(cluster.alloc[n], Plus(cluster.requested[n], sum))
                /\ Len(PodsOn(n)) + Cardinality(arrivals) <= MaxPodsPerNode

(* "All their movable workloads are guaranteed to fit onto the remaining   *)
(* active nodes", jointly and after every deduction, as long as no two     *)
(* pods of a drained node share a name: the deductions between two         *)
(* packings then charge every pod to its node.                             *)
FitsWhenNamesDiffer == NamesTellPodsApart => GuaranteedToFit

(* Where a drained node's pods go is decided once and stays open: the      *)
(* destination is an active node, never one that was drained, before or    *)
(* after, and no node is both.                                             *)
DestinationsRemain ==
    /\ \A p \in DrainedPods : home[p] \in ToSet(active)
    /\ ToSet(active) \cap ToSet(drained) = {}

(* The finished answer is complete: the drained nodes and the active ones  *)
(* are the eligible nodes, every drained pod is assigned by name to where  *)
(* it was packed (as far as names tell the pods apart), and nothing else   *)
(* is assigned.                                                            *)
AnswerIsComplete ==
    step = "done" =>
        /\ ToSet(active) \cup ToSet(drained) = cluster.eligible
        /\ \A name \in Names :
             assignments[name] # NoNode <=> \E p \in DrainedPods : NameOf[p] = name
        /\ \A p \in DrainedPods :
             (\A q \in DrainedPods : NameOf[q] = NameOf[p] => q = p) =>
                 assignments[NameOf[p]] = home[p]
=============================================================================
