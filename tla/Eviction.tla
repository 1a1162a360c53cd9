------------------------------ MODULE Eviction ------------------------------
(***************************************************************************)
(* The eviction controller of internal/eviction/safety.go: PlanEvictions   *)
(* walks the drain candidates of a report, pod by pod, through its safety  *)
(* gates and collects targets, and the controller's cycle then executes or *)
(* only logs them.  In the shipped controller executing a target is a log  *)
(* line and an increment of a counter.                                     *)
(*                                                                         *)
(* Time counts controller ticks.  Planning takes no time.                  *)
(***************************************************************************)
EXTENDS Packing, Sampled

CONSTANTS
    Configs,            \* the EvictionConfigs a process may be started with
    MinAvailableCapacityPct,
    BoundaryAccepted,   \* does 1.0 - used >= pct hold in float64 when exactly pct is left?
    Hour, Cooldown,     \* in ticks
    Never               \* no entry in nodeCooldown

ASSUME EvictionAssumption ==
    /\ Configs \subseteq [Enabled : BOOLEAN, MaxPodsPerHour : Int, MaxConcurrentEvictions : Int]
    /\ MinAvailableCapacityPct \in 0..100
    /\ BoundaryAccepted \in BOOLEAN
    /\ {Hour, Cooldown} \subseteq Nat
    /\ Never \notin Nat

VARIABLES
    config,           \* c.config, and the --eviction-enabled of main
    now,              \* the wall clock
    hourlyPool,       \* evictions left in the window
    poolReset,        \* when the window ends
    nodeCooldown,     \* last recorded eviction of each node
    candidates,       \* its drain candidates, in report order
    safe,             \* its safe nodes, in report order
    stage,            \* where the call is
    ci, pi,           \* indices: candidate, pod of the candidate
    targets,          \* plan.Targets
    errors,           \* plan.SafetyErrors, as <<gate, node or pod>>
    candidateNode,    \* plan.CandidateNode
    feasible,         \* plan.Feasible
    evictionsTotal,   \* the Prometheus counter of executed evictions
    inWindow          \* history: executed evictions since the last pool reset

limiter  == <<config, hourlyPool, poolReset, nodeCooldown>>
inputs   == <<cluster, candidates, safe>>
plan     == <<targets, errors, candidateNode, feasible>>
executed == <<evictionsTotal, inWindow>>
evictionVars == <<now, limiter, inputs, stage, ci, pi, plan, executed>>

Target == [pod : Pods, node : Nodes, dest : Nodes]

-----------------------------------------------------------------------------
(* The gates.                                                              *)

ProtectedNamespaces == {"kube-system", "monitoring"}

ValidatePod(q) ==
    /\ q.ns \notin ProtectedNamespaces
    /\ q.movable
    /\ ~(q.hasPDB /\ q.allowed <= 0)

\* Within the tick in which a cooldown ends it may be over already or not.
MayBeCooling(n) == nodeCooldown[n] # Never /\ now - nodeCooldown[n] <= Cooldown
MayBeReady(n)   == nodeCooldown[n] # Never => now - nodeCooldown[n] >= Cooldown

\* Node n keeps the minimum share of its CPU free with q added; memory is not asked.
KeepsHeadroom(c, n, q) ==
    LET left == 100 * (c.alloc[n].cpu - (c.requested[n].cpu + q.cpu))
        least == MinAvailableCapacityPct * c.alloc[n].cpu
    IN  left > least \/ (left = least /\ BoundaryAccepted)

\* Mutated ValidateClusterCapacity: the headroom test is skipped.
ValidatePackingOnly(c, nodes, q, dest) ==
    \E k \in 1..Len(nodes) : BestFit(c, nodes, q, k) /\ dest = nodes[k]

(* ValidateClusterCapacity: dest is where best fit packs q, and the        *)
(* headroom of that node, and of no other, is tested.                      *)
ValidateClusterCapacity(c, nodes, q, dest) ==
    \E k \in 1..Len(nodes) :
        /\ BestFit(c, nodes, q, k)
        /\ dest = nodes[k]
        /\ KeepsHeadroom(c, dest, q)

-----------------------------------------------------------------------------
(* PlanEvictions.                                                          *)

Pod(p)     == cluster.pods[p]
PodsHere   == PodsOn(candidates[ci])
PodNow     == PodsHere[pi]

InitEviction ==
    /\ config \in Configs
    /\ now = 0
    /\ hourlyPool = config.MaxPodsPerHour
    /\ poolReset = Hour
    /\ nodeCooldown = [n \in Nodes |-> Never]
    /\ stage = "idle"
    /\ ci = 1
    /\ pi = 1
    /\ candidates = <<>>
    /\ safe = <<>>
    /\ targets = <<>>
    /\ errors = {}
    /\ candidateNode = NoNode
    /\ feasible = FALSE
    /\ evictionsTotal = 0
    /\ inWindow = 0

(* The call: refill the pool when its window is over, start an empty plan. *)
(* Within the tick in which the window ends it may be over already or not. *)
BeginPlan(c, cands, safeNames) ==
    /\ stage = "idle"
    /\ \/ /\ now >= poolReset
          /\ hourlyPool' = config.MaxPodsPerHour
          /\ poolReset' = now + Hour
          /\ inWindow' = 0
       \/ /\ now <= poolReset
          /\ UNCHANGED <<hourlyPool, poolReset, inWindow>>
    /\ cluster' = c
    /\ candidates' = cands
    /\ safe' = safeNames
    /\ targets' = <<>>
    /\ errors' = {}
    /\ candidateNode' = NoNode
    /\ feasible' = (cands = <<>>)
    /\ stage' = IF cands = <<>> THEN "planned" ELSE "candidate"
    /\ ci' = 1
    /\ pi' = 1
    /\ UNCHANGED <<config, now, nodeCooldown, evictionsTotal>>

SkipCoolingCandidate ==
    /\ stage = "candidate"
    /\ ci <= Len(candidates)
    /\ MayBeCooling(candidates[ci])
    /\ errors' = errors \cup {<<"cooldown", candidates[ci]>>}
    /\ ci' = ci + 1
    /\ UNCHANGED <<now, limiter, inputs, stage, pi, targets, candidateNode, feasible, executed>>

EnterCandidate ==
    /\ stage = "candidate"
    /\ ci <= Len(candidates)
    /\ MayBeReady(candidates[ci])
    /\ stage' = "pod"
    /\ pi' = 1
    /\ UNCHANGED <<now, limiter, inputs, ci, plan, executed>>

AtPod == stage = "pod" /\ pi <= Len(PodsHere)

BudgetReached ==
    /\ AtPod
    /\ hourlyPool <= 0
    /\ errors' = errors \cup {<<"budget", PodNow>>}
    /\ stage' = "leave"
    /\ UNCHANGED <<now, limiter, inputs, ci, pi, targets, candidateNode, feasible, executed>>

\* Mutated RejectPod: one rejected pod ends the walk over its node.
RejectNode ==
    /\ AtPod
    /\ hourlyPool > 0
    /\ ~ValidatePod(Pod(PodNow))
    /\ errors' = errors \cup {<<"pod", PodNow>>}
    /\ stage' = "leave"
    /\ UNCHANGED <<now, limiter, inputs, ci, pi, targets, candidateNode, feasible, executed>>

\* Mutated RejectPod: the walk does not go on to the next pod.
RejectPodInPlace ==
    /\ AtPod
    /\ hourlyPool > 0
    /\ ~ValidatePod(Pod(PodNow))
    /\ errors' = errors \cup {<<"pod", PodNow>>}
    /\ UNCHANGED <<now, limiter, inputs, stage, ci, pi, targets, candidateNode, feasible, executed>>

RejectPod ==
    /\ AtPod
    /\ hourlyPool > 0
    /\ ~ValidatePod(Pod(PodNow))
    /\ errors' = errors \cup {<<"pod", PodNow>>}
    /\ pi' = pi + 1
    /\ UNCHANGED <<now, limiter, inputs, stage, ci, targets, candidateNode, feasible, executed>>

RefuseForCapacity ==
    /\ AtPod
    /\ hourlyPool > 0
    /\ ValidatePod(Pod(PodNow))
    /\ \A n \in Nodes : ~ValidateClusterCapacity(cluster, safe, Pod(PodNow), n)
    /\ errors' = errors \cup {<<"capacity", PodNow>>}
    /\ pi' = pi + 1
    /\ UNCHANGED <<now, limiter, inputs, stage, ci, targets, candidateNode, feasible, executed>>

\* Mutated AcceptTarget: the walk does not go on to the next pod.
AcceptTargetInPlace ==
    /\ AtPod
    /\ hourlyPool > 0
    /\ ValidatePod(Pod(PodNow))
    /\ \E n \in Nodes :
         /\ ValidateClusterCapacity(cluster, safe, Pod(PodNow), n)
         /\ targets' = Append(targets, [pod |-> PodNow, node |-> candidates[ci], dest |-> n])
    /\ candidateNode' = candidates[ci]
    /\ stage' = IF Len(targets') >= config.MaxConcurrentEvictions THEN "leave" ELSE "pod"
    /\ UNCHANGED <<now, limiter, inputs, ci, pi, errors, feasible, executed>>

(* The pod passes every gate; the plan is full at MaxConcurrentEvictions.  *)
AcceptTarget ==
    /\ AtPod
    /\ hourlyPool > 0
    /\ ValidatePod(Pod(PodNow))
    /\ \E n \in Nodes :
         /\ ValidateClusterCapacity(cluster, safe, Pod(PodNow), n)
         /\ targets' = Append(targets, [pod |-> PodNow, node |-> candidates[ci], dest |-> n])
    /\ candidateNode' = candidates[ci]
    /\ stage' = IF Len(targets') >= config.MaxConcurrentEvictions THEN "leave" ELSE "pod"
    /\ pi' = pi + 1
    /\ UNCHANGED <<now, limiter, inputs, ci, errors, feasible, executed>>

PodsExhausted ==
    /\ stage = "pod"
    /\ pi > Len(PodsHere)
    /\ stage' = "leave"
    /\ UNCHANGED <<now, limiter, inputs, ci, pi, plan, executed>>

\* Mutated LeaveCandidate: the walk goes on after a candidate gave targets.
LeaveAnyCandidate ==
    /\ stage = "leave"
    /\ ci' = ci + 1
    /\ stage' = "candidate"
    /\ UNCHANGED <<now, limiter, inputs, pi, plan, executed>>

\* Mutated LeaveCandidate: the index is advanced twice.
LeaveCandidateTwice ==
    /\ stage = "leave"
    /\ IF targets = <<>>
       THEN ci' = ci + 2
       ELSE ci' = Len(candidates) + 1
    /\ stage' = "candidate"
    /\ UNCHANGED <<now, limiter, inputs, pi, plan, executed>>

(* Only one candidate node is processed per cycle.                         *)
LeaveCandidate ==
    /\ stage = "leave"
    /\ IF targets = <<>>
       THEN ci' = ci + 1
       ELSE ci' = Len(candidates) + 1
    /\ stage' = "candidate"
    /\ UNCHANGED <<now, limiter, inputs, pi, plan, executed>>

FinishPlan ==
    /\ stage = "candidate"
    /\ ci > Len(candidates)
    /\ feasible' = (targets # <<>>)
    /\ stage' = "planned"
    /\ UNCHANGED <<now, limiter, inputs, ci, pi, targets, errors, candidateNode, executed>>

\* Mutated ExecutePlan: the switch is not asked.
ExecuteAnyPlan ==
    /\ stage = "planned"
    /\ evictionsTotal' = evictionsTotal + Len(targets)
    /\ inWindow' = inWindow + Len(targets)
    /\ stage' = "idle"
    /\ UNCHANGED <<now, limiter, inputs, ci, pi, plan>>

(* The cycle carries out a feasible plan: counted when eviction is enabled,*)
(* logged as a dry run otherwise.                                          *)
ExecutePlan ==
    /\ stage = "planned"
    /\ IF feasible /\ config.Enabled
       THEN /\ evictionsTotal' = evictionsTotal + Len(targets)
            /\ inWindow' = inWindow + Len(targets)
       ELSE UNCHANGED executed
    /\ stage' = "idle"
    /\ UNCHANGED <<now, limiter, inputs, ci, pi, plan>>

PlanStep ==
    \/ SkipCoolingCandidate
    \/ EnterCandidate
    \/ BudgetReached
    \/ RejectPod
    \/ RefuseForCapacity
    \/ AcceptTarget
    \/ PodsExhausted
    \/ LeaveCandidate
    \/ FinishPlan

(* The validator has its own lock: its owner records an eviction at any     *)
(* time, in the middle of a plan too.  Nothing in cmd/ ever does.          *)
RecordEviction(n) ==
    /\ nodeCooldown' = [nodeCooldown EXCEPT ![n] = now]
    /\ UNCHANGED <<config, now, hourlyPool, poolReset, inputs, stage, ci, pi, plan, executed>>

(* A new process, perhaps with another configuration: the limiter and the  *)
(* counter start afresh, time goes on.  Whoever restarts it says what      *)
(* becomes of the snapshot.                                                *)
RestartEviction ==
    /\ config' \in Configs
    /\ hourlyPool' = config'.MaxPodsPerHour
    /\ poolReset' = now + Hour
    /\ nodeCooldown' = [n \in Nodes |-> Never]
    /\ candidates' = <<>>
    /\ safe' = <<>>
    /\ targets' = <<>>
    /\ errors' = {}
    /\ candidateNode' = NoNode
    /\ feasible' = FALSE
    /\ stage' = "idle"
    /\ ci' = 1
    /\ pi' = 1
    /\ evictionsTotal' = 0
    /\ inWindow' = 0
    /\ UNCHANGED now

(* What planning relies on: a report's candidates and safe nodes are       *)
(* different nodes, and no candidate is listed twice.                      *)
SoundReport(cands, safeNames) ==
    /\ \A k \in 1..Len(cands), l \in 1..Len(safeNames) : cands[k] # safeNames[l]
    /\ \A k, l \in 1..Len(cands) : k # l => cands[k] # cands[l]

(* And the collector, going through the pod list, names each pod once.     *)
ListsPodsOnce(c) ==
    \A n \in Nodes : \A k, l \in 1..Len(c.podsOn[n]) :
        c.podsOn[n][k] = c.podsOn[n][l] => k = l

\* The plan in the caller's hands, once PlanEvictions has returned it.
Handed == IF stage = "planned" THEN targets ELSE <<>>

-----------------------------------------------------------------------------
(* Properties.                                                             *)

Stages == {"idle", "candidate", "pod", "leave", "planned"}
PlanLimit == IF config.MaxConcurrentEvictions >= 1 THEN config.MaxConcurrentEvictions ELSE 1

(* Every variable keeps its type, and the indices stay on their lists.     *)
EvictionTypeOK ==
    /\ config \in Configs
    /\ now \in Nat
    /\ hourlyPool \in Int
    /\ poolReset \in Nat
    /\ nodeCooldown \in [Nodes -> Nat \cup {Never}]
    /\ cluster \in Snapshots
    /\ candidates \in Seq(Nodes)
    /\ safe \in Seq(Nodes)
    /\ stage \in Stages
    /\ ci \in 1..(Len(candidates) + 1)
    /\ pi \in Nat \ {0}
    /\ targets \in Seq(Target)
    /\ errors \subseteq {"cooldown", "budget", "pod", "capacity"} \X (Nodes \cup Pods)
    /\ candidateNode \in Nodes \cup {NoNode}
    /\ feasible \in BOOLEAN
    /\ evictionsTotal \in Nat
    /\ inWindow \in Nat

\* Target t, for the candidates cands and safe nodes safeNames of snapshot c.
PassesGates(c, cands, safeNames, t) ==
    /\ \E l \in 1..Len(cands) : cands[l] = t.node
    /\ \E l \in 1..Len(c.podsOn[t.node]) : c.podsOn[t.node][l] = t.pod
    /\ ValidatePod(c.pods[t.pod])
    /\ \E l \in 1..Len(safeNames) : safeNames[l] = t.dest
    /\ \A l \in 1..Len(cands) : cands[l] # t.dest
    /\ Accepts(c, t.dest, c.pods[t.pod])
    /\ KeepsHeadroom(c, t.dest, c.pods[t.pod])

(* Each target of the current plan, by itself, is safe: it runs on a       *)
(* candidate of the report, outside the protected namespaces, movable and  *)
(* within its PDB, and goes to a safe node, never to a candidate, that has *)
(* room and CPU headroom for it.                                           *)
TargetsPassGates ==
    stage # "idle" =>
        \A k \in 1..Len(targets) : PassesGates(cluster, candidates, safe, targets[k])

(* Bounded disruption: all targets of a plan leave the one node the plan   *)
(* names, and there are at most MaxConcurrentEvictions of them (one even   *)
(* when that is configured as zero).                                       *)
OneNodePerPlan ==
    /\ \A k \in 1..Len(targets) : targets[k].node = candidateNode
    /\ Len(targets) <= PlanLimit

\* A pod that passes the gates, and the places of such pods in the list of node n.
Evictable(p) ==
    /\ ValidatePod(Pod(p))
    /\ \E n \in Nodes : ValidateClusterCapacity(cluster, safe, Pod(p), n)
Evictables(n) == {k \in 1..Len(PodsOn(n)) : Evictable(PodsOn(n)[k])}
Rank(n, k)    == Cardinality({l \in Evictables(n) : l <= k})

\* The targets ts are the first evictable pods of node n, as many as the limit allows.
AreFirst(ts, n) ==
    LET all == Cardinality(Evictables(n)) IN
    /\ Len(ts) = IF all < PlanLimit THEN all ELSE PlanLimit
    /\ \A k \in Evictables(n) : Rank(n, k) <= Len(ts) => ts[Rank(n, k)].pod = PodsOn(n)[k]

(* A finished plan is the one its inputs define: nothing when the pool is  *)
(* empty or no candidate that was not skipped has an evictable pod, else   *)
(* the first evictable pods, in list order, of the first such candidate;   *)
(* and only nodes with a recorded eviction are skipped.                    *)
PlanIsReferencePlan ==
    stage = "planned" /\ candidates # <<>> =>
        LET skipped  == {n \in Nodes : <<"cooldown", n>> \in errors}
            workable == {k \in 1..Len(candidates) :
                            candidates[k] \notin skipped /\ Evictables(candidates[k]) # {}}
        IN  /\ \A n \in skipped : MayBeCooling(n)
            /\ IF hourlyPool <= 0 \/ workable = {}
               THEN targets = <<>> /\ ~feasible
               ELSE \E k \in workable :
                    /\ \A l \in workable : k <= l
                    /\ feasible
                    /\ candidateNode = candidates[k]
                    /\ AreFirst(targets, candidates[k])

(* "Rate limiter enforces maximum pods per hour": no window of the pool    *)
(* sees more than MaxPodsPerHour evictions.                                *)
HourlyBudget == inWindow <= config.MaxPodsPerHour

(* The plan's error "no safe node has capacity with >= pct% headroom for   *)
(* pod": none of the safe nodes could take the pod and keep the headroom.  *)
RefusalMeansNoRoom ==
    \A p \in Pods :
        stage = "planned" /\ <<"capacity", p>> \in errors =>
            \A k \in 1..Len(safe) :
                ~(Accepts(cluster, safe[k], Pod(p)) /\ KeepsHeadroom(cluster, safe[k], Pod(p)))

(* "Safe nodes must have verified replacement headroom (maintaining at     *)
(* least 20% available capacity)": with all targets of a plan moved, every *)
(* destination still has the minimum share of its CPU free.                *)
ReserveSurvivesPlan ==
    stage = "planned" => \A k \in 1..Len(targets) :
        LET n == targets[k].dest
            arrivals == {targets[l].pod : l \in {m \in 1..Len(targets) : targets[m].dest = n}}
            free == Spare(cluster, n).cpu - Requests(cluster.pods, arrivals).cpu
        IN  100 * free >= MinAvailableCapacityPct * cluster.alloc[n].cpu
=============================================================================
