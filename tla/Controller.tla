----------------------------- MODULE Controller -----------------------------
(***************************************************************************)
(* The controller process of cmd/controller/main.go: on every tick sample  *)
(* a snapshot, run the waterline evaluation over it, hand the report's     *)
(* candidates and safe nodes to the eviction planner when there are any,   *)
(* and execute the plan.  The process may be killed and restarted at any   *)
(* point; everything it remembers is in memory.                            *)
(*                                                                         *)
(* The evaluation is module WaterlinePass, the planner module Eviction.    *)
(***************************************************************************)
EXTENDS WaterlinePass, Eviction

CONSTANT MaxTime   \* bound: ticks explored

ASSUME ControllerAssumption ==
    /\ MaxTime \in Nat
    /\ \A c \in Clusters : ListsPodsOnce(c)

VARIABLE phase     \* of the cycle: started, simulating, planning, waiting for the tick

planVars == <<limiter, candidates, safe, stage, ci, pi, plan, executed>>
vars     == <<evictionVars, phase, passVars>>

Init ==
    /\ InitPass
    /\ InitEviction
    /\ phase = "simulate"

(* RunSimulation: the steps of the evaluation pass.                        *)
Simulate ==
    /\ phase = "simulate"
    /\ Evaluate
    /\ UNCHANGED <<now, phase, planVars>>

\* Mutated StartPlanning: every scored node is offered as a destination.
StartPlanningOntoAnyNode ==
    /\ phase = "simulate"
    /\ pc = "done"
    /\ candidateNodes # <<>>
    /\ BeginPlan(cluster, candidateNodes, scoredList)
    /\ phase' = "plan"
    /\ UNCHANGED passVars

(* Candidates found: plan their eviction.                                  *)
StartPlanning ==
    /\ phase = "simulate"
    /\ pc = "done"
    /\ candidateNodes # <<>>
    /\ BeginPlan(cluster, candidateNodes, safeNodes)
    /\ phase' = "plan"
    /\ UNCHANGED passVars

(* No candidates: the cycle is over without a call to the planner.         *)
SkipPlanning ==
    /\ phase = "simulate"
    /\ pc = "done"
    /\ candidateNodes = <<>>
    /\ phase' = "wait"
    /\ UNCHANGED <<evictionVars, passVars>>

Plan ==
    /\ phase = "plan"
    /\ PlanStep
    /\ UNCHANGED <<phase, passVars>>

Execute ==
    /\ phase = "plan"
    /\ ExecutePlan
    /\ phase' = "wait"
    /\ UNCHANGED passVars

\* Mutated Tick: the ticker does not wait for the cycle before.
TickAnyway ==
    /\ phase \in {"plan", "wait"}
    /\ now < MaxTime
    /\ now' = now + 1
    /\ \E c \in Clusters : StartPass(c)
    /\ phase' = "simulate"
    /\ UNCHANGED planVars

(* The ticker fires: a fresh snapshot, and the next cycle.                 *)
Tick ==
    /\ phase = "wait"
    /\ now < MaxTime
    /\ now' = now + 1
    /\ \E c \in Clusters : StartPass(c)
    /\ phase' = "simulate"
    /\ UNCHANGED planVars

(* Killed at any point and started again, with nothing but its flags.      *)
Restart ==
    /\ RestartEviction
    /\ StartPass(cluster)
    /\ phase' = "boot"

(* The first cycle of a new process does not wait for the ticker.          *)
FirstCycle ==
    /\ phase = "boot"
    /\ \E c \in Clusters : StartPass(c)
    /\ phase' = "simulate"
    /\ UNCHANGED <<now, planVars>>

Next ==
    \/ Simulate
    \/ StartPlanning
    \/ SkipPlanning
    \/ Plan
    \/ Execute
    \/ Tick
    \/ Restart
    \/ FirstCycle

Spec == Init /\ [][Next]_vars

-----------------------------------------------------------------------------
(* Properties.                                                             *)

(* Every variable of the process keeps its type, the indices of evaluation *)
(* and planner stay on their lists, and no plan is open while the cycle    *)
(* evaluates or waits.                                                     *)
TypeOK ==
    /\ EvictionTypeOK
    /\ PassTypeOK
    /\ phase \in {"boot", "simulate", "plan", "wait"}
    /\ (phase = "plan") <=> (stage # "idle")

(* What the planner relies on and what it returns agree with the report of *)
(* the same cycle: a target leaves a node this cycle's evaluation made a   *)
(* drain candidate, never one of the floor, for a node it kept as safe,    *)
(* both Ready and Schedulable; the waterline had found room for the pod.   *)
TargetsFollowReport ==
    stage # "idle" =>
        /\ SoundReport(candidates, safe)
        /\ \A k \in 1..Len(targets) :
             LET t == targets[k] IN
             /\ role[t.node] = "candidate" /\ ~InFloor(t.node)
             /\ drainScore[t.node] >= 100 * CandidateDrainThreshold
             /\ role[t.dest] = "safe"
             /\ {t.node, t.dest} \subseteq cluster.eligible
             /\ placement[t.pod] # NoNode

(* "One candidate node per cycle": evictions are executed only at the end  *)
(* of a cycle, at most one plan per tick, and only when they are enabled.  *)
ExecutionIsBounded ==
    [][/\ evictionsTotal' > evictionsTotal =>
            config.Enabled /\ phase = "plan" /\ phase' = "wait"
       /\ evictionsTotal' - evictionsTotal <= PlanLimit]_vars

\* The moves the report of this cycle allows on the snapshot it was made from.
Allowed == IF pc = "done"
           THEN {t \in Target : PassesGates(cluster, candidateNodes, safeNodes, t)}
           ELSE {}

P == INSTANCE EvictionPromise WITH
        Moves <- Target,
        offer <- Allowed,
        plan  <- Handed,
        total <- evictionsTotal

(* The process as a whole keeps the promise of module EvictionPromise: a   *)
(* plan that is ready moves different pods off one node, no more than the  *)
(* limit, each by a move that the report of this cycle allows on the       *)
(* snapshot this cycle evaluated; it is carried out once, before the next  *)
(* cycle looks at the cluster, or lost when the process dies.              *)
KeepsPromise == P!Spec
=============================================================================
