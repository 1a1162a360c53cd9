-------------------------- MODULE ControllerProofs --------------------------
(***************************************************************************)
(* What the controller's cycle of module Controller guarantees for every   *)
(* set of snapshots, configurations and ticks: the evaluation and the      *)
(* planner keep their invariants (modules PassProofs and PlannerProofs)    *)
(* though they share the snapshot and are killed together, and what the    *)
(* planner works on is the report of the same cycle.                       *)
(***************************************************************************)
EXTENDS Controller, PassProofs, PlannerProofs

(* While a plan is open the evaluation stands still at its end, and the    *)
(* planner's arguments are the lists of its report.                        *)
HandoverInv ==
    /\ phase \in {"boot", "simulate", "plan", "wait"}
    /\ (phase = "plan") <=> (stage # "idle")
    /\ stage # "idle" =>
          pc = "done" /\ candidates = candidateNodes /\ safe = safeNodes

CycleInv == PassInv /\ PlannerInv /\ HandoverInv

LEMMA EvaluateKeepsCluster == Evaluate => cluster' = cluster
BY DEF Evaluate, ScoreAndSort, DesignateFloor, FloorDone, ConsiderNode, TestFitPod,
       AcceptCandidate, DeductFitPod, NodeDrained, KeepNode, Finish

\* What a cycle works on is one of the snapshots.
LEMMA ClusterInHand == PassInv => cluster \in Clusters /\ cluster \in Snapshots
BY PassInvGives, CycleAssumption DEF PassTypeOK

\* The report of a finished evaluation is what the planner relies on.
LEMMA ReportSoundForPlanner ==
    ASSUME PassInv, pc = "done"
    PROVE  SoundReport(candidateNodes, safeNodes)
BY ReportIsSound DEF SoundReport

LEMMA CycleInit == Init => CycleInv
<1> SUFFICES ASSUME Init PROVE CycleInv
  OBVIOUS
<1>1. PassInv
  BY PassInvInit DEF Init
<1>2. PlannerInv
  BY <1>1, ClusterInHand, PlannerInit DEF Init
<1>3. HandoverInv
  BY DEF Init, InitEviction, HandoverInv
<1> QED
  BY <1>1, <1>2, <1>3 DEF CycleInv

\* To the evaluation, every step of the controller is one of its own or none.
LEMMA CycleTakesPassSteps ==
    ASSUME CycleInv, [Next]_vars
    PROVE  [PassNext]_passVars
<1>1. CASE Simulate
  BY <1>1 DEF Simulate, PassNext
<1>2. CASE Tick
  BY <1>2 DEF Tick, PassNext, StartAnew
<1>3. CASE Restart
  <2>1. cluster \in Clusters
    BY ClusterInHand DEF CycleInv
  <2> QED
    BY <1>3, <2>1 DEF Restart, PassNext, StartAnew
<1>4. CASE FirstCycle
  BY <1>4 DEF FirstCycle, PassNext, StartAnew
<1>5. CASE StartPlanning \/ SkipPlanning \/ Plan \/ Execute \/ UNCHANGED vars
  BY <1>5 DEF StartPlanning, SkipPlanning, Plan, Execute, vars
<1> QED
  BY <1>1, <1>2, <1>3, <1>4, <1>5 DEF Next

\* To the planner, too.
LEMMA CycleTakesPlannerSteps ==
    ASSUME CycleInv, [Next]_vars
    PROVE  [PlannerNext]_evictionVars
<1>1. CASE Simulate
  <2>1. UNCHANGED <<now, planVars, cluster>>
    BY <1>1, EvaluateKeepsCluster DEF Simulate
  <2> QED
    BY <2>1 DEF planVars, evictionVars, inputs
<1>2. CASE StartPlanning
  <2>1. SoundReport(candidateNodes, safeNodes)
    BY <1>2, ReportSoundForPlanner DEF StartPlanning, CycleInv
  <2>2. cluster \in Snapshots /\ candidateNodes \in Seq(Nodes) /\ safeNodes \in Seq(Nodes)
    BY ClusterInHand, PassInvGives DEF CycleInv, PassTypeOK
  <2> QED
    BY <1>2, <2>1, <2>2 DEF StartPlanning, PlannerNext, BeginAny
<1>3. CASE Tick \/ FirstCycle
  <2>1. stage = "idle"
    BY <1>3 DEF Tick, FirstCycle, CycleInv, HandoverInv
  <2>2. now' \in Nat
    BY <1>3, PlannerGives DEF Tick, FirstCycle, CycleInv, EvictionTypeOK
  <2>3. cluster' \in Snapshots
    BY <1>3, CycleAssumption DEF Tick, FirstCycle, StartPass
  <2> QED
    BY <1>3, <2>1, <2>2, <2>3 DEF Tick, FirstCycle, planVars, PlannerNext, Between
<1>4. CASE Plan \/ Execute
  BY <1>4 DEF Plan, Execute, PlannerNext
<1>5. CASE Restart
  <2>1. cluster' \in Snapshots
    BY <1>5, ClusterInHand DEF Restart, StartPass, CycleInv
  <2> QED
    BY <1>5, <2>1 DEF Restart, PlannerNext
<1>6. CASE SkipPlanning \/ UNCHANGED vars
  BY <1>6 DEF SkipPlanning, vars
<1> QED
  BY <1>1, <1>2, <1>3, <1>4, <1>5, <1>6 DEF Next

LEMMA PlanStepStages ==
    ASSUME PlanStep
    PROVE  stage # "idle" /\ stage' # "idle" /\ UNCHANGED <<candidates, safe, executed>>
BY DEF PlanStep, SkipCoolingCandidate, EnterCandidate, BudgetReached, RejectPod,
       RefuseForCapacity, AcceptTarget, PodsExhausted, LeaveCandidate, FinishPlan, AtPod, inputs

LEMMA HandoverStep == CycleInv /\ [Next]_vars => HandoverInv'
<1> SUFFICES ASSUME CycleInv, [Next]_vars PROVE HandoverInv'
  OBVIOUS
<1>h. HandoverInv
  BY DEF CycleInv
<1>1. CASE Simulate
  BY <1>1, <1>h DEF Simulate, planVars, HandoverInv
<1>2. CASE StartPlanning
  BY <1>2 DEF StartPlanning, BeginPlan, passVars, lists, HandoverInv
<1>3. CASE SkipPlanning
  BY <1>3, <1>h DEF SkipPlanning, evictionVars, HandoverInv
<1>4. CASE Plan
  BY <1>4, <1>h, PlanStepStages DEF Plan, passVars, lists, HandoverInv
<1>5. CASE Execute
  BY <1>5 DEF Execute, ExecutePlan, HandoverInv
<1>6. CASE Tick \/ FirstCycle
  BY <1>6, <1>h DEF Tick, FirstCycle, planVars, HandoverInv
<1>7. CASE Restart
  BY <1>7 DEF Restart, RestartEviction, HandoverInv
<1>8. CASE UNCHANGED vars
  BY <1>8, <1>h DEF vars, evictionVars, inputs, passVars, lists, HandoverInv
<1> QED
  BY <1>1, <1>2, <1>3, <1>4, <1>5, <1>6, <1>7, <1>8 DEF Next

LEMMA CycleStep == CycleInv /\ [Next]_vars => CycleInv'
<1> SUFFICES ASSUME CycleInv, [Next]_vars PROVE CycleInv'
  OBVIOUS
<1>1. PassInv'
  BY CycleTakesPassSteps, PassInvStep DEF CycleInv
<1>2. PlannerInv'
  BY CycleTakesPlannerSteps, PlannerStep DEF CycleInv
<1>3. HandoverInv'
  BY HandoverStep
<1> QED
  BY <1>1, <1>2, <1>3 DEF CycleInv

LEMMA CycleCorrect == Spec => []CycleInv
BY CycleInit, CycleStep, PTL DEF Spec

(* Whatever is evaluated, planned, executed or killed, the process keeps   *)
(* its state well typed, and a plan is open in the planning phase only.    *)
THEOREM TypeCorrect == Spec => []TypeOK
<1>1. CycleInv => TypeOK
  BY PassInvGives, PlannerGives DEF CycleInv, HandoverInv, TypeOK
<1> QED
  BY <1>1, CycleCorrect, PTL

(* The waterline's promises survive the composition: a controller that     *)
(* ticks and restarts for ever never proposes more than fits.              *)
THEOREM CapacityInEveryCycle == Spec => []CapacityRespected
<1>1. CycleInv => CapacityRespected
  BY PassInvGives DEF CycleInv
<1> QED
  BY <1>1, CycleCorrect, PTL

(* Every target of every plan leaves a node that this cycle's evaluation   *)
(* made a candidate, at the threshold, outside the floor, for one it kept  *)
(* safe, both Ready and Schedulable; and the evaluation had found room for *)
(* the pod.                                                                *)
THEOREM TargetsAreOfTheReport == Spec => []TargetsFollowReport
<1>1. ASSUME CycleInv, stage # "idle" PROVE SoundReport(candidates, safe)
  BY <1>1 DEF CycleInv, PlannerInv, GatesInv
<1>2. ASSUME CycleInv, stage # "idle", NEW k \in 1..Len(targets)
      PROVE  LET t == targets[k] IN
             /\ role[t.node] = "candidate" /\ ~InFloor(t.node)
             /\ drainScore[t.node] >= 100 * CandidateDrainThreshold
             /\ role[t.dest] = "safe"
             /\ {t.node, t.dest} \subseteq cluster.eligible
             /\ placement[t.pod] # NoNode
  <2> DEFINE t == targets[k]
  <2>1. /\ PassInv /\ pc = "done"
        /\ PassesGates(cluster, candidateNodes, safeNodes, t)
    BY <1>2 DEF CycleInv, HandoverInv, PlannerInv, GatesInv
  <2> HIDE DEF t
  <2>2. PICK c \in 1..Len(candidateNodes) : candidateNodes[c] = t.node
    BY <2>1 DEF PassesGates
  <2>3. PICK s \in 1..Len(safeNodes) : safeNodes[s] = t.dest
    BY <2>1 DEF PassesGates
  <2>4. PICK l \in 1..Len(PodsOn(t.node)) : PodsOn(t.node)[l] = t.pod
    BY <2>1 DEF PassesGates, PodsOn
  <2>5. /\ t.node \in cluster.eligible /\ role[t.node] = "candidate" /\ ~InFloor(t.node)
        /\ drainScore[t.node] >= CandidateDrainThreshold * 100
        /\ placement[t.pod] # NoNode
    <3>1. LET n == candidateNodes[c] IN
          /\ n \in cluster.eligible /\ role[n] = "candidate" /\ ~InFloor(n)
          /\ drainScore[n] >= CandidateDrainThreshold * 100
          /\ \A m \in 1..Len(PodsOn(n)) : placement[PodsOn(n)[m]] # NoNode
      BY <2>1, ReportIsSound
    <3> QED
      BY <2>2, <2>4, <3>1
  <2>6. t.dest \in cluster.eligible /\ role[t.dest] = "safe"
    BY <2>1, <2>3, ReportIsSound
  <2>7. CandidateDrainThreshold * 100 = 100 * CandidateDrainThreshold
    BY CycleAssumption
  <2> QED
    BY <2>5, <2>6, <2>7 DEF t
<1>3. CycleInv => TargetsFollowReport
  BY <1>1, <1>2 DEF TargetsFollowReport
<1> QED
  BY <1>3, CycleCorrect, PTL

(* Every target passes the planner's own gates in the composition too.     *)
THEOREM TargetsPassGatesInEveryCycle == Spec => []TargetsPassGates
<1>1. CycleInv => TargetsPassGates
  BY PlannerGives DEF CycleInv
<1> QED
  BY <1>1, CycleCorrect, PTL

(* One step executes at most one plan, of at most MaxConcurrentEvictions   *)
(* targets, at the end of a cycle, and only when evictions are enabled.    *)
THEOREM ExecutionBounded == Spec => ExecutionIsBounded
<1>1. ASSUME CycleInv, [Next]_vars
      PROVE  /\ evictionsTotal' > evictionsTotal =>
                    config.Enabled /\ phase = "plan" /\ phase' = "wait"
             /\ evictionsTotal' - evictionsTotal <= PlanLimit
  <2>t. /\ evictionsTotal \in Nat /\ Len(targets) \in Nat /\ Len(targets) <= PlanLimit
        /\ PlanLimit \in Nat
    <3>1. config.MaxConcurrentEvictions \in Int /\ evictionsTotal \in Nat /\ targets \in Seq(Target)
      BY <1>1, PlannerGives, EvictionAssumption DEF CycleInv, EvictionTypeOK
    <3>2. Len(targets) <= PlanLimit
      BY <1>1, PlannerGives DEF CycleInv, OneNodePerPlan
    <3> QED
      BY <3>1, <3>2 DEF PlanLimit
  <2>1. CASE Execute
    <3>1. phase = "plan" /\ phase' = "wait"
      BY <2>1 DEF Execute
    <3>2. \/ config.Enabled /\ evictionsTotal' = evictionsTotal + Len(targets)
          \/ evictionsTotal' = evictionsTotal
      BY <2>1 DEF Execute, ExecutePlan, executed
    <3> QED
      BY <2>t, <3>1, <3>2
  <2>2. CASE Restart
    BY <2>t, <2>2 DEF Restart, RestartEviction
  <2>3. CASE evictionsTotal' = evictionsTotal
    BY <2>t, <2>3
  <2> QED
    BY <1>1, <2>1, <2>2, <2>3, PlanStepStages
       DEF Next, Simulate, StartPlanning, BeginPlan, SkipPlanning, Plan, Tick, FirstCycle,
           planVars, vars, evictionVars, executed
<1>2. CycleInv /\ [Next]_vars =>
        [/\ evictionsTotal' > evictionsTotal => config.Enabled /\ phase = "plan" /\ phase' = "wait"
         /\ evictionsTotal' - evictionsTotal <= PlanLimit]_vars
  BY <1>1
<1> QED
  BY <1>2, CycleCorrect, PTL DEF Spec, ExecutionIsBounded

-----------------------------------------------------------------------------
(* The promise.                                                            *)

LEMMA AllowedAreMoves == Allowed \subseteq Target /\ Allowed' \subseteq Target
BY DEF Allowed

LEMMA AllowedKept ==
    ASSUME UNCHANGED passVars
    PROVE  Allowed' = Allowed
BY DEF Allowed, passVars, lists

\* Every plan that becomes ready is one that the report of its cycle allows.
LEMMA CycleAnswers ==
    ASSUME CycleInv', Handed = <<>>, stage' = "planned",
           UNCHANGED <<config, evictionsTotal, passVars>>
    PROVE  P!Answer
<1>1. (/\ Handed \in Seq(Target) /\ Len(Handed) <= PlanLimit
       /\ \A k, l \in 1..Len(Handed) :
             Handed[k].node = Handed[l].node /\ (Handed[k].pod = Handed[l].pod => k = l)
       /\ \A k \in 1..Len(Handed) : PassesGates(cluster, candidates, safe, Handed[k]))'
  <2>1. (cluster \in Clusters)'
    BY ClusterInHand, PTL DEF CycleInv
  <2>2. (PlannerInv /\ stage = "planned" /\ ListsPodsOnce(cluster))'
    BY <2>1, ControllerAssumption DEF CycleInv
  <2> QED
    BY <2>2, HandedIsBounded, PTL
<1>2. P!Bounded(Handed')
  BY <1>1 DEF P!Bounded, P!Limit, PlanLimit
<1>3. \A k \in 1..Len(Handed') : Handed'[k] \in Allowed
  <2>1. (pc = "done" /\ candidates = candidateNodes /\ safe = safeNodes)'
    BY DEF CycleInv, HandoverInv
  <2>2. \A k \in 1..Len(Handed') : Handed'[k] \in Allowed'
    BY <1>1, <2>1 DEF Allowed
  <2> QED
    BY <2>2, AllowedKept
<1> QED
  BY <1>2, <1>3, AllowedKept DEF P!Answer

LEMMA CycleStepKeepsPromise ==
    CycleInv /\ CycleInv' /\ [Next]_vars => [P!Next]_(P!promise)
<1> SUFFICES ASSUME CycleInv, CycleInv', [Next]_vars
             PROVE  P!Next \/ UNCHANGED P!promise
  OBVIOUS
<1>p. [PlannerNext]_evictionVars /\ PlannerInv
  BY CycleTakesPlannerSteps DEF CycleInv
<1>1. CASE Simulate \/ Tick \/ FirstCycle
  <2>1. stage = "idle" /\ UNCHANGED planVars
    BY <1>1 DEF Simulate, Tick, FirstCycle, CycleInv, HandoverInv
  <2>2. Handed = <<>> /\ Handed' = <<>> /\ UNCHANGED <<config, evictionsTotal>>
    BY <2>1 DEF planVars, limiter, executed, Handed
  <2> QED
    BY <2>2, AllowedAreMoves DEF P!Offer, P!Next
<1>2. CASE StartPlanning
  <2>1. Handed = <<>> /\ Handed' = <<>> /\ UNCHANGED <<config, evictionsTotal>>
    BY <1>2 DEF StartPlanning, BeginPlan, Handed
  <2> QED
    BY <2>1, AllowedAreMoves DEF P!Offer, P!Next
<1>3. CASE Plan \/ Execute
  <2>1. UNCHANGED passVars
    BY <1>3 DEF Plan, Execute
  <2> QED
    BY <1>p, <2>1, PlannerSeen, CycleAnswers, AllowedAreMoves, AllowedKept
       DEF P!Next, P!Offer, P!Execute, P!Restart, P!promise
<1>4. CASE Restart
  <2>1. config' \in Configs /\ Handed' = <<>> /\ evictionsTotal' = 0
    BY <1>4 DEF Restart, RestartEviction, Handed
  <2> QED
    BY <2>1, AllowedAreMoves DEF P!Restart, P!Next
<1>5. CASE SkipPlanning \/ UNCHANGED vars
  <2>1. UNCHANGED <<passVars, evictionVars>>
    BY <1>5 DEF SkipPlanning, vars
  <2>2. UNCHANGED <<config, Handed, evictionsTotal>>
    BY <2>1 DEF evictionVars, limiter, plan, executed, Handed
  <2> QED
    BY <2>1, <2>2, AllowedKept DEF P!promise
<1> QED
  BY <1>1, <1>2, <1>3, <1>4, <1>5 DEF Next

(* The controller implements the promise, whatever it samples and whenever *)
(* it is killed: what it executes is a bounded plan of moves that the      *)
(* report of the same cycle allows on the snapshot the cycle evaluated,    *)
(* and no newer snapshot is looked at while such a plan is in hand.        *)
THEOREM CycleKeepsPromise == Spec => KeepsPromise
<1>1. Init => P!Init
  BY DEF Init, InitPass, InitEviction, Handed, Allowed, P!Init
<1> QED
  BY <1>1, CycleCorrect, CycleStepKeepsPromise, PTL DEF Spec, KeepsPromise, P!Spec
=============================================================================
