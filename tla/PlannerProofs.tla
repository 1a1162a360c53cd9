---------------------------- MODULE PlannerProofs ----------------------------
(***************************************************************************)
(* What the eviction planner of module Eviction guarantees for every set   *)
(* of nodes, pods, reports and configurations, as inductive invariants of  *)
(* its steps: type correctness, one node per plan, that each target of a   *)
(* plan passes the gates, and that a plan is the one its inputs define.    *)
(*                                                                         *)
(* Whoever calls the planner, a test harness or the controller's cycle,    *)
(* takes the steps of PlannerNext on its variables; the theorems about     *)
(* them cite the lemmas of this module.                                    *)
(***************************************************************************)
EXTENDS Eviction, SequenceTheorems, FiniteSetTheorems, TLAPS

\* PlanEvictions is called with a sound report.
BeginAny ==
    \E c \in Snapshots, cands \in Seq(Nodes), safeNames \in Seq(Nodes) :
        SoundReport(cands, safeNames) /\ BeginPlan(c, cands, safeNames)

RecordAny == \E n \in Nodes : RecordEviction(n)

\* Between two plans the clock and the caller's snapshot may change.
Between ==
    /\ stage = "idle"
    /\ now' \in Nat
    /\ cluster' \in Snapshots
    /\ UNCHANGED <<limiter, candidates, safe, stage, ci, pi, plan, executed>>

PlannerNext ==
    \/ BeginAny
    \/ PlanStep
    \/ ExecutePlan
    \/ RecordAny
    \/ Between
    \/ RestartEviction /\ cluster' \in Snapshots

-----------------------------------------------------------------------------
(* The type invariant is not inductive by itself: a candidate is left by   *)
(* ci + 1, and the pod under examination is read from candidates[ci], so   *)
(* the index must be on the list while a candidate is being worked on.     *)
AtCandidate == stage \in {"pod", "leave"} => ci <= Len(candidates)

PlannerTypeInv == EvictionTypeOK /\ AtCandidate

\* Where PlanEvictions stands, the pod in hand and its node are what they seem.
LEMMA PodNowTyped ==
    ASSUME PlannerTypeInv, stage = "pod", pi <= Len(PodsHere)
    PROVE  /\ candidates[ci] \in Nodes
           /\ PodsHere \in Seq(Pods)
           /\ PodNow \in Pods
<1>1. ci \in 1..Len(candidates)
  BY DEF PlannerTypeInv, EvictionTypeOK, AtCandidate
<1>2. candidates[ci] \in Nodes
  BY <1>1 DEF PlannerTypeInv, EvictionTypeOK
<1>3. cluster.podsOn \in [Nodes -> Seq(Pods)]
  BY DEF PlannerTypeInv, EvictionTypeOK, Snapshots
<1>4. PodsHere \in Seq(Pods)
  BY <1>2, <1>3 DEF PodsHere, PodsOn
<1>5. pi \in 1..Len(PodsHere)
  BY <1>4 DEF PlannerTypeInv, EvictionTypeOK
<1> QED
  BY <1>2, <1>4, <1>5 DEF PodNow

LEMMA PlannerTypeInit == InitEviction /\ cluster \in Snapshots => PlannerTypeInv
<1> SUFFICES ASSUME InitEviction, cluster \in Snapshots PROVE PlannerTypeInv
  OBVIOUS
<1>2. config \in Configs /\ hourlyPool \in Int
  BY EvictionAssumption DEF InitEviction
<1>3. now = 0 /\ poolReset \in Nat
  BY EvictionAssumption DEF InitEviction
<1>4. nodeCooldown \in [Nodes -> Nat \cup {Never}]
  BY DEF InitEviction
<1>5. /\ candidates \in Seq(Nodes) /\ safe \in Seq(Nodes) /\ targets \in Seq(Target)
      /\ stage = "idle" /\ ci = 1 /\ pi = 1
      /\ Len(candidates) = 0
  BY DEF InitEviction
<1>6. /\ errors = {} /\ candidateNode = NoNode
      /\ evictionsTotal = 0 /\ inWindow = 0
  BY DEF InitEviction
<1>7. feasible \in BOOLEAN
  BY DEF InitEviction
<1> QED
  BY <1>2, <1>3, <1>4, <1>5, <1>6, <1>7 DEF PlannerTypeInv, EvictionTypeOK, AtCandidate, Stages

LEMMA PlannerTypeStep == PlannerTypeInv /\ [PlannerNext]_evictionVars => PlannerTypeInv'
<1> SUFFICES ASSUME PlannerTypeInv, [PlannerNext]_evictionVars PROVE PlannerTypeInv'
  OBVIOUS
<1> USE DEF PlannerTypeInv
<1> USE DEF Stages
<1>c. config \in [Enabled : BOOLEAN, MaxPodsPerHour : Int, MaxConcurrentEvictions : Int]
  BY EvictionAssumption DEF EvictionTypeOK
<1>h. {Hour, Cooldown} \subseteq Nat
  BY EvictionAssumption
<1>1. CASE BeginAny
  <2>1. PICK c \in Snapshots, cands \in Seq(Nodes), safeNames \in Seq(Nodes) :
           BeginPlan(c, cands, safeNames)
    BY <1>1 DEF BeginAny
  <2>2. \/ hourlyPool' = config.MaxPodsPerHour /\ poolReset' = now + Hour /\ inWindow' = 0
        \/ UNCHANGED <<hourlyPool, poolReset, inWindow>>
    BY <2>1 DEF BeginPlan
  <2>3. /\ hourlyPool' \in Int
        /\ poolReset' \in Nat
        /\ inWindow' \in Nat
    <3>1. now \in Nat /\ hourlyPool \in Int /\ poolReset \in Nat /\ inWindow \in Nat
      BY DEF EvictionTypeOK
    <3>2. config.MaxPodsPerHour \in Int /\ Hour \in Nat
      BY <1>c, <1>h
    <3> QED
      BY <2>2, <3>1, <3>2
  <2>4. EvictionTypeOK'
    BY <2>1, <2>3 DEF BeginPlan, EvictionTypeOK
  <2>5. AtCandidate'
    BY <2>1 DEF BeginPlan, AtCandidate
  <2> QED
    BY <2>4, <2>5
<1>2. CASE PlanStep
  <2>1. CASE SkipCoolingCandidate
    BY <2>1 DEF SkipCoolingCandidate, EvictionTypeOK, AtCandidate, limiter, inputs, executed
  <2>2. CASE EnterCandidate
    BY <2>2 DEF EnterCandidate, EvictionTypeOK, AtCandidate, limiter, inputs, plan, executed
  <2>3. CASE BudgetReached
    <3>1. PodNow \in Pods
      BY <2>3, PodNowTyped DEF BudgetReached, AtPod
    <3> QED
      BY <2>3, <3>1 DEF BudgetReached, AtPod, EvictionTypeOK, AtCandidate, limiter, inputs, executed
  <2>4. CASE RejectPod
    <3>1. PodNow \in Pods
      BY <2>4, PodNowTyped DEF RejectPod, AtPod
    <3> QED
      BY <2>4, <3>1 DEF RejectPod, AtPod, EvictionTypeOK, AtCandidate, limiter, inputs, executed
  <2>5. CASE RefuseForCapacity
    <3>1. PodNow \in Pods
      BY <2>5, PodNowTyped DEF RefuseForCapacity, AtPod
    <3> QED
      BY <2>5, <3>1 DEF RefuseForCapacity, AtPod, EvictionTypeOK, AtCandidate, limiter, inputs,
                        executed
  <2>6. CASE AcceptTarget
    <3>1. PodNow \in Pods /\ candidates[ci] \in Nodes
      BY <2>6, PodNowTyped DEF AcceptTarget, AtPod
    <3>2. PICK n \in Nodes :
             targets' = Append(targets, [pod |-> PodNow, node |-> candidates[ci], dest |-> n])
      BY <2>6 DEF AcceptTarget
    <3>3. targets' \in Seq(Target)
      BY <3>1, <3>2 DEF EvictionTypeOK, Target
    <3>4. stage' \in {"leave", "pod"} /\ stage = "pod"
      BY <2>6 DEF AcceptTarget, AtPod
    <3> QED
      BY <2>6, <3>1, <3>3, <3>4 DEF AcceptTarget, EvictionTypeOK, AtCandidate, limiter, inputs,
                                    executed
  <2>7. CASE PodsExhausted
    BY <2>7 DEF PodsExhausted, EvictionTypeOK, AtCandidate, limiter, inputs, plan, executed
  <2>8. CASE LeaveCandidate
    BY <2>8 DEF LeaveCandidate, EvictionTypeOK, AtCandidate, limiter, inputs, plan, executed
  <2>9. CASE FinishPlan
    BY <2>9 DEF FinishPlan, EvictionTypeOK, AtCandidate, limiter, inputs, executed
  <2> QED
    BY <1>2, <2>1, <2>2, <2>3, <2>4, <2>5, <2>6, <2>7, <2>8, <2>9 DEF PlanStep
<1>3. CASE ExecutePlan
  <2>1. Len(targets) \in Nat
    BY DEF EvictionTypeOK
  <2> QED
    BY <1>3, <2>1 DEF ExecutePlan, EvictionTypeOK, AtCandidate, limiter, inputs, plan, executed
<1>4. CASE RecordAny
  <2>1. now \in Nat
    BY DEF EvictionTypeOK
  <2> QED
    BY <1>4, <2>1 DEF RecordAny, RecordEviction, EvictionTypeOK, AtCandidate, inputs, plan, executed
<1>5. CASE Between
  BY <1>5 DEF Between, EvictionTypeOK, AtCandidate, limiter, plan, executed
<1>6. CASE RestartEviction /\ cluster' \in Snapshots
  <2>1. config' \in Configs /\ hourlyPool' \in Int
    BY <1>6, EvictionAssumption DEF RestartEviction
  <2>2. now' \in Nat /\ poolReset' \in Nat /\ cluster' \in Snapshots
    BY <1>6, <1>h DEF RestartEviction, EvictionTypeOK
  <2>3. nodeCooldown' \in [Nodes -> Nat \cup {Never}]
    BY <1>6 DEF RestartEviction
  <2>4. /\ candidates' \in Seq(Nodes) /\ safe' \in Seq(Nodes) /\ targets' \in Seq(Target)
        /\ stage' = "idle" /\ ci' = 1 /\ pi' = 1
        /\ Len(candidates') = 0
    BY <1>6 DEF RestartEviction
  <2>5. /\ errors' = {} /\ candidateNode' = NoNode
        /\ evictionsTotal' = 0 /\ inWindow' = 0
    BY <1>6 DEF RestartEviction
  <2>6. feasible' \in BOOLEAN
    BY <1>6 DEF RestartEviction
  <2> QED
    BY <2>1, <2>2, <2>3, <2>4, <2>5, <2>6 DEF EvictionTypeOK, AtCandidate
<1>7. CASE UNCHANGED evictionVars
  BY <1>7 DEF evictionVars, EvictionTypeOK, AtCandidate, limiter, inputs, plan, executed
<1> QED
  BY <1>1, <1>2, <1>3, <1>4, <1>5, <1>6, <1>7 DEF PlannerNext

-----------------------------------------------------------------------------
(* One node per plan.  Between two candidates the plan is still empty, or  *)
(* there is no other candidate to come; within a candidate the plan holds  *)
(* only its pods, and is not yet full.                                     *)
PlanInv ==
    /\ \A k \in 1..Len(targets) : targets[k].node = candidateNode
    /\ Len(targets) <= PlanLimit
    /\ stage = "candidate" /\ Len(targets) > 0 => ci > Len(candidates)
    /\ stage = "pod" /\ Len(targets) > 0 =>
          /\ Len(targets) < config.MaxConcurrentEvictions
          /\ candidateNode = candidates[ci]

LEMMA PlanInit == InitEviction => PlanInv
<1> SUFFICES ASSUME InitEviction PROVE PlanInv
  OBVIOUS
<1>1. Len(targets) = 0 /\ stage = "idle"
  BY DEF InitEviction
<1>2. config.MaxConcurrentEvictions \in Int
  BY EvictionAssumption DEF InitEviction
<1> QED
  BY <1>1, <1>2 DEF PlanInv, PlanLimit

LEMMA PlanStepKeeps == PlannerTypeInv /\ PlanInv /\ [PlannerNext]_evictionVars => PlanInv'
<1> SUFFICES ASSUME PlannerTypeInv, PlanInv, [PlannerNext]_evictionVars PROVE PlanInv'
  OBVIOUS
<1>t. /\ Len(targets) \in Nat /\ Len(candidates) \in Nat
      /\ ci \in Nat /\ candidates \in Seq(Nodes) /\ targets \in Seq(Target)
      /\ config.MaxConcurrentEvictions \in Int
  BY EvictionAssumption DEF PlannerTypeInv, EvictionTypeOK
<1>1. CASE BeginAny
  <2>1. targets' = <<>> /\ config' = config /\ stage' # "pod"
    BY <1>1 DEF BeginAny, BeginPlan
  <2> QED
    BY <2>1, <1>t DEF PlanInv, PlanLimit
<1>2. CASE PlanStep
  <2>1. CASE SkipCoolingCandidate
    BY <2>1, <1>t DEF SkipCoolingCandidate, PlanInv, PlanLimit, limiter, inputs
  <2>2. CASE EnterCandidate
    BY <2>2, <1>t DEF EnterCandidate, PlanInv, PlanLimit, limiter, inputs, plan
  <2>3. CASE BudgetReached
    BY <2>3, <1>t DEF BudgetReached, PlanInv, PlanLimit, limiter, inputs
  <2>4. CASE RejectPod
    BY <2>4, <1>t DEF RejectPod, PlanInv, PlanLimit, limiter, inputs
  <2>5. CASE RefuseForCapacity
    BY <2>5, <1>t DEF RefuseForCapacity, PlanInv, PlanLimit, limiter, inputs
  <2>6. CASE AcceptTarget
    <3>1. PICK n \in Nodes :
             targets' = Append(targets, [pod |-> PodNow, node |-> candidates[ci], dest |-> n])
      BY <2>6 DEF AcceptTarget
    <3>2. Len(targets') = Len(targets) + 1
      BY <3>1, <1>t
    <3>3. /\ config' = config /\ candidates' = candidates /\ ci' = ci
          /\ candidateNode' = candidates[ci] /\ stage = "pod"
          /\ stage' = IF Len(targets') >= config.MaxConcurrentEvictions THEN "leave" ELSE "pod"
      BY <2>6 DEF AcceptTarget, AtPod, limiter, inputs
    <3>4. \A k \in 1..Len(targets') : targets'[k].node = candidateNode'
      <4> TAKE k \in 1..Len(targets')
      <4>1. CASE k = Len(targets) + 1
        BY <4>1, <3>1, <3>3, <1>t
      <4>2. CASE k \in 1..Len(targets)
        <5>1. targets'[k] = targets[k]
          BY <4>2, <3>1, <1>t
        <5>2. targets[k].node = candidates[ci]
          BY <4>2, <3>3, <1>t DEF PlanInv
        <5> QED
          BY <5>1, <5>2, <3>3
      <4> QED
        BY <4>1, <4>2, <3>2, <1>t
    <3>5. Len(targets') <= PlanLimit'
      BY <3>2, <3>3, <1>t DEF PlanInv, PlanLimit
    <3>6. stage' = "pod" => Len(targets') < config'.MaxConcurrentEvictions
      BY <3>2, <3>3, <1>t
    <3>7. stage' # "candidate"
      BY <3>3
    <3> QED
      BY <3>3, <3>4, <3>5, <3>6, <3>7 DEF PlanInv
  <2>7. CASE PodsExhausted
    BY <2>7, <1>t DEF PodsExhausted, PlanInv, PlanLimit, limiter, inputs, plan
  <2>8. CASE LeaveCandidate
    <3>1. /\ targets' = targets /\ candidates' = candidates /\ config' = config
          /\ candidateNode' = candidateNode /\ stage' = "candidate"
      BY <2>8 DEF LeaveCandidate, limiter, inputs, plan
    <3>2. Len(targets) > 0 => ci' > Len(candidates)
      BY <2>8, <1>t DEF LeaveCandidate
    <3> QED
      BY <3>1, <3>2 DEF PlanInv, PlanLimit
  <2>9. CASE FinishPlan
    BY <2>9, <1>t DEF FinishPlan, PlanInv, PlanLimit, limiter, inputs
  <2> QED
    BY <1>2, <2>1, <2>2, <2>3, <2>4, <2>5, <2>6, <2>7, <2>8, <2>9 DEF PlanStep
<1>3. CASE ExecutePlan
  BY <1>3, <1>t DEF ExecutePlan, PlanInv, PlanLimit, limiter, inputs, plan
<1>4. CASE RecordAny
  BY <1>4, <1>t DEF RecordAny, RecordEviction, PlanInv, PlanLimit, inputs, plan
<1>5. CASE Between
  BY <1>5, <1>t DEF Between, PlanInv, PlanLimit, limiter, plan
<1>6. CASE RestartEviction
  <2>1. targets' = <<>> /\ stage' = "idle" /\ config'.MaxConcurrentEvictions \in Int
    BY <1>6, EvictionAssumption DEF RestartEviction
  <2> QED
    BY <2>1 DEF PlanInv, PlanLimit
<1>7. CASE UNCHANGED evictionVars
  BY <1>7 DEF evictionVars, PlanInv, PlanLimit, limiter, inputs, plan
<1> QED
  BY <1>1, <1>2, <1>3, <1>4, <1>5, <1>6, <1>7 DEF PlannerNext

-----------------------------------------------------------------------------
(* The gates.  That a destination is never a candidate rests on the report *)
(* being sound when the plan began: the gates only look at safe nodes.     *)
GatesInv ==
    stage # "idle" =>
        /\ SoundReport(candidates, safe)
        /\ \A k \in 1..Len(targets) : PassesGates(cluster, candidates, safe, targets[k])

\* What AcceptTarget appends passes the gates.
LEMMA AcceptedPasses ==
    ASSUME PlannerTypeInv, GatesInv, AtPod, ValidatePod(Pod(PodNow)),
           NEW n \in Nodes, ValidateClusterCapacity(cluster, safe, Pod(PodNow), n)
    PROVE  PassesGates(cluster, candidates, safe,
                       [pod |-> PodNow, node |-> candidates[ci], dest |-> n])
<1>1. ci \in 1..Len(candidates) /\ stage # "idle"
  BY DEF AtPod, PlannerTypeInv, EvictionTypeOK, AtCandidate
<1>2. pi \in 1..Len(PodsHere) /\ PodsHere[pi] = PodNow
  BY PodNowTyped DEF AtPod, PlannerTypeInv, EvictionTypeOK, PodNow
<1>3. PICK k \in 1..Len(safe) :
         /\ BestFit(cluster, safe, Pod(PodNow), k)
         /\ n = safe[k]
         /\ KeepsHeadroom(cluster, n, Pod(PodNow))
  BY DEF ValidateClusterCapacity, BestFit
<1>4. Accepts(cluster, n, Pod(PodNow))
  BY <1>3 DEF BestFit
<1>5. \A l \in 1..Len(candidates) : candidates[l] # n
  BY <1>1, <1>3 DEF GatesInv, SoundReport
<1>6. \E l \in 1..Len(cluster.podsOn[candidates[ci]]) :
         cluster.podsOn[candidates[ci]][l] = PodNow
  BY <1>2 DEF PodsHere, PodsOn
<1> QED
  BY <1>1, <1>3, <1>4, <1>5, <1>6 DEF PassesGates, Pod

\* A step that leaves the inputs and the targets alone leaves the gates alone.
LEMMA GatesFrame ==
    ASSUME GatesInv, UNCHANGED inputs, UNCHANGED targets, stage # "idle"
    PROVE  GatesInv'
<1> QED
  BY DEF GatesInv, inputs

LEMMA GatesStep == PlannerTypeInv /\ GatesInv /\ [PlannerNext]_evictionVars => GatesInv'
<1> SUFFICES ASSUME PlannerTypeInv, GatesInv, [PlannerNext]_evictionVars PROVE GatesInv'
  OBVIOUS
<1>1. CASE BeginAny
  <2>1. PICK c \in Snapshots, cands \in Seq(Nodes), safeNames \in Seq(Nodes) :
           SoundReport(cands, safeNames) /\ BeginPlan(c, cands, safeNames)
    BY <1>1 DEF BeginAny
  <2>2. targets' = <<>> /\ candidates' = cands /\ safe' = safeNames
    BY <2>1 DEF BeginPlan
  <2>3. SoundReport(candidates', safe')
    BY <2>1, <2>2
  <2> QED
    BY <2>2, <2>3 DEF GatesInv
<1>2. CASE PlanStep
  <2>1. CASE SkipCoolingCandidate
    BY <2>1, GatesFrame DEF SkipCoolingCandidate
  <2>2. CASE EnterCandidate
    BY <2>2, GatesFrame DEF EnterCandidate, plan
  <2>3. CASE BudgetReached
    BY <2>3, GatesFrame DEF BudgetReached, AtPod
  <2>4. CASE RejectPod
    BY <2>4, GatesFrame DEF RejectPod, AtPod
  <2>5. CASE RefuseForCapacity
    BY <2>5, GatesFrame DEF RefuseForCapacity, AtPod
  <2>6. CASE AcceptTarget
    <3>1. PICK n \in Nodes :
             /\ ValidateClusterCapacity(cluster, safe, Pod(PodNow), n)
             /\ targets' = Append(targets, [pod |-> PodNow, node |-> candidates[ci], dest |-> n])
      BY <2>6 DEF AcceptTarget
    <3>2. PassesGates(cluster, candidates, safe,
                      [pod |-> PodNow, node |-> candidates[ci], dest |-> n])
      BY <2>6, <3>1, AcceptedPasses DEF AcceptTarget
    <3>3. /\ cluster' = cluster /\ candidates' = candidates /\ safe' = safe
          /\ stage # "idle" /\ targets \in Seq(Target)
      BY <2>6 DEF AcceptTarget, AtPod, inputs, PlannerTypeInv, EvictionTypeOK
    <3>4. \A k \in 1..Len(targets') : PassesGates(cluster, candidates, safe, targets'[k])
      <4> TAKE k \in 1..Len(targets')
      <4>1. CASE k = Len(targets) + 1
        BY <4>1, <3>1, <3>2, <3>3
      <4>2. CASE k \in 1..Len(targets)
        <5>1. targets'[k] = targets[k]
          BY <4>2, <3>1, <3>3
        <5> QED
          BY <4>2, <5>1, <3>3 DEF GatesInv
      <4> QED
        BY <4>1, <4>2, <3>1, <3>3
    <3> QED
      BY <3>3, <3>4 DEF GatesInv
  <2>7. CASE PodsExhausted
    BY <2>7, GatesFrame DEF PodsExhausted, plan
  <2>8. CASE LeaveCandidate
    BY <2>8, GatesFrame DEF LeaveCandidate, plan
  <2>9. CASE FinishPlan
    BY <2>9, GatesFrame DEF FinishPlan
  <2> QED
    BY <1>2, <2>1, <2>2, <2>3, <2>4, <2>5, <2>6, <2>7, <2>8, <2>9 DEF PlanStep
<1>3. CASE ExecutePlan
  BY <1>3 DEF ExecutePlan, GatesInv
<1>4. CASE RecordAny
  <2>1. CASE stage = "idle"
    BY <1>4, <2>1 DEF RecordAny, RecordEviction, GatesInv
  <2>2. CASE stage # "idle"
    BY <1>4, <2>2, GatesFrame DEF RecordAny, RecordEviction, plan
  <2> QED
    BY <2>1, <2>2
<1>5. CASE Between
  BY <1>5 DEF Between, GatesInv
<1>6. CASE RestartEviction
  BY <1>6 DEF RestartEviction, GatesInv
<1>7. CASE UNCHANGED evictionVars
  <2>1. CASE stage = "idle"
    BY <1>7, <2>1 DEF evictionVars, GatesInv
  <2>2. CASE stage # "idle"
    BY <1>7, <2>2, GatesFrame DEF evictionVars, plan
  <2> QED
    BY <2>1, <2>2
<1> QED
  BY <1>1, <1>2, <1>3, <1>4, <1>5, <1>6, <1>7 DEF PlannerNext

-----------------------------------------------------------------------------
(* The plan is the one its inputs define.  The walk leaves behind it only  *)
(* candidates that are skipped or give nothing; on the one in hand it has  *)
(* taken what is evictable before place pi, each pod at its rank.          *)
Skipped(n) == <<"cooldown", n>> \in errors
Barren(n)  == Skipped(n) \/ hourlyPool <= 0 \/ Evictables(n) = {}

Before(n, k) == {l \in Evictables(n) : l < k}

Taken(ts, n, k) ==
    /\ Len(ts) = Cardinality(Before(n, k))
    /\ \A l \in Before(n, k) : ts[Rank(n, l)].pod = PodsOn(n)[l]

PlanOf(k) ==
    /\ candidateNode = candidates[k] /\ ~Skipped(candidates[k])
    /\ \A l \in 1..Len(candidates) : l < k => Barren(candidates[l])
    /\ Evictables(candidates[k]) # {}
    /\ AreFirst(targets, candidates[k])

SkippedInv ==
    \A n \in Nodes : Skipped(n) =>
        /\ MayBeCooling(n)
        /\ \E k \in 1..Len(candidates) : k < ci /\ candidates[k] = n

BarrenInv ==
    targets = <<>> \/ stage = "pod" =>
        \A k \in 1..Len(candidates) : k < ci => Barren(candidates[k])

WalkInv ==
    stage # "idle" =>
        /\ SkippedInv
        /\ BarrenInv
        /\ hourlyPool <= 0 => targets = <<>>
        /\ stage = "pod" /\ hourlyPool > 0 => Taken(targets, candidates[ci], pi)
        /\ stage = "leave" /\ targets = <<>> => Barren(candidates[ci])
        /\ stage = "leave" /\ targets # <<>> => PlanOf(ci)
        /\ stage \in {"candidate", "planned"} /\ targets # <<>> =>
             \E k \in 1..Len(candidates) : PlanOf(k)
        /\ stage = "planned" /\ candidates # <<>> =>
             ci > Len(candidates) /\ feasible = (targets # <<>>)

\* The places of the evictable pods of a node, counted.
LEMMA EvictablesCounted ==
    ASSUME PlannerTypeInv, NEW n \in Nodes
    PROVE  /\ Evictables(n) \subseteq 1..Len(PodsOn(n)) /\ Len(PodsOn(n)) \in Nat
           /\ IsFiniteSet(Evictables(n))
           /\ \A A \in SUBSET Evictables(n) : IsFiniteSet(A) /\ Cardinality(A) \in Nat
           /\ \A A, B : A \subseteq B /\ B \subseteq Evictables(n) => Cardinality(A) <= Cardinality(B)
<1>1. PodsOn(n) \in Seq(Pods)
  BY DEF PlannerTypeInv, EvictionTypeOK, Snapshots, PodsOn
<1>2. Len(PodsOn(n)) \in Nat /\ Evictables(n) \subseteq 1..Len(PodsOn(n))
  BY <1>1 DEF Evictables
<1>3. IsFiniteSet(Evictables(n))
  <2>1. \A m \in Nat : IsFiniteSet(1..m)
    BY FS_Interval
  <2> QED
    BY <1>2, <2>1, FS_Subset
<1> HIDE DEF Evictables
<1>4. \A A \in SUBSET Evictables(n) : IsFiniteSet(A) /\ Cardinality(A) \in Nat
  BY <1>3, FS_Subset, FS_CardinalityType
<1>5. \A A, B : A \subseteq B /\ B \subseteq Evictables(n) => Cardinality(A) <= Cardinality(B)
  BY <1>4, FS_Subset
<1> QED
  BY <1>2, <1>3, <1>4, <1>5

\* One place on: a pod that is not evictable changes nothing, one that is comes last.
LEMMA OnePlaceOn ==
    ASSUME PlannerTypeInv, NEW n \in Nodes, NEW k \in 1..Len(PodsOn(n))
    PROVE  /\ k \notin Evictables(n) => Before(n, k + 1) = Before(n, k)
           /\ k \in Evictables(n) =>
                /\ Before(n, k + 1) = Before(n, k) \cup {k}
                /\ Rank(n, k) = Cardinality(Before(n, k)) + 1
                /\ Cardinality(Before(n, k + 1)) = Cardinality(Before(n, k)) + 1
<1>1. \A l \in Evictables(n) : l \in Int
  BY EvictablesCounted
<1>2. \A l \in Evictables(n) : l < k + 1 <=> (l < k \/ l = k)
  BY <1>1
<1>3. k \notin Evictables(n) => Before(n, k + 1) = Before(n, k)
  <2>1. ASSUME k \notin Evictables(n) PROVE \A l \in Evictables(n) : l < k + 1 <=> l < k
    BY <1>2, <2>1
  <2> QED
    BY <2>1 DEF Before
<1>4. ASSUME k \in Evictables(n)
      PROVE  /\ Before(n, k + 1) = Before(n, k) \cup {k}
             /\ {l \in Evictables(n) : l <= k} = Before(n, k) \cup {k}
             /\ k \notin Before(n, k)
  <2>1. \A l \in Evictables(n) : l <= k <=> (l < k \/ l = k)
    BY <1>1
  <2>2. ~(k < k)
    OBVIOUS
  <2> QED
    BY <1>2, <1>4, <2>1, <2>2 DEF Before
<1>5. IsFiniteSet(Before(n, k))
  BY EvictablesCounted DEF Before
<1>6. k \notin Before(n, k) => Cardinality(Before(n, k) \cup {k}) = Cardinality(Before(n, k)) + 1
  BY <1>5, FS_AddElement
<1> QED
  BY <1>3, <1>4, <1>6 DEF Rank

\* A rank is within the count of those before a place exactly if the pod is before it.
LEMMA RanksOrdered ==
    ASSUME PlannerTypeInv, NEW n \in Nodes, NEW k \in Nat, NEW l \in Evictables(n)
    PROVE  /\ Rank(n, l) \in Nat /\ Rank(n, l) >= 1
           /\ l < k => Rank(n, l) <= Cardinality(Before(n, k))
           /\ l >= k => Rank(n, l) > Cardinality(Before(n, k))
<1>1. l \in 1..Len(PodsOn(n)) /\ \A m \in Evictables(n) : m \in Int
  BY EvictablesCounted
<1>2. Rank(n, l) = Cardinality(Before(n, l)) + 1
  BY <1>1, OnePlaceOn
<1>3. Cardinality(Before(n, l)) \in Nat /\ Cardinality(Before(n, k)) \in Nat
  BY EvictablesCounted DEF Before
<1>4. ASSUME l < k PROVE Rank(n, l) <= Cardinality(Before(n, k))
  <2>1. \A m \in Evictables(n) : m <= l => m < k
    BY <1>1, <1>4
  <2>2. {m \in Evictables(n) : m <= l} \subseteq Before(n, k) /\ Before(n, k) \subseteq Evictables(n)
    BY <2>1 DEF Before
  <2> QED
    BY <2>2, EvictablesCounted DEF Rank
<1>5. ASSUME l >= k PROVE Cardinality(Before(n, k)) <= Cardinality(Before(n, l))
  <2>1. \A m \in Evictables(n) : m < k => m < l
    BY <1>1, <1>5
  <2>2. Before(n, k) \subseteq Before(n, l) /\ Before(n, l) \subseteq Evictables(n)
    BY <2>1 DEF Before
  <2> QED
    BY <2>2, EvictablesCounted
<1> QED
  BY <1>1, <1>2, <1>3, <1>4, <1>5

\* Taking an evictable pod, or passing over another, moves the walk one place on.
LEMMA TakenOn ==
    ASSUME PlannerTypeInv, NEW n \in Nodes, NEW k \in 1..Len(PodsOn(n)), NEW ts \in Seq(Target),
           Taken(ts, n, k)
    PROVE  /\ k \notin Evictables(n) => Taken(ts, n, k + 1)
           /\ \A t \in Target : k \in Evictables(n) /\ t.pod = PodsOn(n)[k] => Taken(Append(ts, t), n, k + 1)
<1>1. k \notin Evictables(n) => Taken(ts, n, k + 1)
  BY OnePlaceOn DEF Taken
<1>2. ASSUME NEW t \in Target, k \in Evictables(n), t.pod = PodsOn(n)[k]
      PROVE  Taken(Append(ts, t), n, k + 1)
  <2>1. /\ Before(n, k + 1) = Before(n, k) \cup {k}
        /\ Rank(n, k) = Len(ts) + 1 /\ Cardinality(Before(n, k + 1)) = Len(ts) + 1
    BY <1>2, OnePlaceOn DEF Taken
  <2>2. /\ Len(ts) \in Nat /\ Len(Append(ts, t)) = Len(ts) + 1 /\ Append(ts, t)[Len(ts) + 1] = t
        /\ \A l \in 1..Len(ts) : Append(ts, t)[l] = ts[l]
    OBVIOUS
  <2>3. ASSUME NEW l \in Before(n, k) PROVE Append(ts, t)[Rank(n, l)].pod = PodsOn(n)[l]
    <3>1. l \in Evictables(n) /\ l < k /\ k \in Nat
      BY DEF Before
    <3>2. Rank(n, l) \in 1..Len(ts)
      <4>1. Rank(n, l) \in Nat /\ Rank(n, l) >= 1 /\ Rank(n, l) <= Cardinality(Before(n, k))
        BY <3>1, RanksOrdered
      <4> QED
        BY <2>2, <4>1 DEF Taken
    <3> QED
      BY <2>2, <3>2 DEF Taken
  <2> QED
    BY <1>2, <2>1, <2>2, <2>3 DEF Taken
<1> QED
  BY <1>1, <1>2

\* What has been taken is all there is to take when the limit or the end of the list is reached.
LEMMA TakenIsFirst ==
    ASSUME PlannerTypeInv, NEW n \in Nodes, NEW k \in Nat, NEW ts \in Seq(Target), Taken(ts, n, k),
           Len(ts) <= PlanLimit, Len(ts) >= PlanLimit \/ k > Len(PodsOn(n))
    PROVE  AreFirst(ts, n) /\ (ts # <<>> => Evictables(n) # {})
<1>t. /\ PlanLimit \in Int /\ Len(ts) \in Nat /\ Cardinality(Evictables(n)) \in Nat
  BY EvictablesCounted, EvictionAssumption DEF PlannerTypeInv, EvictionTypeOK, PlanLimit
<1>1. Len(ts) = Cardinality(Before(n, k)) /\ Len(ts) <= Cardinality(Evictables(n))
  <2>1. Before(n, k) \subseteq Evictables(n)
    BY DEF Before
  <2> QED
    BY <2>1, EvictablesCounted DEF Taken
<1>2. ts # <<>> => Evictables(n) # {}
  <2>1. ts # <<>> => Len(ts) # 0
    OBVIOUS
  <2>2. Evictables(n) = {} => Cardinality(Evictables(n)) = 0
    BY FS_EmptySet
  <2> QED
    BY <1>t, <1>1, <2>1, <2>2
<1>3. Len(ts) = IF Cardinality(Evictables(n)) < PlanLimit THEN Cardinality(Evictables(n)) ELSE PlanLimit
  <2>1. CASE Len(ts) >= PlanLimit
    BY <1>t, <1>1, <2>1
  <2>2. CASE k > Len(PodsOn(n))
    <3>1. Before(n, k) = Evictables(n)
      <4>1. \A l \in Evictables(n) : l < k
        BY <2>2, EvictablesCounted
      <4> QED
        BY <4>1 DEF Before
    <3> QED
      BY <1>t, <1>1, <3>1
  <2> QED
    BY <2>1, <2>2
<1>4. ASSUME NEW l \in Evictables(n), Rank(n, l) <= Len(ts)
      PROVE  ts[Rank(n, l)].pod = PodsOn(n)[l]
  <2>1. l \in Before(n, k)
    <3>1. l \in Int /\ (l < k \/ l >= k)
      BY EvictablesCounted
    <3>2. l < k
      BY <1>t, <1>1, <1>4, <3>1, RanksOrdered
    <3> QED
      BY <3>2 DEF Before
  <2> QED
    BY <2>1 DEF Taken
<1> QED
  BY <1>2, <1>3, <1>4 DEF AreFirst

\* A step that leaves alone what the plan is made of and from.
LEMMA WalkFrame ==
    ASSUME UNCHANGED inputs, UNCHANGED <<config, hourlyPool>>
    PROVE  /\ \A n : Evictables(n)' = Evictables(n) /\ PodsOn(n)' = PodsOn(n)
           /\ \A n, k : Rank(n, k)' = Rank(n, k)
           /\ \A ts, n, k : Taken(ts, n, k)' = Taken(ts, n, k)
           /\ \A ts, n : AreFirst(ts, n)' = AreFirst(ts, n)
<1>1. \A n : Evictables(n)' = Evictables(n) /\ PodsOn(n)' = PodsOn(n)
  BY DEF Evictables, Evictable, Pod, PodsOn, inputs
<1>2. \A n, k : Rank(n, k)' = Rank(n, k)
  BY <1>1 DEF Rank
<1>3. \A ts, n, k : Taken(ts, n, k)' = Taken(ts, n, k)
  BY <1>1, <1>2 DEF Taken, Before
<1>4. \A ts, n : AreFirst(ts, n)' = AreFirst(ts, n)
  BY <1>1, <1>2 DEF AreFirst, PlanLimit
<1> QED
  BY <1>1, <1>2, <1>3, <1>4

LEMMA SkippedStays ==
    ASSUME PlannerTypeInv, SkippedInv, UNCHANGED <<candidates, now, nodeCooldown>>,
           ci' \in Nat, ci' >= ci, \A n \in Nodes : Skipped(n)' => Skipped(n)
    PROVE  SkippedInv'
<1>1. ci \in Nat
  BY DEF PlannerTypeInv, EvictionTypeOK
<1>2. ASSUME NEW n \in Nodes, Skipped(n)
      PROVE  MayBeCooling(n)' /\ \E k \in 1..Len(candidates) : k < ci' /\ candidates[k] = n
  <2>1. PICK k \in 1..Len(candidates) : k < ci /\ candidates[k] = n
    BY <1>2 DEF SkippedInv
  <2>2. k < ci'
    BY <1>1, <2>1
  <2> QED
    BY <1>2, <2>1, <2>2 DEF SkippedInv, MayBeCooling
<1> QED
  BY <1>2 DEF SkippedInv

\* The node in hand was not skipped: no candidate is listed twice.
LEMMA HandNotSkipped ==
    ASSUME PlannerTypeInv, GatesInv, SkippedInv, stage # "idle", ci <= Len(candidates)
    PROVE  ci \in 1..Len(candidates) /\ candidates[ci] \in Nodes /\ ~Skipped(candidates[ci])
<1>1. ci \in 1..Len(candidates) /\ candidates[ci] \in Nodes
  BY DEF PlannerTypeInv, EvictionTypeOK
<1>2. \A k \in 1..Len(candidates) : k < ci => candidates[k] # candidates[ci]
  BY <1>1 DEF GatesInv, SoundReport
<1> QED
  BY <1>1, <1>2 DEF SkippedInv

LEMMA WalkPlanStep ==
    PlannerTypeInv /\ PlannerTypeInv' /\ PlanInv /\ PlanInv' /\ GatesInv /\ WalkInv /\ PlanStep => WalkInv'
<1> SUFFICES ASSUME PlannerTypeInv, PlannerTypeInv', PlanInv, PlanInv', GatesInv, WalkInv, PlanStep
             PROVE  WalkInv'
  OBVIOUS
<1>t. /\ ci \in Nat /\ pi \in Nat /\ Len(candidates) \in Nat /\ Len(targets) \in Nat
      /\ candidates \in Seq(Nodes) /\ targets \in Seq(Target) /\ hourlyPool \in Int
      /\ ci' \in Nat /\ (targets # <<>> <=> Len(targets) > 0)
      /\ PlanLimit \in Int
      /\ \A k \in 1..Len(candidates) : candidates[k] \in Nodes
  <2>1. /\ ci \in Nat /\ pi \in Nat /\ candidates \in Seq(Nodes) /\ targets \in Seq(Target)
        /\ hourlyPool \in Int /\ ci' \in Nat /\ config \in Configs
    BY DEF PlannerTypeInv, EvictionTypeOK
  <2>2. PlanLimit \in Int
    BY <2>1, EvictionAssumption DEF PlanLimit
  <2> QED
    BY <2>1, <2>2
<1>f. /\ UNCHANGED inputs /\ UNCHANGED <<config, hourlyPool, now, nodeCooldown, candidates>>
      /\ stage # "idle"
  BY DEF PlanStep, SkipCoolingCandidate, EnterCandidate, BudgetReached, RejectPod,
         RefuseForCapacity, AcceptTarget, PodsExhausted, LeaveCandidate, FinishPlan, AtPod,
         limiter, inputs
<1>v. SkippedInv /\ BarrenInv /\ (hourlyPool <= 0 => targets = <<>>)
  BY <1>f DEF WalkInv
<1>e. /\ \A n : Evictables(n)' = Evictables(n) /\ PodsOn(n)' = PodsOn(n)
      /\ \A ts, n, k : Taken(ts, n, k)' = Taken(ts, n, k)
      /\ \A ts, n : AreFirst(ts, n)' = AreFirst(ts, n)
  BY <1>f, WalkFrame
<1>k. \A k \in 1..Len(candidates) : Evictables(candidates[k])' = Evictables(candidates[k])
  BY <1>f DEF Evictables, Evictable, Pod, PodsOn, inputs
<1>b. ASSUME \A n \in Nodes : Skipped(n) => Skipped(n)'
      PROVE  \A k \in 1..Len(candidates) : Barren(candidates[k]) => Barren(candidates[k])'
  BY <1>b, <1>f, <1>k, <1>t DEF Barren, Skipped
<1>p. ASSUME \A n \in Nodes : Skipped(n)' <=> Skipped(n), UNCHANGED <<targets, candidateNode>>,
             NEW k \in 1..Len(candidates), PlanOf(k)
      PROVE  PlanOf(k)'
  <2>1. \A l \in 1..Len(candidates) : l < k => Barren(candidates[l])'
    BY <1>b, <1>p DEF PlanOf
  <2>2. ~Skipped(candidates[k])'
    BY <1>f, <1>p, <1>t DEF PlanOf, Skipped
  <2> QED
    BY <1>e, <1>f, <1>k, <1>p, <2>1, <2>2 DEF PlanOf
<1>h. ci <= Len(candidates) => /\ ci \in 1..Len(candidates) /\ candidates[ci] \in Nodes
                               /\ ~Skipped(candidates[ci])
  BY <1>f, <1>v, HandNotSkipped
<1>1. CASE SkipCoolingCandidate
  <2>1. /\ stage = "candidate" /\ stage' = "candidate" /\ ci <= Len(candidates) /\ ci' = ci + 1
        /\ MayBeCooling(candidates[ci]) /\ errors' = errors \cup {<<"cooldown", candidates[ci]>>}
        /\ targets' = targets
    BY <1>1 DEF SkipCoolingCandidate
  <2>2. targets = <<>>
    BY <1>t, <2>1 DEF PlanInv
  <2>3. \A n \in Nodes : Skipped(n)' <=> (Skipped(n) \/ n = candidates[ci])
    BY <2>1 DEF Skipped
  <2>4. SkippedInv'
    <3> SUFFICES ASSUME NEW n \in Nodes, Skipped(n)'
                 PROVE  MayBeCooling(n)' /\ \E k \in 1..Len(candidates) : k < ci + 1 /\ candidates[k] = n
      BY <1>f, <2>1 DEF SkippedInv
    <3>1. CASE n = candidates[ci]
      BY <1>f, <1>h, <1>t, <2>1, <3>1 DEF MayBeCooling
    <3>2. CASE Skipped(n)
      <4>1. PICK k \in 1..Len(candidates) : k < ci /\ candidates[k] = n
        BY <1>v, <3>2 DEF SkippedInv
      <4>2. k < ci + 1
        BY <1>t, <4>1
      <4> QED
        BY <1>f, <1>v, <3>2, <4>1, <4>2 DEF SkippedInv, MayBeCooling
    <3> QED
      BY <2>3, <3>1, <3>2
  <2>5. \A k \in 1..Len(candidates) : k < ci + 1 => Barren(candidates[k])'
    <3> TAKE k \in 1..Len(candidates)
    <3>1. k < ci => Barren(candidates[k])'
      BY <1>b, <1>t, <1>v, <2>2, <2>3 DEF BarrenInv
    <3>2. k = ci => Barren(candidates[k])'
      BY <1>f, <1>h, <2>1, <2>3 DEF Barren, Skipped
    <3> QED
      BY <1>t, <3>1, <3>2
  <2> QED
    BY <1>f, <2>1, <2>2, <2>4, <2>5 DEF WalkInv, BarrenInv
<1>2. CASE EnterCandidate
  <2>1. /\ stage = "candidate" /\ stage' = "pod" /\ ci <= Len(candidates) /\ ci' = ci /\ pi' = 1
        /\ UNCHANGED <<errors, targets>>
    BY <1>2 DEF EnterCandidate, plan
  <2>2. targets = <<>>
    BY <1>t, <2>1 DEF PlanInv
  <2>3. \A n : Skipped(n)' = Skipped(n)
    BY <2>1 DEF Skipped
  <2>4. SkippedInv'
    BY <1>f, <1>t, <1>v, <2>1, <2>3, SkippedStays
  <2>5. BarrenInv'
    BY <1>b, <1>f, <1>t, <1>v, <2>1, <2>2, <2>3 DEF BarrenInv
  <2>6. Taken(targets, candidates[ci], 1)
    <3>1. \A l \in Evictables(candidates[ci]) : ~(l < 1)
      BY <1>h, <2>1, EvictablesCounted
    <3>2. Before(candidates[ci], 1) = {}
      BY <3>1 DEF Before
    <3> QED
      BY <2>2, <3>2, FS_EmptySet DEF Taken
  <2> QED
    BY <1>e, <1>f, <2>1, <2>2, <2>4, <2>5, <2>6 DEF WalkInv
<1>3. CASE BudgetReached
  <2>1. /\ stage = "pod" /\ stage' = "leave" /\ ci' = ci /\ hourlyPool <= 0
        /\ errors' = errors \cup {<<"budget", PodNow>>} /\ targets' = targets
    BY <1>3 DEF BudgetReached, AtPod
  <2>2. targets = <<>>
    BY <1>v, <2>1
  <2>3. \A n : Skipped(n)' = Skipped(n)
    BY <2>1 DEF Skipped
  <2>4. SkippedInv'
    BY <1>f, <1>t, <1>v, <2>1, <2>3, SkippedStays
  <2>5. BarrenInv'
    BY <1>b, <1>f, <1>t, <1>v, <2>1, <2>2, <2>3 DEF BarrenInv
  <2> QED
    BY <1>f, <2>1, <2>2, <2>4, <2>5 DEF WalkInv, Barren
<1>4. CASE RejectPod \/ RefuseForCapacity
  <2>1. /\ AtPod /\ stage = "pod" /\ stage' = "pod" /\ ci' = ci /\ hourlyPool > 0 /\ pi' = pi + 1
        /\ targets' = targets
        /\ \E gate \in {"pod", "capacity"} : errors' = errors \cup {<<gate, PodNow>>}
        /\ ~Evictable(PodNow)
    BY <1>4 DEF RejectPod, RefuseForCapacity, AtPod, Evictable
  <2>2. \A n : Skipped(n)' = Skipped(n)
    BY <2>1 DEF Skipped
  <2>3. SkippedInv'
    BY <1>f, <1>t, <1>v, <2>1, <2>2, SkippedStays
  <2>4. BarrenInv'
    BY <1>b, <1>f, <1>t, <1>v, <2>1, <2>2 DEF BarrenInv
  <2>5. /\ candidates[ci] \in Nodes /\ pi \in 1..Len(PodsOn(candidates[ci]))
        /\ pi \notin Evictables(candidates[ci])
    BY <2>1, PodNowTyped DEF AtPod, PlannerTypeInv, EvictionTypeOK, PodsHere, PodNow, Evictables
  <2>6. Taken(targets, candidates[ci], pi)
    BY <1>f, <2>1 DEF WalkInv
  <2>7. Taken(targets, candidates[ci], pi + 1)
    BY <1>t, <2>5, <2>6, TakenOn
  <2> QED
    BY <1>e, <1>f, <2>1, <2>3, <2>4, <2>7 DEF WalkInv
<1>5. CASE AcceptTarget
  <2>1. PICK n \in Nodes :
           /\ ValidateClusterCapacity(cluster, safe, Pod(PodNow), n)
           /\ targets' = Append(targets, [pod |-> PodNow, node |-> candidates[ci], dest |-> n])
    BY <1>5 DEF AcceptTarget
  <2>2. /\ AtPod /\ stage = "pod" /\ ci' = ci /\ hourlyPool > 0 /\ pi' = pi + 1 /\ errors' = errors
        /\ candidateNode' = candidates[ci] /\ ValidatePod(Pod(PodNow))
        /\ stage' = IF Len(targets') >= config.MaxConcurrentEvictions THEN "leave" ELSE "pod"
    BY <1>5 DEF AcceptTarget, AtPod
  <2>3. \A m : Skipped(m)' = Skipped(m)
    BY <2>2 DEF Skipped
  <2>4. SkippedInv'
    BY <1>f, <1>t, <1>v, <2>2, <2>3, SkippedStays
  <2>5. /\ candidates[ci] \in Nodes /\ pi \in 1..Len(PodsOn(candidates[ci]))
        /\ PodNow = PodsOn(candidates[ci])[pi] /\ PodNow \in Pods /\ ci \in 1..Len(candidates)
    BY <2>2, PodNowTyped DEF AtPod, PlannerTypeInv, EvictionTypeOK, PodsHere, PodNow, AtCandidate
  <2>6. pi \in Evictables(candidates[ci])
    BY <2>1, <2>2, <2>5 DEF Evictables, Evictable
  <2>7. Taken(targets, candidates[ci], pi)
    BY <1>f, <2>2 DEF WalkInv
  <2>8. Taken(targets', candidates[ci], pi + 1)
    <3> DEFINE t == [pod |-> PodNow, node |-> candidates[ci], dest |-> n]
    <3>1. t \in Target /\ t.pod = PodsOn(candidates[ci])[pi]
      BY <2>5 DEF Target
    <3> HIDE DEF t
    <3>2. Taken(Append(targets, t), candidates[ci], pi + 1)
      BY <1>t, <2>5, <2>6, <2>7, <3>1, TakenOn
    <3> QED
      BY <2>1, <3>2 DEF t
  <2>9. targets' \in Seq(Target) /\ targets' # <<>> /\ Len(targets') \in Nat /\ Len(targets') >= 1
    <3>1. [pod |-> PodNow, node |-> candidates[ci], dest |-> n] \in Target
      BY <2>5 DEF Target
    <3> QED
      BY <1>t, <2>1, <3>1
  <2>10. \A k \in 1..Len(candidates) : k < ci => Barren(candidates[k])'
    BY <1>b, <1>t, <1>v, <2>2, <2>3 DEF BarrenInv
  <2>11. CASE stage' = "leave"
    <3>1. Len(targets') <= PlanLimit /\ Len(targets') >= PlanLimit
      BY <1>f, <2>2, <2>9, <2>11 DEF PlanInv, PlanLimit
    <3>2. AreFirst(targets', candidates[ci]) /\ Evictables(candidates[ci]) # {}
      BY <1>t, <2>5, <2>8, <2>9, <3>1, TakenIsFirst
    <3>3. PlanOf(ci)'
      BY <1>e, <1>f, <1>h, <2>2, <2>3, <2>5, <2>10, <3>2 DEF PlanOf
    <3> QED
      BY <1>f, <1>t, <2>2, <2>4, <2>9, <2>11, <3>3 DEF WalkInv, BarrenInv
  <2>12. CASE stage' = "pod"
    BY <1>e, <1>f, <1>t, <2>2, <2>4, <2>8, <2>10, <2>12 DEF WalkInv, BarrenInv
  <2> QED
    BY <2>2, <2>11, <2>12
<1>6. CASE PodsExhausted
  <2>1. /\ stage = "pod" /\ stage' = "leave" /\ ci' = ci /\ pi > Len(PodsHere)
        /\ UNCHANGED <<errors, targets, candidateNode>>
    BY <1>6 DEF PodsExhausted, plan
  <2>2. \A n : Skipped(n)' = Skipped(n)
    BY <2>1 DEF Skipped
  <2>3. SkippedInv'
    BY <1>f, <1>t, <1>v, <2>1, <2>2, SkippedStays
  <2>4. \A k \in 1..Len(candidates) : k < ci => Barren(candidates[k])'
    BY <1>b, <1>t, <1>v, <2>1, <2>2 DEF BarrenInv
  <2>5. ci <= Len(candidates)
    BY <2>1 DEF PlannerTypeInv, AtCandidate
  <2>6. CASE hourlyPool <= 0
    <3>1. targets = <<>> /\ Barren(candidates[ci])'
      BY <1>f, <1>v, <2>6 DEF Barren
    <3> QED
      BY <1>f, <2>1, <2>3, <2>4, <3>1 DEF WalkInv, BarrenInv
  <2>7. CASE hourlyPool > 0
    <3>1. Taken(targets, candidates[ci], pi)
      BY <1>f, <2>1, <2>7 DEF WalkInv
    <3>2. Len(targets) <= PlanLimit
      BY DEF PlanInv
    <3>3. pi > Len(PodsOn(candidates[ci]))
      BY <2>1 DEF PodsHere
    <3>4. AreFirst(targets, candidates[ci]) /\ (targets # <<>> => Evictables(candidates[ci]) # {})
      BY <1>h, <1>t, <2>5, <3>1, <3>2, <3>3, TakenIsFirst
    <3>5. ASSUME targets = <<>> PROVE Barren(candidates[ci])'
      <4>1. Cardinality(Evictables(candidates[ci])) = 0
        <5>1. Cardinality(Evictables(candidates[ci])) \in Nat
          BY <1>h, <2>5, EvictablesCounted
        <5>2. PlanLimit >= 1 /\ Len(targets) = 0
          BY <1>t, <3>5 DEF PlanLimit
        <5> QED
          BY <1>t, <3>4, <5>1, <5>2 DEF AreFirst
      <4>2. Evictables(candidates[ci]) = {}
        BY <1>h, <2>5, <4>1, EvictablesCounted, FS_EmptySet
      <4> QED
        BY <1>f, <1>h, <1>k, <2>1, <2>5, <4>2 DEF Barren
    <3>6. ASSUME targets # <<>> PROVE PlanOf(ci)'
      <4>1. candidateNode = candidates[ci]
        BY <1>t, <2>1, <3>6 DEF PlanInv
      <4> QED
        BY <1>e, <1>f, <1>h, <2>1, <2>2, <2>4, <2>5, <3>4, <3>6, <4>1 DEF PlanOf
    <3> QED
      BY <1>f, <2>1, <2>3, <2>4, <2>7, <3>5, <3>6 DEF WalkInv, BarrenInv
  <2> QED
    BY <1>t, <2>6, <2>7
<1>7. CASE LeaveCandidate
  <2>1. /\ stage = "leave" /\ stage' = "candidate" /\ UNCHANGED <<errors, targets, candidateNode>>
        /\ targets = <<>> => ci' = ci + 1
    BY <1>7 DEF LeaveCandidate, plan
  <2>2. ci' >= ci
    <3>1. ci' = ci + 1 \/ ci' = Len(candidates) + 1
      BY <1>7 DEF LeaveCandidate
    <3>2. ci <= Len(candidates) + 1
      BY DEF PlannerTypeInv, EvictionTypeOK
    <3> QED
      BY <1>t, <3>1, <3>2
  <2>3. \A n : Skipped(n)' = Skipped(n)
    BY <2>1 DEF Skipped
  <2>4. SkippedInv'
    BY <1>f, <1>t, <1>v, <2>2, <2>3, SkippedStays
  <2>5. CASE targets = <<>>
    <3>1. \A k \in 1..Len(candidates) : k < ci + 1 => Barren(candidates[k])
      BY <1>f, <1>t, <1>v, <2>1, <2>5 DEF WalkInv, BarrenInv
    <3>2. \A k \in 1..Len(candidates) : k < ci' => Barren(candidates[k])'
      BY <1>b, <1>t, <2>1, <2>3, <2>5, <3>1
    <3> QED
      BY <1>f, <2>1, <2>4, <2>5, <3>2 DEF WalkInv, BarrenInv
  <2>6. CASE targets # <<>>
    <3>1. PlanOf(ci) /\ ci \in 1..Len(candidates)
      BY <1>f, <1>h, <2>1, <2>6 DEF WalkInv, PlannerTypeInv, AtCandidate
    <3> QED
      BY <1>f, <1>v, <1>p, <2>1, <2>3, <2>4, <2>6, <3>1 DEF WalkInv, BarrenInv
  <2> QED
    BY <2>5, <2>6
<1>8. CASE FinishPlan
  <2>1. /\ stage = "candidate" /\ stage' = "planned" /\ ci' = ci /\ ci > Len(candidates)
        /\ UNCHANGED <<errors, targets, candidateNode>> /\ feasible' = (targets # <<>>)
    BY <1>8 DEF FinishPlan
  <2>2. \A n : Skipped(n)' = Skipped(n)
    BY <2>1 DEF Skipped
  <2>3. SkippedInv'
    BY <1>f, <1>t, <1>v, <2>1, <2>2, SkippedStays
  <2>4. BarrenInv'
    BY <1>b, <1>f, <1>t, <1>v, <2>1, <2>2 DEF BarrenInv
  <2>5. targets # <<>> => \E k \in 1..Len(candidates) : PlanOf(k)'
    BY <1>f, <1>p, <2>1, <2>2 DEF WalkInv
  <2> QED
    BY <1>f, <1>v, <2>1, <2>3, <2>4, <2>5 DEF WalkInv
<1> QED
  BY <1>1, <1>2, <1>3, <1>4, <1>5, <1>6, <1>7, <1>8 DEF PlanStep

\* Whoever records an eviction, or does nothing, changes nothing of a plan.
LEMMA WalkUndisturbed ==
    ASSUME PlannerTypeInv, WalkInv, UNCHANGED <<config, hourlyPool, stage, ci, pi>>,
           UNCHANGED inputs, UNCHANGED plan, stage # "idle" => SkippedInv'
    PROVE  WalkInv'
<1>1. /\ \A n : Evictables(n)' = Evictables(n)
      /\ \A ts, n, k : Taken(ts, n, k)' = Taken(ts, n, k)
      /\ \A ts, n : AreFirst(ts, n)' = AreFirst(ts, n)
  BY WalkFrame
<1>2. UNCHANGED <<candidates, targets, errors, candidateNode, feasible>>
  BY DEF inputs, plan
<1>3. \A n : Barren(n)' = Barren(n)
  BY <1>1, <1>2 DEF Barren, Skipped
<1>4. \A k : PlanOf(k)' = PlanOf(k)
  BY <1>1, <1>2, <1>3 DEF PlanOf, Skipped
<1>5. BarrenInv => BarrenInv'
  BY <1>2, <1>3 DEF BarrenInv
<1> QED
  BY <1>1, <1>2, <1>3, <1>4, <1>5 DEF WalkInv

LEMMA WalkStep ==
    PlannerTypeInv /\ PlannerTypeInv' /\ PlanInv /\ PlanInv' /\ GatesInv /\ WalkInv
        /\ [PlannerNext]_evictionVars => WalkInv'
<1> SUFFICES ASSUME PlannerTypeInv, PlannerTypeInv', PlanInv, PlanInv', GatesInv, WalkInv,
                    [PlannerNext]_evictionVars
             PROVE  WalkInv'
  OBVIOUS
<1>1. CASE BeginAny
  <2>1. /\ ci' = 1 /\ errors' = {} /\ targets' = <<>> /\ stage' \in {"candidate", "planned"}
        /\ stage' = "planned" => candidates' = <<>>
    BY <1>1 DEF BeginAny, BeginPlan
  <2>2. \A k \in 1..Len(candidates') : ~(k < 1)
    OBVIOUS
  <2> QED
    BY <2>1, <2>2 DEF WalkInv, SkippedInv, BarrenInv, Skipped
<1>2. CASE PlanStep
  BY <1>2, WalkPlanStep
<1>3. CASE ExecutePlan \/ RestartEviction \/ Between
  <2>1. stage' = "idle"
    BY <1>3 DEF ExecutePlan, RestartEviction, Between
  <2> QED
    BY <2>1 DEF WalkInv
<1>4. CASE RecordAny
  <2>1. PICK n \in Nodes : RecordEviction(n)
    BY <1>4 DEF RecordAny
  <2>2. /\ nodeCooldown' = [nodeCooldown EXCEPT ![n] = now] /\ UNCHANGED inputs /\ UNCHANGED plan
        /\ UNCHANGED <<config, now, hourlyPool, stage, ci, pi>>
    BY <2>1 DEF RecordEviction
  <2>3. /\ now \in Nat /\ Cooldown \in Nat /\ Never \notin Nat
        /\ nodeCooldown \in [Nodes -> Nat \cup {Never}]
    BY EvictionAssumption DEF PlannerTypeInv, EvictionTypeOK
  <2>4. ASSUME NEW m \in Nodes, MayBeCooling(m) PROVE MayBeCooling(m)'
    <3>1. CASE m = n
      BY <2>2, <2>3, <3>1 DEF MayBeCooling
    <3>2. CASE m # n
      BY <2>2, <2>3, <2>4, <3>2 DEF MayBeCooling
    <3> QED
      BY <3>1, <3>2
  <2>5. SkippedInv => SkippedInv'
    BY <2>2, <2>4 DEF SkippedInv, Skipped, inputs, plan
  <2> QED
    BY <2>2, <2>5, WalkUndisturbed DEF WalkInv
<1>5. CASE UNCHANGED evictionVars
  <2>1. /\ UNCHANGED inputs /\ UNCHANGED plan
        /\ UNCHANGED <<config, now, hourlyPool, nodeCooldown, stage, ci, pi>>
    BY <1>5 DEF evictionVars, limiter
  <2>2. SkippedInv => SkippedInv'
    BY <2>1 DEF SkippedInv, Skipped, MayBeCooling, inputs, plan
  <2> QED
    BY <2>1, <2>2, WalkUndisturbed DEF WalkInv
<1> QED
  BY <1>1, <1>2, <1>3, <1>4, <1>5 DEF PlannerNext

\* A finished plan is the reference plan: no other candidate is the first to give anything.
LEMMA WalkIsReference == PlannerTypeInv /\ WalkInv => PlanIsReferencePlan
<1> SUFFICES ASSUME PlannerTypeInv, WalkInv, stage = "planned", candidates # <<>>
             PROVE  PlanIsReferencePlan
  BY DEF PlanIsReferencePlan
<1> DEFINE skipped  == {n \in Nodes : <<"cooldown", n>> \in errors}
           workable == {k \in 1..Len(candidates) :
                           candidates[k] \notin skipped /\ Evictables(candidates[k]) # {}}
<1>t. /\ Len(candidates) \in Nat /\ ci \in Nat
      /\ \A k \in 1..Len(candidates) : candidates[k] \in Nodes
  BY DEF PlannerTypeInv, EvictionTypeOK
<1>1. /\ SkippedInv /\ BarrenInv /\ (hourlyPool <= 0 => targets = <<>>)
      /\ targets # <<>> => \E k \in 1..Len(candidates) : PlanOf(k)
      /\ ci > Len(candidates) /\ feasible = (targets # <<>>)
  BY DEF WalkInv
<1>2. \A n \in skipped : MayBeCooling(n)
  BY <1>1 DEF SkippedInv, Skipped
<1>3. \A k \in workable : ~Skipped(candidates[k]) /\ Evictables(candidates[k]) # {}
  BY <1>t DEF Skipped
<1>4. ASSUME NEW k \in 1..Len(candidates), PlanOf(k)
      PROVE  k \in workable /\ \A l \in workable : hourlyPool > 0 => k <= l
  <2>1. k \in workable
    BY <1>4 DEF PlanOf, Skipped
  <2>2. ASSUME NEW l \in workable, l < k, hourlyPool > 0 PROVE FALSE
    <3>1. Barren(candidates[l])
      BY <1>4, <2>2 DEF PlanOf
    <3>2. ~(hourlyPool <= 0)
      BY <2>2 DEF PlannerTypeInv, EvictionTypeOK
    <3> QED
      BY <1>3, <3>1, <3>2 DEF Barren
  <2>3. ASSUME NEW l \in workable, hourlyPool > 0 PROVE k <= l
    <3>1. k \in Int /\ l \in Int
      OBVIOUS
    <3>2. ~(l < k)
      BY <2>2, <2>3
    <3> QED
      BY <3>1, <3>2
  <2> QED
    BY <2>1, <2>3
<1>5. CASE hourlyPool <= 0 \/ workable = {}
  <2>1. targets = <<>>
    BY <1>1, <1>4, <1>5
  <2> QED
    BY <1>1, <1>2, <1>5, <2>1 DEF PlanIsReferencePlan
<1>6. CASE ~(hourlyPool <= 0) /\ workable # {}
  <2>1. hourlyPool > 0
    BY <1>6 DEF PlannerTypeInv, EvictionTypeOK
  <2>2. targets # <<>>
    <3> SUFFICES ASSUME targets = <<>> PROVE FALSE
      OBVIOUS
    <3>1. PICK l \in workable : TRUE
      BY <1>6
    <3>2. l < ci
      BY <1>1, <1>t
    <3>3. Barren(candidates[l])
      BY <1>1, <3>2 DEF BarrenInv
    <3> QED
      BY <1>3, <1>6, <3>3 DEF Barren
  <2>3. PICK k \in 1..Len(candidates) : PlanOf(k)
    BY <1>1, <2>2
  <2>4. /\ k \in workable /\ \A l \in workable : k <= l
        /\ feasible /\ candidateNode = candidates[k] /\ AreFirst(targets, candidates[k])
    BY <1>1, <1>4, <2>1, <2>2, <2>3 DEF PlanOf
  <2> QED
    BY <1>2, <1>6, <2>4 DEF PlanIsReferencePlan
<1> QED
  BY <1>5, <1>6

-----------------------------------------------------------------------------
(* The targets of a plan are different pods, because the walk only goes on *)
(* over a list that names each pod once; and a finished plan with targets  *)
(* is feasible, so it is executed or logged, not lost.                     *)
DistinctInv ==
    stage # "idle" /\ ListsPodsOnce(cluster) =>
        /\ \A k, l \in 1..Len(targets) : targets[k].pod = targets[l].pod => k = l
        /\ stage = "pod" => \A k \in 1..Len(targets) :
              \E m \in 1..Len(PodsHere) : m < pi /\ PodsHere[m] = targets[k].pod

FeasibleInv == stage = "planned" /\ targets # <<>> => feasible

\* A step that keeps the inputs and the targets, and enters no candidate.
LEMMA DistinctFrame ==
    ASSUME DistinctInv, UNCHANGED inputs, UNCHANGED targets, stage # "idle",
           stage' = "pod" => stage = "pod" /\ ci' = ci /\ pi' >= pi,
           PlannerTypeInv, PlannerTypeInv'
    PROVE  DistinctInv'
<1>1. cluster' = cluster /\ targets' = targets
  BY DEF inputs
<1>2. ASSUME stage' = "pod", ListsPodsOnce(cluster)
      PROVE  \A k \in 1..Len(targets') :
                \E m \in 1..Len(PodsHere') : m < pi' /\ PodsHere'[m] = targets'[k].pod
  <2>1. PodsHere' = PodsHere
    BY <1>2 DEF PodsHere, PodsOn, inputs
  <2>2. pi \in Nat /\ pi' \in Nat /\ pi' >= pi
    BY <1>2 DEF PlannerTypeInv, EvictionTypeOK
  <2> TAKE k \in 1..Len(targets')
  <2>3. PICK m \in 1..Len(PodsHere) : m < pi /\ PodsHere[m] = targets[k].pod
    BY <1>1, <1>2 DEF DistinctInv
  <2>4. m < pi'
    BY <2>2, <2>3, m \in Int
  <2> QED
    BY <1>1, <2>1, <2>3, <2>4
<1> QED
  BY <1>1, <1>2 DEF DistinctInv, inputs

LEMMA DistinctStep ==
    PlannerTypeInv /\ PlannerTypeInv' /\ PlanInv /\ DistinctInv /\ FeasibleInv /\ [PlannerNext]_evictionVars
        => DistinctInv' /\ FeasibleInv'
<1> SUFFICES ASSUME PlannerTypeInv, PlannerTypeInv', PlanInv, DistinctInv, FeasibleInv, [PlannerNext]_evictionVars
             PROVE  DistinctInv' /\ FeasibleInv'
  OBVIOUS
<1>s. /\ pi \in Nat /\ ci \in Nat /\ targets \in Seq(Target)
      /\ candidates \in Seq(Nodes)
  BY DEF PlannerTypeInv, EvictionTypeOK
<1>t. Len(candidates) \in Nat /\ Len(targets) \in Nat
  BY <1>s
<1>1. CASE BeginAny
  <2>1. targets' = <<>> /\ stage' # "pod" /\ stage' = "planned" => targets' = <<>>
    BY <1>1 DEF BeginAny, BeginPlan
  <2> QED
    BY <2>1, <1>1 DEF BeginAny, BeginPlan, DistinctInv, FeasibleInv
<1>2. CASE PlanStep
  <2>1. CASE SkipCoolingCandidate
    BY <2>1, DistinctFrame DEF SkipCoolingCandidate, FeasibleInv
  <2>2. CASE EnterCandidate
    <3>1. Len(targets) = 0
      BY <2>2, <1>s, <1>t DEF EnterCandidate, PlanInv
    <3>2. /\ cluster' = cluster /\ targets' = targets
          /\ stage = "candidate" /\ stage' = "pod"
      BY <2>2 DEF EnterCandidate, inputs, plan
    <3> QED
      BY <3>1, <3>2 DEF DistinctInv, FeasibleInv
  <2>3. CASE BudgetReached
    BY <2>3, DistinctFrame DEF BudgetReached, AtPod, FeasibleInv
  <2>4. CASE RejectPod
    <3>1. pi' >= pi
      BY <2>4, <1>s, <1>t DEF RejectPod
    <3> QED
      BY <2>4, <3>1, DistinctFrame DEF RejectPod, AtPod, FeasibleInv
  <2>5. CASE RefuseForCapacity
    <3>1. pi' >= pi
      BY <2>5, <1>s, <1>t DEF RefuseForCapacity
    <3> QED
      BY <2>5, <3>1, DistinctFrame DEF RefuseForCapacity, AtPod, FeasibleInv
  <2>6. ASSUME AcceptTarget, ListsPodsOnce(cluster)
        PROVE  DistinctInv' /\ FeasibleInv'
    <3>1. PICK n \in Nodes :
             targets' = Append(targets, [pod |-> PodNow, node |-> candidates[ci], dest |-> n])
      BY <2>6 DEF AcceptTarget
    <3>2. /\ stage = "pod" /\ pi <= Len(PodsHere) /\ stage' \in {"leave", "pod"}
          /\ cluster' = cluster /\ candidates' = candidates /\ ci' = ci /\ pi' = pi + 1
      BY <2>6 DEF AcceptTarget, AtPod, inputs
    <3>3. PodsHere \in Seq(Pods) /\ candidates[ci] \in Nodes /\ PodsHere' = PodsHere
      BY <3>2, PodNowTyped DEF PodsHere, PodsOn
    <3>4. pi \in 1..Len(PodsHere) /\ PodsHere[pi] = PodNow
      BY <3>2, <3>3 DEF PlannerTypeInv, EvictionTypeOK, PodNow
    <3>5. \A k, l \in 1..Len(PodsHere) : PodsHere[k] = PodsHere[l] => k = l
      BY <2>6, <3>3 DEF ListsPodsOnce, PodsHere, PodsOn
    <3>6. \A k \in 1..Len(targets) : targets[k].pod # PodNow
      <4> TAKE k \in 1..Len(targets)
      <4>1. PICK m \in 1..Len(PodsHere) : m < pi /\ PodsHere[m] = targets[k].pod
        BY <2>6, <3>2 DEF DistinctInv
      <4> QED
        BY <4>1, <3>4, <3>5
    <3>7. /\ Len(targets') = Len(targets) + 1
          /\ targets'[Len(targets) + 1].pod = PodNow
          /\ \A k \in 1..Len(targets) : targets'[k] = targets[k]
      BY <3>1, <1>s, <1>t
    <3>8. ASSUME NEW k \in 1..Len(targets'), NEW l \in 1..Len(targets'),
                 targets'[k].pod = targets'[l].pod
          PROVE  k = l
      <4>1. CASE k \in 1..Len(targets) /\ l \in 1..Len(targets)
        BY <2>6, <4>1, <3>2, <3>7, <3>8 DEF DistinctInv
      <4>2. CASE k = Len(targets) + 1 /\ l \in 1..Len(targets)
        BY <4>2, <3>6, <3>7, <3>8
      <4>3. CASE k \in 1..Len(targets) /\ l = Len(targets) + 1
        BY <4>3, <3>6, <3>7, <3>8
      <4> QED
        BY <4>1, <4>2, <4>3, <3>7, <1>s, <1>t
    <3>9. \A k \in 1..Len(targets') :
             \E m \in 1..Len(PodsHere') : m < pi' /\ PodsHere'[m] = targets'[k].pod
      <4> TAKE k \in 1..Len(targets')
      <4>1. CASE k = Len(targets) + 1
        BY <4>1, <3>2, <3>3, <3>4, <3>7, <1>s, <1>t
      <4>2. CASE k \in 1..Len(targets)
        <5>1. PICK m \in 1..Len(PodsHere) : m < pi /\ PodsHere[m] = targets[k].pod
          BY <2>6, <4>2, <3>2 DEF DistinctInv
        <5>2. m < pi'
          BY <5>1, <3>2, <1>s, <1>t, m \in Int
        <5> QED
          BY <4>2, <5>1, <5>2, <3>3, <3>7
      <4> QED
        BY <4>1, <4>2, <3>7, <1>s, <1>t
    <3> QED
      BY <3>2, <3>8, <3>9 DEF DistinctInv, FeasibleInv
  <2>7. CASE PodsExhausted
    BY <2>7, DistinctFrame DEF PodsExhausted, plan, FeasibleInv
  <2>8. CASE LeaveCandidate
    BY <2>8, DistinctFrame DEF LeaveCandidate, plan, FeasibleInv
  <2>9. CASE FinishPlan
    BY <2>9, DistinctFrame DEF FinishPlan, FeasibleInv
  <2>10. ASSUME AcceptTarget, ~ListsPodsOnce(cluster)
         PROVE  DistinctInv' /\ FeasibleInv'
    BY <2>10 DEF AcceptTarget, inputs, DistinctInv, FeasibleInv
  <2> QED
    BY <1>2, <2>1, <2>2, <2>3, <2>4, <2>5, <2>6, <2>7, <2>8, <2>9, <2>10 DEF PlanStep
<1>3. CASE ExecutePlan
  BY <1>3 DEF ExecutePlan, plan, inputs, DistinctInv, FeasibleInv
<1>4. CASE RecordAny
  BY <1>4 DEF RecordAny, RecordEviction, plan, inputs, DistinctInv, FeasibleInv, PodsHere, PodsOn
<1>5. CASE Between
  BY <1>5 DEF Between, DistinctInv, FeasibleInv
<1>6. CASE RestartEviction
  <2>1. targets' = <<>> /\ stage' = "idle"
    BY <1>6 DEF RestartEviction
  <2> QED
    BY <2>1 DEF DistinctInv, FeasibleInv
<1>7. CASE UNCHANGED evictionVars
  BY <1>7 DEF evictionVars, plan, inputs, DistinctInv, FeasibleInv, PodsHere, PodsOn
<1> QED
  BY <1>1, <1>2, <1>3, <1>4, <1>5, <1>6, <1>7 DEF PlannerNext

-----------------------------------------------------------------------------
(* All of it together.                                                     *)

PlannerInv ==
    PlannerTypeInv /\ PlanInv /\ GatesInv /\ WalkInv /\ DistinctInv /\ FeasibleInv

LEMMA PlannerInit == InitEviction /\ cluster \in Snapshots => PlannerInv
<1> SUFFICES ASSUME InitEviction, cluster \in Snapshots PROVE PlannerInv
  OBVIOUS
<1>1. GatesInv /\ WalkInv /\ DistinctInv /\ FeasibleInv
  BY DEF InitEviction, GatesInv, WalkInv, DistinctInv, FeasibleInv
<1> QED
  BY <1>1, PlannerTypeInit, PlanInit DEF PlannerInv

LEMMA PlannerStep == PlannerInv /\ [PlannerNext]_evictionVars => PlannerInv'
<1> SUFFICES ASSUME PlannerInv, [PlannerNext]_evictionVars PROVE PlannerInv'
  OBVIOUS
<1>1. PlannerTypeInv' /\ PlanInv' /\ GatesInv'
  BY PlannerTypeStep, PlanStepKeeps, GatesStep DEF PlannerInv
<1> QED
  BY <1>1, WalkStep, DistinctStep DEF PlannerInv

\* The properties of the planner that hold wherever the invariant does.
LEMMA PlannerGives ==
    PlannerInv => EvictionTypeOK /\ OneNodePerPlan /\ TargetsPassGates /\ PlanIsReferencePlan
BY WalkIsReference
   DEF PlannerInv, PlannerTypeInv, PlanInv, OneNodePerPlan, GatesInv, TargetsPassGates

-----------------------------------------------------------------------------
(* What the caller sees of the planner.                                    *)

\* A plan in the caller's hands: within the limit, off one node, pods once each.
LEMMA HandedIsBounded ==
    ASSUME PlannerInv, stage = "planned", ListsPodsOnce(cluster)
    PROVE  /\ Handed \in Seq(Target) /\ Len(Handed) <= PlanLimit
           /\ \A k, l \in 1..Len(Handed) :
                 Handed[k].node = Handed[l].node /\ (Handed[k].pod = Handed[l].pod => k = l)
           /\ \A k \in 1..Len(Handed) : PassesGates(cluster, candidates, safe, Handed[k])
BY DEF PlannerInv, PlannerTypeInv, EvictionTypeOK, PlanInv, DistinctInv, GatesInv, Handed

\* Without a plan in hand the caller may put another question.  While the
\* planner walks, the caller sees nothing; at the end, an answer to the
\* question as it was put, which is carried out once or lost in a restart.
LEMMA PlannerSeen ==
    ASSUME PlannerInv, [PlannerNext]_evictionVars
    PROVE  \/ Handed = <<>> /\ Handed' = <<>> /\ UNCHANGED <<config, evictionsTotal>>
           \/ Handed = <<>> /\ stage' = "planned" /\ UNCHANGED <<config, evictionsTotal, inputs>>
           \/ /\ evictionsTotal' = evictionsTotal + IF config.Enabled THEN Len(Handed) ELSE 0
              /\ Handed' = <<>> /\ UNCHANGED <<config, inputs>>
           \/ config' \in Configs /\ Handed' = <<>> /\ evictionsTotal' = 0
           \/ UNCHANGED <<Handed, config, evictionsTotal, inputs>>
<1>1. CASE BeginAny
  BY <1>1 DEF BeginAny, BeginPlan, Handed
<1>2. CASE PlanStep
  <2>1. stage # "planned" /\ UNCHANGED <<config, evictionsTotal, inputs>>
    BY <1>2 DEF PlanStep, SkipCoolingCandidate, EnterCandidate, BudgetReached, RejectPod,
                RefuseForCapacity, AcceptTarget, PodsExhausted, LeaveCandidate, FinishPlan, AtPod,
                limiter, executed
  <2> QED
    BY <2>1 DEF Handed
<1>3. CASE ExecutePlan
  <2>1. /\ stage = "planned" /\ stage' = "idle" /\ UNCHANGED <<config, inputs>>
        /\ Len(targets) \in Nat /\ evictionsTotal \in Nat
        /\ targets # <<>> => feasible
    BY <1>3 DEF ExecutePlan, limiter, PlannerInv, PlannerTypeInv, EvictionTypeOK, FeasibleInv
  <2>2. evictionsTotal' = evictionsTotal + IF config.Enabled THEN Len(targets) ELSE 0
    <3>1. CASE feasible /\ config.Enabled
      BY <1>3, <3>1 DEF ExecutePlan
    <3>2. CASE ~config.Enabled
      BY <1>3, <2>1, <3>2 DEF ExecutePlan, executed
    <3>3. CASE ~feasible
      <4>1. Len(targets) = 0 /\ evictionsTotal' = evictionsTotal
        BY <1>3, <2>1, <3>3 DEF ExecutePlan, executed
      <4> QED
        BY <2>1, <4>1
    <3> QED
      BY <3>1, <3>2, <3>3
  <2> QED
    BY <2>1, <2>2 DEF Handed
<1>4. CASE RecordAny
  BY <1>4 DEF RecordAny, RecordEviction, plan, executed, Handed
<1>5. CASE Between
  BY <1>5 DEF Between, limiter, plan, executed, Handed
<1>6. CASE RestartEviction
  BY <1>6 DEF RestartEviction, Handed
<1>7. CASE UNCHANGED evictionVars
  BY <1>7 DEF evictionVars, limiter, plan, executed, Handed
<1> QED
  BY <1>1, <1>2, <1>3, <1>4, <1>5, <1>6, <1>7 DEF PlannerNext
=============================================================================
