--------------------------- MODULE EvictionProofs ---------------------------
(***************************************************************************)
(* What module EvictionService guarantees for every set of nodes, pods,    *)
(* calls and configurations: the planner's invariants of module            *)
(* PlannerProofs, and that it implements the promise of EvictionPromise.   *)
(***************************************************************************)
EXTENDS EvictionService, PlannerProofs

\* A step of the service is a step of the planner.
LEMMA ServiceTakesPlannerSteps ==
    ASSUME PlannerInv, [Next]_evictionVars
    PROVE  [PlannerNext]_evictionVars
<1>1. CASE Call
  <2>1. PICK call \in Calls : BeginPlan(call.c, call.cands, call.safe)
    BY <1>1 DEF Call
  <2>2. /\ call.c \in Snapshots /\ call.cands \in Seq(Nodes) /\ call.safe \in Seq(Nodes)
        /\ SoundReport(call.cands, call.safe)
    BY ServiceAssumption
  <2> QED
    BY <2>1, <2>2 DEF PlannerNext, BeginAny
<1>2. CASE Record
  BY <1>2, ServiceAssumption DEF Record, PlannerNext, RecordAny
<1>3. CASE Advance
  <2>1. now' \in Nat /\ cluster' \in Snapshots
    BY <1>3, PlannerGives DEF Advance, inputs, EvictionTypeOK
  <2> QED
    BY <1>3, <2>1 DEF Advance, inputs, PlannerNext, Between
<1>4. CASE Restart
  <2>1. cluster' \in Snapshots
    BY <1>4, PlannerGives DEF Restart, EvictionTypeOK
  <2> QED
    BY <1>4, <2>1 DEF Restart, PlannerNext
<1> QED
  BY <1>1, <1>2, <1>3, <1>4 DEF Next, PlannerNext

LEMMA ServiceSound == Spec => []PlannerInv
<1>1. Init => PlannerInv
  BY PlannerInit, ServiceAssumption DEF Init
<1>2. PlannerInv /\ [Next]_evictionVars => PlannerInv'
  BY ServiceTakesPlannerSteps, PlannerStep
<1> QED
  BY <1>1, <1>2, PTL DEF Spec

(* The planner's state is well typed, its indices on their lists, whatever *)
(* it is called with and whatever is recorded or restarted in between.     *)
THEOREM TypeCorrect == Spec => []EvictionTypeOK
BY ServiceSound, PlannerGives, PTL

(* Whatever the report and the configuration, a plan disrupts one node, by *)
(* at most MaxConcurrentEvictions pods, or one where that is below one.    *)
THEOREM PlansStayOnOneNode == Spec => []OneNodePerPlan
BY ServiceSound, PlannerGives, PTL

(* Every target of every plan passes all gates against the snapshot the    *)
(* plan was asked for: namespace, mobility, PDB, a safe node that is no    *)
(* candidate, with room and CPU headroom.                                  *)
THEOREM PlansPassGates == Spec => []TargetsPassGates
BY ServiceSound, PlannerGives, PTL

(* A plan depends on its inputs alone, not on the order in which the walk  *)
(* comes upon them: it is empty or made of the first evictable pods of the *)
(* first candidate that has any and was not skipped.                       *)
THEOREM PlansAreReferencePlans == Spec => []PlanIsReferencePlan
BY ServiceSound, PlannerGives, PTL

-----------------------------------------------------------------------------
(* The promise.                                                            *)

\* The plan under way is made on a snapshot that lists no pod twice.
CallInv == stage # "idle" => ListsPodsOnce(cluster)

LEMMA CallStep == CallInv /\ [Next]_evictionVars => CallInv'
<1> SUFFICES ASSUME CallInv, [Next]_evictionVars PROVE CallInv'
  OBVIOUS
<1>1. CASE Call
  BY <1>1, ServiceAssumption DEF Call, BeginPlan, CallInv
<1>2. CASE PlanStep
  <2>1. UNCHANGED inputs /\ stage # "idle"
    BY <1>2 DEF PlanStep, SkipCoolingCandidate, EnterCandidate, BudgetReached, RejectPod,
                RefuseForCapacity, AcceptTarget, PodsExhausted, LeaveCandidate, FinishPlan, AtPod
  <2> QED
    BY <2>1 DEF CallInv, inputs
<1>3. CASE ExecutePlan
  BY <1>3 DEF ExecutePlan, CallInv
<1>4. CASE Record
  BY <1>4 DEF Record, RecordEviction, inputs, CallInv
<1>5. CASE Advance
  BY <1>5 DEF Advance, CallInv
<1>6. CASE Restart
  BY <1>6 DEF Restart, RestartEviction, CallInv
<1>7. CASE UNCHANGED evictionVars
  BY <1>7 DEF evictionVars, inputs, CallInv
<1> QED
  BY <1>1, <1>2, <1>3, <1>4, <1>5, <1>6, <1>7 DEF Next

\* All that is known of the service, before a step.
ServiceInv == PlannerInv /\ CallInv

LEMMA ServiceStep == ServiceInv /\ [Next]_evictionVars => ServiceInv'
BY ServiceTakesPlannerSteps, PlannerStep, CallStep DEF ServiceInv

LEMMA AllowedAreMoves == Allowed \subseteq Target /\ Allowed' \subseteq Target
BY DEF Allowed

LEMMA AllowedKept ==
    ASSUME UNCHANGED inputs
    PROVE  Allowed' = Allowed
BY DEF Allowed, inputs

\* Every answer is one the caller was promised.
LEMMA AnswerPromised ==
    ASSUME ServiceInv', Handed = <<>>, stage' = "planned",
           UNCHANGED <<config, evictionsTotal, inputs>>
    PROVE  P!Answer
<1>1. (/\ Handed \in Seq(Target) /\ Len(Handed) <= PlanLimit
       /\ \A k, l \in 1..Len(Handed) :
             Handed[k].node = Handed[l].node /\ (Handed[k].pod = Handed[l].pod => k = l)
       /\ \A k \in 1..Len(Handed) : PassesGates(cluster, candidates, safe, Handed[k]))'
  <2>1. (PlannerInv /\ stage = "planned" /\ ListsPodsOnce(cluster))'
    BY DEF ServiceInv, CallInv
  <2> QED
    BY <2>1, HandedIsBounded, PTL
<1>2. P!Bounded(Handed')
  BY <1>1 DEF P!Bounded, P!Limit, PlanLimit
<1>3. \A k \in 1..Len(Handed') : Handed'[k] \in Allowed
  <2>1. \A k \in 1..Len(Handed') : Handed'[k] \in Allowed'
    BY <1>1 DEF Allowed
  <2> QED
    BY <2>1, AllowedKept
<1> QED
  BY <1>2, <1>3, AllowedKept DEF P!Answer

LEMMA StepKeepsPromise ==
    ServiceInv /\ ServiceInv' /\ [Next]_evictionVars => [P!Next]_(P!promise)
<1> SUFFICES ASSUME ServiceInv, ServiceInv', [Next]_evictionVars
             PROVE  P!Next \/ UNCHANGED P!promise
  OBVIOUS
<1>1. [PlannerNext]_evictionVars
  BY ServiceTakesPlannerSteps DEF ServiceInv
<1> QED
  BY <1>1, PlannerSeen, AnswerPromised, AllowedAreMoves, AllowedKept
     DEF ServiceInv, P!Next, P!Offer, P!Execute, P!Restart, P!promise

(* The planner implements the promise, for every set of calls: what its    *)
(* caller is handed and what is executed is always an allowed answer.      *)
THEOREM ServiceKeepsPromise == Spec => KeepsPromise
<1>1. Init => ServiceInv
  BY PlannerInit, ServiceAssumption DEF Init, InitEviction, CallInv, ServiceInv
<1>2. Init => P!Init
  BY DEF Init, InitEviction, Handed, Allowed, PassesGates, P!Init
<1> QED
  BY <1>1, <1>2, ServiceStep, StepKeepsPromise, PTL DEF Spec, KeepsPromise, P!Spec
=============================================================================
