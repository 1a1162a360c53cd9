--------------------------- MODULE EvictionService ---------------------------
(***************************************************************************)
(* The eviction controller of module Eviction as a library: plans are      *)
(* asked for at any time with any of the Calls, executed, evictions are    *)
(* recorded against nodes, time passes, the process restarts.  Module      *)
(* Controller is the caller that ships.                                    *)
(***************************************************************************)
EXTENDS Eviction

CONSTANTS
    Calls,         \* what PlanEvictions may be called with: [c, cands, safe]
    Recorded,      \* bound: nodes against which recordings are explored
    MaxTime,       \* bound: ticks explored
    MaxExecuted    \* bound: no call once this many evictions were executed

ASSUME ServiceAssumption ==
    /\ \A call \in Calls :
         /\ call.c \in Snapshots
         /\ call.cands \in Seq(Nodes)
         /\ call.safe \in Seq(Nodes)
         /\ SoundReport(call.cands, call.safe)
         /\ ListsPodsOnce(call.c)
    /\ Recorded \subseteq Nodes
    /\ MaxTime \in Nat
    /\ MaxExecuted \in Nat

Init ==
    /\ cluster \in {call.c : call \in Calls}
    /\ InitEviction

\* A new call of PlanEvictions.
Call ==
    /\ evictionsTotal < MaxExecuted
    /\ \E call \in Calls : BeginPlan(call.c, call.cands, call.safe)

\* RecordEviction is public: any node, at any time.  Nothing in the repository calls it.
Record == \E n \in Recorded : RecordEviction(n)

\* The next tick: planning takes no time.
Advance ==
    /\ stage = "idle"
    /\ now < MaxTime
    /\ now' = now + 1
    /\ UNCHANGED <<limiter, inputs, stage, ci, pi, plan, executed>>

Restart == RestartEviction /\ UNCHANGED cluster

Next ==
    \/ Call
    \/ PlanStep
    \/ ExecutePlan
    \/ Record
    \/ Advance
    \/ Restart

Spec     == Init /\ [][Next]_evictionVars
FairSpec == Spec /\ WF_evictionVars(PlanStep \/ ExecutePlan)

-----------------------------------------------------------------------------
(* Every call of PlanEvictions returns, whatever is recorded meanwhile.    *)
CallsReturn == (stage # "idle") ~> (stage = "idle")

\* The moves the inputs of the call in hand allow.
Allowed == {t \in Target : PassesGates(cluster, candidates, safe, t)}

P == INSTANCE EvictionPromise WITH
        Moves <- Target,
        offer <- Allowed,
        plan  <- Handed,
        total <- evictionsTotal

(* The planner, with its walk, its gates, its limiter and its restarts,    *)
(* implements the promise of module EvictionPromise.                       *)
KeepsPromise == P!Spec
=============================================================================
