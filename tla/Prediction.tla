----------------------------- MODULE Prediction -----------------------------
(***************************************************************************)
(* The estimator of internal/prediction/model.go: how likely is node n to  *)
(* be consolidated, given what the safe nodes of a report have left.       *)
(*                                                                         *)
(* Probabilities are exact integers over a common denominator.  The code   *)
(* computes in float64 and may come out on either side of 0.60 where the   *)
(* exact sum is 0.60.                                                      *)
(***************************************************************************)
EXTENDS Cluster

\* NewEstimator's threshold, in percent.
EstimatorThreshold(configured) == IF configured <= 0 THEN 40 ELSE configured

(* clusterRemaining of RunSimulation: what the safe nodes have left, those *)
(* with less than nothing counted as they are.                             *)
Headroom(c, safeNodes) ==
    [cpu |-> Total([k \in 1..Len(safeNodes) |-> Spare(c, safeNodes[k]).cpu], 1..Len(safeNodes)),
     mem |-> Total([k \in 1..Len(safeNodes) |-> Spare(c, safeNodes[k]).mem], 1..Len(safeNodes))]

\* A resource's share of the common denominator; none of it where there is none.
Share(part, whole, other) == IF whole > 0 THEN part * Max({1, other}) ELSE 0
LoadDenominator(c, n) == Max({1, c.alloc[n].cpu}) * Max({1, c.alloc[n].mem})
CPULoad(c, n) == Share(c.requested[n].cpu, c.alloc[n].cpu, c.alloc[n].mem)
MemLoad(c, n) == Share(c.requested[n].mem, c.alloc[n].mem, c.alloc[n].cpu)

\* prob before the cap, over 100 * threshold * LoadDenominator.
Likelihood(c, n, threshold, canAbsorb) ==
    LET whole   == threshold * LoadDenominator(c, n)
        maxLoad == 100 * Max({CPULoad(c, n), MemLoad(c, n)})
        gap     == Max({CPULoad(c, n), MemLoad(c, n)}) - Min({CPULoad(c, n), MemLoad(c, n)})
    IN  45 * Max({0, whole - maxLoad})
        + (IF canAbsorb THEN 35 * whole ELSE 0)
        + 15 * whole                \* every pod is movable
        + 5 * threshold * gap

Impossible == [verdict |-> "blocked", absorbable |-> FALSE, candidate |-> FALSE]
Certain(canAbsorb) == [verdict |-> "empty", absorbable |-> canAbsorb, candidate |-> TRUE]

(* PredictNode.  An empty node is a candidate whatever the headroom; one   *)
(* above the threshold, or that the headroom does not cover, is capped at  *)
(* 0.25 and so never one.                                                  *)
PredictNode(c, n, configured, headroom) ==
    LET threshold == EstimatorThreshold(configured)
        whole     == threshold * LoadDenominator(c, n)
        canAbsorb == Fits(headroom, c.requested[n])
        capped    == ~canAbsorb \/ 100 * Max({CPULoad(c, n), MemLoad(c, n)}) >= whole
    IN  IF n \notin c.eligible \/ \E k \in 1..Len(c.podsOn[n]) : ~c.pods[c.podsOn[n][k]].movable
        THEN Impossible
        ELSE IF c.podsOn[n] = <<>>
        THEN Certain(canAbsorb)
        ELSE [verdict    |-> IF capped THEN "unlikely" ELSE "possible",
              absorbable |-> canAbsorb,
              candidate  |-> ~capped /\ Likelihood(c, n, threshold, canAbsorb) >= 60 * whole]
=============================================================================
