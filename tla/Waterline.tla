------------------------------ MODULE Waterline ------------------------------
(***************************************************************************)
(* The evaluation pass of module WaterlinePass, again and again on one     *)
(* snapshot: after a pass the next tick evaluates the cluster anew, and a  *)
(* cluster in which nothing happened gives the same snapshot.              *)
(***************************************************************************)
EXTENDS WaterlinePass

VARIABLE previous    \* history: the report of the pass before, on this snapshot

vars == <<passVars, previous>>

NoReport == [safe |-> <<>>, candidates |-> <<>>, neutral |-> <<>>]
Report   == [safe |-> safeNodes, candidates |-> candidateNodes, neutral |-> neutralNodes]

Init == InitPass /\ previous = NoReport

Pass == Evaluate /\ UNCHANGED previous

(* The next tick: the same snapshot, rebuilt, is evaluated again.          *)
EvaluateAgain ==
    /\ pc = "done"
    /\ previous' = Report
    /\ StartPass(cluster)

Next == Pass \/ EvaluateAgain

Spec == Init /\ [][Next]_vars

-----------------------------------------------------------------------------
(* Properties.                                                             *)

(* The state of the pass and the report it is compared with keep their     *)
(* types.                                                                  *)
TypeOK ==
    /\ PassTypeOK
    /\ previous \in [safe : Seq(Nodes), candidates : Seq(Nodes), neutral : Seq(Nodes)]

TieFree == \A m, n \in cluster.eligible : m # n => safetyScore[m] # safetyScore[n]

(* Evaluating the same snapshot twice gives the same report when no two    *)
(* eligible nodes have the same safety score.                              *)
TieFreeDeterminism ==
    pc = "done" /\ previous # NoReport /\ TieFree => Report = previous

(* RunSimulation's "deterministic evaluation pass": the same snapshot gives *)
(* the same report, whatever its scores.                                   *)
DeterministicEvaluation ==
    pc = "done" /\ previous # NoReport => Report = previous
=============================================================================
